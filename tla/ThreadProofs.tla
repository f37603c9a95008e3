---------------------------- MODULE ThreadProofs ----------------------------
(***************************************************************************)
(* What holds of a Thread for any number of prompts and handlers and any   *)
(* length of the queue. The parts build on each other:                     *)
(*                                                                         *)
(* 1. Types. TypeOK alone is not inductive: what a goroutine records is an *)
(* outcome, and what it puts back or queues is a prompt, only because of   *)
(* where it is. Carries says that.                                         *)
(*                                                                         *)
(* 2. Once. Three layers keep a prompt from being sent twice. Ownership: a *)
(* goroutine inside an operation holds s.op, but for the in-use check.     *)
(* Freshness: what such a goroutine carries, and what is queued, has no    *)
(* recorded outcome and is in no second place, so its outcome is recorded  *)
(* once. Delivery: what is fresh and not past the provider's Send was      *)
(* never given to the provider.                                            *)
(*                                                                         *)
(* 3. The queue's order: a prompt joins the line last, and cancelling,     *)
(* draining and putting back a refused head keep the order in which the    *)
(* prompts joined.                                                         *)
(*                                                                         *)
(* 4. Turns: what the Thread shows and what the provider runs agree, and a *)
(* Thread that is put away stays quiet.                                    *)
(*                                                                         *)
(* 5. Refinement: Thread implements Delivery, because a goroutine records  *)
(* accepted only after the provider took its prompt, and a prompt that may *)
(* still arrive is recorded as uncertain.                                  *)
(***************************************************************************)
EXTENDS Thread, TLAPS, SequenceTheorems

USE DEF threadVars, convVars, askVars, queueVars, procVars, waitVars, provVars,
        history

-----------------------------------------------------------------------------
(* 1. Types.  Every action has a lemma with one step per part of the type   *)
(* invariant; a part the action does not touch is one line.                *)

\* What a goroutine carries, by where it is in its operation.
Carries ==
  \A p \in Senders :
    /\ pc[p] # "idle" => req[p] \in Prompts
    /\ pc[p] = "back" => res[p] \in {"busy", "rejected", "uncertain"}
    /\ pc[p] = "record" => res[p] \in Outcomes \ {"cancelled"}

LocalInv == ProcOK /\ Carries
TypeInv == TypeOK /\ Carries

LEMMA FinishLocal ==
  ASSUME LocalInv, NEW p \in Senders, NEW result \in Results, pc[p] # "idle",
         Finish(p, result)
  PROVE  LocalInv'
  BY ProcsDistinct
     DEF LocalInv, ProcOK, Carries, Finish, Goto, Steps, Results, Outcomes,
         Procs, Senders

LEMMA ToRecordLocal ==
  ASSUME LocalInv, NEW p \in Senders, NEW result \in Outcomes \ {"cancelled"},
         pc[p] # "idle",
         ToRecord(p, result)
  PROVE  LocalInv'
  BY DEF LocalInv, ProcOK, Carries, ToRecord, Goto, Steps, Results, Outcomes,
         Procs, Senders

LEMMA AdvanceLocal ==
  ASSUME LocalInv, NEW p \in Senders, NEW step \in Steps \ {"back", "record"},
         pc[p] # "idle", Advance(p, step)
  PROVE  LocalInv'
  BY DEF LocalInv, ProcOK, Carries, Advance, Goto, Steps, Procs, Senders

\* Every other request a goroutine carries beyond its start is a prompt.
LEMMA RequestIsPrompt ==
  ASSUME TypeInv, NEW p \in Senders, pc[p] # "idle"
  PROVE  req[p] \in Prompts
  BY DEF TypeInv, Carries

LEMMA HeldType ==
  ASSUME QueueOK, held \subseteq Prompts, Holds
  PROVE  held' \subseteq Prompts
  BY DEF QueueOK, Holds, Range

LEMMA MovedType ==
  ASSUME moved \subseteq Procs, KeyMoved \/ TurnMoved
  PROVE  moved' \subseteq Procs
  BY DEF KeyMoved, TurnMoved, AtHolder, AtSend

LEMMA SubmitType ==
  ASSUME TypeInv, NEW h \in Handlers, NEW r \in Prompts,
             NEW m \in {"send", "queue", "steer"}, Submit(h, r, m)
  PROVE  TypeInv'
  <1>1. LocalInv'
    BY ProcsDistinct DEF LocalInv, TypeInv, TypeOK, Goto, ProcOK, Carries,
                         Steps, Results, Outcomes, Procs, Senders, Submit
  <1>2. ThreadOK'
    BY DEF TypeInv, TypeOK, LocalInv, ThreadOK, Submit
  <1>3. ConvOK'
    BY DEF TypeInv, TypeOK, LocalInv, ConvOK, Submit
  <1>4. QueueOK'
    BY DEF TypeInv, TypeOK, LocalInv, QueueOK, Submit
  <1>5. WaitOK'
    BY DEF TypeInv, TypeOK, LocalInv, WaitOK, Submit
  <1>6. HistoryOK'
    BY DEF TypeInv, TypeOK, LocalInv, HistoryOK, Submit
  <1> QED BY <1>1, <1>2, <1>3, <1>4, <1>5, <1>6 DEF TypeInv, TypeOK, LocalInv

LEMMA EnqueueType ==
  ASSUME TypeInv, NEW h \in Handlers, Enqueue(h)
  PROVE  TypeInv'
  <1>1. QueueOK'
    <2>1. Append(queue, req[h]) \in Seq(Prompts)
      BY RequestIsPrompt DEF Enqueue, Senders, TypeInv, TypeOK, QueueOK
    <2> QED BY <2>1 DEF TypeInv, TypeOK, QueueOK, Enqueue
  <1>2. LocalInv'
    BY FinishLocal, ProcsDistinct DEF LocalInv, TypeInv, TypeOK, Steps,
                                      Results, Outcomes, Procs, Senders,
                                      Enqueue
  <1>3. WaitOK'
    BY DEF TypeInv, TypeOK, WaitOK, LocalInv, Carries, ProcOK, QueueOK, Procs,
           Senders, Enqueue, Finish, Kicked
  <1>4. HistoryOK'
    <2>1. Append(line, req[h]) \in Seq(Prompts)
      BY RequestIsPrompt DEF Enqueue, Senders, TypeInv, TypeOK, HistoryOK
    <2>2. Rejoined(req[h]) \in Seq(Prompts)
      <3>1. line \in Seq(Prompts) /\ req[h] \in Prompts
        BY RequestIsPrompt DEF Enqueue, Senders, TypeInv, TypeOK, HistoryOK
      <3>2. ASSUME NEW i \in 1..Len(line)
            PROVE  Rejoined(req[h])[i] \in Prompts
        BY <3>1 DEF Rejoined
      <3>3. Rejoined(req[h]) \in [1..Len(line) -> Prompts]
        BY <3>1, <3>2 DEF Rejoined
      <3> QED BY <3>1, <3>3
    <2> QED BY <2>1, <2>2 DEF TypeInv, TypeOK, HistoryOK, Enqueue
  <1>5. ThreadOK'
    BY DEF TypeInv, TypeOK, LocalInv, ThreadOK, Enqueue
  <1>6. ConvOK'
    BY DEF TypeInv, TypeOK, LocalInv, ConvOK, Enqueue
  <1> QED BY <1>1, <1>2, <1>3, <1>4, <1>5, <1>6 DEF TypeInv, TypeOK, LocalInv

LEMMA RouteSteerType ==
  ASSUME TypeInv, NEW h \in Handlers, RouteSteer(h)
  PROVE  TypeInv'
  <1>1. LocalInv'
    BY ToRecordLocal, AdvanceLocal, ProcsDistinct DEF LocalInv, TypeInv,
           TypeOK, Steps, Results, Outcomes, Procs, Senders, RouteSteer,
           ToCheck
  <1>2. ThreadOK'
    BY DEF TypeInv, TypeOK, LocalInv, ThreadOK, RouteSteer
  <1>3. ConvOK'
    BY DEF TypeInv, TypeOK, LocalInv, ConvOK, RouteSteer
  <1>4. QueueOK'
    BY DEF TypeInv, TypeOK, LocalInv, QueueOK, RouteSteer
  <1>5. WaitOK'
    BY DEF TypeInv, TypeOK, LocalInv, WaitOK, RouteSteer
  <1>6. HistoryOK'
    BY DEF TypeInv, TypeOK, LocalInv, HistoryOK, RouteSteer
  <1> QED BY <1>1, <1>2, <1>3, <1>4, <1>5, <1>6 DEF TypeInv, TypeOK, LocalInv

LEMMA RouteSendType ==
  ASSUME TypeInv, NEW h \in Handlers, RouteSend(h)
  PROVE  TypeInv'
  <1>1. LocalInv'
    BY FinishLocal, ProcsDistinct DEF LocalInv, TypeInv, TypeOK, Goto, ProcOK,
                                      Carries, Steps, Results, Outcomes, Procs,
                                      Senders, RouteSend, ToCheck
  <1>2. ThreadOK'
    BY DEF TypeInv, TypeOK, LocalInv, ThreadOK, RouteSend
  <1>3. ConvOK'
    BY DEF TypeInv, TypeOK, LocalInv, ConvOK, RouteSend
  <1>4. QueueOK'
    BY DEF TypeInv, TypeOK, LocalInv, QueueOK, RouteSend
  <1>5. WaitOK'
    BY DEF TypeInv, TypeOK, LocalInv, WaitOK, RouteSend
  <1>6. HistoryOK'
    BY DEF TypeInv, TypeOK, LocalInv, HistoryOK, RouteSend
  <1> QED BY <1>1, <1>2, <1>3, <1>4, <1>5, <1>6 DEF TypeInv, TypeOK, LocalInv

LEMMA CheckHolderType ==
  ASSUME TypeInv, NEW p \in Senders, CheckHolder(p)
  PROVE  TypeInv'
  <1>1. LocalInv'
    BY ProcsDistinct DEF LocalInv, TypeInv, TypeOK, Goto, ProcOK, Carries,
                         Steps, Results, Outcomes, Procs, Senders, CheckHolder
  <1>2. WaitOK'
    BY DEF TypeInv, TypeOK, WaitOK, LocalInv, Carries, ProcOK, QueueOK, Procs,
           Senders, CheckHolder
  <1>3. ThreadOK'
    BY DEF TypeInv, TypeOK, LocalInv, ThreadOK, CheckHolder
  <1>4. ConvOK'
    BY DEF TypeInv, TypeOK, LocalInv, ConvOK, CheckHolder
  <1>5. QueueOK'
    BY DEF TypeInv, TypeOK, LocalInv, QueueOK, CheckHolder
  <1>6. HistoryOK'
    BY DEF TypeInv, TypeOK, LocalInv, HistoryOK, CheckHolder
  <1> QED BY <1>1, <1>2, <1>3, <1>4, <1>5, <1>6 DEF TypeInv, TypeOK, LocalInv

LEMMA HolderAnsweredType ==
  ASSUME TypeInv, NEW p \in Senders, NEW inUse \in BOOLEAN, HolderAnswered(p,
         inUse)
  PROVE  TypeInv'
  <1>1. LocalInv'
    BY FinishLocal, ProcsDistinct DEF LocalInv, TypeInv, TypeOK, Goto, ProcOK,
                                      Carries, Steps, Results, Outcomes, Procs,
                                      Senders, HolderAnswered, Checked
  <1>2. WaitOK'
    BY DEF TypeInv, TypeOK, WaitOK, LocalInv, Carries, ProcOK, QueueOK, Procs,
           Senders, HolderAnswered, Checked, Finish
  <1>3. ThreadOK'
    BY DEF TypeInv, TypeOK, LocalInv, ThreadOK, HolderAnswered
  <1>4. ConvOK'
    BY DEF TypeInv, TypeOK, LocalInv, ConvOK, HolderAnswered
  <1>5. QueueOK'
    BY DEF TypeInv, TypeOK, LocalInv, QueueOK, HolderAnswered
  <1>6. HistoryOK'
    BY DEF TypeInv, TypeOK, LocalInv, HistoryOK, HolderAnswered
  <1> QED BY <1>1, <1>2, <1>3, <1>4, <1>5, <1>6 DEF TypeInv, TypeOK, LocalInv

LEMMA OpenForPromptType ==
  ASSUME TypeInv, NEW p \in Senders, OpenForPrompt(p)
  PROVE  TypeInv'
  <1>1. ConvOK'
    BY DEF TypeInv, TypeOK, ConvOK, OpenForPrompt, OpenBegins, ToRecord,
           Advance, Finish
  <1>2. LocalInv'
    BY FinishLocal, ToRecordLocal, AdvanceLocal, ProcsDistinct DEF LocalInv,
           TypeInv, TypeOK, Steps, Results, Outcomes, Procs, Senders,
           OpenForPrompt, OpenBegins
  <1>3. WaitOK'
    BY MovedType DEF TypeInv, TypeOK, WaitOK, LocalInv, Carries, ProcOK,
                     QueueOK, Procs, Senders, OpenForPrompt, OpenBegins,
                     ToRecord, Advance, Finish
  <1>4. ThreadOK'
    BY DEF TypeInv, TypeOK, LocalInv, ThreadOK, OpenForPrompt
  <1>5. QueueOK'
    BY DEF TypeInv, TypeOK, LocalInv, QueueOK, OpenForPrompt
  <1>6. HistoryOK'
    BY DEF TypeInv, TypeOK, LocalInv, HistoryOK, OpenForPrompt
  <1> QED BY <1>1, <1>2, <1>3, <1>4, <1>5, <1>6 DEF TypeInv, TypeOK, LocalInv

LEMMA OpenEndsType ==
  ASSUME TypeInv, NEW p \in Procs, NEW ok \in BOOLEAN, OpenEnds(p, ok)
  PROVE  TypeInv'
  <1>1. ThreadOK'
    BY DEF TypeInv, TypeOK, ThreadOK, Bases, OpenEnds, Current, ToRecord,
           Advance
  <1>2. ConvOK'
    BY DEF TypeInv, TypeOK, ConvOK, OpenEnds, Current, ToRecord, Advance
  <1>3. LocalInv'
    <2>1. CASE p = View
      BY <2>1, ProcsDistinct
         DEF OpenEnds, Goto, TypeInv, TypeOK, LocalInv, ProcOK, Carries, Steps,
             Procs, Senders, View, Drain
    <2>2. CASE p # View /\ conv'
      <3>1. p \in Senders /\ "ready" \in Steps
        BY <2>2 DEF Procs, Steps
      <3> QED BY <2>2, <3>1, AdvanceLocal DEF OpenEnds, TypeInv, TypeOK,
                                              LocalInv
    <2>3. CASE p # View /\ ~conv'
      <3>1. p \in Senders /\ "rejected" \in Outcomes
        BY <2>3 DEF Procs, Outcomes
      <3> QED BY <2>3, <3>1, ToRecordLocal DEF OpenEnds, TypeInv, TypeOK,
                                               LocalInv
    <2> QED BY <2>1, <2>2, <2>3
  <1>4. WaitOK'
    BY MovedType DEF TypeInv, TypeOK, WaitOK, LocalInv, Carries, ProcOK,
                     QueueOK, Procs, Senders, OpenEnds, Current, ToRecord,
                     Advance
  <1>5. QueueOK'
    BY DEF TypeInv, TypeOK, LocalInv, QueueOK, OpenEnds
  <1>6. HistoryOK'
    BY DEF TypeInv, TypeOK, LocalInv, HistoryOK, OpenEnds
  <1> QED BY <1>1, <1>2, <1>3, <1>4, <1>5, <1>6 DEF TypeInv, TypeOK, LocalInv

LEMMA UnreadyType ==
  ASSUME TypeInv, NEW p \in Senders, Unready(p)
  PROVE  TypeInv'
  <1>1. LocalInv'
    BY FinishLocal, ToRecordLocal, ProcsDistinct DEF LocalInv, TypeInv, TypeOK,
           Steps, Results, Outcomes, Procs, Senders, Unready
  <1>2. ThreadOK'
    BY DEF TypeInv, TypeOK, LocalInv, ThreadOK, Unready
  <1>3. ConvOK'
    BY DEF TypeInv, TypeOK, LocalInv, ConvOK, Unready
  <1>4. QueueOK'
    BY DEF TypeInv, TypeOK, LocalInv, QueueOK, Unready
  <1>5. WaitOK'
    BY DEF TypeInv, TypeOK, LocalInv, WaitOK, Unready
  <1>6. HistoryOK'
    BY DEF TypeInv, TypeOK, LocalInv, HistoryOK, Unready
  <1> QED BY <1>1, <1>2, <1>3, <1>4, <1>5, <1>6 DEF TypeInv, TypeOK, LocalInv

LEMMA CommitType ==
  ASSUME TypeInv, NEW p \in Senders, Commit(p)
  PROVE  TypeInv'
  <1>1. ThreadOK'
    BY DEF TypeInv, TypeOK, ThreadOK, Bases, Commit, Advance, ToRecord, Finish
  <1>2. LocalInv'
    BY FinishLocal, ToRecordLocal, AdvanceLocal, ProcsDistinct DEF LocalInv,
           TypeInv, TypeOK, Steps, Results, Outcomes, Procs, Senders, Commit
  <1>3. WaitOK'
    BY DEF TypeInv, TypeOK, WaitOK, LocalInv, Carries, ProcOK, QueueOK, Procs,
           Senders, Commit, AtHolder, Advance, ToRecord, Finish
  <1>4. ConvOK'
    BY DEF TypeInv, TypeOK, LocalInv, ConvOK, Commit
  <1>5. QueueOK'
    BY DEF TypeInv, TypeOK, LocalInv, QueueOK, Commit
  <1>6. HistoryOK'
    BY DEF TypeInv, TypeOK, LocalInv, HistoryOK, Commit
  <1> QED BY <1>1, <1>2, <1>3, <1>4, <1>5, <1>6 DEF TypeInv, TypeOK, LocalInv

LEMMA TakesType ==
  ASSUME TypeInv, NEW p \in Senders, Takes(p)
  PROVE  TypeInv'
  <1>1. ThreadOK'
    BY DEF TypeInv, TypeOK, ThreadOK, Bases, Takes, TurnStarts, Advance
  <1>2. ConvOK'
    BY DEF TypeInv, TypeOK, ConvOK, Takes, TurnStarts, Advance
  <1>3. LocalInv'
    BY AdvanceLocal, ProcsDistinct DEF LocalInv, TypeInv, TypeOK, Steps,
                                       Results, Outcomes, Procs, Senders,
                                       Takes, TurnStarts
  <1>4. WaitOK'
    BY MovedType DEF TypeInv, TypeOK, WaitOK, LocalInv, Carries, ProcOK,
                     QueueOK, Procs, Senders, Takes, TurnStarts, Advance
  <1>5. HistoryOK'
    <2>1. Append(taken, req[p]) \in Seq(Prompts)
      BY RequestIsPrompt DEF Takes, TypeInv, TypeOK, HistoryOK
    <2> QED BY <2>1 DEF TypeInv, TypeOK, HistoryOK, Takes
  <1>6. QueueOK'
    BY DEF TypeInv, TypeOK, LocalInv, QueueOK, Takes
  <1> QED BY <1>1, <1>2, <1>3, <1>4, <1>5, <1>6 DEF TypeInv, TypeOK, LocalInv

LEMMA AcceptsType ==
  ASSUME TypeInv, NEW p \in Senders, Accepts(p)
  PROVE  TypeInv'
  <1>1. LocalInv'
    BY ToRecordLocal, ProcsDistinct DEF LocalInv, TypeInv, TypeOK, Steps,
           Results, Outcomes, Procs, Senders, Accepts
  <1>2. WaitOK'
    BY DEF TypeInv, TypeOK, WaitOK, LocalInv, Carries, ProcOK, QueueOK, Procs,
           Senders, Accepts, ToRecord
  <1>3. ThreadOK'
    BY DEF TypeInv, TypeOK, LocalInv, ThreadOK, Accepts
  <1>4. ConvOK'
    BY DEF TypeInv, TypeOK, LocalInv, ConvOK, Accepts
  <1>5. QueueOK'
    BY DEF TypeInv, TypeOK, LocalInv, QueueOK, Accepts
  <1>6. HistoryOK'
    BY DEF TypeInv, TypeOK, LocalInv, HistoryOK, Accepts
  <1> QED BY <1>1, <1>2, <1>3, <1>4, <1>5, <1>6 DEF TypeInv, TypeOK, LocalInv

LEMMA SendFailsType ==
  ASSUME TypeInv, NEW p \in Senders,
             NEW result \in {"busy", "rejected", "uncertain"}, SendFails(p,
             result)
  PROVE  TypeInv'
  <1>1. LocalInv'
    BY ProcsDistinct DEF LocalInv, TypeInv, TypeOK, Goto, ProcOK, Carries,
                         Steps, Results, Outcomes, Procs, Senders, SendFails
  <1>2. HistoryOK'
    BY DEF TypeInv, TypeOK, HistoryOK, LocalInv, Carries, ProcOK, QueueOK,
           Procs, Senders, SendFails
  <1>3. ThreadOK'
    BY DEF TypeInv, TypeOK, LocalInv, ThreadOK, SendFails
  <1>4. ConvOK'
    BY DEF TypeInv, TypeOK, LocalInv, ConvOK, SendFails
  <1>5. QueueOK'
    BY DEF TypeInv, TypeOK, LocalInv, QueueOK, SendFails
  <1>6. WaitOK'
    BY DEF TypeInv, TypeOK, LocalInv, WaitOK, SendFails
  <1> QED BY <1>1, <1>2, <1>3, <1>4, <1>5, <1>6 DEF TypeInv, TypeOK, LocalInv

LEMMA RestoreType ==
  ASSUME TypeInv, NEW p \in Senders, Restore(p)
  PROVE  TypeInv'
  <1>1. ThreadOK'
    BY DEF TypeInv, TypeOK, ThreadOK, Bases, Restore, ToRecord, Finish
  <1>2. LocalInv'
    <2>1. CASE res[p] = "busy"
      BY <2>1, FinishLocal DEF Restore, TypeInv, TypeOK, LocalInv, Results
    <2>2. CASE res[p] # "busy"
      <3>1. res[p] \in Outcomes \ {"cancelled"}
        BY <2>2 DEF Restore, TypeInv, Carries, Outcomes
      <3> QED BY <2>2, <3>1, ToRecordLocal DEF Restore, TypeInv, TypeOK,
                                               LocalInv
    <2> QED BY <2>1, <2>2
  <1>3. WaitOK'
    BY DEF TypeInv, TypeOK, WaitOK, LocalInv, Carries, ProcOK, QueueOK, Procs,
           Senders, Restore, ToRecord, Finish
  <1>4. ConvOK'
    BY DEF TypeInv, TypeOK, LocalInv, ConvOK, Restore
  <1>5. QueueOK'
    BY DEF TypeInv, TypeOK, LocalInv, QueueOK, Restore
  <1>6. HistoryOK'
    BY DEF TypeInv, TypeOK, LocalInv, HistoryOK, Restore
  <1> QED BY <1>1, <1>2, <1>3, <1>4, <1>5, <1>6 DEF TypeInv, TypeOK, LocalInv

LEMMA SteersType ==
  ASSUME TypeInv, NEW p \in Senders,
             NEW result \in {"accepted", "rejected", "uncertain", "error"},
             Steers(p, result)
  PROVE  TypeInv'
  <1>1. LocalInv'
    BY FinishLocal, ToRecordLocal, ProcsDistinct DEF LocalInv, TypeInv, TypeOK,
           Steps, Results, Outcomes, Procs, Senders, Steers
  <1>2. HistoryOK'
    <2>1. req[p] \in Prompts
      BY RequestIsPrompt DEF Steers
    <2>2. Append(taken, req[p]) \in Seq(Prompts)
      BY <2>1 DEF TypeInv, TypeOK, HistoryOK
    <2> QED BY <2>1, <2>2 DEF TypeInv, TypeOK, HistoryOK, Steers
  <1>3. ThreadOK'
    BY DEF TypeInv, TypeOK, LocalInv, ThreadOK, Steers
  <1>4. ConvOK'
    BY DEF TypeInv, TypeOK, LocalInv, ConvOK, Steers
  <1>5. QueueOK'
    BY DEF TypeInv, TypeOK, LocalInv, QueueOK, Steers
  <1>6. WaitOK'
    BY DEF TypeInv, TypeOK, LocalInv, WaitOK, Steers
  <1> QED BY <1>1, <1>2, <1>3, <1>4, <1>5, <1>6 DEF TypeInv, TypeOK, LocalInv

LEMMA RecordType ==
  ASSUME TypeInv, NEW p \in Senders, Record(p)
  PROVE  TypeInv'
  <1>1. QueueOK'
    BY DEF TypeInv, TypeOK, QueueOK, Outcomes, LocalInv, Carries, ProcOK,
           Procs, Senders, Record, PauseQueue, Finish
  <1>2. LocalInv'
    BY FinishLocal, ProcsDistinct DEF LocalInv, TypeInv, TypeOK, Steps,
                                      Results, Outcomes, Procs, Senders, Record
  <1>3. WaitOK'
    BY MovedType DEF TypeInv, TypeOK, WaitOK, LocalInv, Carries, ProcOK,
                     QueueOK, Procs, Senders, Record, Finish
  <1>4. HistoryOK'
    BY HeldType DEF TypeInv, TypeOK, HistoryOK, Record
  <1>5. ThreadOK'
    BY DEF TypeInv, TypeOK, LocalInv, ThreadOK, Record
  <1>6. ConvOK'
    BY DEF TypeInv, TypeOK, LocalInv, ConvOK, Record
  <1> QED BY <1>1, <1>2, <1>3, <1>4, <1>5, <1>6 DEF TypeInv, TypeOK, LocalInv

LEMMA DrainBeginsType ==
  ASSUME TypeInv, DrainBegins
  PROVE  TypeInv'
  <1>1. QueueOK'
    <2>1. CASE op' = op
      BY <2>1, ProcsDistinct
         DEF TypeInv, TypeOK, QueueOK, DrainBegins, ProcOK, Procs, Senders
    <2>2. CASE queue # <<>> /\ queue' = Tail(queue) /\ sending' = Head(queue)
      <3>1. Head(queue) \in Prompts /\ Tail(queue) \in Seq(Prompts)
        BY <2>2 DEF TypeInv, TypeOK, QueueOK
      <3> QED BY <2>2, <3>1 DEF TypeInv, TypeOK, QueueOK, DrainBegins
    <2> QED BY <2>1, <2>2 DEF DrainBegins
  <1>2. LocalInv'
    <2>1. CASE UNCHANGED <<op, pc, req>>
      BY <2>1 DEF TypeInv, TypeOK, LocalInv, ProcOK, Carries, DrainBegins
    <2>2. CASE /\ queue # <<>>
               /\ op' = Drain /\ Goto(Drain, ToCheck(Drain, "open"))
               /\ req' = [req EXCEPT ![Drain] = Head(queue)]
      <3>1. Head(queue) \in Prompts
        BY <2>2 DEF TypeInv, TypeOK, QueueOK
      <3> QED BY <2>2, <3>1
              DEF TypeInv, TypeOK, LocalInv, ProcOK, Carries, DrainBegins,
                  Goto,
                  ToCheck, Steps, Procs, Senders
    <2> QED BY <2>1, <2>2 DEF DrainBegins
  <1>3. WaitOK'
    BY DEF TypeInv, TypeOK, WaitOK, LocalInv, Carries, ProcOK, QueueOK, Procs,
           Senders, DrainBegins, ToCheck
  <1>4. ThreadOK'
    BY DEF TypeInv, TypeOK, LocalInv, ThreadOK, DrainBegins
  <1>5. ConvOK'
    BY DEF TypeInv, TypeOK, LocalInv, ConvOK, DrainBegins
  <1>6. HistoryOK'
    BY DEF TypeInv, TypeOK, LocalInv, HistoryOK, DrainBegins
  <1> QED BY <1>1, <1>2, <1>3, <1>4, <1>5, <1>6 DEF TypeInv, TypeOK, LocalInv

LEMMA DrainEndsType ==
  ASSUME TypeInv, DrainEnds
  PROVE  TypeInv'
  <1>1. QueueOK'
    <2>1. PutBack(queue, req[Drain]) \in Seq(Prompts)
      BY RequestIsPrompt DEF DrainEnds, Senders, PutBack, TypeInv, TypeOK,
                             QueueOK
    <2> QED BY <2>1 DEF TypeInv, TypeOK, QueueOK, DrainEnds
  <1>2. LocalInv'
    BY ProcsDistinct DEF LocalInv, TypeInv, TypeOK, Goto, ProcOK, Carries,
                         Steps, Results, Outcomes, Procs, Senders, DrainEnds,
                         PutBack
  <1>3. ThreadOK'
    BY DEF TypeInv, TypeOK, LocalInv, ThreadOK, DrainEnds
  <1>4. ConvOK'
    BY DEF TypeInv, TypeOK, LocalInv, ConvOK, DrainEnds
  <1>5. WaitOK'
    BY DEF TypeInv, TypeOK, LocalInv, WaitOK, DrainEnds
  <1>6. HistoryOK'
    BY DEF TypeInv, TypeOK, LocalInv, HistoryOK, DrainEnds
  <1> QED BY <1>1, <1>2, <1>3, <1>4, <1>5, <1>6 DEF TypeInv, TypeOK, LocalInv

LEMMA ViewOpenType ==
  ASSUME TypeInv, ViewOpen
  PROVE  TypeInv'
  <1>1. ConvOK'
    BY DEF TypeInv, TypeOK, ConvOK, ViewOpen
  <1>2. WaitOK'
    BY MovedType DEF TypeInv, TypeOK, WaitOK, LocalInv, Carries, ProcOK,
                     QueueOK, Procs, Senders, ViewOpen
  <1>3. ThreadOK'
    BY DEF TypeInv, TypeOK, LocalInv, ThreadOK, ViewOpen
  <1>4. QueueOK'
    BY DEF TypeInv, TypeOK, LocalInv, QueueOK, ViewOpen
  <1>5. LocalInv'
    BY DEF TypeInv, TypeOK, LocalInv, ProcOK, Carries, ViewOpen
  <1>6. HistoryOK'
    BY DEF TypeInv, TypeOK, LocalInv, HistoryOK, ViewOpen
  <1> QED BY <1>1, <1>2, <1>3, <1>4, <1>5, <1>6 DEF TypeInv, TypeOK, LocalInv

LEMMA OpenForViewType ==
  ASSUME TypeInv, OpenForView
  PROVE  TypeInv'
  <1>1. ConvOK'
    BY DEF TypeInv, TypeOK, ConvOK, OpenForView, OpenBegins
  <1>2. LocalInv'
    <2>1. View \in Procs \ Senders
      BY ProcsDistinct DEF Procs, Senders, View, Drain
    <2> QED BY <2>1 DEF LocalInv, TypeInv, TypeOK, ProcOK, Carries, Steps,
                        OpenForView, Goto, Procs
  <1>3. WaitOK'
    BY MovedType DEF TypeInv, TypeOK, WaitOK, LocalInv, Carries, ProcOK,
                     QueueOK, Procs, Senders, OpenForView, OpenBegins
  <1>4. ThreadOK'
    BY DEF TypeInv, TypeOK, LocalInv, ThreadOK, OpenForView
  <1>5. QueueOK'
    BY DEF TypeInv, TypeOK, LocalInv, QueueOK, OpenForView
  <1>6. HistoryOK'
    BY DEF TypeInv, TypeOK, LocalInv, HistoryOK, OpenForView
  <1> QED BY <1>1, <1>2, <1>3, <1>4, <1>5, <1>6 DEF TypeInv, TypeOK, LocalInv

LEMMA CancelQueuedType ==
  ASSUME TypeInv, NEW i \in DOMAIN queue, CancelQueued(i)
  PROVE  TypeInv'
  <1>1. QueueOK'
    BY DEF TypeInv, TypeOK, QueueOK, Outcomes, LocalInv, Carries, ProcOK,
           Procs, Senders, CancelQueued, RemoveAt
  <1>2. ThreadOK'
    BY DEF TypeInv, TypeOK, LocalInv, ThreadOK, CancelQueued
  <1>3. ConvOK'
    BY DEF TypeInv, TypeOK, LocalInv, ConvOK, CancelQueued
  <1>4. LocalInv'
    BY DEF TypeInv, TypeOK, LocalInv, ProcOK, Carries, CancelQueued
  <1>5. WaitOK'
    BY DEF TypeInv, TypeOK, LocalInv, WaitOK, CancelQueued
  <1>6. HistoryOK'
    BY DEF TypeInv, TypeOK, LocalInv, HistoryOK, CancelQueued
  <1> QED BY <1>1, <1>2, <1>3, <1>4, <1>5, <1>6 DEF TypeInv, TypeOK, LocalInv

LEMMA ClearQueueType ==
  ASSUME TypeInv, ClearQueue
  PROVE  TypeInv'
  <1>1. QueueOK'
    <2>1. <<>> \in Seq(Prompts)
      OBVIOUS
    <2>2. outcome' \in [Prompts -> Outcomes \cup {"none"}]
      BY DEF TypeInv, TypeOK, QueueOK, ClearQueue, Outcomes
    <2> QED BY <2>1, <2>2 DEF TypeInv, TypeOK, QueueOK, ClearQueue
  <1>2. ThreadOK'
    BY DEF TypeInv, TypeOK, LocalInv, ThreadOK, ClearQueue
  <1>3. ConvOK'
    BY DEF TypeInv, TypeOK, LocalInv, ConvOK, ClearQueue
  <1>4. LocalInv'
    BY DEF TypeInv, TypeOK, LocalInv, ProcOK, Carries, ClearQueue
  <1>5. WaitOK'
    BY DEF TypeInv, TypeOK, LocalInv, WaitOK, ClearQueue
  <1>6. HistoryOK'
    BY DEF TypeInv, TypeOK, LocalInv, HistoryOK, ClearQueue
  <1> QED BY <1>1, <1>2, <1>3, <1>4, <1>5, <1>6 DEF TypeInv, TypeOK, LocalInv

LEMMA ResumeQueueType ==
  ASSUME TypeInv, ResumeQueue
  PROVE  TypeInv'
  <1>1. QueueOK'
    BY DEF TypeInv, TypeOK, QueueOK, Outcomes, LocalInv, Carries, ProcOK,
           Procs, Senders, ResumeQueue
  <1>2. WaitOK'
    BY DEF TypeInv, TypeOK, WaitOK, LocalInv, Carries, ProcOK, QueueOK, Procs,
           Senders, ResumeQueue, Kicked
  <1>3. HistoryOK'
    BY DEF TypeInv, TypeOK, HistoryOK, LocalInv, Carries, ProcOK, QueueOK,
           Procs, Senders, ResumeQueue
  <1>4. ThreadOK'
    BY DEF TypeInv, TypeOK, LocalInv, ThreadOK, ResumeQueue
  <1>5. ConvOK'
    BY DEF TypeInv, TypeOK, LocalInv, ConvOK, ResumeQueue
  <1>6. LocalInv'
    BY DEF TypeInv, TypeOK, LocalInv, ProcOK, Carries, ResumeQueue
  <1> QED BY <1>1, <1>2, <1>3, <1>4, <1>5, <1>6 DEF TypeInv, TypeOK, LocalInv

LEMMA StopType ==
  ASSUME TypeInv, Stop
  PROVE  TypeInv'
  <1>1. QueueOK'
    BY DEF TypeInv, TypeOK, QueueOK, Outcomes, LocalInv, Carries, ProcOK,
           Procs, Senders, Stop, PauseQueue
  <1>2. WaitOK'
    BY MovedType DEF TypeInv, TypeOK, WaitOK, LocalInv, Carries, ProcOK,
                     QueueOK, Procs, Senders, Stop
  <1>3. ThreadOK'
    BY DEF TypeInv, TypeOK, LocalInv, ThreadOK, Stop
  <1>4. ConvOK'
    BY DEF TypeInv, TypeOK, LocalInv, ConvOK, Stop
  <1>5. LocalInv'
    BY DEF TypeInv, TypeOK, LocalInv, ProcOK, Carries, Stop
  <1>6. HistoryOK'
    BY DEF TypeInv, TypeOK, LocalInv, HistoryOK, Stop
  <1> QED BY <1>1, <1>2, <1>3, <1>4, <1>5, <1>6 DEF TypeInv, TypeOK, LocalInv

LEMMA CloseType ==
  ASSUME TypeInv, Close
  PROVE  TypeInv'
  <1>1. ThreadOK'
    BY DEF TypeInv, TypeOK, ThreadOK, Bases, Close, Disconnect, Detach
  <1>2. ConvOK'
    BY DEF TypeInv, TypeOK, ConvOK, Close, Disconnect, Detach
  <1>3. QueueOK'
    BY DEF TypeInv, TypeOK, QueueOK, Outcomes, LocalInv, Carries, ProcOK,
           Procs, Senders, Close, Disconnect, Detach, PauseQueue
  <1>4. WaitOK'
    BY MovedType DEF TypeInv, TypeOK, WaitOK, LocalInv, Carries, ProcOK,
                     QueueOK, Procs, Senders, Close, Disconnect, Detach
  <1>5. HistoryOK'
    BY HeldType DEF TypeInv, TypeOK, HistoryOK, Close
  <1>6. LocalInv'
    BY DEF TypeInv, TypeOK, LocalInv, ProcOK, Carries, Close
  <1> QED BY <1>1, <1>2, <1>3, <1>4, <1>5, <1>6 DEF TypeInv, TypeOK, LocalInv

LEMMA MoveStageType ==
  ASSUME TypeInv, NEW from \in {"active", "settled", "archived"},
             NEW to \in {"active", "settled", "archived"}, MoveStage(from, to)
  PROVE  TypeInv'
  <1>1. ThreadOK'
    BY DEF TypeInv, TypeOK, ThreadOK, Bases, MoveStage, Disconnect, Detach
  <1>2. ConvOK'
    BY DEF TypeInv, TypeOK, ConvOK, MoveStage, Disconnect, Detach
  <1>3. QueueOK'
    BY DEF TypeInv, TypeOK, QueueOK, Outcomes, LocalInv, Carries, ProcOK,
           Procs, Senders, MoveStage, Disconnect, Detach, PauseQueue
  <1>4. WaitOK'
    BY MovedType DEF TypeInv, TypeOK, WaitOK, LocalInv, Carries, ProcOK,
                     QueueOK, Procs, Senders, MoveStage, Disconnect, Detach
  <1>5. LocalInv'
    BY DEF TypeInv, TypeOK, LocalInv, ProcOK, Carries, MoveStage
  <1>6. HistoryOK'
    BY DEF TypeInv, TypeOK, LocalInv, HistoryOK, MoveStage
  <1> QED BY <1>1, <1>2, <1>3, <1>4, <1>5, <1>6 DEF TypeInv, TypeOK, LocalInv

LEMMA DeleteType ==
  ASSUME TypeInv, Delete
  PROVE  TypeInv'
  <1>1. ThreadOK'
    BY DEF TypeInv, TypeOK, ThreadOK, Bases, Delete
  <1>2. ConvOK'
    BY DEF TypeInv, TypeOK, ConvOK, Delete
  <1>3. WaitOK'
    BY MovedType DEF TypeInv, TypeOK, WaitOK, LocalInv, Carries, ProcOK,
                     QueueOK, Procs, Senders, Delete
  <1>4. QueueOK'
    BY DEF TypeInv, TypeOK, LocalInv, QueueOK, Delete
  <1>5. LocalInv'
    BY DEF TypeInv, TypeOK, LocalInv, ProcOK, Carries, Delete
  <1>6. HistoryOK'
    BY DEF TypeInv, TypeOK, LocalInv, HistoryOK, Delete
  <1> QED BY <1>1, <1>2, <1>3, <1>4, <1>5, <1>6 DEF TypeInv, TypeOK, LocalInv

LEMMA CloseIdleType ==
  ASSUME TypeInv, CloseIdle
  PROVE  TypeInv'
  <1>1. ConvOK'
    BY DEF TypeInv, TypeOK, ConvOK, CloseIdle, Detach
  <1>2. WaitOK'
    BY MovedType DEF TypeInv, TypeOK, WaitOK, LocalInv, Carries, ProcOK,
                     QueueOK, Procs, Senders, CloseIdle, Detach
  <1>3. ThreadOK'
    BY DEF TypeInv, TypeOK, LocalInv, ThreadOK, CloseIdle
  <1>4. QueueOK'
    BY DEF TypeInv, TypeOK, LocalInv, QueueOK, CloseIdle
  <1>5. LocalInv'
    BY DEF TypeInv, TypeOK, LocalInv, ProcOK, Carries, CloseIdle
  <1>6. HistoryOK'
    BY DEF TypeInv, TypeOK, LocalInv, HistoryOK, CloseIdle
  <1> QED BY <1>1, <1>2, <1>3, <1>4, <1>5, <1>6 DEF TypeInv, TypeOK, LocalInv

LEMMA ShutdownType ==
  ASSUME TypeInv, Shutdown
  PROVE  TypeInv'
  <1>1. ThreadOK'
    BY DEF TypeInv, TypeOK, ThreadOK, Bases, Shutdown, Detach
  <1>2. ConvOK'
    BY DEF TypeInv, TypeOK, ConvOK, Shutdown, Detach
  <1>3. QueueOK'
    <2>1. <<>> \in Seq(Prompts)
      OBVIOUS
    <2> QED BY <2>1 DEF TypeInv, TypeOK, QueueOK, Shutdown
  <1>4. WaitOK'
    BY MovedType DEF TypeInv, TypeOK, WaitOK, LocalInv, Carries, ProcOK,
                     QueueOK, Procs, Senders, Shutdown, Detach
  <1>5. LocalInv'
    BY DEF TypeInv, TypeOK, LocalInv, ProcOK, Carries, Shutdown
  <1>6. HistoryOK'
    BY DEF TypeInv, TypeOK, LocalInv, HistoryOK, Shutdown
  <1> QED BY <1>1, <1>2, <1>3, <1>4, <1>5, <1>6 DEF TypeInv, TypeOK, LocalInv

LEMMA OwnTurnType ==
  ASSUME TypeInv, OwnTurn
  PROVE  TypeInv'
  <1>1. ThreadOK'
    BY DEF TypeInv, TypeOK, ThreadOK, Bases, OwnTurn, TurnStarts
  <1>2. ConvOK'
    BY DEF TypeInv, TypeOK, ConvOK, OwnTurn, TurnStarts
  <1>3. WaitOK'
    BY MovedType DEF TypeInv, TypeOK, WaitOK, LocalInv, Carries, ProcOK,
                     QueueOK, Procs, Senders, OwnTurn, TurnStarts
  <1>4. QueueOK'
    BY DEF TypeInv, TypeOK, LocalInv, QueueOK, OwnTurn
  <1>5. LocalInv'
    BY DEF TypeInv, TypeOK, LocalInv, ProcOK, Carries, OwnTurn
  <1>6. HistoryOK'
    BY DEF TypeInv, TypeOK, LocalInv, HistoryOK, OwnTurn
  <1> QED BY <1>1, <1>2, <1>3, <1>4, <1>5, <1>6 DEF TypeInv, TypeOK, LocalInv

LEMMA LateTakeType ==
  ASSUME TypeInv, NEW r \in Prompts, LateTake(r)
  PROVE  TypeInv'
  <1>1. ThreadOK'
    BY DEF TypeInv, TypeOK, ThreadOK, Bases, LateTake, TurnStarts
  <1>2. ConvOK'
    BY DEF TypeInv, TypeOK, ConvOK, LateTake, TurnStarts
  <1>3. WaitOK'
    BY MovedType DEF TypeInv, TypeOK, WaitOK, LocalInv, Carries, ProcOK,
                     QueueOK, Procs, Senders, LateTake, TurnStarts
  <1>4. HistoryOK'
    BY DEF TypeInv, TypeOK, HistoryOK, LocalInv, Carries, ProcOK, QueueOK,
           Procs, Senders, LateTake, TurnStarts
  <1>5. QueueOK'
    BY DEF TypeInv, TypeOK, LocalInv, QueueOK, LateTake
  <1>6. LocalInv'
    BY DEF TypeInv, TypeOK, LocalInv, ProcOK, Carries, LateTake
  <1> QED BY <1>1, <1>2, <1>3, <1>4, <1>5, <1>6 DEF TypeInv, TypeOK, LocalInv

LEMMA TurnEndsType ==
  ASSUME TypeInv, NEW kind \in {"completed", "cancelled", "failed"},
         TurnEnds(kind)
  PROVE  TypeInv'
  <1>1. ThreadOK'
    BY DEF TypeInv, TypeOK, ThreadOK, Bases, TurnEnds
  <1>2. ConvOK'
    BY DEF TypeInv, TypeOK, ConvOK, TurnEnds
  <1>3. QueueOK'
    BY DEF TypeInv, TypeOK, QueueOK, Outcomes, LocalInv, Carries, ProcOK,
           Procs, Senders, TurnEnds, PauseQueue
  <1>4. WaitOK'
    BY MovedType DEF TypeInv, TypeOK, WaitOK, LocalInv, Carries, ProcOK,
                     QueueOK, Procs, Senders, TurnEnds, Kicked
  <1>5. HistoryOK'
    BY HeldType DEF TypeInv, TypeOK, HistoryOK, TurnEnds
  <1>6. LocalInv'
    BY DEF TypeInv, TypeOK, LocalInv, ProcOK, Carries, TurnEnds
  <1> QED BY <1>1, <1>2, <1>3, <1>4, <1>5, <1>6 DEF TypeInv, TypeOK, LocalInv

LEMMA AsksType ==
  ASSUME TypeInv, Asks
  PROVE  TypeInv'
  <1>1. ConvOK'
    BY DEF TypeInv, TypeOK, ConvOK, Asks
  <1>2. WaitOK'
    BY MovedType DEF TypeInv, TypeOK, WaitOK, LocalInv, Carries, ProcOK,
                     QueueOK, Procs, Senders, Asks
  <1>3. ThreadOK'
    BY DEF TypeInv, TypeOK, LocalInv, ThreadOK, Asks
  <1>4. QueueOK'
    BY DEF TypeInv, TypeOK, LocalInv, QueueOK, Asks
  <1>5. LocalInv'
    BY DEF TypeInv, TypeOK, LocalInv, ProcOK, Carries, Asks
  <1>6. HistoryOK'
    BY DEF TypeInv, TypeOK, LocalInv, HistoryOK, Asks
  <1> QED BY <1>1, <1>2, <1>3, <1>4, <1>5, <1>6 DEF TypeInv, TypeOK, LocalInv

LEMMA AnsweredType ==
  ASSUME TypeInv, Answered
  PROVE  TypeInv'
  <1>1. ConvOK'
    BY DEF TypeInv, TypeOK, ConvOK, Answered
  <1>2. WaitOK'
    BY MovedType DEF TypeInv, TypeOK, WaitOK, LocalInv, Carries, ProcOK,
                     QueueOK, Procs, Senders, Answered
  <1>3. ThreadOK'
    BY DEF TypeInv, TypeOK, LocalInv, ThreadOK, Answered
  <1>4. QueueOK'
    BY DEF TypeInv, TypeOK, LocalInv, QueueOK, Answered
  <1>5. LocalInv'
    BY DEF TypeInv, TypeOK, LocalInv, ProcOK, Carries, Answered
  <1>6. HistoryOK'
    BY DEF TypeInv, TypeOK, LocalInv, HistoryOK, Answered
  <1> QED BY <1>1, <1>2, <1>3, <1>4, <1>5, <1>6 DEF TypeInv, TypeOK, LocalInv

LEMMA AgentStartsType ==
  ASSUME TypeInv, AgentStarts
  PROVE  TypeInv'
  <1>1. ConvOK'
    BY DEF TypeInv, TypeOK, ConvOK, AgentStarts
  <1>2. ThreadOK'
    BY DEF TypeInv, TypeOK, LocalInv, ThreadOK, AgentStarts
  <1>3. QueueOK'
    BY DEF TypeInv, TypeOK, LocalInv, QueueOK, AgentStarts
  <1>4. LocalInv'
    BY DEF TypeInv, TypeOK, LocalInv, ProcOK, Carries, AgentStarts
  <1>5. WaitOK'
    BY DEF TypeInv, TypeOK, LocalInv, WaitOK, AgentStarts
  <1>6. HistoryOK'
    BY DEF TypeInv, TypeOK, LocalInv, HistoryOK, AgentStarts
  <1> QED BY <1>1, <1>2, <1>3, <1>4, <1>5, <1>6 DEF TypeInv, TypeOK, LocalInv

LEMMA AgentsEndType ==
  ASSUME TypeInv, AgentsEnd
  PROVE  TypeInv'
  <1>1. ConvOK'
    BY DEF TypeInv, TypeOK, ConvOK, AgentsEnd
  <1>2. WaitOK'
    BY MovedType DEF TypeInv, TypeOK, WaitOK, LocalInv, Carries, ProcOK,
                     QueueOK, Procs, Senders, AgentsEnd
  <1>3. ThreadOK'
    BY DEF TypeInv, TypeOK, LocalInv, ThreadOK, AgentsEnd
  <1>4. QueueOK'
    BY DEF TypeInv, TypeOK, LocalInv, QueueOK, AgentsEnd
  <1>5. LocalInv'
    BY DEF TypeInv, TypeOK, LocalInv, ProcOK, Carries, AgentsEnd
  <1>6. HistoryOK'
    BY DEF TypeInv, TypeOK, LocalInv, HistoryOK, AgentsEnd
  <1> QED BY <1>1, <1>2, <1>3, <1>4, <1>5, <1>6 DEF TypeInv, TypeOK, LocalInv

LEMMA ConversationExitsType ==
  ASSUME TypeInv, NEW detached \in BOOLEAN, ConversationExits(detached)
  PROVE  TypeInv'
  <1>1. ThreadOK'
    BY DEF TypeInv, TypeOK, ThreadOK, Bases, ConversationExits, Detach
  <1>2. ConvOK'
    BY DEF TypeInv, TypeOK, ConvOK, ConversationExits, Detach
  <1>3. QueueOK'
    BY DEF TypeInv, TypeOK, QueueOK, Outcomes, LocalInv, Carries, ProcOK,
           Procs, Senders, ConversationExits, Detach, PauseQueue
  <1>4. WaitOK'
    BY MovedType DEF TypeInv, TypeOK, WaitOK, LocalInv, Carries, ProcOK,
                     QueueOK, Procs, Senders, ConversationExits, Detach
  <1>5. HistoryOK'
    BY HeldType DEF TypeInv, TypeOK, HistoryOK, ConversationExits
  <1>6. LocalInv'
    BY DEF TypeInv, TypeOK, LocalInv, ProcOK, Carries, ConversationExits
  <1> QED BY <1>1, <1>2, <1>3, <1>4, <1>5, <1>6 DEF TypeInv, TypeOK, LocalInv

LEMMA DetachBeginsType ==
  ASSUME TypeInv, DetachBegins
  PROVE  TypeInv'
  <1>1. ThreadOK'
    BY DEF TypeInv, TypeOK, ThreadOK, Bases, DetachBegins
  <1>2. ConvOK'
    BY DEF TypeInv, TypeOK, ConvOK, DetachBegins
  <1>3. QueueOK'
    BY DEF TypeInv, TypeOK, QueueOK, Outcomes, LocalInv, Carries, ProcOK,
           Procs, Senders, DetachBegins, PauseQueue
  <1>4. WaitOK'
    BY MovedType DEF TypeInv, TypeOK, WaitOK, LocalInv, Carries, ProcOK,
                     QueueOK, Procs, Senders, DetachBegins
  <1>5. HistoryOK'
    BY HeldType DEF TypeInv, TypeOK, HistoryOK, DetachBegins
  <1>6. LocalInv'
    BY DEF TypeInv, TypeOK, LocalInv, ProcOK, Carries, DetachBegins
  <1> QED BY <1>1, <1>2, <1>3, <1>4, <1>5, <1>6 DEF TypeInv, TypeOK, LocalInv

-----------------------------------------------------------------------------
LEMMA InitType ==
  Init => TypeInv
  <1> SUFFICES ASSUME Init PROVE TypeInv
    OBVIOUS
  <1>1. ThreadOK /\ ConvOK
    BY DEF Init, ThreadOK, ConvOK, Bases
  <1>2. QueueOK /\ HistoryOK
    <2>1. <<>> \in Seq(Prompts)
      OBVIOUS
    <2> QED BY <2>1 DEF Init, QueueOK, HistoryOK
  <1>3. ProcOK /\ Carries
    BY DEF Init, ProcOK, Carries, Steps, Results, Procs
  <1>4. WaitOK
    BY DEF Init, WaitOK
  <1> QED BY <1>1, <1>2, <1>3, <1>4 DEF TypeInv, TypeOK

LEMMA SendStepType ==
  ASSUME TypeInv, NEW p \in Senders, SendStep(p)
  PROVE  TypeInv'
  <1>1. p \in Procs
    BY DEF Procs
  <1> QED
    BY <1>1, CheckHolderType, HolderAnsweredType, OpenForPromptType,
       OpenEndsType, UnreadyType, CommitType, TakesType, AcceptsType,
       SendFailsType, SteersType, RestoreType, RecordType DEF SendStep

LEMMA OwnerStepType ==
  ASSUME TypeInv, OwnerStep
  PROVE  TypeInv'
  <1>1. CASE Settle \/ Reopen \/ Archive \/ Unarchive
    BY <1>1, MoveStageType DEF Settle, Reopen, Archive, Unarchive
  <1>2. CASE Close \/ Stop \/ Delete \/ ViewOpen
    BY <1>2, CloseType, StopType, DeleteType, ViewOpenType
  <1>3. CASE ClearQueue \/ ResumeQueue \/ \E i \in DOMAIN queue : CancelQueued(i)
    BY <1>3, ClearQueueType, ResumeQueueType, CancelQueuedType
  <1>4. CASE \E h \in Handlers, r \in Prompts, m \in {"send", "queue", "steer"} :
                Submit(h, r, m)
    BY <1>4, SubmitType
  <1> QED BY <1>1, <1>2, <1>3, <1>4 DEF OwnerStep

LEMMA ProviderStepType ==
  ASSUME TypeInv, ProviderStep
  PROVE  TypeInv'
  <1>1. CASE Exits \/ DetachBegins \/ DetachEnds
    BY <1>1, ConversationExitsType, DetachBeginsType DEF Exits, DetachEnds
  <1>2. CASE Asks \/ Answered \/ AgentStarts \/ AgentsEnd
    BY <1>2, AsksType, AnsweredType, AgentStartsType, AgentsEndType
  <1>3. CASE \/ OwnTurn \/ \E r \in Prompts : LateTake(r)
             \/ \E kind \in {"completed", "cancelled", "failed"} : TurnEnds(kind)
    BY <1>3, OwnTurnType, LateTakeType, TurnEndsType
  <1> QED BY <1>1, <1>2, <1>3 DEF ProviderStep

LEMMA NextType ==
  ASSUME TypeInv, [Next]_vars
  PROVE  TypeInv'
  <1>1. CASE UNCHANGED vars
    BY <1>1 DEF vars, TypeInv, TypeOK, ThreadOK, ConvOK, QueueOK, ProcOK,
                WaitOK,
                HistoryOK, Carries
  <1>2. CASE OwnerStep \/ ProviderStep
    BY <1>2, OwnerStepType, ProviderStepType
  <1>3. CASE ServiceStep
    BY <1>3, CloseIdleType, ShutdownType DEF ServiceStep
  <1>4. CASE \E h \in Handlers : HandlerStep(h)
    BY <1>4, EnqueueType, RouteSteerType, RouteSendType, SendStepType
       DEF HandlerStep, Senders
  <1>5. CASE DrainBegins \/ DrainStep
    BY <1>5, DrainBeginsType, DrainEndsType, SendStepType DEF DrainStep,
                                                              Senders
  <1>6. CASE OpenForView \/ ViewStep
    BY <1>6, OpenForViewType, OpenEndsType DEF ViewStep, Procs
  <1> QED BY <1>1, <1>2, <1>3, <1>4, <1>5, <1>6 DEF Next

\* In every behaviour the state of a Thread keeps its type, and a goroutine past
\* its first step carries a prompt and a result it can record.
THEOREM TypeCorrect ==
  Spec => []TypeInv
  <1> QED BY InitType, NextType, PTL DEF Spec

\* The type invariant the runs check: every value a handler, the drain, the
\* provider's events or Shutdown leaves behind is one the code can hold.
THEOREM TypeSafe ==
  Spec => []TypeOK
  <1>1. TypeInv => TypeOK
    BY DEF TypeInv
  <1> QED BY <1>1, TypeCorrect, PTL

-----------------------------------------------------------------------------
(* 2. Ownership, Freshness and Delivery.                                   *)

OneOwner == \A p \in Procs : pc[p] \notin {"idle", "holder"} <=> op = p
DrainCarriesHead == sending = IF pc[Drain] = "idle" THEN None ELSE req[Drain]

Pending(p) ==
  \/ pc[p] \notin {"idle", "holder", "epilogue"}
  \/ pc[p] = "epilogue" /\ res[p] \in {"error", "held"}
CarriedFresh == \A p \in Senders : Pending(p) => ~Known(req[p])
QueueFresh ==
  /\ \A i, j \in DOMAIN queue : queue[i] = queue[j] => i = j
  /\ \A i \in DOMAIN queue : outcome[queue[i]] = "none"

Given == Range(taken) \cup floating
GivenOnce ==
  /\ \A i, j \in DOMAIN taken : taken[i] = taken[j] => i = j
  /\ floating \cap Range(taken) = {}
QueueNotGiven == Range(queue) \cap Given = {}
CancelledNotGiven == \A r \in Given : outcome[r] # "cancelled"
MayGive(p) ==
  /\ Pending(p)
  /\ pc[p] # "took"
  /\ pc[p] \in {"back", "record"} => res[p] \in {"busy", "rejected"}
CarriedNotGiven == \A p \in Senders : MayGive(p) => req[p] \notin Given
GivenIsCarried ==
  \A r \in Given : outcome[r] = "none" =>
    \E p \in Senders :
       op = p /\ req[p] = r /\ pc[p] \in {"took", "back", "record"}

Ownership == OneOwner /\ DrainCarriesHead
Freshness == QueueFresh /\ CarriedFresh
Delivery == /\ GivenOnce /\ QueueNotGiven /\ CancelledNotGiven
            /\ CarriedNotGiven /\ GivenIsCarried

-----------------------------------------------------------------------------
(* The steps that touch what the three layers speak of; the others leave it.   *)

coreVars == <<op, pc, req, res, sending, outcome, queue, taken, floating>>

SenderStep(p) ==
  \/ CheckHolder(p) \/ OpenForPrompt(p) \/ Unready(p) \/ Commit(p)
  \/ Takes(p) \/ Accepts(p) \/ Restore(p) \/ Record(p)
  \/ \E inUse \in BOOLEAN : HolderAnswered(p, inUse)
  \/ \E ok \in BOOLEAN : OpenEnds(p, ok)
  \/ \E result \in {"busy", "rejected", "uncertain"} : SendFails(p, result)
  \/ \E result \in {"accepted", "rejected", "uncertain", "error"} :
       Steers(p, result)

StartStep(h) ==
  \/ \E r \in Prompts, m \in {"send", "queue", "steer"} : Submit(h, r, m)
  \/ Enqueue(h) \/ RouteSteer(h) \/ RouteSend(h)

CoreStep ==
  \/ \E h \in Handlers : StartStep(h)
  \/ \E p \in Senders : SenderStep(p)
  \/ DrainBegins \/ DrainEnds
  \/ OpenForView \/ \E ok \in BOOLEAN : OpenEnds(View, ok)
  \/ \E i \in DOMAIN queue : CancelQueued(i)
  \/ ClearQueue \/ Shutdown \/ \E r \in Prompts : LateTake(r)

LEMMA OtherSteps ==
  ASSUME [Next]_vars
  PROVE  UNCHANGED coreVars \/ CoreStep
  <1>1. CASE UNCHANGED vars
    BY <1>1 DEF vars, coreVars
  <1>2. CASE OwnerStep
    <2>1. CASE Settle \/ Reopen \/ Archive \/ Unarchive
      BY <2>1 DEF Settle, Reopen, Archive, Unarchive, MoveStage, coreVars
    <2>2. CASE ViewOpen \/ ResumeQueue \/ Stop \/ Close \/ Delete
      BY <2>2 DEF ViewOpen, ResumeQueue, Stop, Close, Delete, coreVars
    <2> QED BY <1>2, <2>1, <2>2 DEF OwnerStep, CoreStep, StartStep
  <1>3. CASE ServiceStep
    BY <1>3 DEF ServiceStep, CloseIdle, coreVars, CoreStep
  <1>4. CASE ProviderStep
    <2>1. CASE OwnTurn \/ Asks \/ Answered \/ AgentStarts \/ AgentsEnd
      BY <2>1 DEF OwnTurn, Asks, Answered, AgentStarts, AgentsEnd, coreVars
    <2>2. CASE \/ \E kind \in {"completed", "cancelled", "failed"} : TurnEnds(kind)
               \/ Exits \/ DetachBegins \/ DetachEnds
      BY <2>2 DEF TurnEnds, Exits, DetachBegins, DetachEnds, ConversationExits,
                  coreVars
    <2> QED BY <1>4, <2>1, <2>2 DEF ProviderStep, CoreStep
  <1>5. CASE \E h \in Handlers : HandlerStep(h)
    BY <1>5 DEF HandlerStep, SendStep, CoreStep, StartStep, SenderStep, Senders
  <1>6. CASE DrainBegins \/ DrainStep \/ OpenForView \/ ViewStep
    BY <1>6 DEF DrainStep, SendStep, ViewStep, CoreStep, SenderStep, Senders
  <1> QED BY <1>1, <1>2, <1>3, <1>4, <1>5, <1>6 DEF Next

-----------------------------------------------------------------------------
(* Ownership.                                                              *)

LEMMA NoneIsNoProc ==
  /\ None \notin Procs
  /\ Drain \in Senders /\ Drain \in Procs /\ View \in Procs /\ View \notin Senders
  BY ThreadConstants, ProcsDistinct DEF Procs, Senders, Drain, View

LEMMA FinishOwned ==
  ASSUME TypeInv, Ownership, NEW p \in Senders, NEW result, op = p,
         Finish(p, result), UNCHANGED sending
  PROVE  Ownership'
  BY NoneIsNoProc
     DEF TypeInv, TypeOK, ProcOK, Ownership, OneOwner, DrainCarriesHead,
         Finish,
         Goto, Procs, Senders

LEMMA AdvanceOwned ==
  ASSUME TypeInv, Ownership, NEW p \in Senders, op = p,
         NEW step \in Steps \ {"idle", "holder"}, Goto(p, step),
         UNCHANGED <<req, op, sending>>
  PROVE  Ownership'
  BY NoneIsNoProc
     DEF TypeInv, TypeOK, ProcOK, Ownership, OneOwner, DrainCarriesHead, Goto,
         Procs, Senders

LEMMA OwnershipStep ==
  ASSUME TypeInv, Ownership, [Next]_vars
  PROVE  Ownership'
  <1> DEFINE Moves(p) == \E step \in Steps \ {"idle", "holder"} :
                           Goto(p, step) /\ UNCHANGED <<req, op, sending>>
             Ends(p) == \E result \in Results :
                          Finish(p, result) /\ UNCHANGED sending
  <1>1. ASSUME NEW p \in Senders, op = p, Moves(p) \/ Ends(p)
        PROVE  Ownership'
    BY <1>1, FinishOwned, AdvanceOwned
  <1>2. CASE UNCHANGED coreVars
    BY <1>2 DEF coreVars, Ownership, OneOwner, DrainCarriesHead
  <1>3. ASSUME NEW h \in Handlers, StartStep(h)
        PROVE  Ownership'
    <2>1. h \in Senders /\ h \in Procs /\ h # Drain
      BY ProcsDistinct DEF Senders, Procs
    <2>2. CASE \E r \in Prompts, m \in {"send", "queue", "steer"} : Submit(h, r, m)
      BY <2>1, <2>2, NoneIsNoProc
         DEF Submit, Goto, TypeInv, TypeOK, ProcOK, Ownership, OneOwner,
             DrainCarriesHead, Procs, Senders
    <2>3. CASE Enqueue(h) \/ RouteSteer(h) \/ RouteSend(h)
      <3>1. op = h
        BY <2>1, <2>3 DEF Enqueue, RouteSteer, RouteSend, Ownership, OneOwner
      <3>2. Moves(h) \/ Ends(h)
        BY <2>3 DEF Enqueue, RouteSteer, RouteSend, Advance, ToRecord, ToCheck,
                    Steps, Results, Outcomes
      <3> QED BY <1>1, <2>1, <3>1, <3>2
    <2> QED BY <1>3, <2>2, <2>3 DEF StartStep
  <1>4. ASSUME NEW p \in Senders, SenderStep(p)
        PROVE  Ownership'
    <2>1. p \in Procs
      BY DEF Procs
    <2>2. CASE CheckHolder(p)
      BY <2>1, <2>2, NoneIsNoProc
         DEF CheckHolder, Goto, TypeInv, TypeOK, ProcOK, Ownership, OneOwner,
             DrainCarriesHead, Procs, Senders
    <2>3. CASE \E inUse \in BOOLEAN : HolderAnswered(p, inUse)
      BY <2>1, <2>3, NoneIsNoProc
         DEF HolderAnswered, Finish, Goto, TypeInv, TypeOK, ProcOK, Ownership,
             OneOwner, DrainCarriesHead, Procs, Senders
    <2>4. CASE ~CheckHolder(p) /\ ~\E inUse \in BOOLEAN : HolderAnswered(p, inUse)
      <3>1. op = p
        BY <1>4, <2>1, <2>4
           DEF SenderStep, OpenForPrompt, Unready, Commit, Takes, Accepts,
               Restore,
               Record, OpenEnds, SendFails, Steers, Ownership, OneOwner
      <3>2. CASE OpenForPrompt(p) \/ Unready(p) \/ Commit(p) \/ Takes(p) \/ Accepts(p)
        <4>1. Moves(p) \/ Ends(p)
          BY <3>2 DEF OpenForPrompt, Unready, Commit, Takes, Accepts, Advance,
                      ToRecord, Steps, Results
        <4> QED BY <1>1, <3>1, <4>1
      <3>3. CASE Restore(p) \/ Record(p)
        <4>1. Moves(p) \/ Ends(p)
          BY <3>3 DEF Restore, Record, ToRecord, Steps, Results
        <4> QED BY <1>1, <3>1, <4>1
      <3>4. CASE \E ok \in BOOLEAN : OpenEnds(p, ok)
        <4>1. p # View
          BY NoneIsNoProc DEF Senders, View, Drain
        <4>2. Moves(p) \/ Ends(p)
          BY <3>4, <4>1 DEF OpenEnds, Advance, ToRecord, Steps
        <4> QED BY <1>1, <3>1, <4>2
      <3>5. CASE \/ \E result \in {"busy", "rejected", "uncertain"} :
                      SendFails(p, result)
                 \/ \E result \in {"accepted", "rejected", "uncertain", "error"} :
                      Steers(p, result)
        <4>1. Moves(p) \/ Ends(p)
          BY <3>5 DEF SendFails, Steers, ToRecord, Steps, Results
        <4> QED BY <1>1, <3>1, <4>1
      <3> QED BY <1>4, <2>4, <3>2, <3>3, <3>4, <3>5 DEF SenderStep
    <2> QED BY <2>2, <2>3, <2>4
  <1>5. CASE DrainBegins
    BY <1>5, NoneIsNoProc
       DEF DrainBegins, ToCheck, Goto, TypeInv, TypeOK, ProcOK, Ownership,
           OneOwner,
           DrainCarriesHead, Procs, Senders
  <1>6. CASE DrainEnds
    BY <1>6, NoneIsNoProc
       DEF DrainEnds, Goto, TypeInv, TypeOK, ProcOK, Ownership, OneOwner,
           DrainCarriesHead, Procs, Senders
  <1>7. CASE OpenForView \/ \E ok \in BOOLEAN : OpenEnds(View, ok)
    <2>1. View # Drain
      BY DEF View, Drain
    <2> QED
      BY <1>7, <2>1, NoneIsNoProc
         DEF OpenForView, OpenEnds, Goto, TypeInv, TypeOK, ProcOK, Ownership,
             OneOwner, DrainCarriesHead, Procs, Senders
  <1>8. CASE \/ \E i \in DOMAIN queue : CancelQueued(i)
             \/ ClearQueue \/ Shutdown \/ \E r \in Prompts : LateTake(r)
    BY <1>8 DEF CancelQueued, ClearQueue, Shutdown, LateTake, Ownership,
                OneOwner,
                DrainCarriesHead
  <1> QED BY <1>2, <1>3, <1>4, <1>5, <1>6, <1>7, <1>8, OtherSteps DEF CoreStep

-----------------------------------------------------------------------------
(* Freshness.                                                              *)

\* Nothing joins the queue or gets an outcome, and what is pending was pending
\* with the same request or has just been looked up.
LEMMA FreshKept ==
  ASSUME Freshness, UNCHANGED <<queue, outcome>>,
         \A p \in Senders : Pending(p)' =>
            (Pending(p) /\ req'[p] = req[p]) \/ ~Known(req'[p])
  PROVE  Freshness'
  BY DEF Freshness, QueueFresh, CarriedFresh, Known

\* What RemoveAt leaves: every element but the i-th, in order.
LEMMA RemoveAtElements ==
  ASSUME NEW S, NEW s \in Seq(S), NEW i \in DOMAIN s
  PROVE  /\ DOMAIN RemoveAt(s, i) = 1 .. Len(s) - 1
         /\ \A j \in DOMAIN RemoveAt(s, i) :
              \E k \in DOMAIN s : /\ k # i /\ RemoveAt(s, i)[j] = s[k]
                                  /\ k = IF j < i THEN j ELSE j + 1
  <1> DEFINE left == SubSeq(s, 1, i - 1)
             right == SubSeq(s, i + 1, Len(s))
  <1>1. i \in 1 .. Len(s) /\ Len(s) \in Nat
    OBVIOUS
  <1>2. /\ left \in Seq(S) /\ Len(left) = i - 1
        /\ \A j \in 1 .. i - 1 : left[j] = s[j]
    BY <1>1, SubSeqProperties
  <1>3. /\ right \in Seq(S) /\ Len(right) = Len(s) - i
        /\ \A j \in 1 .. Len(s) - i : right[j] = s[i + j]
    BY <1>1, SubSeqProperties
  <1> HIDE DEF left, right
  <1>4. /\ Len(left \o right) = Len(s) - 1
        /\ \A j \in 1 .. Len(s) - 1 :
              (left \o right)[j] = IF j < i THEN s[j] ELSE s[j + 1]
    <2>1. /\ Len(left \o right) = Len(left) + Len(right)
          /\ \A j \in 1 .. Len(left) + Len(right) :
                (left \o right)[j] =
                  IF j <= Len(left) THEN left[j] ELSE right[j - Len(left)]
      BY <1>2, <1>3, ConcatProperties
    <2>2. ASSUME NEW j \in 1 .. Len(s) - 1, j >= i
          PROVE  right[j - (i - 1)] = s[j + 1]
      <3>1. j - (i - 1) \in 1 .. Len(s) - i /\ i + (j - (i - 1)) = j + 1
        BY <1>1, <2>2
      <3> QED BY <1>3, <3>1
    <2>3. ASSUME NEW j \in 1 .. Len(s) - 1, j < i
          PROVE  j <= Len(left) /\ left[j] = s[j]
      BY <1>1, <1>2, <2>3
    <2>4. Len(left) + Len(right) = Len(s) - 1
      BY <1>1, <1>2, <1>3
    <2>5. \A j \in 1 .. Len(s) - 1 : j >= i => ~(j <= Len(left))
      BY <1>1, <1>2
    <2>6. Len(left) = i - 1
      BY <1>2
    <2>7. ASSUME NEW j \in 1 .. Len(s) - 1
          PROVE  (left \o right)[j] = IF j < i THEN s[j] ELSE s[j + 1]
      <3>1. CASE j < i
        BY <2>1, <2>3, <2>4, <3>1
      <3>2. CASE ~(j < i)
        BY <1>1, <2>1, <2>2, <2>4, <2>5, <2>6, <3>2
      <3> QED BY <3>1, <3>2
    <2> QED BY <2>1, <2>4, <2>7
  <1>5. RemoveAt(s, i) = left \o right /\ left \o right \in Seq(S)
    BY <1>2, <1>3, ConcatProperties DEF RemoveAt, left, right
  <1>6. DOMAIN RemoveAt(s, i) = 1 .. Len(s) - 1
    BY <1>4, <1>5
  <1>7. ASSUME NEW j \in 1 .. Len(s) - 1
        PROVE  \E k \in DOMAIN s : /\ k # i /\ RemoveAt(s, i)[j] = s[k]
                                   /\ k = IF j < i THEN j ELSE j + 1
    <2>1. RemoveAt(s, i)[j] = IF j < i THEN s[j] ELSE s[j + 1]
      BY <1>4, <1>5
    <2>2. j \in DOMAIN s /\ j + 1 \in DOMAIN s
      OBVIOUS
    <2> QED BY <1>1, <2>1, <2>2
  <1> QED BY <1>6, <1>7

\* The goroutine that holds op is the only one past the in-use check.
LEMMA OnlyOwnerPending ==
  ASSUME Ownership, NEW p \in Senders, Pending(p)
  PROVE  op = p \/ (p = Drain /\ pc[p] = "epilogue" /\ op = Drain)
  BY DEF Ownership, OneOwner, Pending, Procs

LEMMA RequestKept ==
  ASSUME TypeInv, Freshness, NEW p \in Senders, Pending(p),
         UNCHANGED <<queue, outcome, req>>,
         \A q \in Senders \ {p} : pc'[q] = pc[q] /\ res'[q] = res[q]
  PROVE  Freshness'
  BY FreshKept DEF Pending

LEMMA FinishFresh ==
  ASSUME TypeInv, Freshness, NEW p \in Senders, NEW result, Pending(p),
         Finish(p, result), UNCHANGED <<queue, outcome>>
  PROVE  Freshness'
  <1>1. \A q \in Senders \ {p} : /\ pc'[q] = pc[q] /\ res'[q] = res[q]
                                 /\ req'[q] = req[q]
    BY DEF TypeInv, TypeOK, ProcOK, Finish, Goto, Procs
  <1>2. p # Drain => ~Pending(p)'
    BY DEF TypeInv, TypeOK, ProcOK, Finish, Goto, Procs, Pending
  <1>3. p = Drain => UNCHANGED req
    BY DEF Finish
  <1> QED BY <1>1, <1>2, <1>3, FreshKept DEF Pending

LEMMA FreshnessStep ==
  ASSUME TypeInv, Ownership, Freshness, [Next]_vars
  PROVE  Freshness'
  <1> USE DEF TypeInv, TypeOK, ProcOK
  <1>1. CASE UNCHANGED coreVars
    BY <1>1, FreshKept DEF coreVars, Pending
  <1>2. ASSUME NEW h \in Handlers, StartStep(h)
        PROVE  Freshness'
    <2>1. h \in Senders /\ h \in Procs /\ h # Drain
      BY ProcsDistinct DEF Senders, Procs
    <2>2. ASSUME NEW r \in Prompts, NEW m \in {"send", "queue", "steer"},
                 Submit(h, r, m)
          PROVE  Freshness'
      <3>1. \A q \in Senders \ {h} : /\ pc'[q] = pc[q] /\ res'[q] = res[q]
                                     /\ req'[q] = req[q]
        BY <2>2 DEF Submit, Goto, Procs
      <3>2. ~Known(req'[h]) /\ UNCHANGED <<queue, outcome>>
        BY <2>1, <2>2 DEF Submit
      <3> QED BY <3>1, <3>2, FreshKept DEF Pending
    <2>3. CASE Enqueue(h)
      <3>1. Pending(h) /\ ~Known(req[h]) /\ op = h
        BY <2>1, <2>3 DEF Enqueue, Pending, Freshness, CarriedFresh,
                          Ownership, OneOwner
      <3>2. CASE UNCHANGED queue
        BY <2>1, <2>3, <3>1, <3>2, FinishFresh DEF Enqueue
      <3>3. CASE queue' = Append(queue, req[h])
        <4>1. QueueFresh'
          BY <2>3, <3>1, <3>3
             DEF Enqueue, Freshness, QueueFresh, Known, Range, QueueOK
        <4>2. \A q \in Senders : ~Pending(q)'
          BY <2>1, <2>3, <3>1, NoneIsNoProc
             DEF Enqueue, Finish, Goto, Pending, Ownership, OneOwner, Procs
        <4> QED BY <4>1, <4>2 DEF Freshness, CarriedFresh
      <3> QED BY <2>3, <3>2, <3>3 DEF Enqueue
    <2>4. CASE RouteSteer(h) \/ RouteSend(h)
      <3>1. Pending(h)
        BY <2>4 DEF RouteSteer, RouteSend, Pending
      <3>2. CASE Finish(h, "error")
        BY <2>1, <2>4, <3>1, <3>2, FinishFresh DEF RouteSteer, RouteSend
      <3>3. CASE ~Finish(h, "error")
        BY <2>1, <2>4, <3>1, <3>3, RequestKept
           DEF RouteSteer, RouteSend, Advance, ToRecord, Goto, Procs
      <3> QED BY <3>2, <3>3
    <2> QED BY <1>2, <2>2, <2>3, <2>4 DEF StartStep
  <1>3. ASSUME NEW p \in Senders, SenderStep(p)
        PROVE  Freshness'
    <2>1. p \in Procs
      BY DEF Procs
    <2>2. CASE CheckHolder(p)
      BY <2>1, <2>2, FreshKept DEF CheckHolder, Goto, Pending, Procs
    <2>3. ASSUME NEW inUse \in BOOLEAN, HolderAnswered(p, inUse)
          PROVE  Freshness'
      <3>1. \A q \in Senders \ {p} : /\ pc'[q] = pc[q] /\ res'[q] = res[q]
                                     /\ req'[q] = req[q]
        BY <2>3 DEF HolderAnswered, Finish, Goto, Procs
      <3>2. CASE Known(req[p])
        <4>1. ~Pending(p)'
          BY <2>1, <2>3, <3>2
             DEF HolderAnswered, Checked, Finish, Goto, Pending
        <4> QED BY <2>3, <3>1, <4>1, FreshKept DEF HolderAnswered, Pending
      <3>3. CASE ~Known(req[p])
        <4>1. Pending(p)' => req'[p] = req[p]
          BY <2>1, <2>3 DEF HolderAnswered, Finish, Goto, Pending
        <4> QED BY <2>3, <3>1, <3>3, <4>1, FreshKept DEF HolderAnswered,
                                                         Pending
      <3> QED BY <3>2, <3>3
    <2>4. CASE OpenForPrompt(p) \/ Unready(p) \/ Commit(p) \/ Takes(p) \/ Accepts(p)
               \/ Restore(p)
      <3>1. Pending(p) /\ UNCHANGED <<queue, outcome>>
        BY <2>4 DEF OpenForPrompt, Unready, Commit, Takes, Accepts, Restore,
                    Pending
      <3>2. CASE Finish(p, "error")
        BY <3>1, <3>2, FinishFresh
      <3>3. CASE ~Finish(p, "error")
        BY <2>1, <2>4, <3>1, <3>3, RequestKept
           DEF OpenForPrompt, Unready, Commit, Takes, Accepts, Restore,
               Advance,
               ToRecord, Goto, Procs
      <3> QED BY <3>2, <3>3
    <2>5. CASE Record(p)
      <3>1. op = p /\ Pending(p)
        BY <2>1, <2>5 DEF Record, Ownership, OneOwner, Pending
      <3>2. \A q \in Senders : ~Pending(q)'
        BY <2>1, <2>5, <3>1, NoneIsNoProc
           DEF Record, Finish, Goto, Pending, Ownership, OneOwner, Procs
      <3>3. req[p] \notin Range(queue)
        BY <3>1 DEF Freshness, CarriedFresh, Known
      <3>4. QueueFresh'
        BY <2>5, <3>3 DEF Record, Freshness, QueueFresh, QueueOK, Range
      <3> QED BY <3>2, <3>4 DEF Freshness, CarriedFresh
    <2>6. CASE \E ok \in BOOLEAN : OpenEnds(p, ok)
      <3>1. p # View /\ Pending(p)
        BY <2>6, NoneIsNoProc DEF OpenEnds, Pending
      <3> QED BY <2>1, <2>6, <3>1, RequestKept
              DEF OpenEnds, Advance, ToRecord, Goto, Procs
    <2>7. CASE \/ \E result \in {"busy", "rejected", "uncertain"} :
                    SendFails(p, result)
               \/ \E result \in {"accepted", "rejected", "uncertain", "error"} :
                    Steers(p, result)
      <3>1. Pending(p) /\ UNCHANGED <<queue, outcome>>
        BY <2>7 DEF SendFails, Steers, Pending
      <3>2. CASE Finish(p, "error")
        BY <3>1, <3>2, FinishFresh
      <3>3. CASE ~Finish(p, "error")
        BY <2>1, <2>7, <3>1, <3>3, RequestKept
           DEF SendFails, Steers, ToRecord, Goto, Procs
      <3> QED BY <3>2, <3>3
    <2> QED BY <1>3, <2>2, <2>3, <2>4, <2>5, <2>6, <2>7 DEF SenderStep
  <1>4. CASE DrainBegins
    <2>1. CASE UNCHANGED <<queue, pc, req>>
      BY <1>4, <2>1, FreshKept DEF DrainBegins, Pending
    <2>2. CASE /\ queue # <<>> /\ queue' = Tail(queue) /\ op' = Drain
               /\ Goto(Drain, ToCheck(Drain, "open"))
               /\ req' = [req EXCEPT ![Drain] = Head(queue)]
      <3>1. \A i \in DOMAIN queue' : i + 1 \in DOMAIN queue /\ queue'[i] = queue[i + 1]
        BY <2>2, HeadTailProperties DEF QueueOK
      <3>2. QueueFresh'
        BY <1>4, <3>1 DEF DrainBegins, Freshness, QueueFresh, QueueOK
      <3>3. outcome[queue[1]] = "none" /\ queue[1] \notin Range(queue')
        BY <2>2, <3>1 DEF Freshness, QueueFresh, QueueOK, Range
      <3>4. \A q \in Senders : Pending(q)' => q = Drain
        BY <1>4, <2>2, NoneIsNoProc
           DEF DrainBegins, Goto, Pending, Ownership, OneOwner, Procs
      <3>5. ~Known(req[Drain])'
        BY <1>4, <2>2, <3>3, NoneIsNoProc DEF DrainBegins, Known
      <3> QED BY <3>2, <3>4, <3>5 DEF Freshness, CarriedFresh
    <2> QED BY <1>4, <2>1, <2>2 DEF DrainBegins
  <1>5. CASE DrainEnds
    <2>1. op = Drain /\ req[Drain] \in Prompts
      BY <1>5, NoneIsNoProc DEF DrainEnds, Ownership, OneOwner, Carries
    <2>2. \A q \in Senders : ~Pending(q)'
      BY <1>5, <2>1, NoneIsNoProc DEF DrainEnds, Goto, Pending, Ownership,
                                      OneOwner, Procs
    <2>3. CASE UNCHANGED queue
      BY <1>5, <2>2, <2>3 DEF DrainEnds, Freshness, QueueFresh, CarriedFresh
    <2>4. CASE /\ res[Drain] \in {"error", "held"}
               /\ queue' = PutBack(queue, req[Drain])
      <3>1. ~Known(req[Drain])
        BY <1>5, <2>4, NoneIsNoProc DEF DrainEnds, Freshness, CarriedFresh,
                                        Pending
      <3>2. \A i \in DOMAIN queue' :
              \/ i = 1 /\ queue'[i] = req[Drain]
              \/ i # 1 /\ i - 1 \in DOMAIN queue /\ queue'[i] = queue[i - 1]
        BY <2>1, <2>4 DEF PutBack, QueueOK
      <3>3. \A i \in DOMAIN queue : outcome[queue[i]] = "none" /\ queue[i] # req[Drain]
        BY <3>1 DEF Freshness, QueueFresh, Known, Range
      <3>4. DOMAIN queue' \subseteq Int
        BY <2>1, <2>4 DEF PutBack, QueueOK
      <3>5. QueueFresh'
        BY <1>5, <3>1, <3>2, <3>3, <3>4 DEF DrainEnds, Freshness, QueueFresh,
                                            Known
      <3> QED BY <2>2, <3>5 DEF Freshness, CarriedFresh
    <2> QED BY <1>5, <2>3, <2>4 DEF DrainEnds
  <1>6. CASE OpenForView \/ \E ok \in BOOLEAN : OpenEnds(View, ok)
    <2>1. UNCHANGED <<req, res, queue, outcome>> /\ \A q \in Senders : pc'[q] = pc[q]
      BY <1>6, NoneIsNoProc DEF OpenForView, OpenEnds, Goto, Procs
    <2> QED BY <2>1, FreshKept DEF Pending
  <1>7. ASSUME NEW i \in DOMAIN queue, CancelQueued(i)
        PROVE  Freshness'
    <2>1. \A j \in DOMAIN queue' :
            \E k \in DOMAIN queue : k # i /\ queue'[j] = queue[k] /\
                                    k = IF j < i THEN j ELSE j + 1
      BY <1>7, RemoveAtElements DEF CancelQueued, QueueOK
    <2>2. QueueFresh'
      <3>1. queue' \in Seq(Prompts) /\ DOMAIN queue' \subseteq Int
        BY <1>7, CancelQueuedType DEF TypeInv, TypeOK, QueueOK
      <3>2. \A j, k \in DOMAIN queue' : queue'[j] = queue'[k] => j = k
        BY <2>1, <3>1 DEF Freshness, QueueFresh, QueueOK
      <3>3. \A j \in DOMAIN queue' : outcome'[queue'[j]] = "none"
        BY <1>7, <2>1 DEF CancelQueued, Freshness, QueueFresh, QueueOK
      <3> QED BY <3>2, <3>3 DEF QueueFresh
    <2>3. \A q \in Senders : Pending(q)' => Pending(q) /\ req'[q] = req[q]
      BY <1>7 DEF CancelQueued, Pending
    <2>4. \A r \in Prompts : ~Known(r) => ~Known(r)'
      BY <1>7, <2>1 DEF CancelQueued, Known, QueueOK, Range
    <2>5. \A q \in Senders : Pending(q) => req[q] \in Prompts
      BY DEF Carries, Pending
    <2> QED BY <1>7, <2>2, <2>3, <2>4, <2>5 DEF CancelQueued, Freshness,
                                                CarriedFresh
  <1>8. CASE ClearQueue \/ Shutdown
    <2>1. QueueFresh'
      BY <1>8 DEF ClearQueue, Shutdown, QueueFresh
    <2>2. \A q \in Senders : Pending(q)' => Pending(q) /\ req'[q] = req[q]
      BY <1>8 DEF ClearQueue, Shutdown, Pending
    <2>3. \A r \in Prompts : ~Known(r) => ~Known(r)'
      BY <1>8 DEF ClearQueue, Shutdown, Known, QueueOK, Range
    <2>4. \A q \in Senders : Pending(q) => req[q] \in Prompts
      BY DEF Carries, Pending
    <2> QED BY <1>8, <2>1, <2>2, <2>3, <2>4
            DEF ClearQueue, Shutdown, Freshness, CarriedFresh
  <1>9. CASE \E r \in Prompts : LateTake(r)
    BY <1>9, FreshKept DEF LateTake, Pending
  <1> QED BY <1>1, <1>2, <1>3, <1>4, <1>5, <1>6, <1>7, <1>8, <1>9, OtherSteps
          DEF CoreStep

-----------------------------------------------------------------------------
(* Delivery.                                                               *)

AfterSend(p) == op = p /\ pc[p] \in {"took", "back", "record"}

\* While nobody is past the provider's Send, all that was given has an outcome.
LEMMA AllGivenRecorded ==
  ASSUME Delivery, \A p \in Senders : AfterSend(p) => req[p] \notin Given
  PROVE  \A r \in Given : outcome[r] # "none"
  BY DEF Delivery, GivenIsCarried, AfterSend

LEMMA DeliveryKept ==
  ASSUME Delivery, UNCHANGED <<taken, floating>>,
         Range(queue') \cap Given = {},
         \A r \in Given : outcome'[r] # "cancelled",
         \A p \in Senders : MayGive(p)' =>
            (MayGive(p) /\ req'[p] = req[p]) \/ req'[p] \notin Given,
         \A r \in Given : outcome'[r] = "none" =>
            \E p \in Senders : AfterSend(p)' /\ req'[p] = r
  PROVE  Delivery'
  <1>1. UNCHANGED Given
    BY DEF Given
  <1>2. GivenOnce'
    BY DEF Delivery, GivenOnce
  <1>3. QueueNotGiven' /\ CancelledNotGiven'
    BY <1>1 DEF QueueNotGiven, CancelledNotGiven
  <1>4. CarriedNotGiven'
    BY <1>1 DEF Delivery, CarriedNotGiven
  <1>5. GivenIsCarried'
    BY <1>1 DEF GivenIsCarried, AfterSend
  <1> QED BY <1>2, <1>3, <1>4, <1>5 DEF Delivery

\* A goroutine that may still give its prompt takes a step of its own.
LEMMA OwnerMoves ==
  ASSUME TypeInv, Ownership, Delivery, NEW p \in Senders, op = p, MayGive(p),
         UNCHANGED <<taken, floating, outcome>>,
         Range(queue') \subseteq Range(queue) \cup {req[p]},
         \A q \in Senders \ {p} : pc'[q] = pc[q] /\ res'[q] = res[q] /\ req'[q] = req[q],
         MayGive(p)' => req'[p] = req[p]
  PROVE  Delivery'
  <1>1. req[p] \notin Given
    BY DEF Delivery, CarriedNotGiven
  <1>2. \A r \in Given : outcome[r] # "none"
    BY <1>1, AllGivenRecorded DEF AfterSend
  <1>3. Range(queue') \cap Given = {}
    BY <1>1 DEF Delivery, QueueNotGiven
  <1>4. \A r \in Given : outcome'[r] # "cancelled"
    BY DEF Delivery, CancelledNotGiven
  <1>5. \A q \in Senders \ {p} : MayGive(q)' => MayGive(q) /\ req'[q] = req[q]
    BY DEF MayGive, Pending
  <1> QED BY <1>1, <1>2, <1>3, <1>4, <1>5, DeliveryKept

LEMMA FinishDelivered ==
  ASSUME TypeInv, Ownership, Delivery, NEW p \in Senders, NEW result, op = p,
         MayGive(p), Finish(p, result), UNCHANGED <<taken, floating, outcome>>,
         Range(queue') \subseteq Range(queue) \cup {req[p]}
  PROVE  Delivery'
  <1>1. \A q \in Senders \ {p} : pc'[q] = pc[q] /\ res'[q] = res[q] /\ req'[q] = req[q]
    BY DEF TypeInv, TypeOK, ProcOK, Finish, Goto, Procs
  <1>2. MayGive(p)' => req'[p] = req[p]
    BY DEF TypeInv, TypeOK, ProcOK, Finish, Goto, Procs, MayGive, Pending
  <1> QED BY <1>1, <1>2, OwnerMoves

LEMMA AdvanceDelivered ==
  ASSUME TypeInv, Ownership, Delivery, NEW p \in Senders, op = p, MayGive(p),
         NEW step \in Steps, Goto(p, step),
         UNCHANGED <<taken, floating, outcome, queue, req>>,
         \A q \in Senders \ {p} : res'[q] = res[q]
  PROVE  Delivery'
  <1>1. \A q \in Senders \ {p} : pc'[q] = pc[q]
    BY DEF TypeInv, TypeOK, ProcOK, Goto, Procs
  <1> QED BY <1>1, OwnerMoves

\* A prompt that was not given yet is given: its goroutine is now past Send.
LEMMA NewlyGiven ==
  ASSUME TypeInv, Ownership, Freshness, Delivery, NEW p \in Senders, op = p,
         MayGive(p), UNCHANGED <<queue, outcome, req, op>>,
         \A q \in Senders \ {p} : pc'[q] = pc[q] /\ res'[q] = res[q],
         pc'[p] \in {"took", "back", "record"}, ~MayGive(p)',
         Given' = Given \cup {req[p]}, GivenOnce'
  PROVE  Delivery'
  <1>1. /\ req[p] \notin Given /\ outcome[req[p]] = "none"
        /\ req[p] \notin Range(queue)
    BY DEF Delivery, CarriedNotGiven, Freshness, CarriedFresh, Known, MayGive
  <1>2. \A r \in Given : outcome[r] # "none"
    BY <1>1, AllGivenRecorded DEF AfterSend
  <1>3. QueueNotGiven'
    BY <1>1 DEF Delivery, QueueNotGiven
  <1>4. CancelledNotGiven'
    BY <1>1 DEF Delivery, CancelledNotGiven
  <1>5. \A q \in Senders : ~MayGive(q)'
    <2>1. \A q \in Senders \ {p} : ~MayGive(q)
      BY OnlyOwnerPending DEF MayGive
    <2> QED BY <2>1 DEF MayGive, Pending
  <1>6. GivenIsCarried'
    BY <1>1, <1>2 DEF GivenIsCarried
  <1> QED BY <1>3, <1>4, <1>5, <1>6 DEF Delivery, CarriedNotGiven

LEMMA AppendGiven ==
  ASSUME TypeInv, Delivery, NEW r \in Prompts, r \notin Given,
         taken' = Append(taken, r), UNCHANGED floating
  PROVE  Given' = Given \cup {r} /\ GivenOnce'
  <1>1. taken \in Seq(Prompts)
    BY DEF TypeInv, TypeOK, HistoryOK
  <1>2. /\ DOMAIN taken = 1 .. Len(taken) /\ Len(taken) \in Nat
        /\ DOMAIN taken' = 1 .. Len(taken) + 1
        /\ taken'[Len(taken) + 1] = r
        /\ \A i \in 1 .. Len(taken) : taken'[i] = taken[i]
    BY <1>1
  <1>3. Range(taken') = Range(taken) \cup {r}
    BY <1>2 DEF Range
  <1>4. \A i \in DOMAIN taken : taken[i] # r
    BY DEF Given, Range
  <1>5. \A i, j \in DOMAIN taken' : taken'[i] = taken'[j] => i = j
    BY <1>2, <1>4 DEF Delivery, GivenOnce
  <1>6. floating' \cap Range(taken') = {}
    BY <1>3 DEF Delivery, GivenOnce, Given
  <1> QED BY <1>3, <1>5, <1>6 DEF Given, GivenOnce

LEMMA FloatGiven ==
  ASSUME Delivery, NEW r, r \notin Given,
         floating' = floating \cup {r}, UNCHANGED taken
  PROVE  Given' = Given \cup {r} /\ GivenOnce'
  BY DEF Delivery, GivenOnce, Given

\* The steps at which a prompt is given, or its fate becomes uncertain.
LEMMA GiveStep ==
  ASSUME TypeInv, Ownership, Freshness, Delivery, NEW p \in Senders,
         \/ Takes(p)
         \/ \E result \in {"busy", "rejected", "uncertain"} : SendFails(p, result)
         \/ \E result \in {"accepted", "rejected", "uncertain", "error"} :
              Steers(p, result)
  PROVE  Delivery'
  <1> USE DEF TypeInv, TypeOK, ProcOK
  <1>1. p \in Procs /\ op = p /\ req[p] \in Prompts
    BY DEF Procs, Takes, SendFails, Steers, Ownership, OneOwner, Carries
  <1>2. MayGive(p) => req[p] \notin Given
    BY DEF Delivery, CarriedNotGiven
  <1>3. CASE Takes(p)
    <2>1. MayGive(p) /\ ~MayGive(p)' /\ pc'[p] = "took"
      BY <1>1, <1>3 DEF Takes, Advance, Goto, MayGive, Pending
    <2>2. \A q \in Senders \ {p} : pc'[q] = pc[q] /\ res'[q] = res[q]
      BY <1>3 DEF Takes, Advance, Goto, Procs
    <2>3. Given' = Given \cup {req[p]} /\ GivenOnce'
      BY <1>1, <1>2, <1>3, <2>1, AppendGiven DEF Takes
    <2> QED BY <1>1, <1>3, <2>1, <2>2, <2>3, NewlyGiven DEF Takes, Advance
  <1>4. ASSUME NEW result \in {"busy", "rejected", "uncertain"},
               SendFails(p, result)
        PROVE  Delivery'
    <2>1. pc'[p] = "back" /\ res'[p] = result /\ pc[p] \in {"sent", "took"}
      BY <1>1, <1>4 DEF SendFails, Goto
    <2>2. \A q \in Senders \ {p} : pc'[q] = pc[q] /\ res'[q] = res[q]
      BY <1>4 DEF SendFails, Goto, Procs
    <2>3. CASE pc[p] = "sent" /\ UNCHANGED floating
      <3>1. MayGive(p)
        BY <2>3 DEF MayGive, Pending
      <3> QED BY <1>1, <1>4, <2>2, <2>3, <3>1, AdvanceDelivered DEF SendFails,
                                                                    Steps
    <2>4. CASE pc[p] = "sent" /\ ~UNCHANGED floating
      <3>1. result = "uncertain" /\ floating' = floating \cup {req[p]}
        BY <1>4, <2>4 DEF SendFails
      <3>2. MayGive(p) /\ ~MayGive(p)'
        BY <2>1, <2>4, <3>1 DEF MayGive, Pending
      <3>3. Given' = Given \cup {req[p]} /\ GivenOnce'
        BY <1>2, <1>4, <3>1, <3>2, FloatGiven DEF SendFails
      <3> QED BY <1>1, <1>4, <2>1, <2>2, <3>2, <3>3, NewlyGiven DEF SendFails
    <2>5. CASE pc[p] = "took"
      <3>1. result = "uncertain" /\ UNCHANGED <<taken, floating>>
        BY <1>4, <2>5 DEF SendFails
      <3>2. ~MayGive(p)' /\ \A q \in Senders \ {p} : MayGive(q)' => MayGive(q)
        BY <2>1, <2>2, <3>1 DEF MayGive, Pending
      <3>3. \A q \in Senders : AfterSend(q) => AfterSend(q)' /\ req'[q] = req[q]
        BY <1>4, <2>1, <2>2 DEF SendFails, AfterSend
      <3>4. \A r \in Given : outcome'[r] = "none" =>
              \E q \in Senders : AfterSend(q)' /\ req'[q] = r
        BY <1>4, <3>3 DEF SendFails, Delivery, GivenIsCarried, AfterSend
      <3>5. UNCHANGED <<queue, outcome, req>>
        BY <1>4 DEF SendFails
      <3> QED BY <3>1, <3>2, <3>4, <3>5, DeliveryKept
              DEF Delivery, QueueNotGiven, CancelledNotGiven
    <2> QED BY <2>1, <2>3, <2>4, <2>5
  <1>5. ASSUME NEW result \in {"accepted", "rejected", "uncertain", "error"},
               Steers(p, result)
        PROVE  Delivery'
    <2>1. MayGive(p) /\ pc[p] = "steer"
      BY <1>5 DEF Steers, MayGive, Pending
    <2>2. CASE result = "error"
      <3>1. UNCHANGED <<taken, floating, outcome, queue>> /\ Finish(p, result)
        BY <1>5, <2>2 DEF Steers
      <3> QED BY <1>1, <2>1, <3>1, FinishDelivered
    <2>3. CASE result # "error"
      <3>1. /\ pc'[p] = "record" /\ res'[p] = result
            /\ UNCHANGED <<queue, outcome, req, op>>
            /\ Goto(p, "record")
        BY <1>1, <1>5, <2>3 DEF Steers, ToRecord, Goto
      <3>2. \A q \in Senders \ {p} : pc'[q] = pc[q] /\ res'[q] = res[q]
        BY <1>5, <2>3 DEF Steers, ToRecord, Goto, Procs
      <3>3. CASE UNCHANGED <<taken, floating>>
        BY <1>1, <2>1, <3>1, <3>2, <3>3, AdvanceDelivered DEF Steps
      <3>4. CASE ~UNCHANGED <<taken, floating>>
        <4>1. result \in {"accepted", "uncertain"}
          BY <1>5, <3>4 DEF Steers
        <4>2. ~MayGive(p)'
          BY <3>1, <4>1 DEF MayGive
        <4>3. \/ taken' = Append(taken, req[p]) /\ UNCHANGED floating
              \/ floating' = floating \cup {req[p]} /\ UNCHANGED taken
          BY <1>5, <3>4 DEF Steers
        <4>4. Given' = Given \cup {req[p]} /\ GivenOnce'
          BY <1>1, <1>2, <2>1, <4>3, AppendGiven, FloatGiven
        <4> QED BY <1>1, <2>1, <3>1, <3>2, <4>2, <4>4, NewlyGiven
      <3> QED BY <3>3, <3>4
    <2> QED BY <2>2, <2>3
  <1> QED BY <1>3, <1>4, <1>5

\* While op is free, or held by one not past Send, all that was given has an
\* outcome, so a step that leaves the outcomes and gives nothing is harmless.
LEMMA NothingGiven ==
  ASSUME Delivery, \A p \in Senders : ~AfterSend(p),
         UNCHANGED <<taken, floating, outcome>>,
         Range(queue') \subseteq Range(queue),
         \A p \in Senders : MayGive(p)' =>
            \/ MayGive(p) /\ req'[p] = req[p]
            \/ outcome[req'[p]] = "none" \/ req'[p] \in Range(queue)
  PROVE  Delivery'
  <1>1. \A r \in Given : outcome[r] # "none" /\ r \notin Range(queue)
    BY AllGivenRecorded DEF Delivery, QueueNotGiven
  <1>2. \A r \in Given : outcome'[r] # "cancelled"
    BY DEF Delivery, CancelledNotGiven
  <1> QED BY <1>1, <1>2, DeliveryKept

\* A goroutine past Send moves on without dropping its prompt.
LEMMA StaysAfterSend ==
  ASSUME TypeInv, Delivery, NEW p \in Senders, NEW step \in Steps,
         step = "record", AfterSend(p), Goto(p, step), ~MayGive(p)',
         UNCHANGED <<op, queue, outcome, taken, floating, req>>,
         \A q \in Senders \ {p} : res'[q] = res[q]
  PROVE  Delivery'
  <1>1. \A q \in Senders \ {p} : pc'[q] = pc[q]
    BY DEF TypeInv, TypeOK, ProcOK, Goto, Procs
  <1>2. pc'[p] = "record"
    BY DEF TypeInv, TypeOK, ProcOK, Goto, Procs
  <1>3. \A q \in Senders : AfterSend(q) => AfterSend(q)' /\ req'[q] = req[q]
    BY <1>1, <1>2 DEF AfterSend
  <1>4. \A r \in Given : outcome'[r] = "none" =>
          \E q \in Senders : AfterSend(q)' /\ req'[q] = r
    BY <1>3 DEF Delivery, GivenIsCarried, AfterSend
  <1>5. \A q \in Senders : MayGive(q)' => MayGive(q) /\ req'[q] = req[q]
    BY <1>1 DEF MayGive, Pending
  <1> QED BY <1>4, <1>5, DeliveryKept DEF Delivery, QueueNotGiven,
                                          CancelledNotGiven

LEMMA StartDelivered ==
  ASSUME TypeInv, Ownership, Freshness, Delivery, NEW h \in Handlers,
         StartStep(h)
  PROVE  Delivery'
  <1> USE DEF TypeInv, TypeOK, ProcOK
  <1>1. h \in Senders /\ h \in Procs /\ h # Drain
    BY ProcsDistinct DEF Senders, Procs
  <1>2. ASSUME NEW r \in Prompts, NEW m \in {"send", "queue", "steer"},
               Submit(h, r, m)
        PROVE  Delivery'
    <2>1. \A q \in Senders : ~AfterSend(q)
      BY <1>2, NoneIsNoProc DEF Submit, AfterSend, Procs
    <2>2. \A q \in Senders \ {h} : /\ pc'[q] = pc[q] /\ res'[q] = res[q]
                                   /\ req'[q] = req[q]
      BY <1>2 DEF Submit, Goto, Procs
    <2>3. outcome[req'[h]] = "none"
      BY <1>1, <1>2 DEF Submit, Known
    <2>4. UNCHANGED <<taken, floating, outcome, queue>>
      BY <1>2 DEF Submit
    <2>5. \A q \in Senders : MayGive(q)' =>
            \/ MayGive(q) /\ req'[q] = req[q]
            \/ outcome[req'[q]] = "none" \/ req'[q] \in Range(queue)
      BY <2>2, <2>3 DEF MayGive, Pending
    <2> QED BY <2>1, <2>4, <2>5, NothingGiven
  <1>3. CASE Enqueue(h) \/ RouteSteer(h) \/ RouteSend(h)
    <2>1. op = h /\ MayGive(h) /\ UNCHANGED <<taken, floating, outcome>>
      BY <1>1, <1>3 DEF Enqueue, RouteSteer, RouteSend, Ownership, OneOwner,
                        MayGive, Pending
    <2>2. CASE Enqueue(h)
      <3>1. Range(queue') \subseteq Range(queue) \cup {req[h]}
        <4>1. queue' = queue \/ queue' = Append(queue, req[h])
          BY <2>2 DEF Enqueue
        <4>2. queue \in Seq(Prompts) /\ req[h] \in Prompts
          BY <1>1, <2>2 DEF Enqueue, QueueOK, Carries
        <4> QED BY <4>1, <4>2 DEF Range
      <3>2. Finish(h, "done")
        BY <2>2 DEF Enqueue
      <3> QED BY <1>1, <2>1, <3>1, <3>2, FinishDelivered
    <2>3. CASE RouteSteer(h) \/ RouteSend(h)
      <3>1. CASE Finish(h, "error")
        BY <1>1, <2>1, <2>3, <3>1, FinishDelivered DEF RouteSteer, RouteSend
      <3>2. CASE ~Finish(h, "error")
        <4>1. \E step \in Steps : Goto(h, step)
          BY <2>3, <3>2 DEF RouteSteer, RouteSend, Advance, ToRecord, ToCheck,
                            Steps
        <4>2. UNCHANGED <<queue, req>> /\ \A q \in Senders \ {h} : res'[q] = res[q]
          BY <2>3, <3>2 DEF RouteSteer, RouteSend, Advance, ToRecord
        <4> QED BY <1>1, <2>1, <4>1, <4>2, AdvanceDelivered
      <3> QED BY <3>1, <3>2
    <2> QED BY <1>3, <2>2, <2>3
  <1> QED BY <1>2, <1>3 DEF StartStep

LEMMA SenderDelivered ==
  ASSUME TypeInv, Ownership, Freshness, Delivery, NEW p \in Senders,
         SenderStep(p)
  PROVE  Delivery'
  <1> USE DEF TypeInv, TypeOK, ProcOK
  <1>1. p \in Procs /\ p # View
    BY NoneIsNoProc DEF Procs
  <1>2. CASE CheckHolder(p)
    <2>1. op = p /\ MayGive(p) /\ ~MayGive(p)'
      BY <1>1, <1>2 DEF CheckHolder, Goto, Ownership, OneOwner, MayGive,
                        Pending
    <2>2. \A q \in Senders \ {p} : /\ pc'[q] = pc[q] /\ res'[q] = res[q]
                                   /\ req'[q] = req[q]
      BY <1>2 DEF CheckHolder, Goto, Procs
    <2>3. UNCHANGED <<taken, floating, outcome, queue>>
      BY <1>2 DEF CheckHolder
    <2> QED BY <2>1, <2>2, <2>3, OwnerMoves
  <1>3. ASSUME NEW inUse \in BOOLEAN, HolderAnswered(p, inUse)
        PROVE  Delivery'
    <2>1. \A q \in Senders : ~AfterSend(q)
      BY <1>3, NoneIsNoProc DEF HolderAnswered, AfterSend, Procs
    <2>2. \A q \in Senders \ {p} : /\ pc'[q] = pc[q] /\ res'[q] = res[q]
                                   /\ req'[q] = req[q]
      BY <1>3 DEF HolderAnswered, Finish, Goto, Procs
    <2>3. MayGive(p)' => outcome[req'[p]] = "none"
      BY <1>1, <1>3 DEF HolderAnswered, Checked, Finish, Goto, MayGive,
                        Pending, Known
    <2>4. UNCHANGED <<taken, floating, outcome, queue>>
      BY <1>3 DEF HolderAnswered
    <2>5. \A q \in Senders : MayGive(q)' =>
            \/ MayGive(q) /\ req'[q] = req[q]
            \/ outcome[req'[q]] = "none" \/ req'[q] \in Range(queue)
      BY <2>2, <2>3 DEF MayGive, Pending
    <2> QED BY <2>1, <2>4, <2>5, NothingGiven
  <1>4. CASE OpenForPrompt(p) \/ Unready(p) \/ Commit(p)
             \/ \E ok \in BOOLEAN : OpenEnds(p, ok)
    <2>1. op = p /\ MayGive(p) /\ UNCHANGED <<taken, floating, outcome, queue>>
      BY <1>1, <1>4 DEF OpenForPrompt, Unready, Commit, OpenEnds, Ownership,
                        OneOwner, MayGive, Pending
    <2>2. CASE Finish(p, "error")
      BY <2>1, <2>2, FinishDelivered
    <2>3. CASE ~Finish(p, "error")
      <3>1. \E step \in Steps : Goto(p, step)
        BY <1>1, <1>4, <2>3 DEF OpenForPrompt, Unready, Commit, OpenEnds,
                                Advance,
                                ToRecord, Steps
      <3>2. UNCHANGED req /\ \A q \in Senders \ {p} : res'[q] = res[q]
        BY <1>1, <1>4, <2>3 DEF OpenForPrompt, Unready, Commit, OpenEnds,
                                Advance,
                                ToRecord
      <3> QED BY <2>1, <3>1, <3>2, AdvanceDelivered
    <2> QED BY <2>2, <2>3
  <1>5. CASE Accepts(p)
    <2>1. op = p /\ AfterSend(p) /\ Goto(p, "record") /\ ~MayGive(p)'
      BY <1>1, <1>5 DEF Accepts, ToRecord, Goto, Ownership, OneOwner,
                        AfterSend,
                        MayGive
    <2>2. /\ UNCHANGED <<op, queue, outcome, taken, floating, req>>
          /\ \A q \in Senders \ {p} : res'[q] = res[q]
      BY <1>5 DEF Accepts, ToRecord
    <2> QED BY <2>1, <2>2, StaysAfterSend DEF Steps
  <1>6. CASE Restore(p)
    <2>1. /\ op = p /\ AfterSend(p) /\ res[p] \in {"busy", "rejected", "uncertain"}
          /\ UNCHANGED <<queue, outcome, taken, floating>>
      BY <1>1, <1>6 DEF Restore, Ownership, OneOwner, AfterSend, Carries
    <2>2. CASE res[p] = "busy"
      <3>1. MayGive(p) /\ Finish(p, "error")
        BY <1>6, <2>2 DEF Restore, MayGive, Pending
      <3> QED BY <2>1, <3>1, FinishDelivered
    <2>3. CASE res[p] # "busy"
      <3>1. /\ Goto(p, "record") /\ UNCHANGED <<op, req>> /\ res'[p] = res[p]
            /\ \A q \in Senders \ {p} : res'[q] = res[q]
        BY <1>6, <2>3 DEF Restore, ToRecord
      <3>2. CASE res[p] = "rejected"
        <4>1. MayGive(p)
          BY <1>6, <3>2 DEF Restore, MayGive, Pending
        <4> QED BY <2>1, <3>1, <4>1, AdvanceDelivered DEF Steps
      <3>3. CASE res[p] = "uncertain"
        <4>1. ~MayGive(p)'
          BY <1>1, <3>1, <3>3 DEF MayGive, Goto
        <4> QED BY <2>1, <3>1, <4>1, StaysAfterSend DEF Steps
      <3> QED BY <2>1, <2>3, <3>2, <3>3
    <2> QED BY <2>2, <2>3
  <1>7. CASE Record(p)
    <2>1. op = p /\ AfterSend(p) /\ req[p] \in Prompts /\ Finish(p, "done")
      BY <1>1, <1>7 DEF Record, Ownership, OneOwner, AfterSend, Carries
    <2>2. /\ outcome'[req[p]] \notin {"none", "cancelled"}
          /\ \A r : r # req[p] => outcome'[r] = outcome[r]
      BY <1>7, <2>1 DEF Record, Carries, QueueOK, Outcomes
    <2>3. \A q \in Senders : ~MayGive(q)'
      BY <1>1, <1>7, <2>1, NoneIsNoProc
         DEF Finish, Goto, MayGive, Pending, Ownership, OneOwner, Procs
    <2>4. \A r \in Given : outcome'[r] # "none" /\ outcome'[r] # "cancelled"
      BY <2>1, <2>2 DEF Delivery, GivenIsCarried, CancelledNotGiven
    <2>5. UNCHANGED <<taken, floating, queue>>
      BY <1>7 DEF Record
    <2> QED BY <2>3, <2>4, <2>5, DeliveryKept DEF Delivery, QueueNotGiven
  <1>8. CASE \/ Takes(p)
             \/ \E result \in {"busy", "rejected", "uncertain"} : SendFails(p, result)
             \/ \E result \in {"accepted", "rejected", "uncertain", "error"} :
                  Steers(p, result)
    BY <1>8, GiveStep
  <1> QED BY <1>2, <1>3, <1>4, <1>5, <1>6, <1>7, <1>8 DEF SenderStep

LEMMA QueueDelivered ==
  ASSUME TypeInv, Delivery,
         \/ \E i \in DOMAIN queue : CancelQueued(i)
         \/ ClearQueue \/ Shutdown
  PROVE  Delivery'
  <1> USE DEF TypeInv, TypeOK
  <1>1. UNCHANGED <<taken, floating, op, pc, req, res>>
    BY DEF CancelQueued, ClearQueue, Shutdown
  <1>2. Range(queue') \subseteq Range(queue)
    <2>1. ASSUME NEW i \in DOMAIN queue, CancelQueued(i)
          PROVE  Range(queue') \subseteq Range(queue)
      <3>1. \A j \in DOMAIN queue' : \E k \in DOMAIN queue : queue'[j] = queue[k]
        BY <2>1, RemoveAtElements DEF CancelQueued, QueueOK
      <3> QED BY <3>1 DEF Range
    <2>2. CASE ClearQueue \/ Shutdown
      BY <2>2 DEF ClearQueue, Shutdown, Range
    <2> QED BY <2>1, <2>2
  <1>3. \A r \in Given : outcome'[r] = outcome[r]
    <2>1. Given \subseteq Prompts /\ Range(queue) \cap Given = {}
      <3>1. \A i \in DOMAIN taken : taken[i] \in Prompts
        BY DEF HistoryOK
      <3> QED BY <3>1 DEF HistoryOK, Given, Range, Delivery, QueueNotGiven
    <2>2. ASSUME NEW i \in DOMAIN queue, CancelQueued(i), NEW r \in Given
          PROVE  outcome'[r] = outcome[r]
      BY <2>1, <2>2 DEF CancelQueued, Range, QueueOK
    <2>3. CASE ClearQueue \/ Shutdown
      BY <2>1, <2>3 DEF ClearQueue, Shutdown
    <2> QED BY <2>2, <2>3
  <1>4. \A p \in Senders : MayGive(p)' => MayGive(p) /\ req'[p] = req[p]
    BY <1>1 DEF MayGive, Pending
  <1>5. \A r \in Given : outcome'[r] = "none" =>
          \E p \in Senders : AfterSend(p)' /\ req'[p] = r
    BY <1>1, <1>3 DEF Delivery, GivenIsCarried, AfterSend
  <1> QED BY <1>1, <1>2, <1>3, <1>4, <1>5, DeliveryKept
          DEF Delivery, QueueNotGiven, CancelledNotGiven

LEMMA LateTakeDelivered ==
  ASSUME TypeInv, Delivery, NEW r \in Prompts, LateTake(r)
  PROVE  Delivery'
  <1>1. taken \in Seq(Prompts) /\ taken' = Append(taken, r)
    BY DEF TypeInv, TypeOK, HistoryOK, LateTake
  <1>2. /\ DOMAIN taken = 1 .. Len(taken) /\ Len(taken) \in Nat
        /\ DOMAIN taken' = 1 .. Len(taken) + 1
        /\ taken'[Len(taken) + 1] = r
        /\ \A i \in 1 .. Len(taken) : taken'[i] = taken[i]
    BY <1>1
  <1>3. Range(taken') = Range(taken) \cup {r}
    BY <1>2 DEF Range
  <1>4. floating' = floating \ {r} /\ r \in floating
    BY DEF LateTake
  <1>5. r \notin Range(taken)
    BY <1>4 DEF Delivery, GivenOnce
  <1>6. \A i \in DOMAIN taken : taken[i] # r
    BY <1>5 DEF Range
  <1>7. \A i, j \in DOMAIN taken' : taken'[i] = taken'[j] => i = j
    BY <1>2, <1>6 DEF Delivery, GivenOnce
  <1>8. GivenOnce'
    BY <1>3, <1>4, <1>7 DEF Delivery, GivenOnce
  <1>9. UNCHANGED Given
    BY <1>3, <1>4 DEF Given
  <1>10. UNCHANGED <<op, pc, req, res, outcome, queue>>
    BY DEF LateTake
  <1>11. QueueNotGiven' /\ CancelledNotGiven'
    BY <1>9, <1>10 DEF Delivery, QueueNotGiven, CancelledNotGiven
  <1>12. CarriedNotGiven' /\ GivenIsCarried'
    BY <1>9, <1>10 DEF Delivery, CarriedNotGiven, GivenIsCarried, MayGive,
                       Pending
  <1> QED BY <1>8, <1>11, <1>12 DEF Delivery

LEMMA DeliveryStep ==
  ASSUME TypeInv, Ownership, Freshness, Delivery, [Next]_vars
  PROVE  Delivery'
  <1> USE DEF TypeInv, TypeOK, ProcOK
  <1>1. CASE UNCHANGED coreVars
    BY <1>1, DeliveryKept
       DEF coreVars, Delivery, QueueNotGiven, CancelledNotGiven,
           GivenIsCarried,
           MayGive, Pending, AfterSend
  <1>2. CASE DrainBegins
    <2>1. op = None /\ \A q \in Senders : ~AfterSend(q)
      BY <1>2, NoneIsNoProc DEF DrainBegins, AfterSend, Procs
    <2>2. UNCHANGED <<taken, floating, outcome, res>>
      BY <1>2 DEF DrainBegins
    <2>3. CASE UNCHANGED <<queue, pc, req>>
      BY <2>1, <2>2, <2>3, NothingGiven DEF MayGive, Pending
    <2>4. CASE /\ queue # <<>> /\ queue' = Tail(queue)
               /\ Goto(Drain, ToCheck(Drain, "open"))
               /\ req' = [req EXCEPT ![Drain] = Head(queue)]
      <3>1. Range(queue') \subseteq Range(queue) /\ Head(queue) \in Range(queue)
        <4>1. /\ \A i \in DOMAIN queue' :
                   i + 1 \in DOMAIN queue /\ queue'[i] = queue[i + 1]
              /\ Head(queue) = queue[1] /\ 1 \in DOMAIN queue
          BY <2>4, HeadTailProperties DEF QueueOK
        <4> QED BY <4>1 DEF Range
      <3>2. \A q \in Senders \ {Drain} : pc'[q] = pc[q] /\ req'[q] = req[q]
        BY <2>4 DEF Goto, Procs
      <3>3. req'[Drain] = Head(queue)
        BY <2>4, NoneIsNoProc
      <3>4. \A q \in Senders : MayGive(q)' =>
              \/ MayGive(q) /\ req'[q] = req[q]
              \/ req'[q] \in Range(queue)
        BY <2>2, <3>1, <3>2, <3>3 DEF MayGive, Pending
      <3> QED BY <2>1, <2>2, <3>1, <3>4, NothingGiven
    <2> QED BY <1>2, <2>3, <2>4 DEF DrainBegins
  <1>3. CASE DrainEnds
    <2>1. /\ op = Drain /\ req[Drain] \in Prompts
          /\ \A q \in Senders : ~AfterSend(q)
      BY <1>3, NoneIsNoProc DEF DrainEnds, Ownership, OneOwner, Carries,
                                AfterSend
    <2>2. UNCHANGED <<taken, floating, outcome>> /\ ~MayGive(Drain)'
      BY <1>3, NoneIsNoProc DEF DrainEnds, Goto, MayGive, Pending
    <2>3. \A q \in Senders \ {Drain} : /\ pc'[q] = pc[q] /\ res'[q] = res[q]
                                       /\ req'[q] = req[q]
      BY <1>3 DEF DrainEnds, Goto, Procs
    <2>4. CASE UNCHANGED queue
      BY <2>1, <2>2, <2>3, <2>4, NothingGiven DEF MayGive, Pending
    <2>5. CASE /\ res[Drain] \in {"error", "held"}
               /\ queue' = PutBack(queue, req[Drain])
      <3>1. MayGive(Drain)
        BY <1>3, <2>5 DEF DrainEnds, MayGive, Pending
      <3>2. Range(queue') \subseteq Range(queue) \cup {req[Drain]}
        BY <2>1, <2>5 DEF PutBack, QueueOK, Range
      <3> QED BY <2>1, <2>2, <2>3, <3>1, <3>2, NoneIsNoProc, OwnerMoves
    <2> QED BY <1>3, <2>4, <2>5 DEF DrainEnds
  <1>4. CASE OpenForView \/ \E ok \in BOOLEAN : OpenEnds(View, ok)
    <2>1. /\ UNCHANGED <<taken, floating, outcome, queue, req, res>>
          /\ \A q \in Senders : pc'[q] = pc[q]
      BY <1>4, NoneIsNoProc DEF OpenForView, OpenEnds, Goto, Procs
    <2>2. \A q \in Senders : op # q
      BY <1>4, NoneIsNoProc DEF OpenForView, OpenEnds, Ownership, OneOwner,
                                Procs
    <2> QED BY <2>1, <2>2, NothingGiven DEF AfterSend, MayGive, Pending
  <1> QED BY <1>1, <1>2, <1>3, <1>4, StartDelivered, SenderDelivered,
             QueueDelivered,
             LateTakeDelivered, OtherSteps DEF CoreStep

-----------------------------------------------------------------------------
(* Which steps write the outcomes, the queue's pause and the conversation. *)

LEMMA OutcomeSteps ==
  ASSUME [Next]_vars
  PROVE  \/ UNCHANGED outcome
         \/ \E p \in Senders : Record(p)
         \/ \E i \in DOMAIN queue : CancelQueued(i)
         \/ ClearQueue
  <1>1. CASE UNCHANGED coreVars
    BY <1>1 DEF coreVars
  <1>2. CASE \E h \in Handlers : StartStep(h)
    BY <1>2 DEF StartStep, Submit, Enqueue, RouteSteer, RouteSend
  <1>3. CASE \E p \in Senders : SenderStep(p)
    BY <1>3 DEF SenderStep, CheckHolder, OpenForPrompt, Unready, Commit, Takes,
                Accepts, Restore, HolderAnswered, OpenEnds, SendFails, Steers
  <1>4. CASE \/ DrainBegins \/ DrainEnds \/ OpenForView \/ Shutdown
             \/ \E ok \in BOOLEAN : OpenEnds(View, ok)
             \/ \E r \in Prompts : LateTake(r)
    BY <1>4 DEF DrainBegins, DrainEnds, OpenForView, Shutdown, OpenEnds,
                LateTake
  <1> QED BY <1>1, <1>2, <1>3, <1>4, OtherSteps DEF CoreStep

Pausing == UNCHANGED queue /\ (UNCHANGED paused \/ PauseQueue)

LEMMA PauseSteps ==
  ASSUME TypeInv, [Next]_vars
  PROVE  \/ Pausing \/ paused' = FALSE \/ queue' # <<>>
         \/ \E i \in DOMAIN queue : CancelQueued(i)
  <1> USE DEF Pausing
  <1>1. CASE UNCHANGED vars
    BY <1>1 DEF vars
  <1>2. CASE OwnerStep
    <2>1. CASE Settle \/ Reopen \/ Archive \/ Unarchive
      BY <2>1 DEF Settle, Reopen, Archive, Unarchive, MoveStage, Disconnect
    <2>2. CASE ViewOpen \/ Stop \/ Close \/ Delete
      BY <2>2 DEF ViewOpen, Stop, Close, Delete, Disconnect
    <2>3. CASE ClearQueue \/ ResumeQueue
      BY <2>3 DEF ClearQueue, ResumeQueue
    <2>4. CASE \E h \in Handlers, r \in Prompts, m \in {"send", "queue", "steer"} :
                  Submit(h, r, m)
      BY <2>4 DEF Submit
    <2> QED BY <1>2, <2>1, <2>2, <2>3, <2>4 DEF OwnerStep
  <1>3. CASE ServiceStep
    BY <1>3 DEF ServiceStep, CloseIdle, Shutdown
  <1>4. CASE ProviderStep
    <2>1. CASE \/ OwnTurn \/ Asks \/ Answered \/ AgentStarts \/ AgentsEnd
               \/ \E r \in Prompts : LateTake(r)
      BY <2>1 DEF OwnTurn, Asks, Answered, AgentStarts, AgentsEnd, LateTake
    <2>2. CASE \/ \E kind \in {"completed", "cancelled", "failed"} : TurnEnds(kind)
               \/ Exits \/ DetachBegins \/ DetachEnds
      BY <2>2 DEF TurnEnds, Exits, DetachBegins, DetachEnds, ConversationExits
    <2> QED BY <1>4, <2>1, <2>2 DEF ProviderStep
  <1>5. ASSUME NEW p \in Senders, SendStep(p)
        PROVE  Pausing
    BY <1>5 DEF SendStep, CheckHolder, HolderAnswered, OpenForPrompt, OpenEnds,
                Unready, Commit, Takes, Accepts, SendFails, Steers, Restore,
                Record
  <1>6. CASE \E h \in Handlers : HandlerStep(h)
    <2>1. ASSUME NEW h \in Handlers, Enqueue(h)
          PROVE  UNCHANGED <<queue, paused>> \/ queue' # <<>>
      <3>1. queue \in Seq(Prompts)
        BY DEF TypeInv, TypeOK, QueueOK
      <3> QED BY <2>1, <3>1 DEF Enqueue
    <2>2. ASSUME NEW h \in Handlers, RouteSteer(h) \/ RouteSend(h)
          PROVE  Pausing
      BY <2>2 DEF RouteSteer, RouteSend
    <2> QED BY <1>5, <1>6, <2>1, <2>2 DEF HandlerStep, Senders
  <1>7. CASE DrainBegins
    BY <1>7, <1>7 DEF DrainBegins, TypeInv, TypeOK, QueueOK
  <1>8. CASE DrainEnds
    <2>1. queue \in Seq(Prompts)
      BY DEF TypeInv, TypeOK, QueueOK
    <2>2. req[Drain] \in Prompts
      BY <1>8, NoneIsNoProc DEF TypeInv, Carries, DrainEnds
    <2> QED BY <1>8, <2>1, <2>2 DEF DrainEnds, PutBack
  <1>9. CASE OpenForView \/ ViewStep
    BY <1>9 DEF OpenForView, ViewStep, OpenEnds
  <1> QED BY <1>1, <1>2, <1>3, <1>4, <1>5, <1>6, <1>7, <1>8, <1>9, NoneIsNoProc
          DEF Next, DrainStep

LEMMA ConvSteps ==
  ASSUME [Next]_vars
  PROVE  \/ UNCHANGED closed /\ (conv' => conv \/ ~closed)
         \/ ~conv'
  <1>1. CASE UNCHANGED vars
    BY <1>1 DEF vars
  <1>2. CASE OwnerStep
    <2>1. CASE Settle \/ Reopen \/ Archive \/ Unarchive
      BY <2>1 DEF Settle, Reopen, Archive, Unarchive, MoveStage, Disconnect,
                  Detach
    <2>2. CASE ViewOpen \/ Stop \/ Close \/ Delete
      BY <2>2 DEF ViewOpen, Stop, Close, Delete, Disconnect, Detach
    <2>3. CASE \/ ClearQueue \/ ResumeQueue \/ \E i \in DOMAIN queue : CancelQueued(i)
               \/ \E h \in Handlers, r \in Prompts, m \in {"send", "queue", "steer"} :
                    Submit(h, r, m)
      BY <2>3 DEF ClearQueue, ResumeQueue, CancelQueued, Submit
    <2> QED BY <1>2, <2>1, <2>2, <2>3 DEF OwnerStep
  <1>3. CASE ServiceStep
    BY <1>3 DEF ServiceStep, CloseIdle, Shutdown, Detach
  <1>4. CASE ProviderStep
    <2>1. CASE \/ OwnTurn \/ Asks \/ Answered \/ AgentStarts \/ AgentsEnd
               \/ \E r \in Prompts : LateTake(r)
      BY <2>1 DEF OwnTurn, Asks, Answered, AgentStarts, AgentsEnd, LateTake
    <2>2. CASE \/ \E kind \in {"completed", "cancelled", "failed"} : TurnEnds(kind)
               \/ Exits \/ DetachBegins \/ DetachEnds
      BY <2>2 DEF TurnEnds, Exits, DetachBegins, DetachEnds, ConversationExits,
                  Detach
    <2> QED BY <1>4, <2>1, <2>2 DEF ProviderStep
  <1>5. ASSUME NEW p \in Procs, \E ok \in BOOLEAN : OpenEnds(p, ok)
        PROVE  UNCHANGED closed /\ (conv' => ~closed)
    BY <1>5 DEF OpenEnds, Current
  <1>6. ASSUME NEW p \in Senders, SendStep(p)
        PROVE  UNCHANGED closed /\ (conv' => conv \/ ~closed)
    <2>1. CASE \E ok \in BOOLEAN : OpenEnds(p, ok)
      BY <1>5, <2>1 DEF Procs
    <2>2. CASE \/ CheckHolder(p) \/ OpenForPrompt(p) \/ Unready(p) \/ Commit(p)
               \/ \E inUse \in BOOLEAN : HolderAnswered(p, inUse)
      <3>1. CASE CheckHolder(p) \/ Unready(p) \/ Commit(p)
        BY <3>1 DEF CheckHolder, Unready, Commit
      <3>2. CASE OpenForPrompt(p)
        BY <3>2 DEF OpenForPrompt
      <3>3. CASE \E inUse \in BOOLEAN : HolderAnswered(p, inUse)
        BY <3>3 DEF HolderAnswered
      <3> QED BY <2>2, <3>1, <3>2, <3>3
    <2>3. CASE \/ Takes(p) \/ Accepts(p) \/ Restore(p) \/ Record(p)
               \/ \E result \in {"busy", "rejected", "uncertain"} : SendFails(p, result)
               \/ \E result \in {"accepted", "rejected", "uncertain", "error"} :
                    Steers(p, result)
      BY <2>3 DEF Takes, Accepts, SendFails, Steers, Restore, Record
    <2> QED BY <1>6, <2>1, <2>2, <2>3 DEF SendStep
  <1>7. CASE \E h \in Handlers : HandlerStep(h)
    <2>1. ASSUME NEW h \in Handlers,
                 Enqueue(h) \/ RouteSteer(h) \/ RouteSend(h)
          PROVE  UNCHANGED <<closed, conv>>
      BY <2>1 DEF Enqueue, RouteSteer, RouteSend
    <2> QED BY <1>6, <1>7, <2>1 DEF HandlerStep, Senders
  <1>8. CASE DrainBegins \/ DrainEnds \/ OpenForView
    BY <1>8 DEF DrainBegins, DrainEnds, OpenForView
  <1>9. CASE ViewStep
    BY <1>5, <1>9, NoneIsNoProc DEF ViewStep
  <1> QED BY <1>1, <1>2, <1>3, <1>4, <1>6, <1>7, <1>8, <1>9, NoneIsNoProc
          DEF Next, DrainStep

-----------------------------------------------------------------------------
(* The theorems.                                                           *)

Once == TypeInv /\ Ownership /\ Freshness /\ Delivery

LEMMA OnceInit ==
  ASSUME Init
  PROVE  Ownership /\ Freshness /\ Delivery
  <1>1. Ownership
    BY NoneIsNoProc DEF Init, Ownership, OneOwner, DrainCarriesHead
  <1>2. \A p \in Senders : ~Pending(p)
    BY DEF Init, Pending, Procs
  <1>3. Freshness
    BY <1>2 DEF Init, Freshness, QueueFresh, CarriedFresh
  <1>4. Given = {}
    BY DEF Init, Given, Range
  <1>5. GivenOnce
    BY DEF Init, GivenOnce
  <1>6. Delivery
    BY <1>4, <1>5, <1>2 DEF Delivery, QueueNotGiven, CancelledNotGiven,
                            CarriedNotGiven, GivenIsCarried, MayGive
  <1> QED BY <1>1, <1>3, <1>6

\* In every behaviour one goroutine at a time is past the in-use check, what
\* it carries and what is queued is fresh, and what is fresh and not past Send
\* was never given to the provider.
THEOREM OnceInductive ==
  Spec => []Once
  <1>1. Init => Once
    BY OnceInit, InitType DEF Once
  <1>2. Once /\ [Next]_vars => Once'
    BY NextType, OwnershipStep, FreshnessStep, DeliveryStep DEF Once
  <1> QED BY <1>1, <1>2, PTL DEF Spec

\* The provider takes a prompt at most once, whatever is retried, lost, put back
\* or drained ("Never resubmit").
THEOREM NeverTakenTwice ==
  Spec => []TakenOnce
  <1>1. Once => TakenOnce
    BY DEF Once, Delivery, GivenOnce, TakenOnce, IsInjective
  <1> QED BY <1>1, OnceInductive, PTL

\* A prompt whose cancellation was reported was not sent and will not be.
THEOREM CancelledStaysUnsent ==
  Spec => []CancelledNeverSent
  <1>1. ASSUME Once, NEW r \in Prompts, outcome[r] = "cancelled"
        PROVE  /\ r \notin Range(taken) \cup floating \cup Range(queue)
               /\ \A p \in Senders :
                    req[p] = r => pc[p] \notin {"sent", "took", "back", "record"}
    <2>1. r \notin Range(taken) \cup floating
      BY <1>1 DEF Once, Delivery, CancelledNotGiven, Given
    <2>2. r \notin Range(queue)
      BY <1>1 DEF Once, Freshness, QueueFresh, Range
    <2>3. ASSUME NEW p \in Senders, req[p] = r,
                 pc[p] \in {"sent", "took", "back", "record"}
          PROVE  FALSE
      BY <1>1, <2>3 DEF Once, Freshness, CarriedFresh, Pending, Known
    <2> QED BY <2>1, <2>2, <2>3
  <1>2. Once => CancelledNeverSent
    BY <1>1 DEF CancelledNeverSent
  <1> QED BY <1>2, OnceInductive, PTL

\* A recorded outcome is never overwritten, by a retry, by a cancellation that
\* raced the send, or by a send that raced a cancellation.
THEOREM OutcomesAreFinal ==
  Spec => OutcomeIsFinal
  <1>1. ASSUME Once, [Next]_vars, NEW r \in Prompts, outcome[r] # "none"
        PROVE  outcome'[r] = outcome[r]
    <2> USE DEF Once, TypeInv, TypeOK, ProcOK, QueueOK
    <2>1. CASE UNCHANGED outcome
      BY <2>1
    <2>2. ASSUME NEW p \in Senders, Record(p)
          PROVE  outcome'[r] = outcome[r]
      <3>1. req[p] # r
        BY <1>1, <2>2 DEF Record, Freshness, CarriedFresh, Pending, Known
      <3> QED BY <2>2, <3>1 DEF Record
    <2>3. ASSUME NEW i \in DOMAIN queue, CancelQueued(i)
          PROVE  outcome'[r] = outcome[r]
      <3>1. queue[i] # r
        BY <1>1 DEF Freshness, QueueFresh
      <3> QED BY <2>3, <3>1 DEF CancelQueued
    <2>4. CASE ClearQueue
      <3>1. r \notin Range(queue)
        BY <1>1 DEF Freshness, QueueFresh, Range
      <3> QED BY <2>4, <3>1 DEF ClearQueue
    <2>5. \/ UNCHANGED outcome
          \/ \E p \in Senders : Record(p)
          \/ \E i \in DOMAIN queue : CancelQueued(i)
          \/ ClearQueue
      BY <1>1, OutcomeSteps
    <2> QED BY <2>1, <2>2, <2>3, <2>4, <2>5
  <1>2. Once /\ [Next]_vars =>
          [\A r \in Prompts : outcome[r] # "none" => outcome'[r] = outcome[r]]_vars
    BY <1>1
  <1> QED BY <1>2, OnceInductive, PTL DEF Spec, OutcomeIsFinal

\* An empty queue is not paused: a prompt queued later is not held by a turn
\* that ended before it was written.
THEOREM EmptyQueueNeverPaused ==
  Spec => []EmptyNeverPaused
  <1>1. Init => EmptyNeverPaused
    BY DEF Init, EmptyNeverPaused
  <1>2. ASSUME TypeInv, EmptyNeverPaused, [Next]_vars
        PROVE  EmptyNeverPaused'
    <2>1. CASE Pausing
      <3>1. CASE UNCHANGED <<queue, paused>>
        BY <1>2, <3>1 DEF EmptyNeverPaused
      <3>2. CASE UNCHANGED queue /\ PauseQueue
        BY <1>2, <3>2 DEF EmptyNeverPaused, PauseQueue
      <3> QED BY <2>1, <3>1, <3>2 DEF Pausing
    <2>2. CASE paused' = FALSE
      BY <2>2 DEF EmptyNeverPaused
    <2>3. CASE queue' # <<>>
      BY <2>3 DEF EmptyNeverPaused
    <2>4. CASE \E i \in DOMAIN queue : CancelQueued(i)
      BY <2>4 DEF CancelQueued, EmptyNeverPaused
    <2>5. \/ Pausing \/ paused' = FALSE \/ queue' # <<>>
          \/ \E i \in DOMAIN queue : CancelQueued(i)
      BY <1>2, PauseSteps
    <2> QED BY <2>1, <2>2, <2>3, <2>4, <2>5
  <1> QED BY <1>1, <1>2, TypeCorrect, PTL DEF Spec

\* Shutdown detaches every conversation, the one an open brings later included.
THEOREM ShutdownLeavesNone ==
  Spec => []ShutdownDetaches
  <1>1. Init => ShutdownDetaches
    BY DEF Init, ShutdownDetaches
  <1>2. ASSUME ShutdownDetaches, [Next]_vars
        PROVE  ShutdownDetaches'
    BY <1>2, ConvSteps DEF ShutdownDetaches
  <1> QED BY <1>1, <1>2, PTL DEF Spec

-----------------------------------------------------------------------------
(* 3. The order of the queue.                                              *)

\* q joined the queue before r did.
Before(q, r) == \E i, j \in DOMAIN line : i < j /\ line[i] = q /\ line[j] = r

JoinedOnce == \A i, j \in DOMAIN line : line[i] = line[j] => i = j
AllJoined ==
  /\ Range(queue) \subseteq Range(line)
  /\ sending # None => sending \in Range(line)
InOrder == \A i, j \in DOMAIN queue : i < j => Before(queue[i], queue[j])
HeadFirst ==
  sending # None /\ ~Dropped => \A i \in DOMAIN queue : Before(sending, queue[i])
Order == JoinedOnce /\ AllJoined /\ InOrder /\ HeadFirst

\* Only a prompt that joins writes line.
LEMMA LineSteps ==
  ASSUME [Next]_vars
  PROVE  UNCHANGED line \/ \E h \in Handlers : Enqueue(h)
  <1>1. CASE UNCHANGED vars
    BY <1>1 DEF vars
  <1>2. CASE OwnerStep
    <2>1. CASE Settle \/ Reopen \/ Archive \/ Unarchive
      BY <2>1 DEF Settle, Reopen, Archive, Unarchive, MoveStage
    <2>2. CASE ViewOpen \/ ResumeQueue \/ Stop \/ Close \/ Delete
      BY <2>2 DEF ViewOpen, ResumeQueue, Stop, Close, Delete
    <2>3. CASE \/ ClearQueue \/ \E i \in DOMAIN queue : CancelQueued(i)
               \/ \E h \in Handlers, r \in Prompts, m \in {"send", "queue", "steer"} :
                    Submit(h, r, m)
      BY <2>3 DEF ClearQueue, CancelQueued, Submit
    <2> QED BY <1>2, <2>1, <2>2, <2>3 DEF OwnerStep
  <1>3. CASE ServiceStep
    BY <1>3 DEF ServiceStep, CloseIdle, Shutdown
  <1>4. CASE ProviderStep
    <2>1. CASE \/ OwnTurn \/ Asks \/ Answered \/ AgentStarts \/ AgentsEnd
               \/ \E r \in Prompts : LateTake(r)
      BY <2>1 DEF OwnTurn, Asks, Answered, AgentStarts, AgentsEnd, LateTake
    <2>2. CASE \/ \E kind \in {"completed", "cancelled", "failed"} : TurnEnds(kind)
               \/ Exits \/ DetachBegins \/ DetachEnds
      BY <2>2 DEF TurnEnds, Exits, DetachBegins, DetachEnds, ConversationExits
    <2> QED BY <1>4, <2>1, <2>2 DEF ProviderStep
  <1>5. ASSUME NEW p \in Senders, SendStep(p)
        PROVE  UNCHANGED line
    <2>1. CASE \/ CheckHolder(p) \/ OpenForPrompt(p) \/ Unready(p) \/ Commit(p)
               \/ \E inUse \in BOOLEAN : HolderAnswered(p, inUse)
      BY <2>1 DEF CheckHolder, OpenForPrompt, Unready, Commit, HolderAnswered
    <2>2. CASE \/ \E ok \in BOOLEAN : OpenEnds(p, ok)
               \/ Takes(p) \/ Accepts(p) \/ Restore(p) \/ Record(p)
      BY <2>2 DEF OpenEnds, Takes, Accepts, Restore, Record
    <2>3. CASE \/ \E result \in {"busy", "rejected", "uncertain"} : SendFails(p, result)
               \/ \E result \in {"accepted", "rejected", "uncertain", "error"} :
                    Steers(p, result)
      BY <2>3 DEF SendFails, Steers
    <2> QED BY <1>5, <2>1, <2>2, <2>3 DEF SendStep
  <1>6. CASE \E h \in Handlers : HandlerStep(h)
    BY <1>5, <1>6 DEF HandlerStep, RouteSteer, RouteSend, Senders
  <1>7. CASE DrainBegins \/ DrainStep \/ OpenForView \/ ViewStep
    BY <1>5, <1>7, NoneIsNoProc
       DEF DrainBegins, DrainStep, DrainEnds, OpenForView, ViewStep, OpenEnds
  <1> QED BY <1>1, <1>2, <1>3, <1>4, <1>6, <1>7 DEF Next

\* A prompt that joins comes last; the others keep their order.
ComesLast(r) ==
  /\ JoinedOnce' /\ Range(line') = Range(line) \cup {r}
  /\ \A q \in Range(line) \ {r} : Before(q, r)'
  /\ \A a, b : a # r /\ b # r /\ Before(a, b) => Before(a, b)'

LEMMA JoinsLast ==
  ASSUME line \in Seq(Prompts), JoinedOnce, NEW r \in Prompts \ Range(line),
         line' = Append(line, r)
  PROVE  ComesLast(r)
  <1>1. /\ Len(line) \in Nat /\ DOMAIN line = 1 .. Len(line)
        /\ DOMAIN line' = 1 .. Len(line) + 1 /\ line'[Len(line) + 1] = r
        /\ \A i \in DOMAIN line : line'[i] = line[i]
    OBVIOUS
  <1>2. \A i \in DOMAIN line : line[i] # r
    BY DEF Range
  <1>3. JoinedOnce'
    BY <1>1, <1>2 DEF JoinedOnce
  <1>4. Range(line') = Range(line) \cup {r}
    BY <1>1 DEF Range
  <1>5. \A q \in Range(line) \ {r} : Before(q, r)'
    BY <1>1 DEF Before, Range
  <1>6. \A a, b : Before(a, b) => Before(a, b)'
    BY <1>1 DEF Before
  <1> QED BY <1>3, <1>4, <1>5, <1>6 DEF ComesLast

LEMMA RejoinedElements ==
  ASSUME line \in Seq(Prompts), NEW r \in Range(line)
  PROVE  \E n \in DOMAIN line :
           /\ line[n] = r
           /\ Rejoined(r) = [i \in DOMAIN line |->
                               IF i = Len(line) THEN r
                               ELSE IF i < n THEN line[i] ELSE line[i + 1]]
  BY DEF Rejoined, Range

LEMMA RejoinsLast ==
  ASSUME line \in Seq(Prompts), JoinedOnce, NEW r \in Range(line),
         line' = Rejoined(r)
  PROVE  ComesLast(r)
  <1>1. PICK m \in Nat : m = Len(line) /\ DOMAIN line = 1 .. m
    OBVIOUS
  <1>2. PICK n \in DOMAIN line :
          /\ line[n] = r
          /\ line' = [i \in DOMAIN line |->
                        IF i = m THEN r
                        ELSE IF i < n THEN line[i] ELSE line[i + 1]]
    BY <1>1, RejoinedElements
  <1>3. /\ DOMAIN line' = 1 .. m /\ line'[m] = r
        /\ \A i \in 1 .. m - 1 :
             line'[i] = IF i < n THEN line[i] ELSE line[i + 1]
    BY <1>2, <1>1
  <1> DEFINE at(k) == IF k < n THEN k ELSE k - 1
  <1>4. \A k \in DOMAIN line \ {n} :
          /\ at(k) \in 1 .. m - 1 /\ line'[at(k)] = line[k]
          /\ line[k] # r
    BY <1>2, <1>1, <1>3 DEF JoinedOnce
  <1>5. \A j, k \in DOMAIN line \ {n} : j < k => at(j) < at(k)
    BY <1>2, <1>1
  <1>6. \A i \in 1 .. m - 1 :
          \E k \in DOMAIN line \ {n} : at(k) = i /\ line'[i] = line[k]
    <2>1. SUFFICES ASSUME NEW i \in 1 .. m - 1
                   PROVE  \E k \in DOMAIN line \ {n} :
                            at(k) = i /\ line'[i] = line[k]
      OBVIOUS
    <2>2. CASE i < n
      BY <1>1, <1>3, <2>2
    <2>3. CASE ~(i < n)
      <3>1. i + 1 \in DOMAIN line \ {n} /\ at(i + 1) = i
        BY <1>2, <1>1, <2>3
      <3> QED BY <1>3, <2>3, <3>1
    <2> QED BY <2>2, <2>3
  <1> HIDE DEF at
  <1>7. JoinedOnce'
    <2>1. SUFFICES ASSUME NEW i \in 1 .. m, NEW j \in 1 .. m,
                          line'[i] = line'[j]
                   PROVE  i = j
      BY <1>3 DEF JoinedOnce
    <2>2. ASSUME NEW k \in 1 .. m - 1
          PROVE  line'[k] # r
      BY <1>4, <1>6, <2>2
    <2>3. CASE i = m \/ j = m
      BY <1>1, <1>3, <2>1, <2>2, <2>3
    <2>4. CASE i # m /\ j # m
      <3>1. i \in 1 .. m - 1 /\ j \in 1 .. m - 1
        BY <1>1, <2>1, <2>4
      <3>2. PICK a, b \in DOMAIN line \ {n} :
              at(a) = i /\ line'[i] = line[a] /\ at(b) = j /\ line'[j] = line[b]
        BY <1>6, <3>1
      <3> QED BY <2>1, <3>2 DEF JoinedOnce
    <2> QED BY <2>3, <2>4
  <1>8. Range(line') = Range(line)
    <2>1. ASSUME NEW q \in Range(line)
          PROVE  q \in Range(line')
      <3>1. PICK k \in DOMAIN line : line[k] = q
        BY DEF Range
      <3>2. CASE k = n
        BY <1>2, <1>1, <1>3, <3>1, <3>2 DEF Range
      <3>3. CASE k # n
        BY <1>1, <1>3, <1>4, <3>1, <3>3 DEF Range
      <3> QED BY <3>2, <3>3
    <2>2. ASSUME NEW i \in 1 .. m
          PROVE  line'[i] \in Range(line)
      <3>1. i = m \/ i \in 1 .. m - 1
        BY <1>1
      <3> QED BY <1>3, <1>6, <3>1 DEF Range
    <2> QED BY <1>3, <2>1, <2>2 DEF Range
  <1>9. ASSUME NEW q \in Range(line) \ {r}
        PROVE  Before(q, r)'
    <2>1. PICK k \in DOMAIN line \ {n} : line[k] = q
      BY <1>2 DEF Range
    <2>2. at(k) < m /\ at(k) \in DOMAIN line' /\ line'[at(k)] = q
      BY <1>1, <1>3, <1>4, <2>1
    <2>3. m \in DOMAIN line'
      BY <1>2, <1>1, <1>3
    <2> QED BY <1>3, <2>2, <2>3 DEF Before
  <1>10. ASSUME NEW a, NEW b, a # r, b # r, Before(a, b)
         PROVE  Before(a, b)'
    <2>1. PICK j, k \in DOMAIN line : j < k /\ line[j] = a /\ line[k] = b
      BY <1>10 DEF Before
    <2>2. /\ at(j) < at(k) /\ line'[at(j)] = a /\ line'[at(k)] = b
          /\ at(j) \in 1 .. m - 1 /\ at(k) \in 1 .. m - 1
      BY <1>2, <1>4, <1>5, <1>10, <2>1
    <2> QED BY <1>1, <1>3, <2>2 DEF Before
  <1> QED BY <1>7, <1>8, <1>9, <1>10 DEF ComesLast

\* Nobody joins, what still waits waited before, in the same order, and the
\* head, when it is not dropped, was the head before.
LEMMA OrderKept ==
  ASSUME Order, UNCHANGED line,
         \A j \in DOMAIN queue' : \E k \in DOMAIN queue : queue'[j] = queue[k],
         \A i, j \in DOMAIN queue' : i < j => Before(queue'[i], queue'[j]),
         sending' # None => sending' \in Range(line),
         sending' # None /\ ~Dropped' =>
           \A i \in DOMAIN queue' : Before(sending', queue'[i])
  PROVE  Order'
  <1>1. UNCHANGED JoinedOnce /\ \A a, b : Before(a, b)' <=> Before(a, b)
    BY DEF JoinedOnce, Before
  <1>2. JoinedOnce' /\ InOrder' /\ HeadFirst'
    BY <1>1 DEF Order, InOrder, HeadFirst
  <1>3. AllJoined'
    BY DEF Order, AllJoined, Range
  <1> QED BY <1>2, <1>3 DEF Order

LEMMA LastInOrder ==
  ASSUME queue \in Seq(Prompts), Order, NEW r \in Prompts, ~Known(r), ComesLast(r),
         queue' = Append(queue, r), UNCHANGED <<sending, outcome>>
  PROVE  Order'
  <1>1. /\ DOMAIN queue = 1 .. Len(queue) /\ Len(queue) \in Nat
        /\ DOMAIN queue' = 1 .. Len(queue) + 1
        /\ queue'[Len(queue) + 1] = r
        /\ \A i \in DOMAIN queue : queue'[i] = queue[i]
    OBVIOUS
  <1>2. \A i \in DOMAIN queue : queue[i] # r /\ queue[i] \in Range(line)
    BY DEF Known, Range, Order, AllJoined
  <1>3. Range(queue') = Range(queue) \cup {r}
    BY <1>1 DEF Range
  <1>4. JoinedOnce' /\ AllJoined'
    BY <1>3 DEF ComesLast, Order, AllJoined
  <1>5. InOrder'
    <2>1. SUFFICES ASSUME NEW i \in DOMAIN queue', NEW j \in DOMAIN queue', i < j
                   PROVE  Before(queue[i], queue[j])'
      BY DEF InOrder
    <2>2. i \in DOMAIN queue /\ queue'[i] = queue[i]
      BY <1>1, <2>1
    <2>3. CASE j = Len(queue) + 1
      BY <1>1, <1>2, <2>1, <2>2, <2>3 DEF ComesLast
    <2>4. CASE j # Len(queue) + 1
      <3>1. j \in DOMAIN queue /\ queue'[j] = queue[j]
        BY <1>1, <2>1, <2>4
      <3> QED BY <1>2, <2>1, <2>2, <3>1 DEF ComesLast, Order, InOrder
    <2> QED BY <2>3, <2>4
  <1>6. HeadFirst'
    <2>1. SUFFICES ASSUME sending # None, ~Dropped', NEW i \in DOMAIN queue'
                   PROVE  Before(sending, queue[i])'
      BY DEF HeadFirst
    <2>2. sending # r /\ ~Dropped /\ sending \in Range(line)
      BY <1>3, <2>1 DEF Dropped, Order, AllJoined
    <2>3. CASE i = Len(queue) + 1
      BY <1>1, <2>2, <2>3 DEF ComesLast
    <2>4. CASE i # Len(queue) + 1
      <3>1. i \in DOMAIN queue /\ queue'[i] = queue[i]
        BY <1>1, <2>1, <2>4
      <3> QED BY <1>2, <2>1, <2>2, <3>1 DEF ComesLast, Order, HeadFirst
    <2> QED BY <2>3, <2>4
  <1> QED BY <1>4, <1>5, <1>6 DEF Order

LEMMA EnqueueOrder ==
  ASSUME TypeInv, Ownership, Freshness, Order, NEW h \in Handlers, Enqueue(h)
  PROVE  Order'
  <1> USE DEF TypeInv, TypeOK, ProcOK, QueueOK, HistoryOK
  <1>1. h \in Senders /\ req[h] \in Prompts /\ ~Known(req[h])
    BY DEF Senders, Enqueue, Carries, Freshness, CarriedFresh, Pending
  <1>2. CASE UNCHANGED <<queue, line>>
    <2>1. UNCHANGED <<sending, outcome>>
      BY DEF Enqueue
    <2> QED BY <1>2, <2>1 DEF Order, JoinedOnce, AllJoined, InOrder, HeadFirst,
                              Before, Dropped
  <1>3. CASE ~UNCHANGED <<queue, line>>
    <2>1. queue' = Append(queue, req[h]) /\ UNCHANGED <<sending, outcome>>
      BY <1>3 DEF Enqueue
    <2>2. ComesLast(req[h])
      <3>1. CASE req[h] \in Range(line)
        BY <1>3, <3>1, RejoinsLast DEF Enqueue, Order
      <3>2. CASE req[h] \notin Range(line)
        BY <1>1, <1>3, <3>2, JoinsLast DEF Enqueue, Order
      <3> QED BY <3>1, <3>2
    <2> QED BY <1>1, <2>1, <2>2, LastInOrder
  <1> QED BY <1>2, <1>3

\* ... and every other element is still there.
LEMMA RemoveAtKeeps ==
  ASSUME NEW S, NEW s \in Seq(S), NEW i \in DOMAIN s, NEW k \in DOMAIN s, k # i
  PROVE  \E j \in DOMAIN RemoveAt(s, i) : RemoveAt(s, i)[j] = s[k]
  <1> DEFINE at == IF k < i THEN k ELSE k - 1
  <1>1. i \in 1 .. Len(s) /\ k \in 1 .. Len(s) /\ Len(s) \in Nat
    OBVIOUS
  <1>2. at \in DOMAIN RemoveAt(s, i)
    BY <1>1, RemoveAtElements
  <1>3. k = IF at < i THEN at ELSE at + 1
    BY <1>1
  <1> QED BY <1>2, <1>3, RemoveAtElements

LEMMA CancelOrder ==
  ASSUME TypeInv, Order, NEW i \in DOMAIN queue, CancelQueued(i)
  PROVE  Order'
  <1> USE DEF TypeInv, TypeOK, QueueOK
  <1>1. \A j \in DOMAIN queue' :
          \E k \in DOMAIN queue : k # i /\ queue'[j] = queue[k] /\
                                  k = IF j < i THEN j ELSE j + 1
    BY RemoveAtElements DEF CancelQueued
  <1>2. queue' \in Seq(Prompts) /\ DOMAIN queue' \subseteq Int
        /\ DOMAIN queue \subseteq Int
    BY CancelQueuedType
  <1>3. \A j, k \in DOMAIN queue' : j < k => Before(queue'[j], queue'[k])
    BY <1>1, <1>2 DEF Order, InOrder
  <1>4. UNCHANGED <<line, sending>>
    BY DEF CancelQueued
  <1>5. ~Dropped' /\ sending # None => ~Dropped
    <2>1. SUFFICES ASSUME ~Dropped', sending # None, Dropped
                   PROVE  FALSE
      OBVIOUS
    <2>2. sending \in Prompts
      BY <2>1
    <2>3. sending # queue[i] /\ outcome'[sending] = outcome[sending]
      BY <1>4, <2>1, <2>2 DEF CancelQueued, Dropped
    <2>4. PICK k \in DOMAIN queue : queue[k] = sending
      BY <1>4, <2>1, <2>3 DEF Dropped, Range
    <2>5. \E j \in DOMAIN queue' : queue'[j] = queue[k]
      BY <2>3, <2>4, RemoveAtKeeps DEF CancelQueued
    <2> QED BY <1>4, <2>1, <2>4, <2>5 DEF Dropped, Range
  <1> QED BY <1>1, <1>3, <1>4, <1>5, OrderKept DEF Order, AllJoined, HeadFirst

LEMMA DrainBeginsOrder ==
  ASSUME TypeInv, Ownership, Order, DrainBegins
  PROVE  Order'
  <1> USE DEF TypeInv, TypeOK, QueueOK
  <1>1. UNCHANGED <<line, outcome>>
    BY DEF DrainBegins
  <1>2. CASE UNCHANGED <<queue, sending>>
    BY <1>1, <1>2, OrderKept
       DEF Order, AllJoined, InOrder, HeadFirst, Dropped
  <1>3. CASE queue # <<>> /\ queue' = Tail(queue) /\ sending' = Head(queue)
    <2>1. /\ \A i \in DOMAIN queue' :
               /\ i + 1 \in DOMAIN queue /\ queue'[i] = queue[i + 1] /\ i \in Nat
               /\ i # 0
          /\ Head(queue) = queue[1] /\ 1 \in DOMAIN queue
      BY <1>3, HeadTailProperties
    <2>2. \A i, j \in DOMAIN queue' : i < j => Before(queue'[i], queue'[j])
      BY <2>1 DEF Order, InOrder
    <2>3. \A i \in DOMAIN queue' : Before(sending', queue'[i])
      BY <1>3, <2>1 DEF Order, InOrder
    <2>4. sending' \in Range(line)
      BY <1>3, <2>1 DEF Order, AllJoined, Range
    <2> QED BY <1>1, <2>1, <2>2, <2>3, <2>4, OrderKept
  <1> QED BY <1>2, <1>3 DEF DrainBegins

LEMMA DrainEndsOrder ==
  ASSUME TypeInv, Ownership, Freshness, Order, DrainEnds
  PROVE  Order'
  <1> USE DEF TypeInv, TypeOK, QueueOK
  <1>1. UNCHANGED line /\ sending' = None /\ sending = req[Drain]
        /\ req[Drain] \in Prompts
    BY NoneIsNoProc DEF DrainEnds, Ownership, DrainCarriesHead, Carries
  <1>2. CASE UNCHANGED queue
    BY <1>1, <1>2, OrderKept DEF Order, InOrder
  <1>3. CASE res[Drain] \in {"error", "held"} /\ queue' = PutBack(queue, req[Drain])
    <2>1. sending # None /\ ~Dropped
      BY <1>1, <1>3, NoneIsNoProc, ThreadConstants
         DEF DrainEnds, Freshness, CarriedFresh, Pending, Known, Dropped
    <2>2. /\ DOMAIN queue' \subseteq Int
          /\ \A i \in DOMAIN queue' :
              \/ i = 1 /\ queue'[i] = sending
              \/ i > 1 /\ i - 1 \in DOMAIN queue /\ queue'[i] = queue[i - 1]
      BY <1>1, <1>3 DEF PutBack
    <2>3. \A a, b : Before(a, b)' <=> Before(a, b)
      BY <1>1 DEF Before
    <2>4. InOrder'
      BY <2>1, <2>2, <2>3 DEF Order, InOrder, HeadFirst
    <2>5. AllJoined'
      BY <1>1, <2>1, <2>2 DEF Order, AllJoined, Range
    <2> QED BY <1>1, <2>4, <2>5 DEF Order, JoinedOnce, HeadFirst
  <1> QED BY <1>2, <1>3 DEF DrainEnds

LEMMA OrderStep ==
  ASSUME TypeInv, Ownership, Freshness, Order, [Next]_vars
  PROVE  Order'
  <1> USE DEF TypeInv, TypeOK, QueueOK
  <1>1. CASE \E h \in Handlers : Enqueue(h)
    BY <1>1, EnqueueOrder
  <1>2. CASE \/ \E i \in DOMAIN queue : CancelQueued(i)
             \/ DrainBegins \/ DrainEnds
    BY <1>2, CancelOrder, DrainBeginsOrder, DrainEndsOrder
  <1>3. CASE (ClearQueue \/ Shutdown) /\ UNCHANGED line
    <2>1. queue' = <<>> /\ UNCHANGED sending
      BY <1>3 DEF ClearQueue, Shutdown
    <2> QED BY <1>3, <2>1, OrderKept DEF Order, AllJoined
  <1>4. ASSUME UNCHANGED <<line, queue, sending>>,
               \A r \in Prompts : outcome[r] # "none" => outcome'[r] # "none"
        PROVE  Order'
    <2>1. sending # None /\ ~Dropped' => ~Dropped
      BY <1>4 DEF Dropped
    <2> QED BY <1>4, <2>1, OrderKept DEF Order, AllJoined, InOrder, HeadFirst
  <1>5. UNCHANGED line \/ \E h \in Handlers : Enqueue(h)
    BY LineSteps
  <1>6. CASE \E p \in Senders : SenderStep(p) /\ UNCHANGED line
    <2>1. PICK p \in Senders : SenderStep(p)
      BY <1>6
    <2>2. UNCHANGED <<queue, sending>>
      BY <2>1 DEF SenderStep, CheckHolder, OpenForPrompt, Unready, Commit,
                  Takes, Accepts, Restore, Record, HolderAnswered, OpenEnds,
                  SendFails, Steers, PauseQueue
    <2>3. UNCHANGED outcome \/ Record(p)
      BY <2>1 DEF SenderStep, CheckHolder, OpenForPrompt, Unready, Commit,
                  Takes, Accepts, Restore, HolderAnswered, OpenEnds,
                  SendFails, Steers
    <2>4. Record(p) => \A r \in Prompts : outcome[r] # "none" => outcome'[r] # "none"
      BY DEF Record, Carries, Outcomes
    <2> QED BY <1>4, <1>6, <2>2, <2>3, <2>4
  <1>7. CASE \/ UNCHANGED coreVars
             \/ \E h \in Handlers : StartStep(h) /\ ~Enqueue(h)
             \/ OpenForView \/ \E ok \in BOOLEAN : OpenEnds(View, ok)
             \/ \E r \in Prompts : LateTake(r)
    <2>1. UNCHANGED <<queue, sending, outcome>>
      BY <1>7 DEF coreVars, StartStep, Submit, RouteSteer, RouteSend, OpenForView,
                  OpenEnds, LateTake
    <2> QED BY <1>1, <1>4, <1>5, <2>1
  <1> QED BY <1>1, <1>2, <1>3, <1>5, <1>6, <1>7, OtherSteps DEF CoreStep

\* The queue is first in, first out.
THEOREM QueueInOrder ==
  Spec => []OldestFirst
  <1>1. Init => Order
    BY DEF Init, Order, JoinedOnce, AllJoined, InOrder, HeadFirst, Range
  <1>2. ASSUME Once, Order, [Next]_vars
        PROVE  Order'
    BY <1>2, OrderStep DEF Once
  <1>3. ASSUME Once, Order
        PROVE  OldestFirst
    <2> DEFINE waiting == IF sending = None \/ Dropped THEN queue
                          ELSE <<sending>> \o queue
               joined(i) == CHOOSE n \in DOMAIN line : line[n] = waiting[i]
    <2>1. /\ line \in Seq(Prompts) /\ queue \in Seq(Prompts)
          /\ sending \in Prompts \cup {None}
      BY <1>3 DEF Once, TypeInv, TypeOK, QueueOK, HistoryOK
    <2>2. \A i, j \in DOMAIN waiting : i < j => Before(waiting[i], waiting[j])
      <3>1. CASE sending = None \/ Dropped
        BY <1>3, <3>1 DEF Order, InOrder
      <3>2. CASE sending # None /\ ~Dropped
        <4>1. /\ DOMAIN waiting \subseteq Int
              /\ \A i \in DOMAIN waiting :
                   \/ i = 1 /\ waiting[i] = sending
                   \/ i > 1 /\ i - 1 \in DOMAIN queue /\ waiting[i] = queue[i - 1]
          BY <2>1, <3>2
        <4> QED BY <1>3, <3>2, <4>1 DEF Order, InOrder, HeadFirst
      <3> QED BY <3>1, <3>2
    <2> HIDE DEF waiting
    <2>3. ASSUME NEW i \in DOMAIN waiting, NEW j \in DOMAIN waiting, i < j
          PROVE  joined(i) < joined(j)
      <3>1. PICK a, b \in DOMAIN line :
              a < b /\ line[a] = waiting[i] /\ line[b] = waiting[j]
        BY <2>2, <2>3 DEF Before
      <3>2. joined(i) = a /\ joined(j) = b
        BY <1>3, <3>1 DEF Order, JoinedOnce
      <3> QED BY <3>1, <3>2
    <2> QED BY <2>3 DEF OldestFirst, waiting
  <1> QED BY <1>1, <1>2, <1>3, OnceInductive, PTL DEF Spec

-----------------------------------------------------------------------------
(* 4. The turn a Thread shows and the turn the provider runs.              *)

\* An open in flight has a goroutine that waits for it, and no conversation is
\* attached meanwhile.
OpeningHeld ==
  /\ \A p \in Procs : pc[p] = "opening" => opens # "none"
  /\ opens # "none" => ~conv /\ \E p \in Procs : pc[p] = "opening"

\* The provider runs a turn only in a conversation whose events are heard, and
\* none after it has reported the end of a detach.
TurnHeard ==
  /\ pturn => Heard
  /\ leaving => ~pturn

\* Shutdown makes every open in flight stale.
ClosedDetached == closed => ~conv /\ opens # "current"

\* A Thread that is put away: what a goroutine may still be in is the in-use
\* check, and the answer to that finds the Thread changed.
Quiet ==
  stage # "active" \/ removed =>
    /\ ~conv /\ opens = "none" /\ queue = <<>> /\ sending = None
    /\ ~pturn /\ ~pend
    /\ \A p \in Procs : pc[p] = "idle" \/ (pc[p] = "holder" /\ p \in moved)

\* What a send's mark tells: nobody else's turn began since Commit while the
\* mark holds, and the turn that made it old still runs while the Thread shows
\* one.  The state a refused send restores is never a running turn.
Marked ==
  ~closed =>
    /\ prev # "working"
    /\ \A p \in Senders : pc[p] \in {"sent", "took", "back"} =>
         /\ p \notin moved => ~pturn
         /\ p \in moved /\ base = "working" => pturn
         /\ pc[p] = "took" => p \in moved

TurnInv ==
  /\ OpeningHeld /\ TurnHeard /\ ClosedDetached
  /\ Quiet /\ Marked /\ WorkingIsReal
TurnFacts ==
  /\ TypeInv /\ Ownership /\ OpeningHeld /\ TurnHeard /\ ClosedDetached
  /\ Quiet /\ Marked /\ WorkingIsReal

\* Settle, Reopen, Archive and Unarchive.
Moves == {<<"active", "settled">>, <<"settled", "active">>,
          <<"active", "archived">>, <<"settled", "archived">>,
          <<"archived", "active">>}

LEMMA SubmitTurns ==
  ASSUME TurnFacts, NEW h \in Handlers, NEW r \in Prompts, NEW m \in
         {"send", "queue", "steer"}, Submit(h, r, m)
  PROVE  TurnInv'
  <1>1. TurnHeard' /\ ClosedDetached' /\ Quiet' /\ Marked'
    BY DEF TurnFacts, Submit, Heard, Goto, TurnHeard, ClosedDetached, Quiet,
           Marked
  <1>2. OpeningHeld'
    BY NoneIsNoProc
       DEF TurnFacts, TypeInv, TypeOK, ThreadOK, ConvOK, ProcOK, Ownership,
           OneOwner, Procs, Senders, Submit, Goto, OpeningHeld
  <1>3. WorkingIsReal'
    BY DEF TurnFacts, Submit, Goto, InFlight, WorkingIsReal
  <1> QED BY <1>1, <1>2, <1>3 DEF TurnInv

LEMMA EnqueueTurns ==
  ASSUME TurnFacts, NEW h \in Handlers, Enqueue(h)
  PROVE  TurnInv'
  <1>1. TurnHeard' /\ ClosedDetached'
    BY DEF TurnFacts, Enqueue, Heard, TurnHeard, ClosedDetached
  <1>2. OpeningHeld'
    BY DEF TurnFacts, TypeInv, TypeOK, ProcOK, Enqueue, Finish, Goto,
           OpeningHeld
  <1>3. Quiet'
    BY DEF TurnFacts, Procs, Senders, Enqueue, Quiet
  <1>4. Marked'
    BY DEF TurnFacts, TypeInv, TypeOK, ProcOK, Procs, Enqueue, Finish, Goto,
           Marked
  <1>5. WorkingIsReal'
    BY DEF TurnFacts, Ownership, OneOwner, Procs, Senders, Enqueue, InFlight,
           WorkingIsReal
  <1> QED BY <1>1, <1>2, <1>3, <1>4, <1>5 DEF TurnInv

LEMMA RouteSteerTurns ==
  ASSUME TurnFacts, NEW h \in Handlers, RouteSteer(h)
  PROVE  TurnInv'
  <1>1. TurnHeard' /\ ClosedDetached'
    BY DEF TurnFacts, RouteSteer, Heard, TurnHeard, ClosedDetached
  <1>2. OpeningHeld'
    BY DEF TurnFacts, TypeInv, TypeOK, ProcOK, RouteSteer, Advance, ToRecord,
           ToCheck, Goto, OpeningHeld
  <1>3. Quiet'
    BY DEF TurnFacts, Procs, Senders, RouteSteer, Quiet
  <1>4. Marked'
    BY DEF TurnFacts, TypeInv, TypeOK, ProcOK, Procs, RouteSteer, Advance,
           ToRecord, ToCheck, Goto, Marked
  <1>5. WorkingIsReal'
    BY DEF TurnFacts, Ownership, OneOwner, Procs, Senders, RouteSteer,
           InFlight, WorkingIsReal
  <1> QED BY <1>1, <1>2, <1>3, <1>4, <1>5 DEF TurnInv

LEMMA RouteSendTurns ==
  ASSUME TurnFacts, NEW h \in Handlers, RouteSend(h)
  PROVE  TurnInv'
  <1>1. TurnHeard' /\ ClosedDetached'
    BY DEF TurnFacts, RouteSend, Heard, TurnHeard, ClosedDetached
  <1>2. OpeningHeld'
    BY DEF TurnFacts, TypeInv, TypeOK, ProcOK, RouteSend, Finish, ToCheck,
           Goto, OpeningHeld
  <1>3. Quiet'
    BY DEF TurnFacts, Procs, Senders, RouteSend, Quiet
  <1>4. Marked'
    BY DEF TurnFacts, TypeInv, TypeOK, ProcOK, Procs, RouteSend, Finish,
           ToCheck, Goto, Marked
  <1>5. WorkingIsReal'
    BY DEF TurnFacts, Ownership, OneOwner, Procs, Senders, RouteSend, InFlight,
           WorkingIsReal
  <1> QED BY <1>1, <1>2, <1>3, <1>4, <1>5 DEF TurnInv

LEMMA CheckHolderTurns ==
  ASSUME TurnFacts, NEW p \in Senders, CheckHolder(p)
  PROVE  TurnInv'
  <1>1. OpeningHeld' /\ TurnHeard' /\ ClosedDetached' /\ Quiet' /\ Marked'
    BY DEF TurnFacts, CheckHolder, Goto, Heard, OpeningHeld, TurnHeard,
           ClosedDetached, Quiet, Marked
  <1>2. WorkingIsReal'
    BY DEF TurnFacts, CheckHolder, Goto, InFlight, WorkingIsReal
  <1> QED BY <1>1, <1>2 DEF TurnInv

LEMMA HolderAnsweredQuiet ==
  ASSUME TurnFacts, NEW p \in Senders, NEW inUse \in BOOLEAN,
         HolderAnswered(p, inUse)
  PROVE  Quiet'
  <1>1. SUFFICES ASSUME stage # "active" \/ removed
                 PROVE  /\ ~conv /\ opens = "none" /\ queue = <<>>
                        /\ sending = None /\ ~pturn /\ ~pend
                        /\ \A q \in Procs :
                             \/ pc'[q] = "idle"
                             \/ /\ pc[q] = "holder" /\ q \in moved
                                /\ pc'[q] = pc[q] /\ q \in moved'
    BY DEF HolderAnswered, Quiet
  <1>2. p \in Procs /\ pc[p] = "holder" /\ p \in moved /\ req[p] \in Prompts
    BY <1>1 DEF HolderAnswered, TurnFacts, Quiet, TypeInv, Carries, Procs
  <1>3. p # Drain
    BY <1>1, <1>2, ThreadConstants
       DEF TurnFacts, Quiet, Ownership, DrainCarriesHead
  <1>4. Goto(p, "idle") /\ moved' = moved \ {p}
    BY <1>2, <1>3 DEF HolderAnswered, Checked, Finish
  <1> QED BY <1>1, <1>2, <1>4 DEF Goto, TurnFacts, Quiet, TypeInv, TypeOK, ProcOK

LEMMA HolderAnsweredTurns ==
  ASSUME TurnFacts, NEW p \in Senders, NEW inUse \in BOOLEAN,
         HolderAnswered(p, inUse)
  PROVE  TurnInv'
  <1>1. TurnHeard' /\ ClosedDetached'
    BY DEF TurnFacts, HolderAnswered, Heard, TurnHeard, ClosedDetached
  <1>2. OpeningHeld'
    BY DEF TurnFacts, TypeInv, TypeOK, ProcOK, HolderAnswered, Finish, Goto,
           OpeningHeld
  <1>3. Quiet'
    BY HolderAnsweredQuiet
  <1>4. Marked'
    BY DEF TurnFacts, TypeInv, TypeOK, ProcOK, Procs, HolderAnswered, Finish,
           Goto, Marked
  <1>5. WorkingIsReal'
    BY DEF TurnFacts, TypeInv, TypeOK, ProcOK, Procs, HolderAnswered, Finish,
           Goto, InFlight, WorkingIsReal
  <1> QED BY <1>1, <1>2, <1>3, <1>4, <1>5 DEF TurnInv

LEMMA OpenForPromptTurns ==
  ASSUME TurnFacts, NEW p \in Senders, OpenForPrompt(p)
  PROVE  TurnInv'
  <1>1. ClosedDetached' /\ Quiet'
    BY DEF TurnFacts, Procs, OpenForPrompt, OpenBegins, ClosedDetached, Quiet
  <1>2. OpeningHeld'
    BY DEF TurnFacts, TypeInv, TypeOK, ProcOK, Ownership, OneOwner, Procs,
           OpenForPrompt, OpenBegins, ToRecord, Advance, Finish, Goto,
           OpeningHeld
  <1>3. TurnHeard'
    BY DEF TurnFacts, Ownership, OneOwner, Procs, OpenForPrompt, Heard,
           TurnHeard, OpeningHeld
  <1>4. Marked'
    BY DEF TurnFacts, TypeInv, TypeOK, ProcOK, Procs, OpenForPrompt,
           OpenBegins, ToRecord, Advance, Goto, KeyMoved, AtHolder, Marked
  <1>5. WorkingIsReal'
    BY DEF TurnFacts, Ownership, OneOwner, Procs, OpenForPrompt, InFlight,
           WorkingIsReal
  <1> QED BY <1>1, <1>2, <1>3, <1>4, <1>5 DEF TurnInv

LEMMA OpenEndsTurns ==
  ASSUME TurnFacts, NEW p \in Procs, NEW ok \in BOOLEAN, OpenEnds(p, ok)
  PROVE  TurnInv'
  <1>1. OpeningHeld'
    BY DEF TurnFacts, TypeInv, TypeOK, ProcOK, Ownership, OneOwner, OpenEnds,
           Advance, ToRecord, Goto, OpeningHeld
  <1>2. TurnHeard'
    BY DEF TurnFacts, TypeInv, TypeOK, ConvOK, OpenEnds, Heard, TurnHeard
  <1>3. ClosedDetached'
    BY DEF TurnFacts, TypeInv, TypeOK, ConvOK, OpenEnds, Current,
           ClosedDetached
  <1>4. Quiet'
    BY DEF TurnFacts, OpenEnds, Quiet
  <1>5. Marked'
    BY DEF TurnFacts, TypeInv, TypeOK, ProcOK, Ownership, OneOwner, Procs,
           OpenEnds, Advance, ToRecord, Goto, Marked
  <1>6. WorkingIsReal'
    BY DEF TurnFacts, TypeInv, TypeOK, ConvOK, Ownership, OneOwner, Procs,
           OpenEnds, Current, InFlight, Heard, WorkingIsReal, OpeningHeld,
           TurnHeard
  <1> QED BY <1>1, <1>2, <1>3, <1>4, <1>5, <1>6 DEF TurnInv

LEMMA UnreadyTurns ==
  ASSUME TurnFacts, NEW p \in Senders, Unready(p)
  PROVE  TurnInv'
  <1>1. TurnHeard' /\ ClosedDetached'
    BY DEF TurnFacts, Unready, Heard, TurnHeard, ClosedDetached
  <1>2. OpeningHeld'
    BY DEF TurnFacts, Unready, ToRecord, Goto, OpeningHeld
  <1>3. Quiet'
    BY DEF TurnFacts, Unready, ToRecord, Goto, Quiet
  <1>4. Marked'
    BY DEF TurnFacts, Unready, ToRecord, Goto, Marked
  <1>5. WorkingIsReal'
    BY DEF TurnFacts, Unready, ToRecord, Goto, InFlight, WorkingIsReal
  <1> QED BY <1>1, <1>2, <1>3, <1>4, <1>5 DEF TurnInv

LEMMA CommitTurns ==
  ASSUME TurnFacts, NEW p \in Senders, Commit(p)
  PROVE  TurnInv'
  <1>1. TurnHeard' /\ ClosedDetached' /\ Quiet'
    BY DEF TurnFacts, Procs, Commit, Heard, TurnHeard, ClosedDetached, Quiet
  <1>2. OpeningHeld'
    BY DEF TurnFacts, TypeInv, TypeOK, ProcOK, Commit, Advance, Finish,
           ToRecord, Goto, OpeningHeld
  <1>3. Marked'
    BY DEF TurnFacts, TypeInv, TypeOK, ProcOK, Ownership, OneOwner, Procs,
           Commit, Busy, State, Advance, Finish, ToRecord, Goto, Marked,
           WorkingIsReal
  <1>4. WorkingIsReal'
    BY DEF TurnFacts, TypeInv, TypeOK, ProcOK, Procs, Commit, Advance, Finish,
           ToRecord, Goto, InFlight, WorkingIsReal
  <1> QED BY <1>1, <1>2, <1>3, <1>4 DEF TurnInv

LEMMA TakesTurns ==
  ASSUME TurnFacts, NEW p \in Senders, Takes(p)
  PROVE  TurnInv'
  <1>1. TurnHeard' /\ ClosedDetached' /\ Quiet' /\ WorkingIsReal'
    BY DEF TurnFacts, Takes, Heard, TurnStarts, TurnHeard, ClosedDetached,
           Quiet, WorkingIsReal
  <1>2. OpeningHeld'
    BY DEF TurnFacts, Takes, Advance, Goto, OpeningHeld
  <1>3. Marked'
    BY DEF TurnFacts, Procs, Takes, TurnStarts, TurnMoved, Advance, Goto,
           AtSend, Marked
  <1> QED BY <1>1, <1>2, <1>3 DEF TurnInv

LEMMA AcceptsTurns ==
  ASSUME TurnFacts, NEW p \in Senders, Accepts(p)
  PROVE  TurnInv'
  <1>1. TurnHeard' /\ ClosedDetached' /\ WorkingIsReal'
    BY DEF TurnFacts, Accepts, Heard, TurnHeard, ClosedDetached, WorkingIsReal,
           Marked
  <1>2. OpeningHeld'
    BY DEF TurnFacts, Accepts, ToRecord, Goto, OpeningHeld
  <1>3. Quiet'
    BY DEF TurnFacts, Accepts, ToRecord, Goto, Quiet
  <1>4. Marked'
    BY DEF TurnFacts, TypeInv, TypeOK, ProcOK, Procs, Accepts, ToRecord, Goto,
           Marked
  <1> QED BY <1>1, <1>2, <1>3, <1>4 DEF TurnInv

LEMMA SendFailsTurns ==
  ASSUME TurnFacts, NEW p \in Senders, NEW result \in {"busy", "rejected",
         "uncertain"}, SendFails(p, result)
  PROVE  TurnInv'
  <1>1. OpeningHeld' /\ TurnHeard' /\ ClosedDetached' /\ Quiet' /\ Marked'
    BY DEF TurnFacts, SendFails, Goto, Heard, OpeningHeld, TurnHeard,
           ClosedDetached, Quiet, Marked
  <1>2. WorkingIsReal'
    BY DEF TurnFacts, SendFails, Goto, InFlight, WorkingIsReal
  <1> QED BY <1>1, <1>2 DEF TurnInv

LEMMA SteersTurns ==
  ASSUME TurnFacts, NEW p \in Senders, NEW result \in {"accepted",
         "rejected", "uncertain", "error"}, Steers(p, result)
  PROVE  TurnInv'
  <1>1. TurnHeard' /\ ClosedDetached' /\ Quiet'
    BY DEF TurnFacts, Procs, Steers, Heard, TurnHeard, ClosedDetached, Quiet
  <1>2. OpeningHeld'
    BY DEF TurnFacts, TypeInv, TypeOK, ProcOK, Steers, Finish, ToRecord, Goto,
           OpeningHeld
  <1>3. Marked'
    BY DEF TurnFacts, TypeInv, TypeOK, ProcOK, Procs, Steers, Finish, ToRecord,
           Goto, Marked
  <1>4. WorkingIsReal'
    BY DEF TurnFacts, Ownership, OneOwner, Procs, Steers, InFlight,
           WorkingIsReal
  <1> QED BY <1>1, <1>2, <1>3, <1>4 DEF TurnInv

LEMMA RestoreTurns ==
  ASSUME TurnFacts, NEW p \in Senders, Restore(p)
  PROVE  TurnInv'
  <1>1. TurnHeard' /\ ClosedDetached' /\ Quiet' /\ WorkingIsReal'
    BY DEF TurnFacts, Procs, Restore, Heard, TurnHeard, ClosedDetached, Quiet,
           WorkingIsReal, Marked
  <1>2. OpeningHeld'
    BY DEF TurnFacts, TypeInv, TypeOK, ProcOK, Restore, Finish, ToRecord, Goto,
           OpeningHeld
  <1>3. Marked'
    BY DEF TurnFacts, TypeInv, TypeOK, ProcOK, Procs, Restore, Finish,
           ToRecord, Goto, Marked
  <1> QED BY <1>1, <1>2, <1>3 DEF TurnInv

LEMMA RecordTurns ==
  ASSUME TurnFacts, NEW p \in Senders, Record(p)
  PROVE  TurnInv'
  <1>1. TurnHeard' /\ ClosedDetached' /\ Quiet'
    BY DEF TurnFacts, Procs, Record, Heard, TurnHeard, ClosedDetached, Quiet
  <1>2. OpeningHeld'
    BY DEF TurnFacts, TypeInv, TypeOK, ProcOK, Record, Finish, Goto,
           OpeningHeld
  <1>3. Marked'
    BY DEF TurnFacts, TypeInv, TypeOK, ThreadOK, ProcOK, Procs, Record, Finish,
           Goto, KeyMoved, AtHolder, Marked
  <1>4. WorkingIsReal'
    BY DEF TurnFacts, Ownership, OneOwner, Procs, Record, InFlight,
           WorkingIsReal
  <1> QED BY <1>1, <1>2, <1>3, <1>4 DEF TurnInv

LEMMA DrainBeginsTurns ==
  ASSUME TurnFacts, DrainBegins
  PROVE  TurnInv'
  <1>1. TurnHeard' /\ ClosedDetached' /\ Quiet'
    BY DEF TurnFacts, DrainBegins, Heard, TurnHeard, ClosedDetached, Quiet
  <1>2. OpeningHeld'
    BY NoneIsNoProc
       DEF TurnFacts, TypeInv, TypeOK, ProcOK, Ownership, OneOwner,
           DrainBegins, ToCheck, Goto, OpeningHeld
  <1>3. Marked'
    BY DEF TurnFacts, TypeInv, TypeOK, ProcOK, Procs, DrainBegins, ToCheck,
           Goto, Marked
  <1>4. WorkingIsReal'
    BY NoneIsNoProc
       DEF TurnFacts, Ownership, OneOwner, Procs, DrainBegins, InFlight,
           WorkingIsReal
  <1> QED BY <1>1, <1>2, <1>3, <1>4 DEF TurnInv

LEMMA DrainEndsTurns ==
  ASSUME TurnFacts, DrainEnds
  PROVE  TurnInv'
  <1>1. OpeningHeld' /\ TurnHeard' /\ ClosedDetached' /\ Quiet' /\ Marked'
    BY NoneIsNoProc
       DEF TurnFacts, DrainEnds, Goto, Heard, OpeningHeld, TurnHeard,
           ClosedDetached, Quiet, Marked
  <1>2. WorkingIsReal'
    BY DEF TurnFacts, DrainEnds, Goto, InFlight, WorkingIsReal
  <1> QED BY <1>1, <1>2 DEF TurnInv

LEMMA ViewOpenTurns ==
  ASSUME TurnFacts, ViewOpen
  PROVE  TurnInv'
  <1>1. OpeningHeld' /\ TurnHeard' /\ ClosedDetached' /\ Quiet' /\ WorkingIsReal'
    BY DEF TurnFacts, ViewOpen, Heard, AutoOpenable, InFlight, OpeningHeld,
           TurnHeard, ClosedDetached, Quiet, WorkingIsReal
  <1>2. Marked'
    BY DEF TurnFacts, ViewOpen, KeyMoved, AtHolder, Marked
  <1> QED BY <1>1, <1>2 DEF TurnInv

LEMMA OpenForViewTurns ==
  ASSUME TurnFacts, OpenForView
  PROVE  TurnInv'
  <1>1. OpeningHeld'
    BY NoneIsNoProc
       DEF TurnFacts, TypeInv, TypeOK, ProcOK, Ownership, OneOwner,
           OpenForView, OpenBegins, Goto, OpeningHeld
  <1>2. TurnHeard'
    BY NoneIsNoProc
       DEF TurnFacts, Ownership, OneOwner, OpenForView, Heard, TurnHeard,
           OpeningHeld
  <1>3. ClosedDetached'
    BY DEF TurnFacts, OpenForView, OpenBegins, ClosedDetached
  <1>4. Quiet'
    BY DEF TurnFacts, OpenForView, OpenBegins, AutoOpenable, Quiet
  <1>5. Marked'
    BY DEF TurnFacts, TypeInv, TypeOK, ProcOK, Procs, OpenForView, OpenBegins,
           KeyMoved, AtHolder, Goto, Marked
  <1>6. WorkingIsReal'
    BY NoneIsNoProc
       DEF TurnFacts, Ownership, OneOwner, Procs, OpenForView, InFlight,
           WorkingIsReal
  <1> QED BY <1>1, <1>2, <1>3, <1>4, <1>5, <1>6 DEF TurnInv

LEMMA CancelQueuedTurns ==
  ASSUME TurnFacts, NEW i \in DOMAIN queue, CancelQueued(i)
  PROVE  TurnInv'
  BY DEF TurnFacts, CancelQueued, Heard, InFlight, OpeningHeld, TurnHeard,
         ClosedDetached, Quiet, Marked, WorkingIsReal, TurnInv

LEMMA ClearQueueTurns ==
  ASSUME TurnFacts, ClearQueue
  PROVE  TurnInv'
  BY DEF TurnFacts, ClearQueue, Heard, InFlight, OpeningHeld, TurnHeard,
         ClosedDetached, Quiet, Marked, WorkingIsReal, TurnInv

LEMMA ResumeQueueTurns ==
  ASSUME TurnFacts, ResumeQueue
  PROVE  TurnInv'
  BY DEF TurnFacts, ResumeQueue, Heard, InFlight, OpeningHeld, TurnHeard,
         ClosedDetached, Quiet, Marked, WorkingIsReal, TurnInv

LEMMA StopTurns ==
  ASSUME TurnFacts, Stop
  PROVE  TurnInv'
  <1>1. OpeningHeld' /\ TurnHeard' /\ ClosedDetached' /\ Quiet' /\ WorkingIsReal'
    BY DEF TurnFacts, Stop, Heard, InFlight, OpeningHeld, TurnHeard,
           ClosedDetached, Quiet, WorkingIsReal
  <1>2. Marked'
    BY DEF TurnFacts, Stop, KeyMoved, AtHolder, Marked
  <1> QED BY <1>1, <1>2 DEF TurnInv

LEMMA CloseTurns ==
  ASSUME TurnFacts, Close
  PROVE  TurnInv'
  <1>1. TurnHeard' /\ WorkingIsReal'
    BY DEF Close, Disconnect, Detach, TurnHeard, WorkingIsReal
  <1>2. OpeningHeld'
    BY DEF TurnFacts, Close, Disconnect, Detach, OpeningHeld
  <1>3. ClosedDetached'
    BY DEF TurnFacts, Close, Disconnect, Detach, ClosedDetached
  <1>4. Quiet'
    BY DEF TurnFacts, Close, Disconnect, Detach, TurnMoved, Quiet
  <1>5. Marked'
    BY DEF TurnFacts, Close, Disconnect, Detach, TurnMoved, Marked
  <1> QED BY <1>1, <1>2, <1>3, <1>4, <1>5 DEF TurnInv

LEMMA MoveStageTurns ==
  ASSUME TurnFacts, NEW from, NEW to, <<from, to>> \in Moves,
         MoveStage(from, to)
  PROVE  TurnInv'
  <1>1. OpeningHeld' /\ ClosedDetached'
    BY DEF TurnFacts, MoveStage, OpeningHeld, ClosedDetached
  <1>2. TurnHeard'
    BY DEF TurnFacts, MoveStage, Disconnect, Detach, Heard, TurnHeard
  <1>3. Quiet'
    BY NoneIsNoProc
       DEF TurnFacts, Ownership, OneOwner, MoveStage, RunsOrWaits, Disconnect,
           Detach, KeyMoved, TurnMoved, AtHolder, Heard, Quiet, OpeningHeld,
           TurnHeard
  <1>4. Marked'
    BY NoneIsNoProc
       DEF TurnFacts, Ownership, OneOwner, MoveStage, Disconnect, Detach,
           KeyMoved, TurnMoved, AtHolder, AtSend, Marked
  <1>5. WorkingIsReal'
    BY DEF TurnFacts, MoveStage, Disconnect, Detach, InFlight, WorkingIsReal,
           Quiet
  <1> QED BY <1>1, <1>2, <1>3, <1>4, <1>5 DEF TurnInv

LEMMA DeleteTurns ==
  ASSUME TurnFacts, Delete
  PROVE  TurnInv'
  <1>1. OpeningHeld' /\ TurnHeard' /\ ClosedDetached' /\ Quiet' /\ WorkingIsReal'
    BY DEF TurnFacts, Delete, KeyMoved, InFlight, OpeningHeld, TurnHeard,
           Quiet, ClosedDetached, WorkingIsReal
  <1>2. Marked'
    BY DEF TurnFacts, Delete, KeyMoved, AtHolder, Marked
  <1> QED BY <1>1, <1>2 DEF TurnInv

LEMMA CloseIdleTurns ==
  ASSUME TurnFacts, CloseIdle
  PROVE  TurnInv'
  <1>1. OpeningHeld' /\ TurnHeard' /\ ClosedDetached' /\ Quiet'
    BY DEF TurnFacts, CloseIdle, Detach, OpeningHeld, TurnHeard,
           ClosedDetached, Quiet
  <1>2. Marked'
    BY DEF TurnFacts, CloseIdle, RunsOrWaits, Busy, State, Detach, KeyMoved,
           Marked
  <1>3. WorkingIsReal'
    BY DEF CloseIdle, RunsOrWaits, Busy, State, Detach, WorkingIsReal
  <1> QED BY <1>1, <1>2, <1>3 DEF TurnInv

LEMMA ShutdownTurns ==
  ASSUME TurnFacts, Shutdown
  PROVE  TurnInv'
  <1>1. OpeningHeld' /\ TurnHeard' /\ ClosedDetached' /\ Marked' /\ WorkingIsReal'
    BY DEF TurnFacts, Shutdown, Detach, OpeningHeld, TurnHeard, ClosedDetached,
           Marked, WorkingIsReal
  <1>2. Quiet'
    BY DEF TurnFacts, Shutdown, Detach, TurnMoved, Quiet
  <1> QED BY <1>1, <1>2 DEF TurnInv

LEMMA OwnTurnTurns ==
  ASSUME TurnFacts, OwnTurn
  PROVE  TurnInv'
  <1>1. OpeningHeld' /\ TurnHeard' /\ ClosedDetached' /\ Quiet' /\ WorkingIsReal'
    BY DEF TurnFacts, OwnTurn, Heard, TurnStarts, OpeningHeld, TurnHeard,
           ClosedDetached, Quiet, WorkingIsReal
  <1>2. Marked'
    BY DEF TurnFacts, Procs, OwnTurn, TurnStarts, TurnMoved, AtSend, Marked
  <1> QED BY <1>1, <1>2 DEF TurnInv

LEMMA LateTakeTurns ==
  ASSUME TurnFacts, NEW r \in Prompts, LateTake(r)
  PROVE  TurnInv'
  <1>1. OpeningHeld' /\ TurnHeard' /\ ClosedDetached' /\ Quiet' /\ WorkingIsReal'
    BY DEF TurnFacts, LateTake, Heard, TurnStarts, OpeningHeld, TurnHeard,
           ClosedDetached, Quiet, WorkingIsReal
  <1>2. Marked'
    BY DEF TurnFacts, Procs, LateTake, TurnStarts, TurnMoved, AtSend, Marked
  <1> QED BY <1>1, <1>2 DEF TurnInv

LEMMA TurnEndsTurns ==
  ASSUME TurnFacts, NEW kind \in {"completed", "cancelled", "failed"},
         TurnEnds(kind)
  PROVE  TurnInv'
  BY DEF TurnFacts, TurnEnds, TurnMoved, OpeningHeld, TurnHeard,
         ClosedDetached, Quiet, Marked, WorkingIsReal, TurnInv

LEMMA AsksTurns ==
  ASSUME TurnFacts, Asks
  PROVE  TurnInv'
  <1>1. OpeningHeld' /\ TurnHeard' /\ ClosedDetached' /\ Quiet' /\ WorkingIsReal'
    BY DEF TurnFacts, Asks, Heard, InFlight, OpeningHeld, TurnHeard,
           ClosedDetached, Quiet, WorkingIsReal
  <1>2. Marked'
    BY DEF TurnFacts, Asks, KeyMoved, AtHolder, Marked
  <1> QED BY <1>1, <1>2 DEF TurnInv

LEMMA AnsweredTurns ==
  ASSUME TurnFacts, Answered
  PROVE  TurnInv'
  <1>1. OpeningHeld' /\ TurnHeard' /\ ClosedDetached' /\ Quiet' /\ WorkingIsReal'
    BY DEF TurnFacts, Answered, Heard, InFlight, OpeningHeld, TurnHeard,
           ClosedDetached, Quiet, WorkingIsReal
  <1>2. Marked'
    BY DEF TurnFacts, Answered, KeyMoved, AtHolder, Marked
  <1> QED BY <1>1, <1>2 DEF TurnInv

LEMMA AgentStartsTurns ==
  ASSUME TurnFacts, AgentStarts
  PROVE  TurnInv'
  BY DEF TurnFacts, AgentStarts, Heard, OpeningHeld, TurnHeard, ClosedDetached,
         Quiet, Marked, WorkingIsReal, TurnInv

LEMMA AgentsEndTurns ==
  ASSUME TurnFacts, AgentsEnd
  PROVE  TurnInv'
  <1>1. OpeningHeld' /\ TurnHeard' /\ ClosedDetached' /\ WorkingIsReal'
    BY DEF TurnFacts, AgentsEnd, Heard, InFlight, OpeningHeld, TurnHeard,
           ClosedDetached, WorkingIsReal
  <1>2. Quiet'
    BY DEF TurnFacts, TypeInv, TypeOK, ConvOK, AgentsEnd, KeyMoved, Quiet
  <1>3. Marked'
    BY DEF TurnFacts, AgentsEnd, KeyMoved, AtHolder, Marked
  <1> QED BY <1>1, <1>2, <1>3 DEF TurnInv

LEMMA ConversationExitsTurns ==
  ASSUME TurnFacts, NEW detached \in BOOLEAN, ConversationExits(detached),
         detached <=> leaving
  PROVE  TurnInv'
  <1>1. OpeningHeld' /\ TurnHeard' /\ ClosedDetached' /\ Quiet'
    BY DEF TurnFacts, ConversationExits, Detach, Heard, OpeningHeld, TurnHeard,
           ClosedDetached, Quiet
  <1>2. Marked'
    BY DEF TurnFacts, ConversationExits, RunsOrWaits, Busy, State, Detach,
           KeyMoved, TurnMoved, AtHolder, Marked, TurnHeard
  <1>3. WorkingIsReal'
    BY DEF TurnFacts, ConversationExits, RunsOrWaits, Busy, State, Detach,
           InFlight, WorkingIsReal, TurnHeard
  <1> QED BY <1>1, <1>2, <1>3 DEF TurnInv

LEMMA DetachBeginsTurns ==
  ASSUME TurnFacts, DetachBegins
  PROVE  TurnInv'
  BY DEF TurnFacts, DetachBegins, TurnMoved, OpeningHeld, TurnHeard,
         ClosedDetached, Quiet, Marked, WorkingIsReal, TurnInv

LEMMA SendTurns ==
  ASSUME TurnFacts, NEW p \in Senders, SendStep(p)
  PROVE  TurnInv'
  <1>1. p \in Procs
    BY DEF Procs
  <1>2. CASE \/ CheckHolder(p) \/ OpenForPrompt(p) \/ Unready(p) \/ Commit(p)
             \/ \E inUse \in BOOLEAN : HolderAnswered(p, inUse)
             \/ \E ok \in BOOLEAN : OpenEnds(p, ok)
    BY <1>1, <1>2, CheckHolderTurns, HolderAnsweredTurns, OpenForPromptTurns,
       OpenEndsTurns, UnreadyTurns, CommitTurns
  <1>3. CASE \/ Takes(p) \/ Accepts(p) \/ Restore(p) \/ Record(p)
             \/ \E result \in {"busy", "rejected", "uncertain"} :
                  SendFails(p, result)
             \/ \E result \in {"accepted", "rejected", "uncertain", "error"} :
                  Steers(p, result)
    BY <1>3, TakesTurns, AcceptsTurns, SendFailsTurns, SteersTurns,
       RestoreTurns, RecordTurns
  <1> QED BY <1>2, <1>3 DEF SendStep

LEMMA OwnerTurns ==
  ASSUME TurnFacts, OwnerStep
  PROVE  TurnInv'
  <1>1. CASE Settle \/ Reopen \/ Archive \/ Unarchive
    BY <1>1, MoveStageTurns DEF Settle, Reopen, Archive, Unarchive, Moves
  <1>2. CASE \/ ClearQueue \/ \E i \in DOMAIN queue : CancelQueued(i)
             \/ \E h \in Handlers, r \in Prompts, m \in {"send", "queue", "steer"} :
                  Submit(h, r, m)
    BY <1>2, ClearQueueTurns, CancelQueuedTurns, SubmitTurns
  <1> QED BY <1>1, <1>2, ViewOpenTurns, ResumeQueueTurns, StopTurns, CloseTurns,
             DeleteTurns DEF OwnerStep

LEMMA ProviderTurns ==
  ASSUME TurnFacts, ProviderStep
  PROVE  TurnInv'
  <1>1. CASE Exits \/ DetachEnds
    BY <1>1, ConversationExitsTurns DEF Exits, DetachEnds
  <1>2. CASE \/ \E r \in Prompts : LateTake(r)
             \/ \E kind \in {"completed", "cancelled", "failed"} : TurnEnds(kind)
    BY <1>2, LateTakeTurns, TurnEndsTurns
  <1> QED BY <1>1, <1>2, OwnTurnTurns, AsksTurns, AnsweredTurns,
             AgentStartsTurns, AgentsEndTurns, DetachBeginsTurns
          DEF ProviderStep

LEMMA TurnStep ==
  ASSUME TurnFacts, [Next]_vars
  PROVE  TurnInv'
  <1>1. CASE UNCHANGED vars
    <2>1. UNCHANGED <<threadVars, base, convVars, askVars, queueVars, procVars,
                      prev, moved, provVars>>
      BY <1>1 DEF vars
    <2> QED BY <2>1
            DEF TurnFacts, TurnInv, OpeningHeld, TurnHeard, Heard,
                ClosedDetached, Quiet, Marked, WorkingIsReal, InFlight
  <1>2. CASE \E h \in Handlers : HandlerStep(h)
    <2>1. PICK h \in Handlers : HandlerStep(h)
      BY <1>2
    <2> QED BY <2>1, SendTurns, EnqueueTurns, RouteSteerTurns, RouteSendTurns
            DEF HandlerStep, Senders
  <1>3. CASE DrainStep
    BY <1>3, SendTurns, DrainEndsTurns DEF DrainStep, Senders
  <1>4. CASE ViewStep
    BY <1>4, OpenEndsTurns DEF ViewStep, Procs
  <1>5. CASE ServiceStep
    BY <1>5, CloseIdleTurns, ShutdownTurns DEF ServiceStep
  <1> QED BY <1>1, <1>2, <1>3, <1>4, <1>5, OwnerTurns, ProviderTurns,
             DrainBeginsTurns, OpenForViewTurns DEF Next

\* One turn at a time: what the Thread shows and what the provider runs agree,
\* and a Thread that is put away stays quiet, in every reachable state.
THEOREM TurnsInductive ==
  Spec => []TurnFacts
  <1>1. Init => TurnInv
    BY NoneIsNoProc
       DEF Init, TurnInv, OpeningHeld, TurnHeard, Heard, ClosedDetached, Quiet,
           Marked, WorkingIsReal, InFlight, Procs
  <1>2. Once /\ TurnInv /\ [Next]_vars => TurnInv'
    BY TurnStep DEF Once, TurnInv, TurnFacts
  <1>3. Once /\ TurnInv => TurnFacts
    BY DEF Once, TurnInv, TurnFacts
  <1> QED BY <1>1, <1>2, <1>3, OnceInductive, PTL DEF Spec

\* A Thread whose conversation is open shows a running turn exactly when the
\* provider runs one or a prompt is on its way to it, however the answers of a
\* send, an open, a detach and the turn's own end interleave.
THEOREM ShownTurnIsReal ==
  Spec => []WorkingIsReal
  <1>1. TurnFacts => WorkingIsReal
    BY DEF TurnFacts
  <1> QED BY <1>1, TurnsInductive, PTL

\* A settled, archived or deleted Thread has no conversation, no queue and no
\* work in progress, whatever was under way when it was put away.
THEOREM PutAwayStaysQuiet ==
  Spec => []PutAwayIsQuiet
  <1>1. TurnFacts => PutAwayIsQuiet
    BY DEF TurnFacts, Quiet, PutAwayIsQuiet, Procs
  <1> QED BY <1>1, TurnsInductive, PTL

-----------------------------------------------------------------------------
(* 5. Thread implements Delivery.                                          *)

AcceptedWasTaken ==
  \A p \in Senders :
    pc[p] = "took" \/ (pc[p] = "record" /\ res[p] = "accepted") =>
      req[p] \in Range(taken)
FloatingIsUncertain == \A r \in floating : outcome[r] \in {"none", "uncertain"}
Honest == AcceptedWasTaken /\ FloatingIsUncertain

LEMMA TakenSteps ==
  ASSUME [Next]_vars
  PROVE  \/ UNCHANGED taken
         \/ \E p \in Senders : Takes(p)
         \/ \E p \in Senders :
              \E result \in {"accepted", "rejected", "uncertain", "error"} :
                Steers(p, result)
         \/ \E r \in Prompts : LateTake(r)
  <1>1. CASE UNCHANGED coreVars
    BY <1>1 DEF coreVars
  <1>2. CASE \E h \in Handlers : StartStep(h)
    BY <1>2 DEF StartStep, Submit, Enqueue, RouteSteer, RouteSend
  <1>3. CASE \E p \in Senders : SenderStep(p)
    BY <1>3 DEF SenderStep, CheckHolder, OpenForPrompt, Unready, Commit,
                Accepts, Restore, HolderAnswered, OpenEnds, SendFails, Record
  <1>4. CASE \/ DrainBegins \/ DrainEnds \/ OpenForView \/ Shutdown \/ ClearQueue
             \/ \E ok \in BOOLEAN : OpenEnds(View, ok)
             \/ \E i \in DOMAIN queue : CancelQueued(i)
    BY <1>4 DEF DrainBegins, DrainEnds, OpenForView, Shutdown, OpenEnds,
                CancelQueued, ClearQueue
  <1> QED BY <1>1, <1>2, <1>3, <1>4, OtherSteps DEF CoreStep

LEMMA AppendTaken ==
  ASSUME TypeInv, NEW r, taken' = Append(taken, r)
  PROVE  Range(taken') = Range(taken) \cup {r}
  <1>1. taken \in Seq(Prompts)
    BY DEF TypeInv, TypeOK, HistoryOK
  <1>2. /\ DOMAIN taken = 1 .. Len(taken) /\ Len(taken) \in Nat
        /\ DOMAIN taken' = 1 .. Len(taken) + 1
        /\ taken'[Len(taken) + 1] = r
        /\ \A i \in 1 .. Len(taken) : taken'[i] = taken[i]
    BY <1>1
  <1> QED BY <1>2 DEF Range

LEMMA TakenGrows ==
  ASSUME TypeInv, [Next]_vars
  PROVE  Range(taken) \subseteq Range(taken')
  <1>1. UNCHANGED taken \/ \E r : taken' = Append(taken, r)
    BY TakenSteps DEF Takes, Steers, LateTake
  <1> QED BY <1>1, AppendTaken

-----------------------------------------------------------------------------
(* A goroutine that carries an accepted prompt.                            *)

Accepting(p) == pc[p] = "took" \/ (pc[p] = "record" /\ res[p] = "accepted")

LEMMA AcceptedKept ==
  ASSUME TypeInv, [Next]_vars, AcceptedWasTaken,
         \A p \in Senders : Accepting(p)' => Accepting(p) /\ req'[p] = req[p]
  PROVE  AcceptedWasTaken'
  BY TakenGrows DEF AcceptedWasTaken, Accepting

LEMMA AcceptedStep ==
  ASSUME TypeInv, [Next]_vars, AcceptedWasTaken
  PROVE  AcceptedWasTaken'
  <1> USE DEF TypeInv, TypeOK, ProcOK
  <1>1. CASE UNCHANGED coreVars
    BY <1>1, AcceptedKept DEF coreVars, Accepting
  <1>2. ASSUME NEW h \in Handlers, StartStep(h)
        PROVE  AcceptedWasTaken'
    <2>1. h \in Procs /\ h \in Senders /\ h # Drain
      BY ProcsDistinct DEF Procs, Senders
    <2>2. \A p \in Senders \ {h} : /\ pc'[p] = pc[p] /\ res'[p] = res[p]
                                   /\ req'[p] = req[p]
      BY <1>2, <2>1 DEF StartStep, Submit, Enqueue, RouteSteer, RouteSend, Goto,
                        Advance, ToRecord, Finish, Procs
    <2>3. ~Accepting(h)'
      BY <1>2, <2>1 DEF StartStep, Submit, Enqueue, RouteSteer, RouteSend, Goto,
                        Advance, ToRecord, ToCheck, Finish, Accepting
    <2> QED BY <2>2, <2>3, AcceptedKept DEF Accepting
  <1>3. ASSUME NEW p \in Senders, SenderStep(p)
        PROVE  AcceptedWasTaken'
    <2>1. p \in Procs /\ p # View
      BY NoneIsNoProc DEF Procs
    <2>2. CASE CheckHolder(p) \/ Unready(p) \/ Commit(p) \/ OpenForPrompt(p)
               \/ \E ok \in BOOLEAN : OpenEnds(p, ok)
      <3>1. \A q \in Senders \ {p} : /\ pc'[q] = pc[q] /\ res'[q] = res[q]
                                     /\ req'[q] = req[q]
        BY <2>1, <2>2 DEF CheckHolder, Unready, Commit, OpenForPrompt, OpenEnds,
                          Goto, Advance, ToRecord, Finish, Procs
      <3>2. ~Accepting(p)'
        BY <2>1, <2>2 DEF CheckHolder, Unready, Commit, OpenForPrompt, OpenEnds,
                          Goto, Advance, ToRecord, Finish, Accepting
      <3> QED BY <3>1, <3>2, AcceptedKept DEF Accepting
    <2>3. CASE \/ \E inUse \in BOOLEAN : HolderAnswered(p, inUse)
               \/ Restore(p) \/ Record(p)
               \/ \E result \in {"busy", "rejected", "uncertain"} :
                    SendFails(p, result)
      <3>1. \A q \in Senders \ {p} : /\ pc'[q] = pc[q] /\ res'[q] = res[q]
                                     /\ req'[q] = req[q]
        BY <2>1, <2>3 DEF HolderAnswered, Restore, Record, SendFails,
                          Goto, Advance, ToRecord, Finish, Procs
      <3>2. ~Accepting(p)'
        BY <2>1, <2>3 DEF HolderAnswered, Restore, Record, SendFails, Carries,
                          Goto, Advance, ToRecord, Finish, Accepting
      <3> QED BY <3>1, <3>2, AcceptedKept DEF Accepting
    <2>4. CASE Accepts(p)
      <3>1. \A q \in Senders : req'[q] = req[q]
        BY <2>4 DEF Accepts, ToRecord
      <3>2. Accepting(p) /\ \A q \in Senders \ {p} : pc'[q] = pc[q] /\ res'[q] = res[q]
        BY <2>4 DEF Accepts, ToRecord, Goto, Accepting, Procs
      <3> QED BY <3>1, <3>2, AcceptedKept DEF Accepting
    <2>5. CASE \/ Takes(p)
               \/ \E result \in {"accepted", "rejected", "uncertain", "error"} :
                    Steers(p, result)
      <3>1. \A q \in Senders \ {p} : /\ pc'[q] = pc[q] /\ res'[q] = res[q]
                                     /\ req'[q] = req[q]
        BY <2>5 DEF Takes, Steers, Advance, ToRecord, Finish, Goto, Procs
      <3>2. Accepting(p)' => taken' = Append(taken, req[p]) /\ req'[p] = req[p]
        BY <2>1, <2>5 DEF Takes, Steers, Advance, ToRecord, Finish, Goto,
                          Accepting, Procs
      <3>3. Accepting(p)' => req'[p] \in Range(taken')
        BY <3>2, AppendTaken
      <3> QED BY <3>1, <3>3, TakenGrows DEF AcceptedWasTaken, Accepting
    <2> QED BY <1>3, <2>2, <2>3, <2>4, <2>5 DEF SenderStep
  <1>4. CASE DrainBegins \/ DrainEnds
    <2>1. \A q \in Senders \ {Drain} : /\ pc'[q] = pc[q] /\ res'[q] = res[q]
                                       /\ req'[q] = req[q]
      BY <1>4 DEF DrainBegins, DrainEnds, Goto, Procs
    <2>2. Accepting(Drain)' => Accepting(Drain) /\ req'[Drain] = req[Drain]
      BY <1>4, NoneIsNoProc DEF DrainBegins, DrainEnds, Goto, ToCheck, Accepting
    <2> QED BY <2>1, <2>2, AcceptedKept DEF Accepting
  <1>5. CASE OpenForView \/ \E ok \in BOOLEAN : OpenEnds(View, ok)
    <2>1. \A q \in Senders : /\ pc'[q] = pc[q] /\ res'[q] = res[q]
                             /\ req'[q] = req[q]
      BY <1>5, NoneIsNoProc DEF OpenForView, OpenEnds, Goto, Procs
    <2> QED BY <2>1, AcceptedKept DEF Accepting
  <1>6. CASE \/ \E i \in DOMAIN queue : CancelQueued(i)
             \/ ClearQueue \/ Shutdown \/ \E r \in Prompts : LateTake(r)
    BY <1>6, AcceptedKept DEF CancelQueued, ClearQueue, Shutdown, LateTake,
                              Accepting
  <1> QED BY <1>1, <1>2, <1>3, <1>4, <1>5, <1>6, OtherSteps DEF CoreStep

-----------------------------------------------------------------------------
(* A prompt that may still arrive.                                         *)

LEMMA FloatingSteps ==
  ASSUME [Next]_vars
  PROVE  \/ floating' \subseteq floating
         \/ \E p \in Senders : /\ pc[p] \in {"sent", "steer"}
                               /\ floating' = floating \cup {req[p]}
                               /\ UNCHANGED outcome
  <1>1. CASE UNCHANGED coreVars
    BY <1>1 DEF coreVars
  <1>2. CASE \E h \in Handlers : StartStep(h)
    BY <1>2 DEF StartStep, Submit, Enqueue, RouteSteer, RouteSend
  <1>3. ASSUME NEW p \in Senders, SenderStep(p)
        PROVE  \/ floating' \subseteq floating
               \/ /\ pc[p] \in {"sent", "steer"}
                  /\ floating' = floating \cup {req[p]}
                  /\ UNCHANGED outcome
    <2>1. CASE \E result \in {"busy", "rejected", "uncertain"} :
                 SendFails(p, result)
      BY <2>1 DEF SendFails
    <2>2. CASE \E result \in {"accepted", "rejected", "uncertain", "error"} :
                 Steers(p, result)
      BY <2>2 DEF Steers
    <2> QED BY <1>3, <2>1, <2>2
            DEF SenderStep, CheckHolder, OpenForPrompt, Unready, Commit, Takes,
                Accepts, Restore, HolderAnswered, OpenEnds, Record
  <1>4. CASE \/ DrainBegins \/ DrainEnds \/ OpenForView \/ Shutdown \/ ClearQueue
             \/ \E ok \in BOOLEAN : OpenEnds(View, ok)
             \/ \E i \in DOMAIN queue : CancelQueued(i)
             \/ \E r \in Prompts : LateTake(r)
    BY <1>4 DEF DrainBegins, DrainEnds, OpenForView, Shutdown, OpenEnds,
                CancelQueued, ClearQueue, LateTake
  <1> QED BY <1>1, <1>2, <1>3, <1>4, OtherSteps DEF CoreStep

\* A goroutine about to record something else than uncertain carries a prompt
\* that will not arrive later.
LEMMA RecordsTruth ==
  ASSUME Once, Honest, NEW p \in Senders, pc[p] = "record"
  PROVE  /\ req[p] \in Prompts /\ outcome[req[p]] = "none"
         /\ res[p] \in {"accepted", "rejected", "uncertain"}
         /\ res[p] = "accepted" => req[p] \in Range(taken)
         /\ res[p] = "rejected" => req[p] \notin Given
         /\ req[p] \in floating => res[p] = "uncertain"
  <1>1. req[p] \in Prompts /\ res[p] \in {"accepted", "rejected", "uncertain"}
    BY DEF Once, TypeInv, Carries, Outcomes
  <1>2. outcome[req[p]] = "none"
    BY DEF Once, Freshness, CarriedFresh, Pending, Known
  <1>3. res[p] = "accepted" => req[p] \in Range(taken)
    BY DEF Honest, AcceptedWasTaken
  <1>4. res[p] = "rejected" => req[p] \notin Given
    BY DEF Once, Delivery, CarriedNotGiven, MayGive, Pending
  <1>5. req[p] \in floating => res[p] = "uncertain"
    BY <1>1, <1>3, <1>4 DEF Given, Once, Delivery, GivenOnce
  <1> QED BY <1>1, <1>2, <1>3, <1>4, <1>5

LEMMA FloatingStep ==
  ASSUME Once, Honest, [Next]_vars
  PROVE  FloatingIsUncertain'
  <1> USE DEF Once, TypeInv, TypeOK, QueueOK
  <1>1. CASE /\ UNCHANGED outcome /\ floating' \subseteq floating
    BY <1>1 DEF Honest, FloatingIsUncertain
  <1>2. ASSUME NEW p \in Senders, pc[p] \in {"sent", "steer"},
               floating' = floating \cup {req[p]}, UNCHANGED outcome
        PROVE  FloatingIsUncertain'
    <2>1. outcome[req[p]] = "none"
      BY <1>2 DEF Freshness, CarriedFresh, Pending, Known
    <2> QED BY <1>2, <2>1 DEF Honest, FloatingIsUncertain
  <1>3. ASSUME NEW p \in Senders, Record(p)
        PROVE  FloatingIsUncertain'
    <2>1. UNCHANGED floating /\ pc[p] = "record"
          /\ outcome' = [outcome EXCEPT ![req[p]] = res[p]]
      BY <1>3 DEF Record
    <2>2. req[p] \in floating => res[p] = "uncertain"
      BY <2>1, RecordsTruth
    <2> QED BY <2>1, <2>2 DEF Honest, FloatingIsUncertain
  <1>4. CASE ClearQueue \/ \E i \in DOMAIN queue : CancelQueued(i)
    <2>1. floating \cap Range(queue) = {} /\ UNCHANGED floating
      BY <1>4 DEF ClearQueue, CancelQueued, Delivery, QueueNotGiven, Given
    <2>2. \A r \in floating : r \in Prompts
      BY DEF HistoryOK
    <2>3. \A r \in floating : outcome'[r] = outcome[r]
      BY <1>4, <2>1, <2>2 DEF ClearQueue, CancelQueued, Range
    <2> QED BY <2>1, <2>3 DEF Honest, FloatingIsUncertain
  <1> QED BY <1>1, <1>2, <1>3, <1>4, FloatingSteps, OutcomeSteps

LEMMA HonestStep ==
  ASSUME Once, Honest, [Next]_vars
  PROVE  Honest'
  BY AcceptedStep, FloatingStep DEF Honest, Once

-----------------------------------------------------------------------------
(* The refinement.                                                         *)

USE DEF Promise!vars

LEMMA GivesPromised ==
  ASSUME TypeInv, NEW r \in Prompts, r \notin Range(taken),
         outcome[r] \in {"none", "uncertain"},
         taken' = Append(taken, r), UNCHANGED outcome
  PROVE  Promise!Next
  <1>1. Promise!Give(r)
    BY AppendTaken DEF Promise!Give
  <1> QED BY <1>1 DEF Promise!Next

LEMMA TakesPromised ==
  ASSUME Once, Honest,
         \/ \E p \in Senders : Takes(p)
         \/ \E p \in Senders :
              \E result \in {"accepted", "rejected", "uncertain", "error"} :
                Steers(p, result)
         \/ \E r \in Prompts : LateTake(r)
  PROVE  [Promise!Next]_(Promise!vars)
  <1>1. ASSUME NEW p \in Senders, pc[p] \in {"sent", "steer"},
               taken' = Append(taken, req[p]), UNCHANGED outcome
        PROVE  Promise!Next
    <2>1. req[p] \in Prompts
      BY <1>1 DEF Once, TypeInv, Carries
    <2>2. outcome[req[p]] = "none"
      BY <1>1 DEF Once, Freshness, CarriedFresh, Pending, Known
    <2>3. req[p] \notin Range(taken)
      BY <1>1 DEF Once, Delivery, CarriedNotGiven, MayGive, Pending, Given
    <2> QED BY <1>1, <2>1, <2>2, <2>3, GivesPromised DEF Once
  <1>2. ASSUME NEW p \in Senders, Takes(p)
        PROVE  Promise!Next
    BY <1>1, <1>2 DEF Takes
  <1>3. ASSUME NEW p \in Senders,
               NEW result \in {"accepted", "rejected", "uncertain", "error"},
               Steers(p, result)
        PROVE  [Promise!Next]_(Promise!vars)
    BY <1>1, <1>3 DEF Steers
  <1>4. ASSUME NEW r \in Prompts, LateTake(r)
        PROVE  Promise!Next
    <2>1. r \in floating /\ taken' = Append(taken, r) /\ UNCHANGED outcome
      BY <1>4 DEF LateTake
    <2>2. outcome[r] \in {"none", "uncertain"} /\ r \notin Range(taken)
      BY <2>1 DEF Honest, FloatingIsUncertain, Once, Delivery, GivenOnce
    <2> QED BY <2>1, <2>2, GivesPromised DEF Once
  <1> QED BY <1>2, <1>3, <1>4

LEMMA AnswersPromised ==
  ASSUME Once, Honest, NEW p \in Senders, Record(p)
  PROVE  Promise!Next
  <1>1. pc[p] = "record" /\ UNCHANGED taken
        /\ outcome' = [outcome EXCEPT ![req[p]] = res[p]]
    BY DEF Record
  <1>2. Promise!Answer(req[p], res[p])
    BY <1>1, RecordsTruth DEF Promise!Answer, Given
  <1> QED BY <1>1, <1>2, RecordsTruth DEF Promise!Next

LEMMA CancelsPromised ==
  ASSUME Once, ClearQueue \/ \E i \in DOMAIN queue : CancelQueued(i)
  PROVE  Promise!Next
  <1> USE DEF Once, TypeInv, TypeOK, QueueOK
  <1>1. /\ Range(queue) \subseteq Prompts
        /\ Range(queue) \cap Range(taken) = {}
        /\ \A r \in Range(queue) : outcome[r] = "none"
    <2>1. \A i \in DOMAIN queue : queue[i] \in Prompts
      OBVIOUS
    <2>2. Range(queue) \cap Range(taken) = {}
      BY DEF Delivery, QueueNotGiven, Given
    <2>3. \A i \in DOMAIN queue : outcome[queue[i]] = "none"
      BY DEF Freshness, QueueFresh
    <2> QED BY <2>1, <2>2, <2>3 DEF Range
  <1>2. ASSUME NEW R \in SUBSET Range(queue), R # {}, UNCHANGED taken,
               outcome' = [r \in Prompts |-> IF r \in R THEN "cancelled"
                                             ELSE outcome[r]]
        PROVE  Promise!Next
    <2>1. Promise!Cancel(R)
      BY <1>1, <1>2 DEF Promise!Cancel
    <2> QED BY <1>1, <2>1 DEF Promise!Next
  <1>3. CASE ClearQueue
    <2>1. Range(queue) # {}
      BY <1>3 DEF ClearQueue, Range
    <2> QED BY <1>2, <1>3, <2>1 DEF ClearQueue
  <1>4. ASSUME NEW i \in DOMAIN queue, CancelQueued(i)
        PROVE  Promise!Next
    <2>1. {queue[i]} \subseteq Range(queue)
      BY DEF Range
    <2>2. outcome' = [r \in Prompts |-> IF r \in {queue[i]} THEN "cancelled"
                                        ELSE outcome[r]]
      BY <1>1, <1>4, <2>1 DEF CancelQueued
    <2> QED BY <1>2, <1>4, <2>1, <2>2 DEF CancelQueued
  <1> QED BY <1>3, <1>4

LEMMA StepPromised ==
  ASSUME Once, Honest, [Next]_vars
  PROVE  [Promise!Next]_(Promise!vars)
  <1>1. CASE UNCHANGED <<taken, outcome>>
    BY <1>1
  <1>2. CASE ~UNCHANGED taken
    BY <1>2, TakenSteps, TakesPromised
  <1>3. CASE ~UNCHANGED outcome
    BY <1>3, OutcomeSteps, AnswersPromised, CancelsPromised
  <1> QED BY <1>1, <1>2, <1>3

LEMMA HonestInit ==
  ASSUME Init
  PROVE  Honest /\ Promise!Init
  <1>1. Honest
    BY DEF Init, Honest, AcceptedWasTaken, FloatingIsUncertain, Procs
  <1>2. Range(taken) = {}
    BY DEF Init, Range
  <1> QED BY <1>1, <1>2 DEF Init, Promise!Init

\* A Thread does what Delivery promises: its provider takes a prompt at most
\* once, and what is recorded of a prompt is final and true.
THEOREM ThreadDelivers ==
  Spec => ImplementsDelivery
  <1>1. Init => Honest /\ Promise!Init
    BY HonestInit
  <1>2. Once /\ Honest /\ [Next]_vars => Honest' /\ [Promise!Next]_(Promise!vars)
    BY HonestStep, StepPromised
  <1> QED BY <1>1, <1>2, OnceInductive, PTL
          DEF Spec, ImplementsDelivery, Promise!Spec

\* An accepted prompt reached the provider; a rejected or cancelled one did not
\* and never will, however late the provider's answers are.
THEOREM RecordsAreTrue ==
  Spec => []Promise!RecordIsTrue
  <1>1. Promise!Init => Promise!RecordIsTrue
    BY DEF Promise!Init, Promise!RecordIsTrue
  <1>2. ASSUME Promise!RecordIsTrue, [Promise!Next]_(Promise!vars), TypeInv
        PROVE  Promise!RecordIsTrue'
    <2> USE DEF TypeInv, TypeOK, QueueOK, Promise!RecordIsTrue
    <2>1. CASE UNCHANGED Promise!vars
      BY <1>2, <2>1
    <2>2. ASSUME NEW r \in Prompts, Promise!Give(r)
          PROVE  Promise!RecordIsTrue'
      BY <1>2, <2>2 DEF Promise!Give
    <2>3. ASSUME NEW r \in Prompts,
                 NEW answer \in {"accepted", "rejected", "uncertain"},
                 Promise!Answer(r, answer)
          PROVE  Promise!RecordIsTrue'
      BY <1>2, <2>3 DEF Promise!Answer
    <2>4. ASSUME NEW R \in SUBSET Prompts, Promise!Cancel(R)
          PROVE  Promise!RecordIsTrue'
      BY <1>2, <2>4 DEF Promise!Cancel
    <2> QED BY <1>2, <2>1, <2>2, <2>3, <2>4 DEF Promise!Next
  <1> QED BY <1>1, <1>2, ThreadDelivers, TypeCorrect, PTL
          DEF ImplementsDelivery, Promise!Spec
=============================================================================

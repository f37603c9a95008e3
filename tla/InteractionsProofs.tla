------------------------- MODULE InteractionsProofs -------------------------
(***************************************************************************)
(* The first answer wins, yolo leaves no permission waiting, and the mode  *)
(* is the runtime's, for any number of requests, clients and setters.      *)
(*                                                                         *)
(* The three have an invariant each.  Answers: the runtime's verdict on a  *)
(* request is made once, and who returned with ok is who made it.  Yolo    *)
(* is kept by looking at the pending requests in the section that changes  *)
(* the mode, the conversation or a request.  The mode: whoever changes it  *)
(* holds s.op, as an open and a close do, so nothing else moves the        *)
(* runtime's meanwhile, and what was found of it stays true.               *)
(***************************************************************************)
EXTENDS Interactions, TLAPS

-----------------------------------------------------------------------------
(* Answers.                                                                *)

AnswersTyped ==
  /\ at \in [Responders -> {"idle", "call", "rpc", "back"}]
  /\ on \in [Clients -> Requests \cup {None}]
  /\ result \in [Responders -> {"ok", "gone", "failed", "none"}]
  /\ took \in [Requests -> Responders \cup {None, Cli}]
  /\ run \in [Requests -> {"none", "waiting", "over"}]
  /\ apend \in [Requests -> {"none", "pending", "answering"}]
  /\ told \in [Requests -> SUBSET Responders]

BusyOn == \A c \in Responders : Busy(c) => On(c) \in Requests
CallsAsk == \A c \in Responders : at[c] = "rpc" => On(c) \notin Questions
OkIsTaken == \A c \in Responders : result[c] = "ok" => Busy(c) /\ took[On(c)] = c
VerdictIsLast == \A r \in Requests : run[r] # "over" => took[r] = None
QuestionsWait == \A r \in Questions : apend[r] = "pending" => run[r] = "waiting"

\* The inductive invariant of the answers.
AnswersInv ==
  /\ AnswersTyped /\ BusyOn /\ CallsAsk /\ OkIsTaken /\ VerdictIsLast
  /\ QuestionsWait /\ FirstAnswerWins

\* An automatic answer is to its own request.
LEMMA AutomaticIsOn ==
  ASSUME InteractionConstants, NEW r \in Requests
  PROVE  Automatic(r) \in Responders /\ Automatic(r) \notin Clients /\ On(Automatic(r)) = r
<1>1. Automatic(r) \in Responders /\ Automatic(r) \notin Clients
  BY DEF InteractionConstants, Responders
<1>2. Automatic(r)[2] = r
  BY DEF Automatic
<1> QED
  BY <1>1, <1>2 DEF On

\* A look at the requests starts goroutines of its own only.
Looks == \A c \in Responders : \/ at'[c] = at[c]
                               \/ at'[c] = "call" /\ On(c) \in Requests
LEMMA LooksStart ==
  ASSUME InteractionConstants, AnswersTyped, NEW S \in SUBSET Requests, NEW now,
         AutoAllow(S, now)
  PROVE  /\ at' \in [Responders -> {"idle", "call", "rpc", "back"}]
         /\ Looks
<1>1. PICK claims \in SUBSET S :
        at' = [c \in Responders |->
                 IF \E r \in claims : c = Automatic(r) THEN "call" ELSE at[c]]
  BY DEF AutoAllow
<1>2. ASSUME NEW c \in Responders
      PROVE  at'[c] = at[c] \/ (at'[c] = "call" /\ On(c) \in Requests)
  <2>1. CASE \E r \in claims : c = Automatic(r)
    <3>1. PICK r \in Requests : c = Automatic(r)
      BY <2>1
    <3> QED
      BY <1>1, <2>1, <3>1, AutomaticIsOn
  <2>2. CASE ~\E r \in claims : c = Automatic(r)
    BY <1>1, <2>2
  <2> QED
    BY <2>1, <2>2
<1> QED
  BY <1>1, <1>2 DEF AnswersTyped, Looks

\* Steps that no answer returns in: a verdict is made at most once.
Verdicts ==
  /\ \A r \in Requests : \/ took'[r] = took[r]
                         \/ took[r] = None /\ run'[r] = "over"
  /\ \A r \in Requests : run'[r] # "over" => run[r] # "over" /\ took'[r] = took[r]
LEMMA StepKeepsAnswers ==
  ASSUME InteractionConstants, AnswersInv, AnswersTyped',
         UNCHANGED <<on, told, result>>, Looks, Verdicts, QuestionsWait'
  PROVE  AnswersInv'
<1>1. \A c \in Responders : On(c)' = On(c)
  BY DEF On
<1>2. BusyOn'
  BY <1>1 DEF AnswersInv, BusyOn, Busy, Looks
<1>3. CallsAsk'
  BY <1>1 DEF AnswersInv, CallsAsk, Looks
<1>4. OkIsTaken'
  <2> SUFFICES ASSUME NEW c \in Responders, result[c] = "ok"
               PROVE  at'[c] # "idle" /\ took'[On(c)] = c
    BY <1>1 DEF OkIsTaken, Busy
  <2>1. /\ at[c] # "idle" /\ took[On(c)] = c /\ On(c) \in Requests
    BY DEF AnswersInv, OkIsTaken, BusyOn, Busy
  <2>2. c # None
    BY DEF InteractionConstants
  <2> QED
    BY <2>1, <2>2 DEF Looks, Verdicts
<1>5. VerdictIsLast'
  BY DEF AnswersInv, VerdictIsLast, Verdicts
<1>6. FirstAnswerWins'
  <2> SUFFICES ASSUME NEW r \in Requests PROVE told[r] \subseteq {took'[r]}
    BY DEF FirstAnswerWins
  <2>1. told[r] \subseteq {took[r]} /\ told[r] \subseteq Responders
    BY DEF AnswersInv, FirstAnswerWins, AnswersTyped
  <2>2. CASE took'[r] = took[r]
    BY <2>1, <2>2
  <2>3. CASE took[r] = None
    BY <2>1, <2>3 DEF InteractionConstants
  <2> QED
    BY <2>2, <2>3 DEF Verdicts
<1> QED
  BY <1>2, <1>3, <1>4, <1>5, <1>6 DEF AnswersInv

LEMMA InitAnswers == ASSUME InteractionConstants, Init PROVE AnswersInv
<1>1. AnswersTyped
  BY DEF Init, AnswersTyped
<1>2. BusyOn /\ CallsAsk /\ OkIsTaken
  BY DEF Init, BusyOn, Busy, CallsAsk, OkIsTaken
<1>3. VerdictIsLast /\ QuestionsWait /\ FirstAnswerWins
  BY DEF Init, VerdictIsLast, QuestionsWait, FirstAnswerWins, Requests
<1> QED
  BY <1>1, <1>2, <1>3 DEF AnswersInv

LEMMA AnswerKeepsAnswers ==
  ASSUME InteractionConstants, AnswersInv, NEW d \in Clients, NEW q \in Requests,
         Answer(d, q)
  PROVE  AnswersInv'
<1>1. UNCHANGED <<run, took, apend, result, told>>
  BY DEF Answer, provVars
<1>2. AnswersTyped'
  BY <1>1 DEF AnswersInv, AnswersTyped, Answer
<1>3. \A c \in Responders : \/ at'[c] = at[c] /\ On(c)' = On(c)
                            \/ /\ c = d /\ at[c] = "idle" /\ at'[c] = "call"
                               /\ On(c)' = q
  BY DEF Answer, Busy, On, Responders, AnswersInv, AnswersTyped
<1>4. BusyOn' /\ OkIsTaken'
  BY <1>1, <1>3 DEF AnswersInv, BusyOn, OkIsTaken, Busy
<1>5. CallsAsk'
  BY <1>3 DEF AnswersInv, CallsAsk
<1>6. VerdictIsLast' /\ QuestionsWait' /\ FirstAnswerWins'
  BY <1>1 DEF AnswersInv, VerdictIsLast, QuestionsWait, FirstAnswerWins
<1> QED
  BY <1>2, <1>4, <1>5, <1>6 DEF AnswersInv

\* An answer returns: what it says is what the runtime decided.
LEMMA ReturnKeepsAnswers ==
  ASSUME InteractionConstants, AnswersInv, AnswersTyped', NEW c \in Responders,
         NEW res \in {"ok", "gone", "failed"}, Busy(c), Returns(c, res),
         Verdicts, QuestionsWait', res = "ok" => took'[On(c)] = c
  PROVE  AnswersInv'
<1>1. \A d \in Responders : On(d)' = On(d)
  BY DEF On, Returns
<1>2. /\ at' = [at EXCEPT ![c] = "back"] /\ result' = [result EXCEPT ![c] = res]
      /\ told' = told /\ at \in [Responders -> {"idle", "call", "rpc", "back"}]
      /\ result \in [Responders -> {"ok", "gone", "failed", "none"}]
  BY DEF Returns, AnswersInv, AnswersTyped
<1>3. BusyOn' /\ CallsAsk'
  BY <1>1, <1>2 DEF AnswersInv, BusyOn, CallsAsk, Busy
<1>4. OkIsTaken'
  <2> SUFFICES ASSUME NEW d \in Responders, result'[d] = "ok"
               PROVE  at'[d] # "idle" /\ took'[On(d)] = d
    BY <1>1 DEF OkIsTaken, Busy
  <2>1. CASE d = c
    BY <1>2, <2>1
  <2>2. CASE d # c
    <3>1. /\ at'[d] = at[d] /\ at[d] # "idle" /\ took[On(d)] = d
          /\ On(d) \in Requests /\ d # None
      BY <1>2, <2>2 DEF AnswersInv, OkIsTaken, BusyOn, Busy, InteractionConstants
    <3> QED
      BY <3>1 DEF Verdicts
  <2> QED
    BY <2>1, <2>2
<1>5. VerdictIsLast'
  BY DEF AnswersInv, VerdictIsLast, Verdicts
<1>6. FirstAnswerWins'
  <2> SUFFICES ASSUME NEW r \in Requests PROVE told[r] \subseteq {took'[r]}
    BY <1>2 DEF FirstAnswerWins
  <2>1. told[r] \subseteq {took[r]} /\ told[r] \subseteq Responders
    BY DEF AnswersInv, FirstAnswerWins, AnswersTyped
  <2>2. CASE took'[r] = took[r]
    BY <2>1, <2>2
  <2>3. CASE took[r] = None
    BY <2>1, <2>3 DEF InteractionConstants
  <2> QED
    BY <2>2, <2>3 DEF Verdicts
<1> QED
  BY <1>3, <1>4, <1>5, <1>6 DEF AnswersInv

LEMMA RespondKeepsAnswers ==
  ASSUME InteractionConstants, AnswersInv, NEW c \in Responders, Respond(c)
  PROVE  AnswersInv'
<1> DEFINE r == On(c)
<1>1. at[c] = "call" /\ r \in Requests /\ Busy(c)
  BY DEF Respond, AnswersInv, BusyOn, Busy
<1> HIDE DEF r
<1>2. CASE Returns(c, "gone") /\ UNCHANGED provVars
  <2>1. AnswersTyped'
    BY <1>2 DEF AnswersInv, AnswersTyped, Returns, provVars
  <2>2. Verdicts /\ QuestionsWait'
    BY <1>2 DEF AnswersInv, Verdicts, QuestionsWait, provVars
  <2> QED
    BY <1>1, <1>2, <2>1, <2>2, ReturnKeepsAnswers
<1>3. CASE /\ apend[r] = "pending" /\ r \in Questions
           /\ apend' = [apend EXCEPT ![r] = "none"]
           /\ run' = [run EXCEPT ![r] = "over"] /\ took' = [took EXCEPT ![r] = c]
           /\ Returns(c, "ok")
  <2>1. AnswersTyped'
    BY <1>3 DEF AnswersInv, AnswersTyped, Returns
  <2>2. took[r] = None /\ took'[r] = c
    BY <1>1, <1>3 DEF AnswersInv, QuestionsWait, VerdictIsLast, AnswersTyped
  <2>3. Verdicts /\ QuestionsWait'
    BY <1>1, <1>3, <2>2 DEF AnswersInv, AnswersTyped, Verdicts, QuestionsWait,
                            Requests
  <2> QED
    BY <1>1, <1>3, <2>1, <2>2, <2>3, ReturnKeepsAnswers DEF r
<1>4. CASE /\ r \notin Questions /\ apend' = [apend EXCEPT ![r] = "answering"]
           /\ at' = [at EXCEPT ![c] = "rpc"]
           /\ UNCHANGED <<run, took, on, result, told>>
  <2>1. AnswersTyped'
    BY <1>4 DEF AnswersInv, AnswersTyped
  <2>2. \A d \in Responders : On(d)' = On(d)
    BY <1>4 DEF On
  <2>3. BusyOn' /\ OkIsTaken' /\ CallsAsk'
    BY <1>1, <1>4, <2>2 DEF AnswersInv, AnswersTyped, BusyOn, OkIsTaken, CallsAsk,
                            Busy, r
  <2>4. VerdictIsLast' /\ FirstAnswerWins'
    BY <1>4 DEF AnswersInv, VerdictIsLast, FirstAnswerWins
  <2>5. QuestionsWait'
    BY <1>1, <1>4 DEF AnswersInv, AnswersTyped, QuestionsWait, Requests
  <2> QED
    BY <2>1, <2>3, <2>4, <2>5 DEF AnswersInv
<1> QED
  BY <1>2, <1>3, <1>4 DEF Respond, respVars, provVars, r

LEMMA RepliesKeepAnswers ==
  ASSUME InteractionConstants, AnswersInv, NEW c \in Responders,
         RuntimeTakes(c) \/ Replied(c) \/ ReplyLost(c)
  PROVE  AnswersInv'
<1> DEFINE r == On(c)
<1>1. at[c] = "rpc" /\ r \in Requests /\ r \notin Questions /\ Busy(c)
  BY DEF RuntimeTakes, Replied, ReplyLost, AnswersInv, BusyOn, Busy, CallsAsk
<1> HIDE DEF r
<1>2. CASE RuntimeTakes(c)
  <2>1. /\ run' = [run EXCEPT ![r] = "over"] /\ took' = [took EXCEPT ![r] = c]
        /\ run[r] = "waiting" /\ UNCHANGED <<apend, at, on, result, told>>
    BY <1>2 DEF RuntimeTakes, respVars, r
  <2>2. AnswersTyped'
    BY <2>1 DEF AnswersInv, AnswersTyped
  <2>3. Looks
    BY <2>1 DEF Looks
  <2>4. Verdicts
    BY <1>1, <2>1 DEF AnswersInv, AnswersTyped, VerdictIsLast, Verdicts
  <2>5. QuestionsWait'
    BY <1>1, <2>1 DEF AnswersInv, AnswersTyped, QuestionsWait, Requests
  <2> QED
    BY <2>1, <2>2, <2>3, <2>4, <2>5, StepKeepsAnswers
<1>3. CASE Replied(c)
  <2>1. /\ UNCHANGED <<run, took>>
        /\ apend' = apend \/ apend' = [apend EXCEPT ![r] = "none"]
    BY <1>3 DEF Replied, r
  <2>2. PICK res \in {"ok", "gone"} : /\ Returns(c, res)
                                      /\ res = "ok" => took[r] = c
    BY <1>3 DEF Replied, Applied, r
  <2>3. AnswersTyped'
    BY <2>1, <2>2 DEF AnswersInv, AnswersTyped, Returns
  <2>4. Verdicts /\ QuestionsWait'
    BY <2>1 DEF AnswersInv, AnswersTyped, Verdicts, QuestionsWait, Requests
  <2> QED
    BY <1>1, <2>1, <2>2, <2>3, <2>4, ReturnKeepsAnswers DEF r
<1>4. CASE ReplyLost(c)
  <2>1. /\ Returns(c, "failed") /\ UNCHANGED <<run, took>>
        /\ apend' = apend \/ apend' = [apend EXCEPT ![r] = "pending"]
    BY <1>4 DEF ReplyLost, r
  <2>2. AnswersTyped'
    BY <2>1 DEF AnswersInv, AnswersTyped, Returns
  <2>3. Verdicts /\ QuestionsWait'
    BY <1>1, <2>1 DEF AnswersInv, AnswersTyped, Verdicts, QuestionsWait, Requests
  <2> QED
    BY <1>1, <2>1, <2>2, <2>3, ReturnKeepsAnswers
<1> QED
  BY <1>2, <1>3, <1>4

LEMMA RespondedKeepsAnswers ==
  ASSUME InteractionConstants, AnswersInv, NEW c \in Responders, Responded(c)
  PROVE  AnswersInv'
<1> DEFINE r == On(c)
<1>1. result[c] = "ok" => took[r] = c
  BY DEF AnswersInv, OkIsTaken
<1>2. /\ \/ told' = told
         \/ result[c] = "ok" /\ told' = [told EXCEPT ![r] = @ \cup {c}]
      /\ at' = [at EXCEPT ![c] = "idle"] /\ result' = [result EXCEPT ![c] = "none"]
      /\ on' = [d \in Clients |-> IF d = c THEN None ELSE on[d]]
      /\ UNCHANGED <<run, took, apend>>
  BY DEF Responded, provVars
<1>3. \A d \in Responders : d # c => On(d)' = On(d)
  BY <1>2 DEF On, Responders
<1>4. r \in Requests
  BY DEF Responded, AnswersInv, BusyOn, Busy
<1> HIDE DEF r
<1>5. AnswersTyped'
  BY <1>2, <1>4 DEF AnswersInv, AnswersTyped
<1>6. BusyOn' /\ CallsAsk' /\ OkIsTaken'
  BY <1>2, <1>3 DEF AnswersInv, AnswersTyped, BusyOn, Busy, CallsAsk, OkIsTaken
<1>7. VerdictIsLast' /\ QuestionsWait'
  BY <1>2 DEF AnswersInv, VerdictIsLast, QuestionsWait
<1>8. FirstAnswerWins'
  BY <1>1, <1>2, <1>4 DEF AnswersInv, AnswersTyped, FirstAnswerWins
<1> QED
  BY <1>5, <1>6, <1>7, <1>8 DEF AnswersInv

\* The runtime asks, decides, or ends; uam looks at what waits.
LEMMA RequestsKeepAnswers ==
  ASSUME InteractionConstants, AnswersInv, NEW r \in Requests,
         Ask(r) \/ AskAgain(r) \/ Decided(r) \/ Completed(r)
  PROVE  AnswersInv'
<1>1. UNCHANGED <<on, told, result>>
  BY DEF Ask, AskAgain, Decided, Completed, respVars
<1>2. /\ at' \in [Responders -> {"idle", "call", "rpc", "back"}]
      /\ Looks
  <2>1. CASE UNCHANGED at
    BY <2>1 DEF AnswersInv, AnswersTyped, Looks
  <2>2. CASE \E now : AutoAllow({r}, now)
    BY <2>2, LooksStart DEF AnswersInv
  <2> QED
    BY <2>1, <2>2 DEF Ask, AskAgain, Decided, Completed, respVars, Upsert
<1>3. /\ run' \in [Requests -> {"none", "waiting", "over"}]
      /\ apend' \in [Requests -> {"none", "pending", "answering"}]
      /\ took' \in [Requests -> Responders \cup {None, Cli}]
      /\ Verdicts /\ QuestionsWait'
  <2>1. CASE Ask(r)
    BY <2>1 DEF Ask, AnswersInv, AnswersTyped, VerdictIsLast, QuestionsWait,
                Verdicts, Requests
  <2>2. CASE AskAgain(r)
    BY <2>2 DEF AskAgain, AnswersInv, AnswersTyped, QuestionsWait, Verdicts,
                Requests
  <2>3. CASE Decided(r)
    BY <2>3 DEF Decided, AnswersInv, AnswersTyped, VerdictIsLast, QuestionsWait,
                Verdicts, Requests
  <2>4. CASE Completed(r)
    <3>1. /\ UNCHANGED <<run, took>>
          /\ apend' = apend \/ apend' = [apend EXCEPT ![r] = "none"]
      BY <2>4 DEF Completed
    <3> QED
      BY <3>1 DEF AnswersInv, AnswersTyped, QuestionsWait, Verdicts, Requests
  <2> QED
    BY <2>1, <2>2, <2>3, <2>4
<1>4. AnswersTyped'
  BY <1>1, <1>2, <1>3 DEF AnswersInv, AnswersTyped
<1> QED
  BY <1>1, <1>2, <1>3, <1>4, StepKeepsAnswers

LEMMA EndsKeepAnswers ==
  ASSUME InteractionConstants, AnswersInv,
         TurnAborts \/ OpenFails \/ Exit \/ CloseEnds
  PROVE  AnswersInv'
<1>1. UNCHANGED <<on, told, result, at>>
  BY DEF TurnAborts, OpenFails, Exit, CloseEnds, respVars
<1>2. /\ run' = [r \in Requests |-> IF run[r] = "waiting" THEN "over" ELSE run[r]]
      /\ \/ took' = took
         \/ took' = [r \in Requests |-> IF run[r] = "waiting" THEN Cli ELSE took[r]]
      /\ \/ apend' = [r \in Requests |-> "none"]
         \/ apend' = [r \in Requests |->
                        IF apend[r] = "pending" THEN "none" ELSE apend[r]]
  BY DEF TurnAborts, OpenFails, Exit, CloseEnds, AdapterEnds
<1>3. AnswersTyped'
  BY <1>1, <1>2 DEF AnswersInv, AnswersTyped
<1>4. Looks
  BY <1>1 DEF Looks
<1>5. Verdicts
  BY <1>2 DEF AnswersInv, AnswersTyped, VerdictIsLast, Verdicts
<1>6. QuestionsWait'
  BY <1>2 DEF QuestionsWait, Requests
<1> QED
  BY <1>1, <1>3, <1>4, <1>5, <1>6, StepKeepsAnswers

\* The steps that touch neither the runtime's requests nor the adapter's.
Elsewhere ==
  \/ OpenBegins \/ Opened \/ OpenEnds \/ CloseBegins
  \/ \E md \in Modes : SetPlain(md)
  \/ \E s \in Setters, md \in Modes : SetWaits(s, md)
  \/ \E s \in Setters : SetterStep(s)
LEMMA ElsewhereKeepsAnswers ==
  ASSUME InteractionConstants, AnswersInv, Elsewhere
  PROVE  AnswersInv'
<1>1. UNCHANGED <<on, told, result, run, took, apend>>
  BY DEF Elsewhere, OpenBegins, Opened, OpenEnds, CloseBegins, SetPlain, SetWaits,
         SetterStep, SetBegins, SetRefused, Change, SetEnds, ReadBack, SetFails,
         Frees, provVars, respVars
<1>2. /\ at' \in [Responders -> {"idle", "call", "rpc", "back"}]
      /\ Looks
  <2>1. CASE UNCHANGED at
    BY <2>1 DEF AnswersInv, AnswersTyped, Looks
  <2>2. CASE \E now : AutoAllow(Requests, now)
    BY <2>2, LooksStart DEF AnswersInv
  <2> QED
    BY <2>1, <2>2
    DEF Elsewhere, OpenBegins, Opened, OpenEnds, CloseBegins, SetPlain, SetWaits,
        SetterStep, SetBegins, SetRefused, Change, SetEnds, ReadBack, SetFails,
        AutoAllowPending, respVars
<1>3. AnswersTyped'
  BY <1>1, <1>2 DEF AnswersInv, AnswersTyped
<1>4. Verdicts /\ QuestionsWait'
  BY <1>1 DEF AnswersInv, Verdicts, QuestionsWait
<1> QED
  BY <1>1, <1>2, <1>3, <1>4, StepKeepsAnswers

LEMMA AnswersKept ==
  ASSUME InteractionConstants, AnswersInv, [Next]_vars
  PROVE  AnswersInv'
<1>1. CASE \E c \in Clients, r \in Requests : Answer(c, r)
  BY <1>1, AnswerKeepsAnswers
<1>2. CASE \E c \in Responders : ResponderStep(c)
  BY <1>2, RespondKeepsAnswers, RepliesKeepAnswers, RespondedKeepsAnswers
  DEF ResponderStep
<1>3. CASE \E r \in Requests : Ask(r) \/ AskAgain(r) \/ Decided(r) \/ Completed(r)
  BY <1>3, RequestsKeepAnswers
<1>4. CASE TurnAborts \/ OpenFails \/ Exit \/ CloseEnds
  BY <1>4, EndsKeepAnswers
<1>5. CASE Elsewhere
  BY <1>5, ElsewhereKeepsAnswers
<1>6. CASE UNCHANGED vars
  BY <1>6 DEF vars, respVars, provVars, AnswersInv, AnswersTyped, BusyOn, CallsAsk,
              OkIsTaken, VerdictIsLast, QuestionsWait, FirstAnswerWins, Busy, On
<1> QED
  BY <1>1, <1>2, <1>3, <1>4, <1>5, <1>6 DEF Next, OpenStep, Elsewhere

\* At most one answer to a request is reported as taken, and it is the one that
\* the provider took (Answer, autoAllowLocked, respond).
THEOREM FirstWins == Spec => []FirstAnswerWins
<1>1. Init => AnswersInv
  BY InteractionConstants, InitAnswers
<1>2. AnswersInv /\ [Next]_vars => AnswersInv'
  BY InteractionConstants, AnswersKept
<1>3. AnswersInv => FirstAnswerWins
  BY DEF AnswersInv
<1> QED
  BY <1>1, <1>2, <1>3, PTL DEF Spec

-----------------------------------------------------------------------------
(* Yolo.                                                                   *)

YoloTyped ==
  /\ ix \in [Requests -> Interaction]
  /\ result \in [Responders -> {"ok", "gone", "failed", "none"}]
\* No permission of S waits for the owner.
NoneWaits(i, r) == i[r].state = "pending" => i[r].answering \/ i[r].failed
YoloInv == YoloTyped /\ YoloLeavesNone

\* What becomes of an interaction.
LEMMA SettledStays ==
  ASSUME NEW i \in Interaction, NEW state \in States
  PROVE  Settled(i, state) \in Interaction /\ Settled(i, state).state = state
  BY DEF Settled, Interaction

LEMMA ExpiredStays ==
  ASSUME NEW i \in Interaction
  PROVE  Expired(i) \in Interaction /\ Expired(i).state = "expired"
  BY DEF Expired, Settled, Interaction, States

LEMMA ClaimedStays ==
  ASSUME NEW i \in Interaction
  PROVE  /\ Claim(i) \in Interaction /\ Claim(i).answering /\ Claim(i).state = i.state
         /\ [i EXCEPT !.answering = TRUE] \in Interaction
         /\ [i EXCEPT !.answering = TRUE].answering
<1>1. Claim(i) \in Interaction
  <2>1. CASE mode' = "yolo"
    BY <2>1 DEF Claim, Interaction
  <2>2. CASE mode' # "yolo"
    BY <2>2 DEF Claim, Interaction
  <2> QED
    BY <2>1, <2>2
<1>2. Claim(i).answering = TRUE /\ Claim(i).state = i.state
  BY DEF Claim, Interaction
<1>3. [i EXCEPT !.answering = TRUE] \in Interaction
  BY DEF Interaction
<1>4. [i EXCEPT !.answering = TRUE].answering = TRUE
  BY DEF Interaction
<1> QED
  BY <1>1, <1>2, <1>3, <1>4

LEMMA RecordedStays ==
  ASSUME NEW i \in Interaction, NEW res \in {"ok", "gone", "failed", "none"}
  PROVE  LET j == Recorded(Unclaimed(i, res), res)
         IN  j \in Interaction /\ (j.state = "pending" => j.failed)
<1> DEFINE u == Unclaimed(i, res)
<1>1. u \in Interaction
  <2>1. CASE res = "ok"
    BY <2>1 DEF Unclaimed, Interaction
  <2>2. CASE res # "ok"
    BY <2>2 DEF Unclaimed, Interaction
  <2> QED
    BY <2>1, <2>2
<1> HIDE DEF u
<1> DEFINE Stays == /\ Recorded(u, res) \in Interaction
                    /\ Recorded(u, res).state = "pending" => Recorded(u, res).failed
<1>2. ASSUME u.state # "pending" PROVE Stays
  <2>1. Recorded(u, res) = u
    BY <1>2 DEF Recorded
  <2> QED
    BY <1>1, <1>2, <2>1
<1>3. ASSUME u.state = "pending", res = "ok" PROVE Stays
  <2>1. Recorded(u, res) = Settled(u, "answered")
    BY <1>3 DEF Recorded
  <2>2. "answered" \in States
    BY DEF States
  <2> QED
    BY <1>1, <2>1, <2>2, SettledStays
<1>4. ASSUME u.state = "pending", res = "gone" PROVE Stays
  <2>1. Recorded(u, res) = Expired(u)
    BY <1>4 DEF Recorded
  <2> QED
    BY <1>1, <2>1, ExpiredStays
<1>5. ASSUME u.state = "pending", res \notin {"ok", "gone"} PROVE Stays
  <2>1. Recorded(u, res) = [u EXCEPT !.failed = TRUE]
    BY <1>5 DEF Recorded
  <2>2. [u EXCEPT !.failed = TRUE] \in Interaction
    BY <1>1 DEF Interaction
  <2>3. [u EXCEPT !.failed = TRUE].failed = TRUE
    BY <1>1 DEF Interaction
  <2> QED
    BY <2>1, <2>2, <2>3
<1>6. Stays
  BY <1>2, <1>3, <1>4, <1>5
<1> QED
  BY <1>6 DEF u

\* A look claims what it may of S, and changes nothing else.
LEMMA LooksClaim ==
  ASSUME NEW S \in SUBSET Requests, NEW now \in [Requests -> Interaction],
         AutoAllow(S, now)
  PROVE  /\ ix' \in [Requests -> Interaction]
         /\ \A r \in Requests : NoneWaits(now, r) => NoneWaits(ix', r)
         /\ conv' /\ mode' = "yolo" /\ ~unknown' =>
              \A r \in S : r \in Permissions => NoneWaits(ix', r)
<1> DEFINE claims == {r \in S : Claimable(r, now[r])}
<1>1. ix' = [r \in Requests |-> IF r \in claims THEN Claim(now[r]) ELSE now[r]]
  BY DEF AutoAllow
<1>2. ASSUME conv', mode' = "yolo", ~unknown', NEW r \in S, r \in Permissions,
             now[r].state = "pending", ~now[r].answering
      PROVE  r \in claims
  BY <1>2 DEF Claimable, Allowable
<1> HIDE DEF claims
<1>3. ASSUME NEW r \in Requests
      PROVE  /\ ix'[r] \in Interaction
             /\ r \in claims => ix'[r].answering
             /\ r \notin claims => ix'[r] = now[r]
  <2>1. CASE r \in claims
    BY <1>1, <2>1, ClaimedStays
  <2>2. CASE r \notin claims
    BY <1>1, <2>2
  <2> QED
    BY <2>1, <2>2
<1>4. ix' \in [Requests -> Interaction]
  BY <1>1, <1>3
<1>5. \A r \in Requests : NoneWaits(now, r) => NoneWaits(ix', r)
  BY <1>3 DEF NoneWaits
<1>6. ASSUME conv', mode' = "yolo", ~unknown', NEW r \in S, r \in Permissions
      PROVE  NoneWaits(ix', r)
  BY <1>2, <1>3, <1>6 DEF NoneWaits
<1> QED
  BY <1>4, <1>5, <1>6

\* Steps after which no request waits that did not, or waits for nobody.
LEMMA QuietKeepsYolo ==
  ASSUME YoloInv, YoloTyped', UNCHANGED <<mode, unknown>>, conv' => conv,
         \A r \in Permissions : NoneWaits(ix, r) => NoneWaits(ix', r)
  PROVE  YoloInv'
  BY DEF YoloInv, YoloLeavesNone, NoneWaits

LEMMA LookingKeepsYolo ==
  ASSUME YoloInv, UNCHANGED result, AutoAllowPending
  PROVE  YoloInv'
<1>1. /\ ix' \in [Requests -> Interaction]
      /\ conv' /\ mode' = "yolo" /\ ~unknown' =>
           \A r \in Permissions : NoneWaits(ix', r)
  <2>1. AutoAllow(Requests, ix) /\ ix \in [Requests -> Interaction]
    BY DEF AutoAllowPending, YoloInv, YoloTyped
  <2> QED
    BY <2>1, LooksClaim DEF Requests
<1> QED
  BY <1>1 DEF YoloInv, YoloTyped, YoloLeavesNone, NoneWaits

\* A request that comes is looked at at once.
LEMMA UpsertKeepsYolo ==
  ASSUME YoloInv, UNCHANGED <<mode, unknown, conv, result>>, NEW r \in Requests,
         NEW reviewed \in BOOLEAN, Upsert(r, "pending", reviewed)
  PROVE  YoloInv'
<1>1. CASE UNCHANGED ix
  BY <1>1, QuietKeepsYolo DEF YoloInv, YoloTyped, NoneWaits
<1>2. CASE AutoAllow({r}, [ix EXCEPT ![r].state = "pending", ![r].reviewed = reviewed])
  <2> DEFINE now == [ix EXCEPT ![r].state = "pending", ![r].reviewed = reviewed]
  <2>1. ix[r] \in Interaction
    BY DEF YoloInv, YoloTyped
  <2>2. [ix[r] EXCEPT !.state = "pending", !.reviewed = reviewed] \in Interaction
    BY <2>1 DEF Interaction, States
  <2>3. /\ now \in [Requests -> Interaction]
        /\ \A q \in Requests : q # r => now[q] = ix[q]
    BY <2>2 DEF YoloInv, YoloTyped
  <2>4. AutoAllow({r}, now)
    BY <1>2
  <2> HIDE DEF now
  <2>5. /\ ix' \in [Requests -> Interaction]
        /\ \A q \in Requests : q # r /\ NoneWaits(ix, q) => NoneWaits(ix', q)
        /\ conv' /\ mode' = "yolo" /\ ~unknown' /\ r \in Permissions =>
             NoneWaits(ix', r)
    BY <2>3, <2>4, LooksClaim DEF NoneWaits
  <2> QED
    BY <2>5 DEF YoloInv, YoloTyped, YoloLeavesNone, NoneWaits, Requests
<1> QED
  BY <1>1, <1>2 DEF Upsert, ixVars

\* Requests that end wait no more.
Over(r) == ix'[r] \in Interaction /\ ix'[r].state # "pending"
LEMMA EndingKeepsYolo ==
  ASSUME YoloInv, UNCHANGED <<mode, unknown>>, conv' => conv,
         result' \in [Responders -> {"ok", "gone", "failed", "none"}],
         ix' = [r \in Requests |-> ix'[r]],
         \A r \in Requests : ix'[r] = ix[r] \/ Over(r)
  PROVE  YoloInv'
<1>1. YoloTyped'
  BY DEF YoloInv, YoloTyped, Over
<1>2. \A r \in Permissions : NoneWaits(ix, r) => NoneWaits(ix', r)
  BY DEF NoneWaits, Over, Requests
<1> QED
  BY <1>1, <1>2, QuietKeepsYolo

LEMMA ResolveEnds ==
  ASSUME YoloInv, NEW q \in Requests, NEW state \in States \ {"pending"},
         Resolve(q, state) \/ UNCHANGED ixVars
  PROVE  /\ ix' = [r \in Requests |-> ix'[r]]
         /\ \A r \in Requests : ix'[r] = ix[r] \/ Over(r)
<1>1. ix \in [Requests -> Interaction] /\ ix[q] \in Interaction
  BY DEF YoloInv, YoloTyped
<1>2. CASE UNCHANGED ix
  BY <1>1, <1>2
<1>3. CASE ix' = [ix EXCEPT ![q] = Settled(@, state)]
  <2>1. Settled(ix[q], state) \in Interaction /\ Settled(ix[q], state).state = state
    BY <1>1, SettledStays
  <2> QED
    BY <1>1, <1>3, <2>1 DEF Over
<1> QED
  BY <1>2, <1>3 DEF Resolve, ixVars

LEMMA AnswersKeepYolo ==
  ASSUME InteractionConstants, YoloInv, AnswersInv, NEW c \in Responders,
         \/ c \in Clients /\ \E r \in Requests : Answer(c, r)
         \/ ResponderStep(c)
  PROVE  YoloInv'
<1>1. /\ ix \in [Requests -> Interaction]
      /\ result \in [Responders -> {"ok", "gone", "failed", "none"}]
  BY DEF YoloInv, YoloTyped
<1>2. ASSUME c \in Clients, NEW r \in Requests, Answer(c, r) PROVE YoloInv'
  <2>1. UNCHANGED <<mode, unknown, conv, result>>
    BY <1>2 DEF Answer, modeVars, convVars
  <2>2. CASE ix' = [ix EXCEPT ![r].answering = TRUE]
    <3>1. /\ [ix[r] EXCEPT !.answering = TRUE] \in Interaction
          /\ [ix[r] EXCEPT !.answering = TRUE].answering
      BY <1>1, ClaimedStays
    <3>2. ix' = [ix EXCEPT ![r] = [ix[r] EXCEPT !.answering = TRUE]]
      BY <2>2
    <3>3. YoloTyped'
      BY <1>1, <2>1, <3>1, <3>2 DEF YoloTyped
    <3>4. \A q \in Permissions : NoneWaits(ix, q) => NoneWaits(ix', q)
      BY <1>1, <3>1, <3>2 DEF NoneWaits, Requests
    <3> QED
      BY <2>1, <3>3, <3>4, QuietKeepsYolo
  <2>3. CASE ix' = [ix EXCEPT ![r] = Expired(@)]
    <3>1. Expired(ix[r]) \in Interaction /\ Expired(ix[r]).state = "expired"
      BY <1>1, ExpiredStays
    <3>2. /\ ix' = [q \in Requests |-> ix'[q]]
          /\ \A q \in Requests : ix'[q] = ix[q] \/ Over(q)
      BY <1>1, <2>3, <3>1 DEF Over
    <3> QED
      BY <1>1, <2>1, <3>2, EndingKeepsYolo
  <2> QED
    BY <1>2, <2>2, <2>3 DEF Answer
<1>3. On(c) \in Requests \/ ~Busy(c)
  BY DEF AnswersInv, BusyOn
<1>4. CASE Respond(c) \/ RuntimeTakes(c) \/ Replied(c) \/ ReplyLost(c)
  <2>1. /\ UNCHANGED <<mode, unknown, conv>> /\ Busy(c)
        /\ result' \in [Responders -> {"ok", "gone", "failed", "none"}]
    BY <1>1, <1>4 DEF Respond, RuntimeTakes, Replied, ReplyLost, Returns, modeVars,
                      convVars, respVars, Busy
  <2>2. \E state \in {"answered", "expired"} :
          Resolve(On(c), state) \/ UNCHANGED ixVars
    BY <1>4 DEF Respond, RuntimeTakes, Replied, ReplyLost
  <2> QED
    BY <1>3, <2>1, <2>2, ResolveEnds, EndingKeepsYolo DEF States
<1>5. CASE Responded(c)
  <2>1. /\ UNCHANGED <<mode, unknown, conv>> /\ Busy(c)
        /\ result' \in [Responders -> {"ok", "gone", "failed", "none"}]
    BY <1>1, <1>5 DEF Responded, modeVars, convVars, Busy
  <2> DEFINE r == On(c)
             j == Recorded(Unclaimed(ix[r], result[c]), result[c])
  <2>2. r \in Requests
    BY <1>3, <2>1
  <2>3. ix' = [ix EXCEPT ![r] = j]
    BY <1>5 DEF Responded
  <2>4. j \in Interaction /\ (j.state = "pending" => j.failed)
    BY <1>1, <2>2, RecordedStays
  <2> HIDE DEF r, j
  <2>5. YoloTyped'
    BY <1>1, <2>1, <2>2, <2>3, <2>4 DEF YoloTyped
  <2>6. \A q \in Permissions : NoneWaits(ix, q) => NoneWaits(ix', q)
    BY <1>1, <2>2, <2>3, <2>4 DEF NoneWaits, Requests
  <2> QED
    BY <2>1, <2>5, <2>6, QuietKeepsYolo
<1> QED
  BY <1>2, <1>4, <1>5 DEF ResponderStep

LEMMA RequestsKeepYolo ==
  ASSUME YoloInv, NEW r \in Requests,
         Ask(r) \/ AskAgain(r) \/ Decided(r) \/ Completed(r)
  PROVE  YoloInv'
<1>1. UNCHANGED <<mode, unknown, conv, result>>
  BY DEF Ask, AskAgain, Decided, Completed, modeVars, convVars, respVars
<1>2. CASE \E reviewed \in BOOLEAN : Upsert(r, "pending", reviewed)
  BY <1>1, <1>2, UpsertKeepsYolo
<1>3. CASE \E state \in States \ {"pending"} : Resolve(r, state) \/ UNCHANGED ixVars
  <2>1. result' \in [Responders -> {"ok", "gone", "failed", "none"}]
    BY <1>1 DEF YoloInv, YoloTyped
  <2> QED
    BY <1>1, <1>3, <2>1, ResolveEnds, EndingKeepsYolo
<1>4. CASE Ask(r)
  <2>1. PICK reviewed \in {FALSE, rt /\ r \notin Questions} :
          Upsert(r, "pending", reviewed)
    BY <1>4 DEF Ask
  <2> QED
    BY <1>2, <2>1
<1>5. CASE AskAgain(r)
  <2>1. ix[r] \in Interaction
    BY DEF YoloInv, YoloTyped
  <2>2. ix[r].reviewed \in BOOLEAN
    BY <2>1 DEF Interaction
  <2> QED
    BY <1>2, <1>5, <2>2 DEF AskAgain
<1>6. CASE Decided(r) \/ Completed(r)
  BY <1>3, <1>6 DEF Decided, Completed, States
<1> QED
  BY <1>4, <1>5, <1>6

LEMMA EndsKeepYolo ==
  ASSUME YoloInv, TurnAborts \/ OpenFails \/ Exit \/ CloseEnds \/ CloseBegins
  PROVE  YoloInv'
<1>1. /\ UNCHANGED <<mode, unknown>> /\ (conv' => conv)
      /\ result' \in [Responders -> {"ok", "gone", "failed", "none"}]
      /\ ix \in [Requests -> Interaction]
  BY DEF TurnAborts, OpenFails, Exit, CloseEnds, CloseBegins, modeVars, convVars,
         respVars, YoloInv, YoloTyped
<1>2. \A r \in Requests :
        /\ Settled(ix[r], "expired") \in Interaction
        /\ Settled(ix[r], "expired").state = "expired"
        /\ Expired(ix[r]) \in Interaction /\ Expired(ix[r]).state = "expired"
  BY <1>1, ExpiredStays, SettledStays DEF States
<1>3. PICK S \in SUBSET Requests :
        \/ UNCHANGED ix
        \/ ix' = [r \in Requests |-> IF r \in S THEN Expired(ix[r]) ELSE ix[r]]
        \/ ix' = [r \in Requests |->
                    IF r \in S THEN Settled(ix[r], "expired") ELSE ix[r]]
  <2>1. CASE TurnAborts
    <3> DEFINE S == {r \in Requests : apend[r] = "pending" /\ ix[r].state # "none"}
    <3>1. \/ UNCHANGED ix
          \/ ix' = [r \in Requests |->
                      IF r \in S THEN Settled(ix[r], "expired") ELSE ix[r]]
      BY <2>1 DEF TurnAborts, ixVars
    <3> QED
      BY <3>1
  <2>2. CASE OpenFails
    <3> DEFINE S == {r \in Requests : apend[r] = "pending"}
    <3>1. ix' = [r \in Requests |-> IF r \in S THEN Expired(ix[r]) ELSE ix[r]]
      BY <2>2 DEF OpenFails
    <3> QED
      BY <3>1
  <2>3. CASE Exit \/ CloseBegins
    <3> DEFINE S == {r \in Requests : ix[r].state = "pending"}
    <3>1. \/ UNCHANGED ix
          \/ ix' = [r \in Requests |-> IF r \in S THEN Expired(ix[r]) ELSE ix[r]]
      BY <2>3 DEF Exit, CloseBegins, ExpirePending, ixVars
    <3> QED
      BY <3>1
  <2>4. CASE CloseEnds
    BY <2>4 DEF CloseEnds, ixVars
  <2> QED
    BY <2>1, <2>2, <2>3, <2>4
<1>4. /\ ix' = [r \in Requests |-> ix'[r]]
      /\ \A r \in Requests : ix'[r] = ix[r] \/ Over(r)
  BY <1>1, <1>2, <1>3 DEF Over
<1> QED
  BY <1>1, <1>4, EndingKeepsYolo

LEMMA ElsewhereKeepsYolo ==
  ASSUME YoloInv, Elsewhere, ~CloseBegins
  PROVE  YoloInv'
<1>1. UNCHANGED result
  BY DEF Elsewhere, OpenBegins, Opened, OpenEnds, SetPlain, SetWaits,
         SetterStep, SetBegins, SetRefused, Change, SetEnds, ReadBack, SetFails,
         Frees, respVars
<1>2. CASE AutoAllowPending
  BY <1>1, <1>2, LookingKeepsYolo
<1>3. CASE UNCHANGED <<ix, mode, unknown>> /\ (conv' => conv)
  BY <1>1, <1>3, QuietKeepsYolo DEF YoloInv, YoloTyped, NoneWaits
<1>4. CASE OpenBegins \/ Opened
  BY <1>3, <1>4 DEF OpenBegins, Opened, modeVars, ixVars
<1>5. CASE OpenEnds
  <2>1. CASE conv'
    BY <1>2, <1>5, <2>1 DEF OpenEnds
  <2>2. CASE ~conv'
    <3>1. UNCHANGED ix
      BY <1>5, <2>2 DEF OpenEnds, ixVars
    <3> QED
      BY <1>1, <2>2, <3>1 DEF YoloInv, YoloTyped, YoloLeavesNone
  <2> QED
    BY <2>1, <2>2
<1>6. CASE \E md \in Modes : SetPlain(md)
  BY <1>2, <1>6 DEF SetPlain
<1>7. CASE \E s \in Setters, md \in Modes : SetWaits(s, md)
  BY <1>3, <1>7 DEF SetWaits, modeVars, ixVars, convVars
<1>8. CASE \E s \in Setters : SetEnds(s) \/ SetFails(s)
  BY <1>2, <1>8 DEF SetEnds, SetFails
<1>9. CASE \E s \in Setters : SetBegins(s) \/ SetRefused(s) \/ Change(s) \/ ReadBack(s)
  BY <1>3, <1>9 DEF SetBegins, SetRefused, Change, ReadBack, modeVars, ixVars,
                    convVars
<1> QED
  BY <1>4, <1>5, <1>6, <1>7, <1>8, <1>9 DEF Elsewhere, SetterStep

LEMMA YoloKept ==
  ASSUME InteractionConstants, AnswersInv, YoloInv, [Next]_vars
  PROVE  YoloInv'
<1>1. CASE \E c \in Clients, r \in Requests : Answer(c, r)
  <2>1. PICK c \in Clients, r \in Requests : Answer(c, r)
    BY <1>1
  <2> QED
    BY <2>1, AnswersKeepYolo DEF Responders
<1>2. CASE \E c \in Responders : ResponderStep(c)
  BY <1>2, AnswersKeepYolo
<1>3. CASE \E r \in Requests : Ask(r) \/ AskAgain(r) \/ Decided(r) \/ Completed(r)
  BY <1>3, RequestsKeepYolo
<1>4. CASE TurnAborts \/ OpenFails \/ Exit \/ CloseEnds \/ CloseBegins
  BY <1>4, EndsKeepYolo
<1>5. CASE Elsewhere /\ ~CloseBegins
  BY <1>5, ElsewhereKeepsYolo
<1>6. CASE UNCHANGED vars
  BY <1>6 DEF vars, modeVars, convVars, ixVars, respVars, YoloInv, YoloTyped,
              YoloLeavesNone
<1> QED
  BY <1>1, <1>2, <1>3, <1>4, <1>5, <1>6 DEF Next, OpenStep, Elsewhere

\* In a yolo Thread no permission waits for the owner that could be allowed,
\* whatever came before, during or after the change of mode (autoAllowPendingLocked).
THEOREM YoloWaitsForNone == Spec => []YoloLeavesNone
<1>1. Init => AnswersInv /\ YoloInv
  <2>1. Init => YoloTyped
    BY DEF Init, YoloTyped, NoInteraction, Interaction, States
  <2>2. Init => YoloLeavesNone
    BY DEF Init, YoloLeavesNone
  <2> QED
    BY <2>1, <2>2, InteractionConstants, InitAnswers DEF YoloInv
<1>2. AnswersInv /\ YoloInv /\ [Next]_vars => AnswersInv' /\ YoloInv'
  BY InteractionConstants, AnswersKept, YoloKept
<1>3. YoloInv => YoloLeavesNone
  BY DEF YoloInv
<1> QED
  BY <1>1, <1>2, <1>3, PTL DEF Spec

-----------------------------------------------------------------------------
(* The mode.                                                               *)

ModeTyped ==
  /\ mode \in Modes /\ unknown \in BOOLEAN /\ conv \in BOOLEAN /\ aopen \in BOOLEAN
  /\ rt \in BOOLEAN /\ open \in {"none", "begun", "made", "stale"}
  /\ step \in [Setters -> {"idle", "wait", "change", "record", "uncertain", "fail"}]
  /\ want \in [Setters -> Modes]
  /\ found \in [Setters -> {"none", "on", "off", "unreadable"}]

Agree == rt <=> mode = "assisted"
Changing == {"change", "record", "uncertain", "fail"}

\* s.op is held by who changes the mode, opens or closes.
HeldByOne ==
  /\ \A s \in Setters : step[s] \in Changing <=> op = s
  /\ open # "none" <=> op = Opener
\* The adapter's conversation is open while Manager has one, and not without
\* somebody who brings or takes it.
ConvIsOpen ==
  /\ conv => aopen /\ open = "none" /\ op # Closer
  /\ aopen => conv \/ open = "made" \/ op = Closer
  /\ open = "made" => aopen
OpensAgreed == open \in {"begun", "made"} => Agree
FoundAtEnd == \A s \in Setters : found[s] # "none" => step[s] = "fail"
\* What a setter knows of the runtime is so.
KnowsMode(s) ==
  /\ step[s] = "record" => (rt <=> want[s] = "assisted")
  /\ step[s] = "change" /\ ~unknown => Agree
  /\ step[s] = "fail" /\ found[s] = "none" /\ ~unknown => Agree
  /\ found[s] = "on" => rt
  /\ found[s] = "off" => ~rt
SettersKnow == conv => \A s \in Setters : KnowsMode(s)

ModeInv ==
  /\ ModeTyped /\ HeldByOne /\ ConvIsOpen /\ OpensAgreed /\ FoundAtEnd
  /\ SettersKnow /\ ModeIsRuntimes

LEMMA InitMode == ASSUME InteractionConstants, Init PROVE ModeInv
<1>1. ModeTyped
  BY DEF Init, ModeTyped, Modes
<1>2. HeldByOne
  BY DEF Init, HeldByOne, Changing, InteractionConstants
<1> QED
  BY <1>1, <1>2 DEF Init, ModeInv, ConvIsOpen, OpensAgreed, FoundAtEnd, SettersKnow,
                    ModeIsRuntimes

\* A change between safe and yolo leaves agreement as it is.
LEMMA PlainKeepsMode ==
  ASSUME InteractionConstants, ModeInv, NEW md \in Modes, SetPlain(md)
  PROVE  ModeInv'
<1>1. /\ mode # "assisted" /\ md # "assisted" /\ mode' = md
      /\ UNCHANGED <<unknown, conv, open, aopen, rt, op, step, want, found>>
  BY DEF SetPlain, NeedsRuntime, convVars, setVars
<1>2. Agree' <=> Agree
  BY <1>1 DEF Agree
<1>3. ModeTyped'
  BY <1>1 DEF ModeInv, ModeTyped
<1>4. HeldByOne' /\ ConvIsOpen' /\ OpensAgreed' /\ FoundAtEnd'
  BY <1>1, <1>2 DEF ModeInv, HeldByOne, ConvIsOpen, OpensAgreed, FoundAtEnd
<1>5. SettersKnow'
  BY <1>1, <1>2 DEF ModeInv, SettersKnow, KnowsMode
<1>6. ModeIsRuntimes'
  BY <1>1 DEF ModeInv, ModeIsRuntimes
<1> QED
  BY <1>3, <1>4, <1>5, <1>6 DEF ModeInv

\* While there is no conversation, only who brings or takes one is looked at.
LEMMA WithoutConvKeepsMode ==
  ASSUME InteractionConstants, ModeInv, ~conv', UNCHANGED <<step, want, found>>,
         ModeTyped', HeldByOne', ConvIsOpen', OpensAgreed'
  PROVE  ModeInv'
  BY DEF ModeInv, FoundAtEnd, SettersKnow, ModeIsRuntimes

LEMMA OpenBeginsKeepsMode ==
  ASSUME InteractionConstants, ModeInv, OpenBegins
  PROVE  ModeInv'
<1>1. /\ ~conv /\ op = None /\ op' = Opener /\ open' = "begun"
      /\ rt' = (mode = "assisted")
      /\ UNCHANGED <<mode, unknown, conv, aopen, step, want, found>>
  BY DEF OpenBegins, modeVars, setVars
<1>2. rt' \in BOOLEAN /\ Agree'
  BY <1>1 DEF Agree
<1>3. ModeTyped'
  BY <1>1, <1>2 DEF ModeInv, ModeTyped
<1>4. HeldByOne'
  BY <1>1 DEF ModeInv, HeldByOne, InteractionConstants
<1>5. ConvIsOpen'
  BY <1>1 DEF ModeInv, ConvIsOpen, HeldByOne, InteractionConstants
<1>6. OpensAgreed'
  BY <1>2 DEF OpensAgreed
<1> QED
  BY <1>1, <1>3, <1>4, <1>5, <1>6, WithoutConvKeepsMode

LEMMA OpenedKeepsMode ==
  ASSUME InteractionConstants, ModeInv, Opened
  PROVE  ModeInv'
<1>1. /\ open = "begun" /\ open' = "made" /\ aopen' = TRUE
      /\ UNCHANGED <<mode, unknown, conv, rt, op, step, want, found>>
  BY DEF Opened, modeVars, setVars
<1>2. ~conv' /\ (Agree' <=> Agree)
  BY <1>1 DEF ModeInv, ConvIsOpen, Agree
<1>3. ModeTyped'
  BY <1>1 DEF ModeInv, ModeTyped
<1>4. HeldByOne' /\ ConvIsOpen'
  BY <1>1, <1>2 DEF ModeInv, HeldByOne, ConvIsOpen
<1>5. OpensAgreed'
  BY <1>1, <1>2 DEF ModeInv, OpensAgreed
<1> QED
  BY <1>1, <1>2, <1>3, <1>4, <1>5, WithoutConvKeepsMode

\* The conversation that an open brings is in the mode it read, which nobody
\* changed since.
LEMMA OpenEndsKeepsMode ==
  ASSUME InteractionConstants, ModeInv, OpenEnds
  PROVE  ModeInv'
<1>1. /\ open \in {"made", "stale"} /\ open' = "none" /\ op' = None
      /\ conv' = (open = "made") /\ unknown' = (unknown /\ ~conv')
      /\ UNCHANGED <<mode, aopen, rt, step, want, found>>
  BY DEF OpenEnds, setVars
<1>2. op = Opener /\ \A s \in Setters : step[s] \notin Changing
  BY <1>1 DEF ModeInv, HeldByOne, InteractionConstants
<1>3. ModeTyped'
  BY <1>1 DEF ModeInv, ModeTyped
<1>4. HeldByOne'
  BY <1>1, <1>2 DEF HeldByOne, InteractionConstants
<1>5. (Agree' <=> Agree) /\ FoundAtEnd'
  BY <1>1 DEF Agree, ModeInv, FoundAtEnd
<1>6. OpensAgreed'
  BY <1>1 DEF OpensAgreed
<1>7. CASE conv'
  <2>1. open = "made" /\ Agree' /\ ~conv
    BY <1>1, <1>5, <1>7 DEF ModeInv, OpensAgreed, ConvIsOpen
  <2>2. ConvIsOpen'
    <3>1. op' # Closer
      BY <1>1 DEF InteractionConstants
    <3>2. aopen'
      BY <1>1, <2>1 DEF ModeInv, ConvIsOpen
    <3> QED
      BY <1>1, <1>7, <3>1, <3>2 DEF ConvIsOpen
  <2>3. ModeIsRuntimes'
    BY <2>1 DEF ModeIsRuntimes, Agree
  <2>4. ASSUME NEW s \in Setters PROVE KnowsMode(s)'
    <3>1. /\ step'[s] \notin Changing /\ found'[s] \notin {"on", "off"}
      BY <1>1, <1>2, <1>5 DEF FoundAtEnd, Changing
    <3> QED
      BY <3>1 DEF KnowsMode, Changing
  <2> QED
    BY <1>3, <1>4, <1>5, <1>6, <2>2, <2>3, <2>4 DEF ModeInv, SettersKnow
<1>8. CASE ~conv'
  <2>1. ConvIsOpen'
    BY <1>1, <1>2, <1>8 DEF ModeInv, ConvIsOpen, Opener, Closer
  <2> QED
    BY <1>1, <1>3, <1>4, <1>6, <1>8, <2>1, WithoutConvKeepsMode
<1> QED
  BY <1>7, <1>8

\* The adapter's conversation ends only where Manager has none, or loses it.
LEMMA EndsKeepMode ==
  ASSUME InteractionConstants, ModeInv,
         OpenFails \/ Exit \/ CloseBegins \/ CloseEnds
  PROVE  ModeInv'
<1>1. UNCHANGED <<mode, unknown, step, want, found>>
  BY DEF OpenFails, Exit, CloseBegins, CloseEnds, modeVars, setVars
<1>2. CASE OpenFails
  <2>1. /\ open \in {"begun", "made"} /\ open' = "none" /\ op' = None
        /\ aopen' = FALSE /\ rt' = FALSE /\ conv' = conv
    BY <1>2 DEF OpenFails, AdapterEnds
  <2>2. op = Opener /\ ~conv'
    BY <2>1 DEF ModeInv, HeldByOne, ConvIsOpen
  <2>3. ModeTyped'
    BY <1>1, <2>1 DEF ModeInv, ModeTyped
  <2>4. HeldByOne'
    BY <1>1, <2>1, <2>2 DEF ModeInv, HeldByOne, InteractionConstants
  <2>5. ConvIsOpen' /\ OpensAgreed'
    BY <2>1, <2>2 DEF ConvIsOpen, OpensAgreed
  <2> QED
    BY <1>1, <2>2, <2>3, <2>4, <2>5, WithoutConvKeepsMode
<1>3. CASE Exit
  <2>1. /\ aopen /\ aopen' = FALSE /\ rt' = FALSE /\ conv' = FALSE /\ op' = op
        /\ open' = IF open = "made" THEN "stale" ELSE open
    BY <1>3 DEF Exit, AdapterEnds
  <2>2. open' \notin {"begun", "made"} /\ (open' # "none" <=> open # "none")
    BY <2>1 DEF ModeInv, ModeTyped, ConvIsOpen, HeldByOne, Opener, Closer
  <2>3. ModeTyped'
    BY <1>1, <2>1 DEF ModeInv, ModeTyped
  <2>4. HeldByOne'
    BY <1>1, <2>1, <2>2 DEF ModeInv, HeldByOne
  <2>5. ConvIsOpen' /\ OpensAgreed'
    BY <2>1, <2>2 DEF ConvIsOpen, OpensAgreed
  <2> QED
    BY <1>1, <2>1, <2>3, <2>4, <2>5, WithoutConvKeepsMode
<1>4. CASE CloseBegins
  <2>1. /\ op = None /\ op' = Closer /\ conv' = FALSE
        /\ UNCHANGED <<open, aopen, rt>>
    BY <1>4 DEF CloseBegins
  <2>2. open = "none" /\ \A s \in Setters : step[s] \notin Changing
    BY <2>1 DEF ModeInv, HeldByOne, InteractionConstants
  <2>3. ModeTyped'
    BY <1>1, <2>1 DEF ModeInv, ModeTyped
  <2>4. HeldByOne'
    BY <1>1, <2>1, <2>2 DEF HeldByOne, InteractionConstants, Opener, Closer
  <2>5. ConvIsOpen' /\ OpensAgreed'
    BY <2>1, <2>2 DEF ConvIsOpen, OpensAgreed
  <2> QED
    BY <1>1, <2>1, <2>3, <2>4, <2>5, WithoutConvKeepsMode
<1>5. CASE CloseEnds
  <2>1. /\ op = Closer /\ op' = None /\ aopen' = FALSE /\ rt' = FALSE
        /\ UNCHANGED <<conv, open>>
    BY <1>5 DEF CloseEnds, AdapterEnds
  <2>2. ~conv' /\ open = "none" /\ \A s \in Setters : step[s] \notin Changing
    BY <2>1 DEF ModeInv, ConvIsOpen, HeldByOne, InteractionConstants, Opener, Closer
  <2>3. ModeTyped'
    BY <1>1, <2>1 DEF ModeInv, ModeTyped
  <2>4. HeldByOne'
    BY <1>1, <2>1, <2>2 DEF HeldByOne, InteractionConstants
  <2>5. ConvIsOpen' /\ OpensAgreed'
    BY <2>1, <2>2 DEF ConvIsOpen, OpensAgreed
  <2> QED
    BY <1>1, <2>2, <2>3, <2>4, <2>5, WithoutConvKeepsMode
<1> QED
  BY <1>2, <1>3, <1>4, <1>5

\* Whatever a setter finds, it is alone with the runtime's mode.
LEMMA SetterBeginsKeepsMode ==
  ASSUME InteractionConstants, ModeInv, NEW s \in Setters,
         \/ SetBegins(s) \/ SetRefused(s) \/ \E md \in Modes : SetWaits(s, md)
  PROVE  ModeInv'
<1>1. /\ UNCHANGED <<mode, unknown, conv, open, aopen, rt, found>>
      /\ Agree' <=> Agree
  BY DEF SetBegins, SetRefused, SetWaits, modeVars, convVars, Agree
<1>2. /\ ModeTyped' /\ found'[s] = "none"
      /\ \A t \in Setters \ {s} : step'[t] = step[t] /\ want'[t] = want[t]
  <2>1. PICK next \in {"idle", "wait", "change", "record"}, md \in Modes :
          step' = [step EXCEPT ![s] = next] /\ want' = [want EXCEPT ![s] = md]
    BY DEF SetBegins, SetRefused, SetWaits, Goto, ModeInv, ModeTyped, Modes
  <2>2. step[s] \in {"idle", "wait"}
    BY DEF SetBegins, SetRefused, SetWaits
  <2> QED
    BY <1>1, <2>1, <2>2 DEF ModeInv, ModeTyped, FoundAtEnd
<1>3. CASE SetBegins(s)
  <2>1. /\ step[s] = "wait" /\ op = None /\ op' = s /\ want' = want
        /\ \/ step'[s] = "change"
           \/ step'[s] = "record" /\ ~(conv /\ Toggles(s))
    BY <1>3 DEF SetBegins, Goto, ModeInv, ModeTyped
  <2>2. open = "none" /\ \A t \in Setters : step[t] \notin Changing
    BY <2>1 DEF ModeInv, HeldByOne, InteractionConstants
  <2>3. HeldByOne'
    BY <1>1, <1>2, <2>1, <2>2 DEF HeldByOne, Changing, InteractionConstants
  <2>4. ConvIsOpen'
    BY <1>1, <2>1, <2>2 DEF ModeInv, ConvIsOpen, InteractionConstants
  <2>5. OpensAgreed' /\ FoundAtEnd'
    BY <1>1, <1>2, <2>2 DEF ModeInv, OpensAgreed, FoundAtEnd, ModeTyped
  <2>6. conv /\ ~unknown => Agree
    BY <2>1 DEF ModeInv, ModeIsRuntimes, InteractionConstants, Agree
  <2>7. ASSUME conv, NEW t \in Setters PROVE KnowsMode(t)'
    <3>1. CASE t = s /\ step'[s] = "change"
      BY <1>1, <1>2, <2>6, <2>7, <3>1 DEF KnowsMode
    <3>2. CASE t = s /\ step'[s] = "record"
      <4>1. ~unknown /\ (want[s] = "assisted" <=> mode = "assisted")
        BY <2>1, <2>7, <3>2 DEF Toggles
      <4>2. rt <=> want[s] = "assisted"
        BY <2>6, <2>7, <4>1 DEF Agree
      <4> QED
        BY <1>1, <1>2, <2>1, <3>2, <4>2 DEF KnowsMode
    <3>3. CASE t # s
      <4>1. step'[t] = step[t] /\ step[t] \notin Changing /\ found'[t] = "none"
        BY <1>1, <1>2, <2>2, <3>3 DEF ModeInv, FoundAtEnd, Changing
      <4> QED
        BY <4>1 DEF KnowsMode, Changing
    <3> QED
      BY <2>1, <3>1, <3>2, <3>3
  <2> QED
    BY <1>1, <1>2, <2>1, <2>3, <2>4, <2>5, <2>7
    DEF ModeInv, SettersKnow, ModeIsRuntimes
<1>4. CASE SetRefused(s) \/ \E md \in Modes : SetWaits(s, md)
  <2>1. /\ step[s] \notin Changing /\ step'[s] \notin Changing
        /\ step'[s] # "fail" /\ op' = op
    BY <1>4 DEF SetRefused, SetWaits, Goto, ModeInv, ModeTyped, Changing
  <2>2. HeldByOne'
    BY <1>1, <1>2, <2>1 DEF ModeInv, HeldByOne
  <2>3. ConvIsOpen' /\ OpensAgreed'
    BY <1>1, <2>1 DEF ModeInv, ConvIsOpen, OpensAgreed
  <2>4. FoundAtEnd'
    BY <1>1, <1>2 DEF ModeInv, FoundAtEnd
  <2>5. ASSUME conv, NEW t \in Setters PROVE KnowsMode(t)'
    <3>1. CASE t = s
      BY <1>2, <2>1, <3>1 DEF KnowsMode, Changing
    <3>2. CASE t # s
      BY <1>1, <1>2, <2>5, <3>2 DEF ModeInv, SettersKnow, KnowsMode
    <3> QED
      BY <3>1, <3>2
  <2> QED
    BY <1>1, <1>2, <2>1, <2>2, <2>3, <2>4, <2>5
    DEF ModeInv, SettersKnow, ModeIsRuntimes
<1> QED
  BY <1>3, <1>4

\* A change, and what is read back of it, is what the runtime has.
LEMMA ChangeKeepsMode ==
  ASSUME InteractionConstants, ModeInv, NEW s \in Setters,
         Change(s) \/ ReadBack(s)
  PROVE  ModeInv'
<1>1. /\ UNCHANGED <<mode, unknown, conv, open, aopen, op, want>>
      /\ step[s] \in {"change", "uncertain"}
  BY DEF Change, ReadBack, modeVars, convVars
<1>2. op = s /\ open = "none"
  BY <1>1 DEF ModeInv, HeldByOne, Changing, InteractionConstants
<1>3. \A t \in Setters \ {s} : step[t] \notin Changing /\ found[t] = "none"
  BY <1>2 DEF ModeInv, HeldByOne, FoundAtEnd, ModeTyped, Changing
<1>4. want[s] \in Modes /\ rt \in BOOLEAN /\ aopen \in BOOLEAN
  BY DEF ModeInv, ModeTyped
<1>5. /\ ModeTyped' /\ step'[s] \in {"record", "uncertain", "fail"}
      /\ \A t \in Setters \ {s} : step'[t] = step[t] /\ found'[t] = found[t]
      /\ found'[s] # "none" => step'[s] = "fail"
      /\ conv => KnowsMode(s)'
  <2>1. CASE Change(s)
    <3>1. step[s] = "change" /\ found' = found /\ found[s] = "none"
      BY <2>1 DEF Change, ModeInv, FoundAtEnd, ModeTyped
    <3>2. PICK next \in {"record", "uncertain", "fail"} :
            /\ step' = [step EXCEPT ![s] = next] /\ rt' \in BOOLEAN
            /\ next = "record" => ~aopen \/ (rt' <=> want[s] = "assisted")
            /\ next = "fail" => rt' = rt
      BY <1>4, <2>1 DEF Change, Goto
    <3>3. step'[s] = next /\ \A t \in Setters \ {s} : step'[t] = step[t]
      BY <3>2 DEF ModeInv, ModeTyped
    <3>4. ModeTyped'
      BY <1>1, <3>1, <3>2 DEF ModeInv, ModeTyped
    <3>5. ASSUME conv PROVE KnowsMode(s)'
      <4>1. aopen /\ (~unknown => Agree)
        BY <3>1, <3>5 DEF ModeInv, ConvIsOpen, SettersKnow, KnowsMode
      <4>2. CASE next = "record"
        BY <1>1, <3>1, <3>2, <3>3, <4>1, <4>2 DEF KnowsMode
      <4>3. CASE next = "fail"
        BY <1>1, <3>1, <3>2, <3>3, <4>1, <4>3 DEF KnowsMode, Agree
      <4>4. CASE next = "uncertain"
        BY <3>1, <3>3, <4>4 DEF KnowsMode
      <4> QED
        BY <4>2, <4>3, <4>4
    <3> QED
      BY <3>1, <3>3, <3>4, <3>5
  <2>2. CASE ReadBack(s)
    <3>1. PICK f \in {"on", "off", "unreadable", "none"} :
            /\ found' = [found EXCEPT ![s] = f]
            /\ f = "on" => rt
            /\ f = "off" => ~rt
            /\ f = "none" => ~aopen
      <4>1. CASE aopen
        <5>1. PICK f \in {IF rt THEN "on" ELSE "off", "unreadable"} :
                found' = [found EXCEPT ![s] = f]
          BY <2>2, <4>1 DEF ReadBack
        <5> QED
          BY <5>1
      <4>2. CASE ~aopen
        BY <2>2, <4>2 DEF ReadBack
      <4> QED
        BY <4>1, <4>2
    <3>2. step' = [step EXCEPT ![s] = "fail"] /\ rt' = rt
      BY <2>2 DEF ReadBack, Goto, convVars
    <3>3. /\ step'[s] = "fail" /\ found'[s] = f
          /\ \A t \in Setters \ {s} : step'[t] = step[t] /\ found'[t] = found[t]
      BY <3>1, <3>2 DEF ModeInv, ModeTyped
    <3>4. ModeTyped'
      BY <1>1, <3>1, <3>2 DEF ModeInv, ModeTyped
    <3>5. ASSUME conv PROVE KnowsMode(s)'
      <4>1. aopen
        BY <3>5 DEF ModeInv, ConvIsOpen
      <4> QED
        BY <3>1, <3>2, <3>3, <4>1 DEF KnowsMode
    <3> QED
      BY <3>3, <3>4, <3>5
  <2> QED
    BY <2>1, <2>2
<1>6. HeldByOne'
  BY <1>1, <1>2, <1>3, <1>5 DEF ModeInv, HeldByOne, Changing
<1>7. ConvIsOpen' /\ OpensAgreed' /\ ModeIsRuntimes'
  BY <1>1, <1>2 DEF ModeInv, ConvIsOpen, OpensAgreed, ModeIsRuntimes
<1>8. FoundAtEnd'
  BY <1>3, <1>5 DEF FoundAtEnd
<1>9. ASSUME conv, NEW t \in Setters PROVE KnowsMode(t)'
  <2>1. CASE t = s
    BY <1>5, <1>9, <2>1
  <2>2. CASE t # s
    <3>1. step'[t] \notin Changing /\ found'[t] = "none"
      BY <1>3, <1>5, <2>2
    <3> QED
      BY <3>1 DEF KnowsMode, Changing
  <2> QED
    BY <2>1, <2>2
<1> QED
  BY <1>1, <1>5, <1>6, <1>7, <1>8, <1>9 DEF ModeInv, SettersKnow

\* The mode that is recorded in the end is the runtime's, or shown as unknown.
LEMMA SetterEndsKeepsMode ==
  ASSUME InteractionConstants, ModeInv, NEW s \in Setters,
         SetEnds(s) \/ SetFails(s)
  PROVE  ModeInv'
<1>1. /\ UNCHANGED <<conv, open, aopen, rt>> /\ op' = None
      /\ step' = [step EXCEPT ![s] = "idle"] /\ want' = [want EXCEPT ![s] = "safe"]
      /\ found' = [found EXCEPT ![s] = "none"] /\ step[s] \in {"record", "fail"}
  BY DEF SetEnds, SetFails, Frees, Goto, convVars
<1>2. op = s /\ open = "none"
  BY <1>1 DEF ModeInv, HeldByOne, Changing, InteractionConstants
<1>3. \A t \in Setters : step'[t] \notin Changing /\ found'[t] = "none"
  BY <1>1, <1>2 DEF ModeInv, HeldByOne, FoundAtEnd, ModeTyped, Changing
<1>4. /\ mode' \in Modes /\ unknown' \in BOOLEAN
      /\ conv /\ ~unknown' => (rt <=> mode' = "assisted")
  <2>1. want[s] \in Modes /\ mode \in Modes /\ unknown \in BOOLEAN
    BY DEF ModeInv, ModeTyped
  <2>2. conv => KnowsMode(s)
    BY DEF ModeInv, SettersKnow
  <2>3. CASE SetEnds(s)
    BY <2>1, <2>2, <2>3 DEF SetEnds, KnowsMode
  <2>4. CASE SetFails(s)
    <3>1. step[s] = "fail" /\ mode' = Adopted(s)
          /\ found[s] \in {"none", "on", "off", "unreadable"}
      BY <2>4 DEF SetFails, ModeInv, ModeTyped
    <3>2. CASE found[s] = "on"
      BY <2>1, <2>2, <2>4, <3>1, <3>2 DEF SetFails, Adopted, KnowsMode, Modes
    <3>3. CASE found[s] = "off"
      <4>1. mode' \in Modes /\ mode' # "assisted"
        BY <2>1, <3>1, <3>3 DEF Adopted, Modes
      <4>2. unknown' = FALSE
        BY <2>4, <3>3 DEF SetFails
      <4> QED
        BY <2>2, <3>3, <4>1, <4>2 DEF KnowsMode
    <3>4. CASE found[s] = "none"
      BY <2>1, <2>2, <2>4, <3>1, <3>4 DEF SetFails, Adopted, KnowsMode, Agree
    <3>5. CASE found[s] = "unreadable"
      BY <2>1, <2>4, <3>1, <3>5 DEF SetFails, Adopted
    <3> QED
      BY <3>1, <3>2, <3>3, <3>4, <3>5
  <2> QED
    BY <2>3, <2>4
<1>5. ModeTyped'
  BY <1>1, <1>4 DEF ModeInv, ModeTyped, Modes
<1>6. HeldByOne'
  BY <1>1, <1>2, <1>3 DEF HeldByOne, InteractionConstants
<1>7. ConvIsOpen' /\ OpensAgreed'
  BY <1>1, <1>2 DEF ModeInv, ConvIsOpen, OpensAgreed, InteractionConstants
<1>8. FoundAtEnd' /\ SettersKnow'
  BY <1>3 DEF FoundAtEnd, SettersKnow, KnowsMode, Changing
<1>9. ModeIsRuntimes'
  BY <1>1, <1>4 DEF ModeIsRuntimes
<1> QED
  BY <1>5, <1>6, <1>7, <1>8, <1>9 DEF ModeInv

LEMMA ModeKept ==
  ASSUME InteractionConstants, ModeInv, [Next]_vars
  PROVE  ModeInv'
<1>1. CASE UNCHANGED <<modeVars, convVars, op, setVars>>
  BY <1>1 DEF modeVars, convVars, setVars, ModeInv, ModeTyped, HeldByOne, ConvIsOpen,
              OpensAgreed, FoundAtEnd, SettersKnow, ModeIsRuntimes, KnowsMode, Agree
<1>2. CASE \/ \E c \in Clients, r \in Requests : Answer(c, r)
           \/ \E c \in Responders : ResponderStep(c)
           \/ \E r \in Requests : Ask(r) \/ AskAgain(r) \/ Decided(r) \/ Completed(r)
           \/ TurnAborts
  BY <1>1, <1>2
  DEF Answer, ResponderStep, Respond, RuntimeTakes, Replied, ReplyLost, Responded,
      Ask, AskAgain, Decided, Completed, TurnAborts
<1>3. CASE \E md \in Modes : SetPlain(md)
  BY <1>3, PlainKeepsMode
<1>4. CASE OpenBegins \/ Opened \/ OpenEnds
  BY <1>4, OpenBeginsKeepsMode, OpenedKeepsMode, OpenEndsKeepsMode
<1>5. CASE OpenFails \/ Exit \/ CloseBegins \/ CloseEnds
  BY <1>5, EndsKeepMode
<1>6. CASE \/ \E s \in Setters, md \in Modes : SetWaits(s, md)
           \/ \E s \in Setters : SetBegins(s) \/ SetRefused(s)
  BY <1>6, SetterBeginsKeepsMode
<1>7. CASE \E s \in Setters : Change(s) \/ ReadBack(s)
  BY <1>7, ChangeKeepsMode
<1>8. CASE \E s \in Setters : SetEnds(s) \/ SetFails(s)
  BY <1>8, SetterEndsKeepsMode
<1>9. CASE UNCHANGED vars
  BY <1>1, <1>9 DEF vars
<1> QED
  BY <1>2, <1>3, <1>4, <1>5, <1>6, <1>7, <1>8, <1>9 DEF Next, OpenStep, SetterStep

\* Unless a change is on its way, the mode that the owner sees is the runtime's
\* or is shown as unknown (setAssistedMode, assistedModeFailed).
THEOREM ModeIsTrue == Spec => []ModeIsRuntimes
<1>1. Init => ModeInv
  BY InteractionConstants, InitMode
<1>2. ModeInv /\ [Next]_vars => ModeInv'
  BY InteractionConstants, ModeKept
<1>3. ModeInv => ModeIsRuntimes
  BY DEF ModeInv
<1> QED
  BY <1>1, <1>2, <1>3, PTL DEF Spec

=============================================================================

------------------------------- MODULE Budget -------------------------------
(***************************************************************************)
(* A Thread's budget and its wrap-up (budget.go).  At its budget a running *)
(* turn is not stopped: tools are denied with an instruction to write a    *)
(* handoff, a turn that ends without it gets one prompt from uam, and the  *)
(* wrap-up ends with the agent's reply or with facts uam reads itself.     *)
(*                                                                         *)
(* Each action is one section of m.mu; the prompt, the stop and the facts  *)
(* are goroutines.  A wrap-up is a number, as the code tells them apart by *)
(* pointer (s.wrap != w).  Sends are those of the module Thread, reduced   *)
(* to what a wrap-up can tell apart.                                       *)
(***************************************************************************)
EXTENDS Naturals, FiniteSets

CONSTANTS
  WrapCalls,   \* wrapCalls: model calls a wrap-up may make
  MaxWraps,    \* bound: wrap-ups of a behaviour
  MaxSets,     \* bound: how often the owner sets the budget
  Background   \* subagents call the model between turns too

ASSUME BudgetConstants ==
  /\ WrapCalls \in Nat \ {0} /\ MaxWraps \in Nat \ {0}
  /\ MaxSets \in Nat
  /\ Background \in BOOLEAN

VARIABLES
  budget,    \* s.budget: set, reached and wrapUp are saved
  over,      \* budgetOverLocked
  wrap,      \* s.wrap: the wrap-up that goes on, or 0
  wraps,     \* every budgetWrap and its goroutines
  handoff,   \* s.handoff
  fresh,     \* the main agent's last reply, seen from the wrap-up's start
  stopping,  \* the goroutine of budgetStopLocked
  conv,      \* s.conv is not nil
  base,      \* s.base: ready or working
  live,      \* the turn the provider runs, by who prompted it
  floating,  \* a prompt with an uncertain outcome the provider may take
  sender,    \* the send that holds s.op
  sets       \* bound: how often the budget was set

threadVars == <<conv, base, live, floating, sender>>
vars == <<budget, over, wrap, wraps, handoff, fresh, stopping, threadVars, sets>>

Wraps == 1..MaxWraps
Replies == {"none", "early", "told"}
Endings == {"facts"} \cup Replies

\* A wrap-up before it begins.  asked: its prompt's goroutine waits for s.op;
\* ending: what finishWrapLocked decided, while the facts are read.
Unborn == [begun |-> FALSE, told |-> FALSE, prompted |-> FALSE,
           started |-> FALSE, stop |-> FALSE, done |-> FALSE, calls |-> 0,
           asked |-> FALSE, timer |-> FALSE, ending |-> "none"]
Wrap == [begun : BOOLEAN, told : BOOLEAN, prompted : BOOLEAN,
         started : BOOLEAN, stop : BOOLEAN, done : BOOLEAN,
         calls : 0..WrapCalls, asked : BOOLEAN, timer : BOOLEAN,
         ending : Endings]

NoSend == [who |-> "none", of |-> 0, at |-> "idle"]
Send(who, w) == [who |-> who, of |-> w, at |-> "checked"]
SendSteps == {"idle", "checked", "sent", "took", "unsure", "rejected", "busy"}

TypeOK ==
  /\ budget \in [set : BOOLEAN, reached : BOOLEAN, wrapUp : BOOLEAN]
  /\ over \in BOOLEAN /\ wrap \in 0..MaxWraps /\ wraps \in [Wraps -> Wrap]
  /\ handoff \in Endings /\ fresh \in Replies
  /\ stopping \in {"idle", "begun", "cancelling"}
  /\ conv \in BOOLEAN /\ base \in {"ready", "working"}
  /\ {live, floating} \subseteq {"none", "owner", "prompt", "own"}
  /\ sender \in [who : {"none", "owner", "prompt"}, of : 0..MaxWraps,
                 at : SendSteps]
  /\ sets \in 0..MaxSets

NoBudget == [set |-> FALSE, reached |-> FALSE, wrapUp |-> FALSE]

Init ==
  /\ budget = [NoBudget EXCEPT !.set = TRUE] /\ over = FALSE
  /\ wrap = 0 /\ wraps = [w \in Wraps |-> Unborn]
  /\ handoff = "none" /\ fresh = "none" /\ stopping = "idle"
  /\ conv = TRUE /\ base = "ready" /\ live = "none" /\ floating = "none"
  /\ sender = NoSend /\ sets = 0

-----------------------------------------------------------------------------
(* The wrap-up.                                                            *)

Busy == base = "working"
Going == wrap # 0 /\ ~wraps[wrap].done
Unused == {w \in Wraps : ~wraps[w].begun}
Next1 == CHOOSE w \in Unused : \A v \in Unused : w <= v

\* finishWrapLocked: the facts are read outside the lock.  Nothing reads
\* what else a wrap-up that is done recorded.
Finished(ws, w, how) ==
  [ws EXCEPT ![w] = [Unborn EXCEPT !.begun = TRUE, !.done = TRUE,
                                   !.asked = ws[w].asked, !.ending = how]]
\* With no handoff reply, uam's facts alone.
Finish(how) == wraps' = IF Going THEN Finished(wraps, wrap, how) ELSE wraps

\* A running turn wraps up, once: a turn after the handoff is stopped.
RunningWrapsUp == Busy
MayWrapUp == Busy /\ handoff = "none"

\* checkBudgetLocked, for the budget b and what the Thread wraps up.
CheckBudget(b, isOver, current, ws) ==
  LET reached == b.reached \/ isOver
      acts == reached /\ stopping = "idle" /\ current = 0 /\ ~b.wrapUp /\ conv
      wrapsUp == acts /\ MayWrapUp
  IN  /\ wrapsUp => Unused # {}
      /\ budget' = [b EXCEPT !.reached = reached, !.wrapUp = @ \/ wrapsUp]
      /\ IF wrapsUp
         THEN /\ wrap' = Next1
              /\ wraps' = [ws EXCEPT ![Next1].begun = TRUE]
              /\ fresh' = "none"
         ELSE wrap' = current /\ wraps' = ws /\ UNCHANGED fresh
      /\ stopping' = IF acts /\ Busy /\ ~wrapsUp THEN "begun" ELSE stopping

\* The provider reports usage, or the account's quota was read.
Spends ==
  /\ budget.set
  /\ over' = TRUE
  /\ CheckBudget(budget, TRUE, wrap, wraps)
  /\ UNCHANGED <<handoff, threadVars, sets>>

Dropped(w) == [Unborn EXCEPT !.begun = TRUE, !.done = w.done,
                             !.asked = w.asked, !.ending = w.ending]

\* The new budget starts afresh.
KeptBudget(set) == [budget EXCEPT !.set = set, !.reached = FALSE]
NewBudget(set) == [NoBudget EXCEPT !.set = set]

\* SetBudget drops the wrap-up; a quota may be over at once.
Sets(set, isOver) ==
  /\ sets < MaxSets /\ sets' = sets + 1 /\ (isOver => set)
  /\ over' = isOver
  /\ LET ws == IF wrap = 0 THEN wraps ELSE [wraps EXCEPT ![wrap] = Dropped(@)]
     IN  CheckBudget(NewBudget(set), isOver, 0, ws)
  /\ UNCHANGED <<handoff, threadVars>>

\* wrapItemLocked: a call of the main agent was denied.
Denied ==
  /\ live # "none" /\ Going
  /\ wraps' = [wraps EXCEPT ![wrap].told = TRUE]
  /\ UNCHANGED <<budget, over, wrap, handoff, fresh, stopping, threadVars, sets>>

Writes ==
  /\ live # "none"
  /\ fresh' = IF Going /\ wraps[wrap].told THEN "told" ELSE "early"
  /\ UNCHANGED <<budget, over, wrap, wraps, handoff, stopping, threadVars, sets>>

\* wrapCallLocked
CallPast(w) == wraps[w].calls > WrapCalls
PastLast(w) == wraps[w].calls >= WrapCalls
Calls ==
  LET past == PastLast(wrap)
  IN  /\ conv /\ (live # "none" \/ Background) /\ Going
      /\ wraps' = [wraps EXCEPT ![wrap].calls = IF past THEN @ ELSE @ + 1,
                                ![wrap].stop = @ \/ past]
      /\ stopping' = IF past /\ stopping = "idle" THEN "begun" ELSE stopping
      /\ UNCHANGED <<budget, over, wrap, handoff, fresh, threadVars, sets>>

\* The facts are read, and the wrap-up is still the Thread's.
SomeWrap(w) == wrap # 0
StillIts(w) == wrap = w
FactsRead(w) ==
  /\ wraps[w].ending # "none"
  /\ wraps' = [wraps EXCEPT ![w].ending = "none"]
  /\ IF StillIts(w)
     THEN /\ wrap' = 0 /\ handoff' = wraps[w].ending
          /\ budget' = [budget EXCEPT !.wrapUp = FALSE]
     ELSE UNCHANGED <<wrap, handoff, budget>>
  /\ UNCHANGED <<over, fresh, stopping, threadVars, sets>>

\* wrapPromptLapsed
Lapses(w) ==
  /\ wraps[w].timer
  /\ wraps' = IF wrap = w /\ ~wraps[w].done /\ ~wraps[w].started /\ ~Busy
              THEN Finished(wraps, w, "facts")
              ELSE [wraps EXCEPT ![w].timer = FALSE]
  /\ UNCHANGED <<budget, over, wrap, handoff, fresh, stopping, threadVars, sets>>

-----------------------------------------------------------------------------
(* Sends.                                                                  *)

budgetVars == <<budget, over, handoff, stopping, sets>>

\* A prompt of the owner or of the queue: refused at a reached budget.
Submits ==
  /\ ~Busy /\ ~budget.reached /\ sender = NoSend
  /\ sender' = Send("owner", 0)
  /\ UNCHANGED <<budgetVars, wrap, wraps, fresh, conv, base, live, floating>>

\* sendWrapPromptLocked's goroutine got s.op and looks whether the wrap-up
\* still goes on.
Prompts(w) ==
  /\ wraps[w].asked /\ sender = NoSend
  /\ wraps' = [wraps EXCEPT ![w].asked = FALSE]
  /\ sender' = IF wrap = w /\ ~wraps[w].stop /\ ~wraps[w].done
               THEN Send("prompt", w) ELSE sender
  /\ UNCHANGED <<budgetVars, wrap, fresh, conv, base, live, floating>>

Goto(step) == sender' = [sender EXCEPT !.at = step]

\* send opens the conversation, and arms the turn.
Commits ==
  /\ sender.at = "checked"
  /\ \/ Busy /\ Goto("busy") /\ UNCHANGED <<base, conv>>
     \/ ~Busy /\ Goto("sent") /\ base' = "working" /\ conv' = TRUE
     \/ ~Busy /\ Goto("rejected") /\ UNCHANGED <<base, conv>>
  /\ UNCHANGED <<budgetVars, wrap, wraps, fresh, live, floating>>

\* applyTurnLocked for a turn that begins.
Begins(who) ==
  /\ live' = who /\ base' = "working"
  /\ wraps' = IF wrap # 0 /\ wraps[wrap].prompted
              THEN [wraps EXCEPT ![wrap].started = TRUE] ELSE wraps
  /\ handoff' = IF wrap = 0 /\ ~budget.reached THEN "none" ELSE handoff
  /\ UNCHANGED <<budget, over, wrap, fresh, stopping, sets>>

Accepts ==
  /\ sender.at = "sent" /\ conv /\ live = "none"
  /\ Begins(IF sender.who = "prompt" THEN "prompt" ELSE "owner")
  /\ Goto("took")
  /\ UNCHANGED <<conv, floating>>

Refuses ==
  /\ sender.at = "sent" /\ live = "none"
  /\ base' = "ready"
  /\ \/ Goto("rejected") /\ UNCHANGED floating
     \/ /\ Goto("unsure")
        /\ floating' = IF conv /\ sender.who = "prompt" THEN "prompt"
                       ELSE IF conv THEN "owner" ELSE floating
  /\ UNCHANGED <<budgetVars, wrap, wraps, fresh, conv, live>>

\* A prompt the provider may have: a turn may still come, for a while.
Unwatched(w) == wraps
Awaited(w) == IF wraps[w].started THEN wraps ELSE [wraps EXCEPT ![w].timer = TRUE]

\* What becomes of the wrap-up whose prompt was sent.
SendEnds ==
  LET w == sender.of
      mine == sender.who = "prompt" /\ wrap = w /\ ~wraps[w].done
  IN  /\ sender.at \in {"took", "unsure", "rejected", "busy"}
      /\ sender' = NoSend
      /\ wraps' = CASE mine /\ sender.at = "unsure" -> Awaited(w)
                    [] mine /\ sender.at \in {"rejected", "busy"} ->
                         Finished(wraps, w, "facts")
                    [] OTHER -> wraps
      /\ UNCHANGED <<budgetVars, wrap, fresh, conv, base, live, floating>>

-----------------------------------------------------------------------------
(* Turns, stops and the conversation's end.                                *)

LateTurn ==
  /\ floating # "none" /\ conv /\ live = "none" /\ sender.at # "sent"
  /\ Begins(floating)
  /\ floating' = "none"
  /\ UNCHANGED <<conv, sender>>

OwnTurn ==
  /\ conv /\ live = "none" /\ sender.at # "sent"
  /\ Begins("own")
  /\ UNCHANGED <<conv, floating, sender>>

\* wrapTurnEndLocked
WrapTurnEnds(how) ==
  LET w == wraps[wrap]
      asks == /\ ~w.stop /\ ~(w.told /\ fresh # "none")
              /\ ~w.prompted /\ how = "completed"
  IN  IF ~Going THEN UNCHANGED <<wraps, fresh>>
      ELSE IF asks
      THEN /\ wraps' = [wraps EXCEPT ![wrap].prompted = TRUE,
                                     ![wrap].told = TRUE, ![wrap].asked = TRUE]
           /\ fresh' = "none"
      ELSE /\ Finish(IF ~w.stop /\ w.told /\ fresh # "none" THEN fresh
                     ELSE "facts")
           /\ UNCHANGED fresh

TurnEnds(how) ==
  /\ live # "none" /\ live' = "none" /\ base' = "ready"
  /\ WrapTurnEnds(how)
  /\ UNCHANGED <<budgetVars, wrap, conv, floating, sender>>

\* budgetStopLocked's goroutine: cancelBecause.
BudgetStops ==
  /\ stopping = "begun"
  /\ stopping' = IF conv /\ Busy THEN "cancelling" ELSE "idle"
  /\ UNCHANGED <<budget, over, wrap, wraps, handoff, fresh, sets, conv, base,
                 live, floating, sender>>

\* The provider answers the stop; the cancelled turn ends by itself.
StopAnswered ==
  /\ stopping = "cancelling" /\ stopping' = "idle"
  /\ UNCHANGED <<budget, over, wrap, wraps, handoff, fresh, sets, threadVars>>

\* The owner's Stop ends the wrap-up: no prompt, uam's facts only.
OwnerStops ==
  /\ Busy \/ Going
  /\ wraps' = IF ~Going THEN wraps
              ELSE LET ws == [wraps EXCEPT ![wrap].stop = TRUE]
                   IN  IF Busy THEN ws ELSE Finished(ws, wrap, "facts")
  /\ UNCHANGED <<budgetVars, wrap, fresh, conv, base, live, floating, sender>>

\* The runtime exits, or the conversation is closed.
Exits ==
  /\ conv /\ conv' = FALSE
  /\ base' = "ready" /\ live' = "none" /\ floating' = "none"
  /\ Finish("facts")
  /\ UNCHANGED <<budgetVars, wrap, fresh, sender>>

\* uam stops, and starts again with what it saved.
Restart ==
  /\ budget.wrapUp => Unused # {}
  /\ IF budget.wrapUp
     THEN /\ wrap' = Next1
          /\ wraps' = Finished(
               [w \in Wraps |-> [Unborn EXCEPT
                                   !.begun = wraps[w].begun \/ w = Next1]],
               Next1, "facts")
     ELSE /\ wrap' = 0
          /\ wraps' = [w \in Wraps |-> [Unborn EXCEPT !.begun = wraps[w].begun]]
  /\ fresh' = "none" /\ stopping' = "idle"
  /\ conv' = FALSE /\ base' = "ready" /\ live' = "none" /\ floating' = "none"
  /\ sender' = NoSend
  /\ UNCHANGED <<budget, over, handoff, sets>>

WrapStep ==
  \E w \in Wraps : FactsRead(w) \/ Lapses(w) \/ Prompts(w)

SendStep == Commits \/ Accepts \/ Refuses \/ SendEnds

TurnStep == \E how \in {"completed", "cancelled", "failed"} : TurnEnds(how)

Next ==
  \/ Spends \/ Denied \/ Writes \/ Calls
  \/ \E set, isOver \in BOOLEAN : Sets(set, isOver)
  \/ Submits \/ OwnerStops
  \/ WrapStep \/ SendStep \/ TurnStep
  \/ LateTurn \/ OwnTurn \/ BudgetStops \/ StopAnswered \/ Exits \/ Restart

Spec == Init /\ [][Next]_vars

\* Goroutines are scheduled, timers fire, a send ends by its timeout and the
\* provider ends every turn.
FairSpec ==
  /\ Spec
  /\ WF_vars(SendStep) /\ WF_vars(TurnStep) /\ WF_vars(BudgetStops)
  /\ WF_vars(StopAnswered)
  /\ \A w \in Wraps : /\ WF_vars(FactsRead(w)) /\ WF_vars(Lapses(w))
                      /\ SF_vars(Prompts(w))

-----------------------------------------------------------------------------
(* Properties.                                                             *)

\* The wrapping-up that a Thread saves and shows is a wrap-up that goes on,
\* across the owner's new budget, the facts read for an earlier one, and a
\* restart (budget.go:121, 206, 600).
WrapUpIsReal == budget.wrapUp <=> wrap # 0

\* A handoff stays until the Thread works below its budget: no wrap-up goes
\* on beside the handoff of an earlier one (budget.go:134).
HandoffIsCurrent == handoff # "none" => wrap = 0

\* A handoff is the one of the wrap-up that goes on: the facts of a wrap-up
\* that the owner's new budget dropped leave none, and end no later one
\* (budget.go:630).
DroppedLeavesNone ==
  [][handoff' \notin {handoff, "none"} =>
       wrap # 0 /\ wraps[wrap].done /\ wraps[wrap].ending = handoff']_vars

\* A wrap-up that goes on while a turn runs ends, with a handoff or because
\* the budget was set, however its prompt's send and the turn end
\* (budget.go:505), unless it was stopped between turns: by a subagent's call
\* past the last, or by the owner during another send.
StoppedIdle == Going /\ wraps[wrap].stop /\ live = "none"
TurnWrapsUp ==
  \A w \in Wraps : (wrap = w /\ live # "none") ~> (wrap # w \/ StoppedIdle)

\* The handoff is a reply that the main agent wrote after it was told, as
\* budget.go:291 and docs/web.md:1018 say.
HandoffIsAfterTold == handoff # "early"

=============================================================================

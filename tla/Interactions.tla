---------------------------- MODULE Interactions ----------------------------
(***************************************************************************)
(* The requests a provider makes of the owner, permissions and questions,  *)
(* and the permission mode that lets uam answer them itself.               *)
(*                                                                         *)
(* Three parties hold a request: the runtime that waits for it (run), the  *)
(* adapter (apend) and Manager, which shows it (ix).  An answer is claimed *)
(* under Manager.mu, given to the adapter without it, and recorded under   *)
(* it again; the adapter does the same around its call to the runtime.  A  *)
(* change of mode that concerns the runtime holds s.op, as an open and a   *)
(* close do.  An action is one section of Manager.mu or of the adapter's   *)
(* lock; the adapter reports to Manager while it holds its own, so what it *)
(* reports is part of its step.                                            *)
(***************************************************************************)
EXTENDS Naturals, FiniteSets

CONSTANTS
  Permissions,  \* requests with an option that allows them once
  Questions,    \* questions
  Clients,      \* handlers of POST .../interactions/{iid}
  Setters,      \* handlers of POST .../mode
  None,
  Early,        \* requests may come before an open is done
  Lost          \* the runtime's reply to an answer may be lost

Requests == Permissions \cup Questions

\* The goroutine of autoAllowLocked for a request.
Automatic(r) == <<"auto", r>>
Responders == Clients \cup {Automatic(r) : r \in Requests}

\* Who ended a request that no answer of this service ended.
Cli == <<"cli", None>>

Opener == "opener"
Closer == "closer"

ASSUME InteractionConstants ==
  /\ {Early, Lost} \subseteq BOOLEAN
  /\ Permissions \cap Questions = {}
  /\ {Opener, Closer, None} \cap Setters = {} /\ None \notin {Opener, Closer}
  /\ None \notin Requests /\ {None, Cli} \cap Responders = {}
  /\ Clients \cap {Automatic(r) : r \in Requests} = {}

VARIABLES
  mode,     \* s.mode
  unknown,  \* s.modeUnknown
  leaving,  \* s.leavingAssisted
  conv,     \* s.conv is not nil
  open,     \* the open in progress
  aopen,    \* the adapter's conversation is not closed
  rt,       \* the runtime is in assisted mode
  op,       \* owner of s.op
  ix,       \* the interactions as Manager holds them
  shown,    \* what the last "interaction" frame said of each
  apend,    \* the adapter's record of each: none, pending or answering
  run,      \* the runtime: not asked yet, waiting, or over
  took,     \* whose answer ended the request, or Cli
  done,     \* permission.completed is on its way
  at,       \* where each responder is
  on,       \* the request each client answers
  result,   \* what Respond returned
  lapsed,   \* responders whose conversation ended meanwhile
  told,     \* history: who was told that the answer was taken
  step,     \* where each setter is
  want,     \* the mode it sets
  found     \* what came of its change

modeVars == <<mode, unknown, leaving>>
convVars == <<conv, open, aopen, rt>>
ixVars == <<ix, shown>>
provVars == <<apend, run, took, done>>
respVars == <<at, on, result, lapsed, told>>
setVars == <<step, want, found>>
vars == <<modeVars, convVars, op, ixVars, provVars, respVars, setVars>>

Modes == {"safe", "yolo", "assisted"}
States == {"none", "pending", "answered", "rejected", "expired"}
Interaction == [state : States, answering : BOOLEAN,
                auto : {"no", "yolo", "assisted"}, reviewed : BOOLEAN,
                failed : BOOLEAN]
NoInteraction == [state |-> "none", answering |-> FALSE, auto |-> "no",
                  reviewed |-> FALSE, failed |-> FALSE]

TypeOK ==
  /\ mode \in Modes /\ unknown \in BOOLEAN /\ leaving \in BOOLEAN
  /\ conv \in BOOLEAN /\ open \in {"none", "begun", "made", "stale"}
  /\ aopen \in BOOLEAN /\ rt \in BOOLEAN
  /\ op \in Setters \cup {Opener, Closer, None}
  /\ ix \in [Requests -> Interaction]
  /\ shown \in [Requests -> States \X BOOLEAN]
  /\ apend \in [Requests -> {"none", "pending", "answering"}]
  /\ run \in [Requests -> {"none", "waiting", "over"}]
  /\ took \in [Requests -> Responders \cup {None, Cli}]
  /\ done \subseteq Requests
  /\ at \in [Responders -> {"idle", "call", "rpc", "back"}]
  /\ on \in [Clients -> Requests \cup {None}]
  /\ result \in [Responders -> {"ok", "gone", "failed", "none"}]
  /\ lapsed \subseteq Responders /\ told \in [Requests -> SUBSET Responders]
  /\ step \in [Setters -> {"idle", "wait", "change", "record", "uncertain",
                           "fail"}]
  /\ want \in [Setters -> Modes]
  /\ found \in [Setters -> {"none", "on", "off", "unreadable"}]

Init ==
  /\ mode \in {"safe", "yolo"} /\ unknown = FALSE /\ leaving = FALSE
  /\ conv = FALSE /\ open = "none" /\ aopen = FALSE /\ rt = FALSE /\ op = None
  /\ ix = [r \in Requests |-> NoInteraction]
  /\ shown = [r \in Requests |-> <<"none", FALSE>>]
  /\ apend = [r \in Requests |-> "none"] /\ run = [r \in Requests |-> "none"]
  /\ took = [r \in Requests |-> None] /\ done = {}
  /\ at = [c \in Responders |-> "idle"] /\ on = [c \in Clients |-> None]
  /\ result = [c \in Responders |-> "none"]
  /\ lapsed = {} /\ told = [r \in Requests |-> {}]
  /\ step = [s \in Setters |-> "idle"] /\ want = [s \in Setters |-> "safe"]
  /\ found = [s \in Setters |-> "none"]

-----------------------------------------------------------------------------
(* What Manager does with its interactions.                                *)

On(c) == IF c \in Clients THEN on[c] ELSE c[2]
Busy(c) == at[c] # "idle"

\* The events of the conversation are the current ones.
Hears == conv \/ open = "made"

\* interaction.public
Public(i) == <<i.state, i.auto # "no" /\ i.state = "pending">>

Publish(S) ==
  shown' = [r \in Requests |-> IF r \in S THEN Public(ix'[r]) ELSE shown[r]]

\* What only a pending request needs is forgotten with it.
Settled(i, state) == [i EXCEPT !.state = state, !.auto = "no",
                               !.reviewed = FALSE, !.failed = FALSE]

Expired(i) == [Settled(i, "expired") EXCEPT !.answering = FALSE]
ExpirePending(now) ==
  [r \in Requests |-> IF now[r].state = "pending" THEN Expired(now[r])
                      ELSE now[r]]
Pending == {r \in Requests : ix[r].state = "pending"}

\* autoAllowLocked: which requests it claims.
AllowableReviewed(r, i) ==
  mode' = "yolo" \/ (mode' = "assisted" /\ i.reviewed)
Allowable(r, i) ==
  \/ mode' = "yolo"
  \/ mode' = "assisted" /\ ~leaving' /\ i.reviewed
Claimable(r, i) ==
  /\ Allowable(r, i) /\ ~unknown' /\ conv'
  /\ r \in Permissions /\ i.state = "pending" /\ ~i.answering

Claim(i) == [i EXCEPT !.answering = TRUE,
                      !.auto = IF mode' = "yolo" THEN "yolo" ELSE "assisted"]

\* Claims what it may of S, and starts their goroutines; now is what the
\* interactions are when it looks.
AutoAllow(S, now) ==
  LET claims == {r \in S : Claimable(r, now[r])}
  IN  /\ ix' = [r \in Requests |-> IF r \in claims THEN Claim(now[r]) ELSE now[r]]
      /\ at' = [c \in Responders |->
                  IF \E r \in claims : c = Automatic(r) THEN "call" ELSE at[c]]

\* autoAllowPendingLocked
AllowLater == UNCHANGED <<ixVars, at>>
AutoAllowPending ==
  AutoAllow(Requests, ix) /\ Publish({r \in Requests : ix'[r] # ix[r]})

\* upsertInteractionLocked: a resolved interaction never returns to pending.
Upsert(r, state, reviewed) ==
  IF ~Hears \/ (state = "pending" /\ ix[r].state \notin {"none", "pending"})
  THEN UNCHANGED <<ixVars, at>>
  ELSE /\ AutoAllow({r}, [ix EXCEPT ![r].state = state, ![r].reviewed = reviewed])
       /\ Publish({r})

Resolve(r, state) ==
  IF ~Hears THEN UNCHANGED ixVars
  ELSE ix' = [ix EXCEPT ![r] = Settled(@, state)] /\ Publish({r})

-----------------------------------------------------------------------------
(* Answers.                                                                *)

\* Answer: the owner's.  Without a conversation the request expires.
Answer(c, r) ==
  /\ ~Busy(c) /\ ix[r].state = "pending" /\ ~ix[r].answering
  /\ IF conv
     THEN /\ ix' = [ix EXCEPT ![r].answering = TRUE]
          /\ at' = [at EXCEPT ![c] = "call"] /\ on' = [on EXCEPT ![c] = r]
     ELSE ix' = [ix EXCEPT ![r] = Expired(@)] /\ UNCHANGED <<at, on>>
  /\ Publish({r})
  /\ UNCHANGED <<modeVars, convVars, op, provVars, result, lapsed, told, setVars>>

Returns(c, res) ==
  /\ at' = [at EXCEPT ![c] = "back"] /\ result' = [result EXCEPT ![c] = res]
  /\ UNCHANGED <<on, lapsed, told>>

\* conversation.Respond up to its call to the runtime; a question's answer is
\* handed over at once.
Respond(c) ==
  /\ at[c] = "call"
  /\ LET r == On(c) IN
     IF c \in lapsed \/ apend[r] # "pending"
     THEN Returns(c, "gone") /\ UNCHANGED <<provVars, ixVars>>
     ELSE IF r \in Questions
     THEN /\ apend' = [apend EXCEPT ![r] = "none"]
          /\ run' = [run EXCEPT ![r] = "over"] /\ took' = [took EXCEPT ![r] = c]
          /\ Resolve(r, "answered")
          /\ Returns(c, "ok") /\ UNCHANGED done
     ELSE /\ apend' = [apend EXCEPT ![r] = "answering"]
          /\ at' = [at EXCEPT ![c] = "rpc"]
          /\ UNCHANGED <<run, took, done, ixVars, on, result, lapsed, told>>
  /\ UNCHANGED <<modeVars, convVars, op, setVars>>

\* The runtime takes the answer; it reports the end of the request as well.
RuntimeTakes(c) ==
  /\ at[c] = "rpc" /\ c \notin lapsed /\ run[On(c)] = "waiting"
  /\ run' = [run EXCEPT ![On(c)] = "over"]
  /\ took' = [took EXCEPT ![On(c)] = c]
  /\ done' = done \cup {On(c)}
  /\ UNCHANGED <<modeVars, convVars, op, ixVars, apend, respVars, setVars>>

\* conversation.Respond after the call: whether the answer was applied.
\* Nothing is left to settle once the conversation was closed.
AppliedAlways(c) == TRUE
Applied(c) == took[On(c)] = c

Replied(c) ==
  /\ at[c] = "rpc"
  /\ LET r == On(c)
         applied == Applied(c)
     IN  /\ run[r] # "waiting"
         /\ Returns(c, IF applied THEN "ok" ELSE "gone")
         /\ IF c \in lapsed THEN UNCHANGED <<apend, ixVars>>
            ELSE /\ apend' = [apend EXCEPT ![r] = "none"]
                 /\ Resolve(r, IF applied THEN "answered" ELSE "expired")
  /\ UNCHANGED <<modeVars, convVars, op, run, took, done, setVars>>

ReplyLost(c) ==
  /\ at[c] = "rpc"
  /\ Lost \/ c \in lapsed
  /\ Returns(c, "failed")
  /\ apend' = IF c \in lapsed THEN apend
              ELSE [apend EXCEPT ![On(c)] = "pending"]
  /\ UNCHANGED <<modeVars, convVars, op, ixVars, run, took, done, setVars>>

\* respond: the outcome is recorded, unless the request was resolved while
\* the answer was on its way.
Recorded(i, res) ==
  IF i.state # "pending" THEN i
  ELSE CASE res = "ok" -> Settled(i, "answered")
         [] res = "gone" -> Expired(i)
         [] OTHER -> [i EXCEPT !.failed = TRUE]

StillClaimed(i, res) == [i EXCEPT !.answering = FALSE]
Unclaimed(i, res) ==
  [i EXCEPT !.answering = FALSE, !.auto = IF res = "ok" THEN @ ELSE "no"]

AnnouncesResolved(c) == ix[On(c)].state = "pending" /\ result[c] # "failed"
Announces(c) == ix[On(c)].state = "pending"

Responded(c) ==
  /\ at[c] = "back"
  /\ LET r == On(c)
     IN  /\ ix' = [ix EXCEPT ![r] = Recorded(Unclaimed(@, result[c]), result[c])]
         /\ IF Announces(c) THEN Publish({r}) ELSE UNCHANGED shown
         /\ told' = IF result[c] = "ok" THEN [told EXCEPT ![r] = @ \cup {c}]
                    ELSE told
  /\ at' = [at EXCEPT ![c] = "idle"]
  /\ on' = [d \in Clients |-> IF d = c THEN None ELSE on[d]]
  /\ result' = [result EXCEPT ![c] = "none"] /\ lapsed' = lapsed \ {c}
  /\ UNCHANGED <<modeVars, convVars, op, provVars, setVars>>

-----------------------------------------------------------------------------
(* The runtime's requests.                                                 *)

\* permissionRequestedLocked, askUser.  Assisted, the runtime reviews a
\* permission first.
Ask(r) ==
  /\ aopen /\ run[r] = "none"
  /\ conv \/ Early
  /\ run' = [run EXCEPT ![r] = "waiting"]
  /\ apend' = [apend EXCEPT ![r] = "pending"]
  /\ UNCHANGED modeVars /\ UNCHANGED convVars
  /\ \E reviewed \in {FALSE, rt /\ r \notin Questions} :
       Upsert(r, "pending", reviewed)
  /\ UNCHANGED <<op, took, done, on, result, lapsed, told, setVars>>

\* The request event once more.
AskAgain(r) ==
  /\ aopen /\ run[r] = "waiting" /\ r \notin Questions /\ apend[r] # "answering"
  /\ apend' = [apend EXCEPT ![r] = "pending"]
  /\ UNCHANGED modeVars /\ UNCHANGED convVars
  /\ Upsert(r, "pending", ix[r].reviewed)
  /\ UNCHANGED <<op, run, took, done, on, result, lapsed, told, setVars>>

\* A rule, a hook, another client or the end of the turn decides it.
Decided(r) ==
  /\ run[r] = "waiting" /\ r \notin Questions
  /\ run' = [run EXCEPT ![r] = "over"] /\ took' = [took EXCEPT ![r] = Cli]
  /\ done' = done \cup {r}
  /\ UNCHANGED <<modeVars, convVars, op, ixVars, apend, respVars, setVars>>

\* permissionCompletedLocked: an answer on its way will tell.
Completed(r) ==
  /\ aopen /\ r \in done
  /\ done' = done \ {r}
  /\ IF apend[r] # "pending" THEN UNCHANGED <<apend, ixVars>>
     ELSE /\ apend' = [apend EXCEPT ![r] = "none"]
          /\ \E state \in IF took[r] = Cli THEN {"answered", "rejected", "expired"}
                          ELSE {"answered"} : Resolve(r, state)
  /\ UNCHANGED <<modeVars, convVars, op, run, took, respVars, setVars>>

\* finishTurnLocked of an aborted turn.
TurnAborts ==
  /\ aopen /\ \E r \in Requests : run[r] = "waiting"
  /\ run' = [r \in Requests |-> IF run[r] = "waiting" THEN "over" ELSE run[r]]
  /\ took' = [r \in Requests |-> IF run[r] = "waiting" THEN Cli ELSE took[r]]
  /\ apend' = [r \in Requests |-> IF apend[r] = "pending" THEN "none" ELSE apend[r]]
  /\ LET over == {r \in Requests : apend[r] = "pending"}
     IN  IF ~Hears THEN UNCHANGED ixVars
         ELSE /\ ix' = [r \in Requests |->
                          IF r \in over /\ ix[r].state # "none"
                          THEN Settled(ix[r], "expired") ELSE ix[r]]
              /\ Publish(over)
  /\ UNCHANGED <<modeVars, convVars, op, done, respVars, setVars>>

-----------------------------------------------------------------------------
(* The conversation.                                                       *)

\* The adapter's conversation ends: nothing of it is pending any more.
AdapterEnds ==
  /\ aopen' = FALSE /\ rt' = FALSE /\ done' = {}
  /\ apend' = [r \in Requests |-> "none"]
  /\ run' = [r \in Requests |-> IF run[r] = "waiting" THEN "over" ELSE run[r]]
  /\ lapsed' = lapsed \cup {c \in Responders : Busy(c)}
  /\ UNCHANGED took

\* openLocked: the mode is read here and applied by the open.
OpenBegins ==
  /\ op = None /\ ~conv
  /\ op' = Opener /\ open' = "begun" /\ rt' = (mode = "assisted")
  /\ UNCHANGED <<modeVars, conv, aopen, ixVars, provVars, respVars, setVars>>

Opened ==
  /\ open = "begun"
  /\ open' = "made" /\ aopen' = TRUE
  /\ UNCHANGED <<modeVars, conv, rt, op, ixVars, provVars, respVars, setVars>>

OpenEnds ==
  /\ open \in {"made", "stale"}
  /\ open' = "none" /\ op' = None
  /\ conv' = (open = "made") /\ unknown' = (unknown /\ ~conv')
  /\ UNCHANGED <<mode, leaving, aopen, rt>>
  /\ IF conv' THEN AutoAllowPending ELSE UNCHANGED <<ixVars, at>>
  /\ UNCHANGED <<provVars, on, result, lapsed, told, setVars>>

\* The open, or what follows it before it is done, failed.  The adapter
\* withdraws what it was asked meanwhile.
OpenFails ==
  /\ open \in {"begun", "made"}
  /\ open' = "none" /\ op' = None /\ AdapterEnds
  /\ ix' = [r \in Requests |-> IF apend[r] = "pending" THEN Expired(ix[r])
                               ELSE ix[r]]
  /\ Publish({r \in Requests : apend[r] = "pending"})
  /\ UNCHANGED <<modeVars, conv, at, on, result, told, setVars>>

\* EventExit
Exit ==
  /\ aopen /\ AdapterEnds
  /\ conv' = FALSE /\ open' = IF open = "made" THEN "stale" ELSE open
  /\ IF Hears THEN ix' = ExpirePending(ix) /\ Publish(Pending)
     ELSE UNCHANGED ixVars
  /\ UNCHANGED <<modeVars, op, at, on, result, told, setVars>>

\* disconnectLocked, and the close of what it detached.
CloseBegins ==
  /\ op = None /\ conv
  /\ op' = Closer /\ conv' = FALSE
  /\ ix' = ExpirePending(ix) /\ Publish(Pending)
  /\ UNCHANGED <<modeVars, open, aopen, rt, provVars, respVars, setVars>>

CloseEnds ==
  /\ op = Closer /\ op' = None
  /\ AdapterEnds
  /\ UNCHANGED <<modeVars, conv, open, ixVars, at, on, result, told, setVars>>

-----------------------------------------------------------------------------
(* setMode.                                                                *)

Goto(s, next) == step' = [step EXCEPT ![s] = next]

NeedsRuntime(md) == md = "assisted" \/ mode = "assisted" \/ unknown

\* Between safe and yolo: at once.
SetPlain(md) ==
  /\ ~NeedsRuntime(md)
  /\ mode' = md /\ UNCHANGED <<unknown, leaving>> /\ UNCHANGED convVars
  /\ AutoAllowPending
  /\ UNCHANGED <<op, provVars, on, result, lapsed, told, setVars>>

SetWaits(s, md) ==
  /\ step[s] = "idle" /\ NeedsRuntime(md)
  /\ Goto(s, "wait") /\ want' = [want EXCEPT ![s] = md]
  /\ UNCHANGED <<modeVars, convVars, op, ixVars, provVars, respVars, found>>

Toggles(s) == (want[s] = "assisted") # (mode = "assisted") \/ unknown

\* setAssistedMode, once it holds s.op.  The provider may not offer assisted.
SetBegins(s) ==
  /\ step[s] = "wait" /\ op = None
  /\ op' = s
  /\ IF conv /\ Toggles(s)
     THEN Goto(s, "change") /\ leaving' = (leaving \/ mode = "assisted")
     ELSE Goto(s, "record") /\ UNCHANGED leaving
  /\ UNCHANGED <<mode, unknown, convVars, ixVars, provVars, respVars, want, found>>

SetRefused(s) ==
  /\ step[s] = "wait" /\ op = None /\ want[s] = "assisted" /\ mode # "assisted"
  /\ Goto(s, "idle") /\ want' = [want EXCEPT ![s] = "safe"]
  /\ UNCHANGED <<modeVars, convVars, op, ixVars, provVars, respVars, found>>

\* SetAssistedPermissions: applied, refused, or not known.
Change(s) ==
  /\ step[s] = "change"
  /\ \/ ~aopen /\ Goto(s, "record") /\ UNCHANGED <<rt, found>>
     \/ /\ aopen /\ Goto(s, "record")
        /\ rt' = (want[s] = "assisted") /\ UNCHANGED found
     \/ /\ aopen /\ Goto(s, "fail") /\ UNCHANGED <<rt, found>>
     \/ /\ Goto(s, "uncertain") /\ UNCHANGED found
        /\ rt' \in {rt, aopen /\ want[s] = "assisted"}
  /\ UNCHANGED <<modeVars, conv, open, aopen, op, ixVars, provVars, respVars, want>>

Frees(s) ==
  /\ op' = None /\ Goto(s, "idle") /\ leaving' = FALSE
  /\ found' = [found EXCEPT ![s] = "none"]
  /\ want' = [want EXCEPT ![s] = "safe"]
  /\ UNCHANGED <<convVars, provVars, on, result, lapsed, told>>

SetEnds(s) ==
  /\ step[s] = "record"
  /\ mode' = want[s] /\ unknown' = FALSE
  /\ Frees(s) /\ AutoAllowPending

\* AssistedPermissionsOn: the runtime's mode, if it tells.
ReadBack(s) ==
  /\ step[s] = "uncertain"
  /\ Goto(s, "fail")
  /\ \E f \in IF aopen THEN {IF rt THEN "on" ELSE "off", "unreadable"}
              ELSE {"none"} : found' = [found EXCEPT ![s] = f]
  /\ UNCHANGED <<modeVars, convVars, op, ixVars, provVars, respVars, want>>

\* assistedModeFailed: the mode the runtime reports is adopted.
Ignored(s) == mode
AdoptedAsTold(s) == IF found[s] = "none" THEN mode ELSE found[s]
Adopted(s) ==
  CASE found[s] = "on" -> "assisted"
    [] found[s] = "off" /\ want[s] # "assisted" -> want[s]
    [] found[s] = "off" /\ want[s] = "assisted" /\ mode = "assisted" -> "safe"
    [] OTHER -> mode

SetFails(s) ==
  /\ step[s] = "fail"
  /\ mode' = Adopted(s)
  /\ unknown' = CASE found[s] = "unreadable" -> TRUE
                  [] found[s] = "none" -> unknown
                  [] OTHER -> FALSE
  /\ Frees(s) /\ AutoAllowPending

-----------------------------------------------------------------------------

ResponderStep(c) == Respond(c) \/ RuntimeTakes(c) \/ Replied(c) \/ ReplyLost(c)
                    \/ Responded(c)
SetterStep(s) == SetBegins(s) \/ SetRefused(s) \/ Change(s) \/ SetEnds(s)
                 \/ ReadBack(s) \/ SetFails(s)
OpenStep == Opened \/ OpenEnds \/ OpenFails

Next ==
  \/ \E c \in Clients, r \in Requests : Answer(c, r)
  \/ \E c \in Responders : ResponderStep(c)
  \/ \E r \in Requests : Ask(r) \/ AskAgain(r) \/ Decided(r) \/ Completed(r)
  \/ TurnAborts \/ Exit
  \/ OpenBegins \/ OpenStep \/ CloseBegins \/ CloseEnds
  \/ \E md \in Modes : SetPlain(md)
  \/ \E s \in Setters, md \in Modes : SetWaits(s, md)
  \/ \E s \in Setters : SetterStep(s)

Spec == Init /\ [][Next]_vars

-----------------------------------------------------------------------------

\* Of several answers to a request, the owner's and an automatic one, at most
\* one is reported as taken, and it is the one the provider took ("The first
\* answer wins").
FirstAnswerWins == \A r \in Requests : told[r] \subseteq {took[r]}

\* A request that uam claimed is not shown as waiting, so somebody is at it:
\* a claim never outlives the goroutine that made it.
ClaimIsHeld ==
  \A r \in Requests : ix[r].answering \/ Public(ix[r])[2] =>
    \E c \in Responders : Busy(c) /\ On(c) = r

\* The browser was told what Manager holds, through claims, expiries and
\* answers that fail: no request waits unseen, none is shown that is over.
ShownIsPublic == \A r \in Requests : shown[r] = Public(ix[r])

\* In a yolo Thread no permission waits for the owner that could be allowed,
\* whether it came before, during or after the change of mode or the open,
\* unless an answer to it failed.
YoloLeavesNone ==
  conv /\ mode = "yolo" /\ ~unknown =>
    \A r \in Permissions :
      ix[r].state = "pending" => ix[r].answering \/ ix[r].failed

\* Unless a change is on its way, the mode the owner sees is the runtime's, or
\* is shown as unknown: through refusals, timeouts, closes and exits.
ModeIsRuntimes ==
  conv /\ op \notin Setters /\ ~unknown => (rt <=> mode = "assisted")

\* A review allows a request only while the runtime is assisted: not once it
\* has left, though the change is not recorded yet.
ReviewNeedsRuntime ==
  [][\A r \in Requests :
       ix[r].auto # "assisted" /\ ix'[r].auto = "assisted" => rt']_vars

\* A Thread that awaits the owner is one whose provider does ("The provider is
\* waiting for you").
AwaitingIsReal ==
  conv => \A r \in Requests :
            ix[r].state = "pending" /\ ~ix[r].answering =>
              run[r] = "waiting" \/ r \in done

\* A request that is shown as over is not one the provider still waits for
\* ("Expired means the provider withdrew the request").
NothingAbandoned ==
  conv => \A r \in Requests :
            ix[r].state \notin {"none", "pending"} => run[r] # "waiting"
=============================================================================

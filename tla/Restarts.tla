------------------------------ MODULE Restarts ------------------------------
(***************************************************************************)
(* Updates of the provider's CLI under running Threads, the restart onto   *)
(* the installed release once nothing runs on the old one, the owner's     *)
(* restart of the runtime, and the restart of uam itself (cli_update.go of *)
(* the web service and of the Copilot adapter, runtime_restart.go,         *)
(* restart.go and the daemon's loop).                                      *)
(*                                                                         *)
(* Each action is one section of p.mu, m.mu or m.cli.mu.  The work of a    *)
(* Thread is reduced to opening its conversation, a prompt and its turn.   *)
(***************************************************************************)
EXTENDS Naturals, FiniteSets

CONSTANTS
  Threads,      \* Threads that exist
  News,         \* Threads that are being created
  Jobs,         \* utility prompts
  None,         \* no Thread
  MaxUses,      \* bound: views, prompts, creates and utility prompts
  MaxEvents     \* bound: updates, installs outside uam, ends of the CLI
                \* that are no update's, and changes of uam's binary

ASSUME RestartConstants ==
  /\ IsFiniteSet(Threads) /\ IsFiniteSet(News) /\ IsFiniteSet(Jobs)
  /\ Threads \cap News = {} /\ None \notin Threads \cup News
  /\ MaxUses \in Nat /\ MaxEvents \in Nat

Tasks == Threads \cup News

VARIABLES
  cli,       \* the provider's client, its release, and who holds its starts
  tracked,   \* p.convs, by their Thread
  counted,   \* p.utilities, by the prompts it counts
  cut,       \* the clients that a restart onto an update has stopped
  installed, \* the release on disk
  listed,    \* the Threads in m.sessions
  at,        \* the step of the handler that holds a Thread's s.op
  on,        \* the client it was given
  sends,     \* it opens in order to send
  opening,   \* s.opening is not nil
  viewing,   \* a page load's goroutine waits for s.op
  conv,      \* the client that s.conv runs on, or 0
  busy,      \* runsOrWaitsLocked: a turn runs
  stale,     \* s.gen moved while the conversation opened
  exiting,   \* the conversation's exit is still to be reported
  job,       \* the step and the client of a utility prompt
  update,    \* cliStatus.State
  waits,     \* cliStatus.restarting
  try,       \* the goroutines that restart the CLI: the update's, the waiting one
  svc,       \* the restart of uam: binaryWatch and what the daemon was asked
  left       \* bounds: what may still happen

cliVars == <<cli, tracked, counted, cut, installed>>
threadVars == <<listed, at, on, sends, opening, viewing, conv, busy, stale,
                exiting>>
updateVars == <<update, waits, try>>
vars == <<cliVars, threadVars, job, updateVars, svc, left>>

Tries == {"update", "wait"}
Holders == {"free", "owner"} \cup Tries
Bounds == [uses : 0..MaxUses, events : 0..MaxEvents]
Clients == 0..(1 + MaxEvents)
Releases == 0..MaxEvents

TypeOK ==
  /\ cli \in [client : Clients, started : Clients, release : Releases,
              known : Releases, outdated : BOOLEAN, held : Holders]
  /\ tracked \subseteq Tasks /\ counted \subseteq Jobs
  /\ cut \subseteq Clients /\ installed \in Releases /\ listed \subseteq Tasks
  /\ at \in [Tasks -> {"idle", "ensure", "open", "attach", "send"}]
  /\ on \in [Tasks -> Clients] /\ conv \in [Tasks -> Clients]
  /\ \A f \in {sends, opening, viewing, busy, stale, exiting} :
       f \in [Tasks -> BOOLEAN]
  /\ job \in [Jobs -> [at : {"idle", "ensure", "count", "run"},
                       on : Clients]]
  /\ update \in {"idle", "updating", "updated", "failed"} /\ waits \in BOOLEAN
  /\ try \in [Tries -> [at : {"idle", "stage", "install", "tick", "count",
                              "hold", "quiesce", "suspend", "stop", "release",
                              "won", "lost", "failed"},
                        todo : SUBSET Tasks, closing : Tasks \cup {None},
                        busy : BOOLEAN]]
  /\ svc \in [newer : BOOLEAN, seen : BOOLEAN, wanted : BOOLEAN,
              restarting : BOOLEAN, asked : BOOLEAN, at : {"idle", "begin"}]
  /\ left \in Bounds

NoTry == [at |-> "idle", todo |-> {}, closing |-> None, busy |-> FALSE]
AllOf(v) == [t \in Tasks |-> v]

\* What a start of uam begins with.
NoCLI == [client |-> 0, started |-> 0, release |-> 0, known |-> 0,
          outdated |-> FALSE, held |-> "free"]
NoJobs == [j \in Jobs |-> [at |-> "idle", on |-> 0]]
NoService == [newer |-> FALSE, seen |-> FALSE, wanted |-> FALSE,
              restarting |-> FALSE, asked |-> FALSE, at |-> "idle"]

Init ==
  /\ cli = NoCLI /\ tracked = {} /\ counted = {} /\ cut = {}
  /\ installed = 0 /\ listed = Threads
  /\ at = AllOf("idle") /\ on = AllOf(0) /\ conv = AllOf(0)
  /\ sends = AllOf(FALSE) /\ opening = AllOf(FALSE)
  /\ viewing = AllOf(FALSE) /\ busy = AllOf(FALSE)
  /\ stale = AllOf(FALSE) /\ exiting = AllOf(FALSE)
  /\ job = NoJobs /\ update = "idle" /\ waits = FALSE
  /\ try = [r \in Tries |-> NoTry] /\ svc = NoService
  /\ left = [uses |-> MaxUses, events |-> MaxEvents]

Set(f, t, v) == [f EXCEPT ![t] = v]

-----------------------------------------------------------------------------
(* A Thread's conversation.                                                *)

\* s.op, taken by the Thread's handler or by the restart that closes it.
OpFree(t) == at[t] = "idle" /\ \A r \in Tries : try[r].closing # t

\* openLocked up to provider.Open.
Opens(t, toSend) ==
  /\ at' = Set(at, t, "ensure") /\ sends' = Set(sends, t, toSend)
  /\ opening' = Set(opening, t, t \in listed) /\ stale' = Set(stale, t, FALSE)

OneUse == left.uses > 0 /\ left' = [left EXCEPT !.uses = @ - 1]
OneEvent == left.events > 0 /\ left' = [left EXCEPT !.events = @ - 1]

\* submit: the conversation is opened if it is not open.
Prompt(t) ==
  /\ t \in listed /\ OpFree(t) /\ ~busy[t] /\ OneUse
  /\ IF conv[t] = 0 THEN Opens(t, TRUE)
     ELSE /\ at' = Set(at, t, "send")
          /\ UNCHANGED <<sends, opening, stale>>
  /\ UNCHANGED <<cliVars, listed, on, viewing, conv, busy, exiting, job,
                 updateVars, svc>>

\* viewOpen shows the Thread as starting before its goroutine has s.op.
View(t) ==
  /\ t \in listed /\ conv[t] = 0 /\ ~opening[t] /\ ~viewing[t] /\ OneUse
  /\ opening' = Set(opening, t, TRUE) /\ viewing' = Set(viewing, t, TRUE)
  /\ UNCHANGED <<cliVars, listed, at, on, sends, conv, busy, stale, exiting,
                 job, updateVars, svc>>

ViewRuns(t) ==
  /\ viewing[t] /\ OpFree(t)
  /\ viewing' = Set(viewing, t, FALSE)
  /\ IF conv[t] = 0 THEN Opens(t, FALSE)
     ELSE opening' = Set(opening, t, FALSE) /\ UNCHANGED <<at, sends, stale>>
  /\ UNCHANGED <<cliVars, listed, on, conv, busy, exiting, job, updateVars, svc,
                 left>>

\* createChecked, which opens before the Thread is listed.
Create(t) ==
  /\ t \notin listed /\ at[t] = "idle" /\ OneUse /\ Opens(t, FALSE)
  /\ UNCHANGED <<cliVars, listed, on, viewing, conv, busy, exiting, job,
                 updateVars, svc>>

\* Starts wait for an install, and for an outdated CLI that is being stopped.
Waits == cli.held # "free" /\ (cli.client = 0 \/ cli.outdated)

\* The client that ensureStarted returns.  The binary's file is read before
\* the start: an install outside uam may come between the two.
Given(c) ==
  /\ ~Waits
  /\ \/ /\ cli.client # 0 /\ c = cli.client
        /\ UNCHANGED <<cli, installed, left>>
     \/ /\ cli.client = 0 /\ c = cli.started + 1
        /\ cli' = [cli EXCEPT !.client = c, !.started = c,
                              !.release = installed, !.known = installed]
        /\ UNCHANGED <<installed, left>>
     \/ /\ cli.client = 0 /\ c = cli.started + 1 /\ OneEvent
        /\ installed' = installed + 1
        /\ cli' = [cli EXCEPT !.client = c, !.started = c,
                              !.release = installed + 1, !.known = installed]

EnsureStarted(t) ==
  /\ at[t] = "ensure"
  /\ \E c \in Clients : Given(c) /\ on' = Set(on, t, c)
  /\ at' = Set(at, t, "open")
  /\ UNCHANGED <<tracked, counted, cut, listed, sends, opening, viewing, conv,
                 busy, stale, exiting, job, updateVars, svc>>

\* The handler's own values are forgotten with it.
EndsOpen(t) ==
  /\ opening' = Set(opening, t, FALSE) /\ on' = Set(on, t, 0)
  /\ sends' = Set(sends, t, FALSE) /\ stale' = Set(stale, t, FALSE)

\* CreateSession or ResumeSession, then track: a conversation on a client
\* that was stopped meanwhile is not used, and the open fails.
Track(t) ==
  /\ at[t] = "open"
  /\ \/ /\ on[t] = cli.client
        /\ tracked' = tracked \cup {t} /\ at' = Set(at, t, "attach")
        /\ UNCHANGED <<on, sends, opening, stale>>
     \/ EndsOpen(t) /\ at' = Set(at, t, "idle") /\ UNCHANGED tracked
  /\ UNCHANGED <<cli, counted, cut, installed, listed, viewing, conv, busy,
                 exiting, job, updateVars, svc, left>>

\* The end of openLocked, or register, which lists the Thread.
Attach(t) ==
  /\ at[t] = "attach"
  /\ IF t \in listed /\ stale[t]
     THEN /\ tracked' = tracked \ {t} /\ exiting' = Set(exiting, t, FALSE)
          /\ at' = Set(at, t, "idle") /\ UNCHANGED conv
     ELSE /\ conv' = Set(conv, t, on[t])
          /\ at' = Set(at, t, IF sends[t] THEN "send" ELSE "idle")
          /\ UNCHANGED <<tracked, exiting>>
  /\ EndsOpen(t) /\ listed' = listed \cup {t}
  /\ UNCHANGED <<cli, counted, cut, installed, viewing, busy, job, updateVars,
                 svc, left>>

\* The turn is recorded as working before the provider is given the prompt;
\* a conversation that ended meanwhile refuses it.
Send(t) ==
  /\ at[t] = "send" /\ at' = Set(at, t, "idle")
  /\ busy' = Set(busy, t, conv[t] # 0)
  /\ UNCHANGED <<cliVars, listed, on, sends, opening, viewing, conv, stale,
                 exiting, job, updateVars, svc, left>>

TurnEnds(t) ==
  /\ busy[t] /\ busy' = Set(busy, t, FALSE)
  /\ UNCHANGED <<cliVars, listed, at, on, sends, opening, viewing, conv, stale,
                 exiting, job, updateVars, svc, left>>

\* EventExit: the Thread loses its conversation, and its turn with it.
Exit(t) ==
  /\ exiting[t]
  /\ exiting' = Set(exiting, t, FALSE)
  /\ stale' = Set(stale, t, at[t] = "attach")
  /\ conv' = Set(conv, t, 0) /\ busy' = Set(busy, t, FALSE)
  /\ UNCHANGED <<cliVars, listed, at, on, sends, opening, viewing, job,
                 updateVars, svc, left>>

-----------------------------------------------------------------------------
(* Utility prompts, and the ends of a client.                              *)

StartJob(j) ==
  /\ job[j].at = "idle" /\ OneUse /\ job' = [job EXCEPT ![j].at = "ensure"]
  /\ UNCHANGED <<cliVars, threadVars, updateVars, svc>>

\* startUtility: a client stopped before the count is not used.
EnsureJob(j) ==
  /\ job[j].at = "ensure"
  /\ \E c \in Clients : Given(c) /\ job' = [job EXCEPT ![j].at = "count",
                                                       ![j].on = c]
  /\ UNCHANGED <<tracked, counted, cut, threadVars, updateVars, svc>>

CountJob(j) ==
  /\ job[j].at = "count"
  /\ IF job[j].on = cli.client
     THEN counted' = counted \cup {j} /\ job' = [job EXCEPT ![j].at = "run"]
     ELSE job' = [job EXCEPT ![j].at = "ensure"] /\ UNCHANGED counted
  /\ UNCHANGED <<cli, tracked, cut, installed, threadVars, updateVars, svc,
                 left>>

EndJob(j) ==
  /\ job[j].at = "run"
  /\ job' = [job EXCEPT ![j] = [at |-> "idle", on |-> 0]] /\ counted' = counted \ {j}
  /\ UNCHANGED <<cli, tracked, cut, installed, threadVars, updateVars, svc,
                 left>>

Gone == [cli EXCEPT !.client = 0, !.outdated = FALSE]

\* takeConvs, whose exits are reported one by one without p.mu.
TakeConvs ==
  /\ tracked' = {}
  /\ exiting' = [t \in Tasks |-> exiting[t] \/ t \in tracked]

\* The CLI dies and its watchdog's ping fails.
CLIDies ==
  /\ cli.client # 0 /\ OneEvent /\ cli' = Gone /\ TakeConvs
  /\ UNCHANGED <<counted, cut, installed, listed, at, on, sends, opening,
                 viewing, conv, busy, stale, job, updateVars, svc>>

\* RestartRuntime stops the CLI whatever runs on it.
RestartRuntime ==
  /\ cli.held = "free" /\ OneEvent
  /\ cli' = [Gone EXCEPT !.held = "owner"] /\ TakeConvs
  /\ UNCHANGED <<counted, cut, installed, listed, at, on, sends, opening,
                 viewing, conv, busy, stale, job, updateVars, svc>>

RuntimeStopped ==
  /\ cli.held = "owner" /\ \A t \in Tasks : ~exiting[t]
  /\ cli' = [cli EXCEPT !.held = "free"]
  /\ UNCHANGED <<tracked, counted, cut, installed, threadVars, job, updateVars,
                 svc, left>>

-----------------------------------------------------------------------------
(* An update of the CLI, and the restart onto it.                          *)

StartCLIUpdate ==
  /\ update # "updating" /\ try["update"].at = "idle" /\ OneEvent
  /\ update' = "updating"
  /\ try' = [try EXCEPT !["update"].at = "stage"]
  /\ UNCHANGED <<cliVars, threadVars, job, waits, svc>>

\* The release is staged and probed, then starts are held for the install.
Stage ==
  /\ try["update"].at = "stage"
  /\ \/ /\ cli.held = "free" /\ cli' = [cli EXCEPT !.held = "update"]
        /\ try' = [try EXCEPT !["update"].at = "install"]
     \/ /\ try' = [try EXCEPT !["update"].at = "failed"] /\ UNCHANGED cli
  /\ UNCHANGED <<tracked, counted, cut, installed, threadVars, job, update,
                 waits, svc, left>>

\* Mutant of Install: an install that fails does not release the starts.
InstallHolds ==
  /\ try["update"].at = "install"
  /\ \/ /\ installed' = installed + 1
        /\ cli' = [cli EXCEPT !.outdated = cli.client # 0, !.held = "free"]
        /\ try' = [try EXCEPT !["update"].at = "count"]
     \/ /\ try' = [try EXCEPT !["update"].at = "failed"]
        /\ UNCHANGED <<cli, installed>>
  /\ UNCHANGED <<tracked, counted, cut, threadVars, job, update, waits, svc, left>>

Install ==
  /\ try["update"].at = "install"
  /\ \/ /\ installed' = installed + 1
        /\ cli' = [cli EXCEPT !.outdated = cli.client # 0, !.held = "free"]
        /\ \E step \in {"count", "failed"} :
             try' = [try EXCEPT !["update"].at = step]
     \/ /\ cli' = [cli EXCEPT !.held = "free"]
        /\ try' = [try EXCEPT !["update"].at = "failed"]
        /\ UNCHANGED installed
  /\ UNCHANGED <<tracked, counted, cut, threadVars, job, update, waits, svc,
                 left>>

\* How a try ends: the waiting one goes on until it succeeds.
Done(r) == [NoTry EXCEPT !.at = "won"]
NotYet(r) == [NoTry EXCEPT !.at = IF r = "wait" THEN "tick" ELSE "lost"]
Ends(r, how) == try' = [try EXCEPT ![r] = how]
Freed == [cli EXCEPT !.held = "free"]

\* restartCLIWhenIdle tries on each change of a Thread and every minute.
Tick ==
  /\ try["wait"].at = "tick" /\ try' = [try EXCEPT !["wait"].at = "count"]
  /\ UNCHANGED <<cliVars, threadVars, job, update, waits, svc, left>>

\* cliBusyTasks.
Count(r) ==
  /\ try[r].at = "count"
  /\ IF \E t \in listed : conv[t] # 0 /\ (busy[t] \/ opening[t])
     THEN Ends(r, NotYet(r)) ELSE try' = [try EXCEPT ![r].at = "hold"]
  /\ UNCHANGED <<cliVars, threadVars, job, update, waits, svc, left>>

\* RestartCLI holds starts first, so that no later open gets the old CLI.
Hold(r) ==
  /\ try[r].at = "hold"
  /\ IF ~cli.outdated THEN Ends(r, Done(r)) /\ UNCHANGED cli
     ELSE IF cli.held # "free" THEN Ends(r, NotYet(r)) /\ UNCHANGED cli
     ELSE /\ cli' = [cli EXCEPT !.held = r]
          /\ try' = [try EXCEPT ![r].at = "quiesce"]
  /\ UNCHANGED <<tracked, counted, cut, installed, threadVars, job, update,
                 waits, svc, left>>

\* The open conversations; a Thread that opens holds the restart back.
Open == {t \in listed : conv[t] # 0 /\ ~opening[t]}
OpeningOnes == {t \in listed : opening[t]}

\* Mutant of QuiesceCLI: a Thread that opens is not counted.
QuiesceOpenOnly(r) ==
  /\ try[r].at = "quiesce"
  /\ try' = [try EXCEPT ![r].at = "suspend", ![r].todo = Open,
                        ![r].busy = FALSE]
  /\ UNCHANGED <<cliVars, threadVars, job, update, waits, svc, left>>

QuiesceCLI(r) ==
  /\ try[r].at = "quiesce"
  /\ try' = [try EXCEPT ![r].at = "suspend", ![r].todo = Open,
                        ![r].busy = OpeningOnes # {}]
  /\ UNCHANGED <<cliVars, threadVars, job, update, waits, svc, left>>

\* suspendForCLI takes s.op only if it is free, and closes an idle
\* conversation; the provider forgets it before s.op is released.
SuspendForCLI(r, t) ==
  /\ try[r].at = "suspend" /\ t \in try[r].todo /\ try[r].closing = None
  /\ LET closes == OpFree(t) /\ conv[t] # 0 /\ ~busy[t] /\ ~opening[t]
         refused == ~OpFree(t) \/ (conv[t] # 0 /\ (busy[t] \/ opening[t]))
     IN  /\ conv' = IF closes THEN Set(conv, t, 0) ELSE conv
         /\ try' = [try EXCEPT ![r].todo = @ \ {t},
                               ![r].closing = IF closes THEN t ELSE None,
                               ![r].busy = @ \/ refused]
  /\ UNCHANGED <<cliVars, listed, at, on, sends, opening, viewing, busy, stale,
                 exiting, job, update, waits, svc, left>>

CloseForCLI(r) ==
  /\ try[r].closing # None
  /\ tracked' = tracked \ {try[r].closing}
  /\ exiting' = Set(exiting, try[r].closing, FALSE)
  /\ try' = [try EXCEPT ![r].closing = None]
  /\ UNCHANGED <<cli, counted, cut, installed, listed, at, on, sends, opening,
                 viewing, conv, busy, stale, job, update, waits, svc, left>>

\* Mutant of Quiesced: a try that fails does not release the starts.
QuiescedHolds(r) ==
  /\ try[r].at = "suspend" /\ try[r].todo = {} /\ try[r].closing = None
  /\ IF try[r].busy THEN Ends(r, NotYet(r))
     ELSE try' = [try EXCEPT ![r].at = "stop"]
  /\ UNCHANGED <<cliVars, threadVars, job, update, waits, svc, left>>

Quiesced(r) ==
  /\ try[r].at = "suspend" /\ try[r].todo = {} /\ try[r].closing = None
  /\ IF try[r].busy THEN Ends(r, NotYet(r)) /\ cli' = Freed
     ELSE try' = [try EXCEPT ![r].at = "stop"] /\ UNCHANGED cli
  /\ UNCHANGED <<tracked, counted, cut, installed, threadVars, job, update,
                 waits, svc, left>>

\* stopOutdated: what runs on the CLI and its stop are one section of p.mu.
StopOutdated(r) ==
  /\ try[r].at = "stop"
  /\ IF ~cli.outdated THEN Ends(r, Done(r)) /\ cli' = Freed /\ UNCHANGED cut
     ELSE IF tracked \cup counted # {}
     THEN Ends(r, NotYet(r)) /\ cli' = Freed /\ UNCHANGED cut
     ELSE /\ cut' = cut \cup {cli.client} /\ cli' = Gone
          /\ try' = [try EXCEPT ![r].at = "release"]
  /\ UNCHANGED <<tracked, counted, installed, threadVars, job, update, waits,
                 svc, left>>

Released(r) ==
  /\ try[r].at = "release" /\ Ends(r, Done(r)) /\ cli' = Freed
  /\ UNCHANGED <<tracked, counted, cut, installed, threadVars, job, update,
                 waits, svc, left>>

\* The end of restartCLIWhenIdle.
Restarted ==
  /\ try["wait"].at = "won" /\ Ends("wait", NoTry) /\ waits' = FALSE
  /\ UNCHANGED <<cliVars, threadVars, job, update, svc, left>>

\* The end of runCLIUpdate; a restart that is pending is waited for, unless
\* a goroutine waits already.
Updated ==
  /\ try["update"].at \in {"won", "lost", "failed"}
  /\ update' = IF try["update"].at = "failed" THEN "failed" ELSE "updated"
  /\ LET wait == try["update"].at = "lost" /\ ~waits
     IN  /\ waits' = (waits \/ wait)
         /\ try' = [try EXCEPT !["update"] = NoTry,
                               !["wait"].at = IF wait THEN "tick" ELSE @]
  /\ UNCHANGED <<cliVars, threadVars, job, svc, left>>

\* A release installed with npm or the install script.
InstallOutside ==
  /\ OneEvent
  /\ installed' = installed + 1
  /\ UNCHANGED <<cli, tracked, counted, cut, threadVars, job, updateVars, svc>>

\* CLIOutdated compares the binary's file with the one read at the start; one that
\* could not be read then is left out.
CLIOutdated ==
  /\ update # "updating" /\ ~waits
  /\ cli.client # 0 /\ ~cli.outdated /\ cli.known # installed
  /\ cli' = [cli EXCEPT !.outdated = TRUE]
  /\ UNCHANGED <<tracked, counted, cut, installed, threadVars, job, updateVars,
                 svc, left>>

\* followCLI, every minute.
FollowCLI ==
  /\ update # "updating" /\ ~waits /\ cli.client # 0 /\ cli.outdated
  /\ waits' = TRUE /\ try' = [try EXCEPT !["wait"].at = "tick"]
  /\ UNCHANGED <<cliVars, threadVars, job, update, svc, left>>

-----------------------------------------------------------------------------
(* The restart of uam onto its installed binary.                           *)

\* The file holds a newer version, or one that cannot be read or is running.
FileChanges ==
  /\ OneEvent
  /\ svc' = [svc EXCEPT !.newer = ~@]
  /\ UNCHANGED <<cliVars, threadVars, job, updateVars>>

\* look: a binary that is not newer any more cancels a restart.
Seen == [svc EXCEPT !.seen = svc.newer,
                    !.wanted = @ /\ (svc.newer \/ ~svc.seen)]

Look ==
  /\ svc.newer # svc.seen /\ svc' = Seen
  /\ UNCHANGED <<cliVars, threadVars, job, updateVars, left>>

RequestRestart ==
  /\ Seen.seen /\ ~svc.restarting /\ ~svc.wanted
  /\ svc' = [Seen EXCEPT !.wanted = TRUE]
  /\ UNCHANGED <<cliVars, threadVars, job, updateVars, left>>

Quiet == /\ \A t \in listed : ~busy[t] /\ ~opening[t]
         /\ update # "updating"

\* tryRestart looks for busy Threads, then at the binary once more.
TryRestart ==
  /\ svc.wanted /\ svc.at = "idle" /\ Quiet
  /\ svc' = [svc EXCEPT !.at = "begin"]
  /\ UNCHANGED <<cliVars, threadVars, job, updateVars, left>>

Begin ==
  /\ svc.at = "begin"
  /\ LET begins == Seen.wanted /\ ~svc.restarting /\ Seen.seen
     IN  svc' = [Seen EXCEPT
                   !.at = "idle",
                   !.wanted = @ /\ svc.restarting,
                   !.restarting = @ \/ begins, !.asked = @ \/ begins]
  /\ UNCHANGED <<cliVars, threadVars, job, updateVars, left>>

\* shutdownIfIdle decides again under m.mu.  It ends the process, and what
\* goes on in it, and the installed binary starts in its place.
RestartService ==
  /\ svc.asked /\ Quiet
  /\ cli' = NoCLI /\ tracked' = {} /\ counted' = {} /\ cut' = {}
  /\ at' = AllOf("idle") /\ on' = AllOf(0) /\ conv' = AllOf(0)
  /\ sends' = AllOf(FALSE) /\ opening' = AllOf(FALSE)
  /\ viewing' = AllOf(FALSE) /\ busy' = AllOf(FALSE)
  /\ stale' = AllOf(FALSE) /\ exiting' = AllOf(FALSE)
  /\ job' = NoJobs /\ update' = "idle" /\ waits' = FALSE
  /\ try' = [r \in Tries |-> NoTry] /\ svc' = NoService
  /\ UNCHANGED <<installed, listed, left>>

\* Mutant of Postpone: the restart that cannot begin is forgotten.
PostponeForgets ==
  /\ svc.asked /\ ~Quiet
  /\ svc' = [svc EXCEPT !.asked = FALSE, !.restarting = FALSE]
  /\ UNCHANGED <<cliVars, threadVars, job, updateVars, left>>

Postpone ==
  /\ svc.asked /\ ~Quiet
  /\ svc' = [svc EXCEPT !.asked = FALSE, !.restarting = FALSE, !.wanted = TRUE]
  /\ UNCHANGED <<cliVars, threadVars, job, updateVars, left>>

-----------------------------------------------------------------------------

Handler(t) == \/ ViewRuns(t) \/ EnsureStarted(t) \/ Track(t) \/ Attach(t)
              \/ Send(t) \/ Exit(t)
JobStep(j) == EnsureJob(j) \/ CountJob(j) \/ EndJob(j)
Attempt(r) == \/ Count(r) \/ Hold(r) \/ QuiesceCLI(r)
              \/ \E t \in Tasks : SuspendForCLI(r, t)
              \/ CloseForCLI(r) \/ Quiesced(r) \/ StopOutdated(r) \/ Released(r)

Next ==
  \/ \E t \in Tasks : Prompt(t) \/ View(t) \/ Create(t) \/ Handler(t)
                      \/ TurnEnds(t)
  \/ \E j \in Jobs : StartJob(j) \/ JobStep(j)
  \/ CLIDies \/ RestartRuntime \/ RuntimeStopped
  \/ StartCLIUpdate \/ Stage \/ Install \/ Tick
  \/ \E r \in Tries : Attempt(r)
  \/ Restarted \/ Updated \/ InstallOutside \/ CLIOutdated \/ FollowCLI
  \/ FileChanges \/ Look \/ RequestRestart \/ TryRestart \/ Begin
  \/ RestartService \/ Postpone

Spec == Init /\ [][Next]_vars

\* Goroutines run, calls are bounded by timeouts and the loops tick.  A mutex
\* starves nobody, and whoever waits for starts is woken when they are free
\* and has until the next tick or change.  Neither the owner nor the provider
\* is fair: a turn may go on for ever.
Fairness ==
  /\ \A t \in Tasks : SF_vars(Handler(t))
  /\ \A j \in Jobs : SF_vars(JobStep(j))
  /\ \A r \in Tries : WF_vars(Attempt(r))
  /\ WF_vars(Stage \/ Install \/ Updated)
  /\ WF_vars(Tick \/ Restarted \/ CLIOutdated \/ FollowCLI)
  /\ WF_vars(RuntimeStopped)
  /\ WF_vars(Look \/ TryRestart \/ Begin \/ RestartService \/ Postpone)

FairSpec == Spec /\ Fairness

-----------------------------------------------------------------------------
(* Properties.                                                             *)

Uses(t, c) == \/ at[t] \in {"open", "attach"} /\ on[t] = c
              \/ conv[t] = c

\* A restart onto an update ends no conversation of a Thread, none that a
\* Thread opens, and no utility prompt (quiesceCLI, stopOutdated).
RestartSparesThreads ==
  /\ \A t \in listed, c \in cut : ~Uses(t, c)
  /\ \A j \in Jobs, c \in cut : ~(job[j].at = "run" /\ job[j].on = c)

\* New conversations keep using the running version (docs/web.md:294).
RestartSparesNew == \A t \in Tasks, c \in cut : ~Uses(t, c)

\* A CLI whose release was replaced is stopped once no turn goes on and no
\* utility prompt runs, whoever installed it and whatever failed before.
OldIsReplaced ==
  <>[](\A t \in Tasks : ~busy[t]) =>
    []<>(cli.client = 0 \/ cli.release = installed)

\* No open and no utility prompt waits for ever for an install or a stop.
StartsGoOn ==
  /\ \A t \in Tasks : []<>(at[t] # "ensure")
  /\ \A j \in Jobs : []<>(job[j].at # "ensure")

\* A requested restart of uam comes once no turn goes on, however often it
\* was postponed, unless the binary changes back.
WantedRestarts ==
  <>[](\A t \in Tasks : ~busy[t]) =>
    (svc.wanted ~> ~svc.newer)
=============================================================================

-------------------------- MODULE WorkplacesProofs --------------------------
(***************************************************************************)
(* No Thread is stored in a Project that is gone, a repeated request makes *)
(* one Thread and is answered, a write of git meets no turn at work where  *)
(* it writes, and a Thread that works or is made has its working folder,   *)
(* for any number of creates, requests and Threads.                        *)
(*                                                                         *)
(* The arguments: projectMu is held from a create's check of the Project   *)
(* to its listing, and through the whole removal of the Project; and a     *)
(* request is in Manager.creating exactly while a create of it runs, so    *)
(* that nobody runs it again before its Thread is listed.  For the folder, *)
(* whoever removes a worktree has locked the Threads that use it, or is    *)
(* the create that made it, and holds worktrees.ops from the look at who   *)
(* uses it to the removal, so that no create opens there in between.       *)
(***************************************************************************)
EXTENDS Workplaces, TLAPS

JobRecords == [pc : Pcs, kind : CreateKinds, req : Requests \cup {None},
               from : Old \cup {None}, end : Ends]
ThreadRecords == [rec : BOOLEAN, listed : BOOLEAN, stage : Stages,
                  conv : BOOLEAN, working : BOOLEAN,
                  op : {"none", "send", "opening", "delete", "remove",
                        "project"}]

\* What the arguments need of TypeOK.
JobsTyped == jobs \in [Creates -> JobRecords] /\ creating \subseteq Requests
ThreadsTyped == threads \in [Threads -> ThreadRecords]
ProjectTyped ==
  project \in [listed : BOOLEAN, stored : BOOLEAN,
               pc : {"idle", "lock", "store", "forget"}, tasks : SUBSET Threads]

\* projectMu, and when the Project's records may be gone.
ProjectIsHeld ==
  /\ \A c \in Creates : jobs[c].pc = "list" => projectMu = c
  /\ project.pc # "idle" => projectMu = Owner
  /\ ~project.stored => project.pc = "forget" \/ ~project.listed

Running(c) == jobs[c].pc \notin {"idle", "claim", "wait", "over"}

\* A request has one create that runs or one Thread.
Has(c) == Running(c) \/ threads[c].listed
OneHas ==
  \A c, d \in Creates : c # d /\ Has(c) /\ Has(d) =>
    jobs[c].req = None \/ jobs[c].req # jobs[d].req
CreatingRuns ==
  /\ \A c \in Creates : Running(c) /\ jobs[c].req # None => jobs[c].req \in creating
  /\ \A r \in creating : \E c \in Creates : Running(c) /\ jobs[c].req = r
ListedIsPast ==
  \A c \in Creates : threads[c].listed =>
    jobs[c].pc \in {"prompt", "sending", "return", "over"}

WaitersHaveRequests ==
  \A c \in Creates : jobs[c].pc \in {"claim", "wait"} => jobs[c].req # None

Inv == /\ JobsTyped /\ ThreadsTyped /\ ProjectTyped
       /\ ProjectIsHeld /\ NoOrphans
       /\ OneHas /\ CreatingRuns /\ ListedIsPast /\ WaitersAreWoken
       /\ WaitersHaveRequests

-----------------------------------------------------------------------------
(* Steps that neither begin nor end a create, and neither store nor list a *)
(* Thread.                                                                 *)

\* A create that runs goes on, within the steps that hold no projectMu.
GoesOn(c) ==
  /\ jobs'[c].req = jobs[c].req
  /\ \/ jobs'[c].pc = jobs[c].pc
     \/ /\ Running(c) /\ Running(c)'
        /\ jobs[c].pc # "list" /\ jobs'[c].pc # "list"
        /\ \/ ~threads[c].listed
           \/ jobs'[c].pc \in {"prompt", "sending", "return", "over"}
NoneIsStored ==
  \A t \in Threads : /\ threads'[t].rec => threads[t].rec
                     /\ threads'[t].listed => threads[t].listed

LEMMA GoingOnKeeps ==
  ASSUME Inv, JobsTyped', ThreadsTyped', NoneIsStored,
         UNCHANGED <<creating, project, projectMu>>,
         \A c \in Creates : GoesOn(c)
  PROVE  Inv'
<1>1. ProjectTyped' /\ ProjectIsHeld' /\ NoOrphans'
  BY DEF Inv, ProjectTyped, ProjectIsHeld, NoOrphans, NoneIsStored, GoesOn
<1>2. \A c \in Creates : /\ c \in Threads /\ jobs'[c].req = jobs[c].req
                         /\ (Running(c) <=> Running(c)') /\ (Has(c)' => Has(c))
  BY DEF GoesOn, Running, Has, NoneIsStored, Threads
<1>3. OneHas'
  BY <1>2 DEF Inv, OneHas
<1>4. CreatingRuns'
  BY <1>2 DEF Inv, CreatingRuns
<1>5. ListedIsPast' /\ WaitersHaveRequests'
  BY <1>2 DEF Inv, ListedIsPast, WaitersHaveRequests, GoesOn, NoneIsStored, Running
<1>6. WaitersAreWoken'
  <2> SUFFICES ASSUME NEW c \in Creates, jobs'[c].pc = "wait"
               PROVE  \E d \in Creates : jobs'[d].req = jobs'[c].req /\ Running(d)'
    BY DEF WaitersAreWoken, Running
  <2>1. jobs[c].pc = "wait"
    BY DEF GoesOn, Running
  <2>2. PICK d \in Creates : jobs[d].req = jobs[c].req /\ Running(d)
    BY <2>1 DEF Inv, WaitersAreWoken, Running
  <2> QED
    BY <1>2, <2>2
<1> QED
  BY <1>1, <1>3, <1>4, <1>5, <1>6 DEF Inv

\* A step of a create changes its pc, and how it ends.
LEMMA JobBecomes ==
  ASSUME Inv, NEW c \in Creates, NEW pc \in Pcs, NEW end \in Ends,
         \/ jobs' = [jobs EXCEPT ![c].pc = pc]
         \/ jobs' = [jobs EXCEPT ![c].pc = pc, ![c].end = end]
  PROVE  \E x \in JobRecords : /\ jobs' = [jobs EXCEPT ![c] = x]
                               /\ x.pc = pc /\ x.req = jobs[c].req
<1>1. jobs \in [Creates -> JobRecords]
  BY DEF Inv, JobsTyped
<1>2. jobs[c] \in JobRecords
  BY <1>1
<1> QED
  <2>1. CASE jobs' = [jobs EXCEPT ![c].pc = pc]
    <3>1. [jobs[c] EXCEPT !.pc = pc] \in JobRecords
      BY <1>2 DEF JobRecords
    <3> QED
      BY <1>1, <1>2, <2>1, <3>1 DEF JobRecords
  <2>2. CASE jobs' = [jobs EXCEPT ![c].pc = pc, ![c].end = end]
    <3>1. [jobs[c] EXCEPT !.pc = pc, !.end = end] \in JobRecords
      BY <1>2 DEF JobRecords
    <3> QED
      BY <1>1, <1>2, <2>2, <3>1 DEF JobRecords
  <2> QED
    BY <2>1, <2>2

LEMMA JobMoves ==
  ASSUME Inv, NEW c \in Creates, NEW pc \in Pcs, NEW end \in Ends,
         Running(c), jobs[c].pc # "list", pc \notin {"idle", "claim", "wait", "list", "over"},
         ~threads[c].listed \/ pc \in {"prompt", "sending", "return"},
         \/ jobs' = [jobs EXCEPT ![c].pc = pc]
         \/ jobs' = [jobs EXCEPT ![c].pc = pc, ![c].end = end],
         UNCHANGED creating
  PROVE  JobsTyped' /\ \A d \in Creates : GoesOn(d)
<1>1. jobs \in [Creates -> JobRecords] /\ creating \subseteq Requests
  BY DEF Inv, JobsTyped
<1>3. PICK x \in JobRecords : /\ jobs' = [jobs EXCEPT ![c] = x]
                             /\ x.pc = pc /\ x.req = jobs[c].req
  BY JobBecomes
<1>4. JobsTyped'
  BY <1>1, <1>3 DEF JobsTyped
<1>5. ASSUME NEW d \in Creates PROVE GoesOn(d)
  <2>1. CASE d = c
    BY <1>1, <1>3, <2>1 DEF GoesOn, Running
  <2>2. CASE d # c
    BY <1>1, <1>3, <2>2 DEF GoesOn
  <2> QED
    BY <2>1, <2>2
<1> QED
  BY <1>4, <1>5

LEMMA JobsStay ==
  ASSUME Inv, UNCHANGED <<jobs, creating>>
  PROVE  JobsTyped' /\ \A d \in Creates : GoesOn(d)
BY DEF Inv, JobsTyped, GoesOn

LEMMA ThreadsStay ==
  ASSUME Inv, UNCHANGED threads
  PROVE  ThreadsTyped' /\ NoneIsStored
BY DEF Inv, ThreadsTyped, NoneIsStored

\* A step that changes one Thread's record within its type.
LEMMA ThreadMoves ==
  ASSUME Inv, NEW t \in Threads, NEW x \in ThreadRecords,
         threads' = [threads EXCEPT ![t] = x],
         x.rec => threads[t].rec, x.listed => threads[t].listed
  PROVE  ThreadsTyped' /\ NoneIsStored
BY DEF Inv, ThreadsTyped, NoneIsStored

-----------------------------------------------------------------------------
(* One lemma for each kind of step.                                        *)

\* s.op, the conversation, the turn and the stage of one Thread.
LEMMA ThreadFields ==
  ASSUME Inv, NEW t \in Threads, NEW op \in {"none", "send", "opening", "delete"},
         NEW b \in BOOLEAN, NEW stage \in Stages,
         \/ threads' = [threads EXCEPT ![t].op = op]
         \/ threads' = [threads EXCEPT ![t].op = op, ![t].conv = b]
         \/ threads' = [threads EXCEPT ![t].op = op, ![t].working = b]
         \/ threads' = [threads EXCEPT ![t].working = b]
         \/ threads' = [threads EXCEPT ![t].stage = stage, ![t].conv = b]
         \/ threads' = [threads EXCEPT ![t].rec = FALSE, ![t].op = op]
         \/ threads' = [threads EXCEPT ![t].listed = FALSE, ![t].conv = FALSE,
                                       ![t].op = op]
  PROVE  ThreadsTyped' /\ NoneIsStored
<1>1. threads \in [Threads -> ThreadRecords] /\ threads[t] \in ThreadRecords
  BY DEF Inv, ThreadsTyped
<1>2. CASE threads' = [threads EXCEPT ![t].op = op]
  <2>1. [threads[t] EXCEPT !.op = op] \in ThreadRecords
    BY <1>1 DEF ThreadRecords
  <2> QED
    BY <1>1, <1>2, <2>1 DEF ThreadsTyped, NoneIsStored, ThreadRecords
<1>3. CASE threads' = [threads EXCEPT ![t].op = op, ![t].conv = b]
  <2>1. [threads[t] EXCEPT !.op = op, !.conv = b] \in ThreadRecords
    BY <1>1 DEF ThreadRecords
  <2> QED
    BY <1>1, <1>3, <2>1 DEF ThreadsTyped, NoneIsStored, ThreadRecords
<1>4. CASE threads' = [threads EXCEPT ![t].op = op, ![t].working = b]
  <2>1. [threads[t] EXCEPT !.op = op, !.working = b] \in ThreadRecords
    BY <1>1 DEF ThreadRecords
  <2> QED
    BY <1>1, <1>4, <2>1 DEF ThreadsTyped, NoneIsStored, ThreadRecords
<1>5. CASE threads' = [threads EXCEPT ![t].working = b]
  <2>1. [threads[t] EXCEPT !.working = b] \in ThreadRecords
    BY <1>1 DEF ThreadRecords
  <2> QED
    BY <1>1, <1>5, <2>1 DEF ThreadsTyped, NoneIsStored, ThreadRecords
<1>6. CASE threads' = [threads EXCEPT ![t].stage = stage, ![t].conv = b]
  <2>1. [threads[t] EXCEPT !.stage = stage, !.conv = b] \in ThreadRecords
    BY <1>1 DEF ThreadRecords
  <2> QED
    BY <1>1, <1>6, <2>1 DEF ThreadsTyped, NoneIsStored, ThreadRecords
<1>7. CASE threads' = [threads EXCEPT ![t].rec = FALSE, ![t].op = op]
  <2>1. [threads[t] EXCEPT !.rec = FALSE, !.op = op] \in ThreadRecords
    BY <1>1 DEF ThreadRecords
  <2> QED
    BY <1>1, <1>7, <2>1 DEF ThreadsTyped, NoneIsStored, ThreadRecords
<1>8. CASE threads' = [threads EXCEPT ![t].listed = FALSE, ![t].conv = FALSE,
                                      ![t].op = op]
  <2>1. [threads[t] EXCEPT !.listed = FALSE, !.conv = FALSE, !.op = op]
          \in ThreadRecords
    BY <1>1 DEF ThreadRecords
  <2> QED
    BY <1>1, <1>8, <2>1 DEF ThreadsTyped, NoneIsStored, ThreadRecords
<1> QED
  BY <1>2, <1>3, <1>4, <1>5, <1>6, <1>7, <1>8

\* send returns.
LEMMA SentMoves ==
  ASSUME Inv, NEW t \in Threads, Sent(t), UNCHANGED creating
  PROVE  JobsTyped' /\ \A d \in Creates : GoesOn(d)
<1>1. jobs \in [Creates -> JobRecords] /\ creating \subseteq Requests
  BY DEF Inv, JobsTyped
<1>2. ASSUME NEW d \in Creates
      PROVE  /\ jobs'[d] \in JobRecords /\ jobs'[d].req = jobs[d].req
             /\ \/ jobs'[d].pc = jobs[d].pc
                \/ jobs[d].pc = "sending" /\ jobs'[d].pc = "return"
  <2>1. jobs[d] \in JobRecords
    BY <1>1
  <2>2. [jobs[d] EXCEPT !.pc = "return"] \in JobRecords
    BY <2>1 DEF JobRecords, Pcs
  <2> QED
    BY <2>1, <2>2 DEF Sent, JobRecords
<1>3. jobs' = [d \in Creates |-> jobs'[d]]
  BY DEF Sent
<1>4. JobsTyped'
  BY <1>1, <1>2, <1>3 DEF JobsTyped
<1>5. \A d \in Creates : GoesOn(d)
  BY <1>2 DEF GoesOn, Running
<1> QED
  BY <1>4, <1>5

\* The steps of a create but those that store and list its Thread.
LEMMA CreateMoves ==
  ASSUME Inv, NEW c \in Creates,
         \/ PlaceOf(c) \/ Recreate(c) \/ Take(c) \/ Check(c) \/ Switch(c)
         \/ Open(c) \/ Undo(c),
         UNCHANGED <<creating, threads, project, projectMu>>
  PROVE  Inv'
<1>1. /\ jobs[c].pc \in {"place", "recreate", "take", "busy", "switch", "open",
                         "undo"}
      /\ \E pc \in {"recreate", "take", "open", "busy", "switch", "store",
                    "undo", "return"} :
           \/ jobs' = [jobs EXCEPT ![c].pc = pc]
           \/ \E end \in {"failed", "kept"} :
                jobs' = [jobs EXCEPT ![c].pc = pc, ![c].end = end]
  BY DEF PlaceOf, Recreate, Take, Check, Switch, Open, Undo, Goes, Fails, Undoes
<1>2. ~threads[c].listed /\ Running(c)
  BY <1>1 DEF Inv, ListedIsPast, Running
<1>3. JobsTyped' /\ \A d \in Creates : GoesOn(d)
  <2>1. PICK pc \in Pcs : /\ pc \notin {"idle", "claim", "wait", "list", "over"}
                          /\ \/ jobs' = [jobs EXCEPT ![c].pc = pc]
                             \/ \E end \in {"failed", "kept"} :
                                  jobs' = [jobs EXCEPT ![c].pc = pc,
                                                       ![c].end = end]
    BY <1>1 DEF Pcs
  <2>2. "failed" \in Ends /\ "kept" \in Ends
    BY DEF Ends
  <2>3. CASE jobs' = [jobs EXCEPT ![c].pc = pc]
    BY <1>1, <1>2, <2>1, <2>2, <2>3, JobMoves
  <2>4. CASE \E end \in {"failed", "kept"} :
               jobs' = [jobs EXCEPT ![c].pc = pc, ![c].end = end]
    <3>1. PICK end \in Ends : jobs' = [jobs EXCEPT ![c].pc = pc, ![c].end = end]
      BY <2>2, <2>4
    <3> QED
      BY <1>1, <1>2, <2>1, <3>1, JobMoves
  <2> QED
    BY <2>1, <2>3, <2>4
<1> QED
  BY <1>3, ThreadsStay, GoingOnKeeps

LEMMA PromptKeeps ==
  ASSUME Inv, NEW c \in Creates, Prompt(c),
         UNCHANGED <<creating, project, projectMu>>
  PROVE  Inv'
<1>1. Running(c) /\ jobs[c].pc = "prompt" /\ c \in Threads
  BY DEF Prompt, Running, Threads
<1>2. JobsTyped' /\ \A d \in Creates : GoesOn(d)
  <2>1. PICK pc \in {"sending", "return"} : jobs' = [jobs EXCEPT ![c].pc = pc]
    BY DEF Prompt, Goes
  <2> QED
    BY <1>1, <2>1, JobMoves DEF Pcs, Ends
<1>3. ThreadsTyped' /\ NoneIsStored
  BY <1>1, ThreadsStay, ThreadFields DEF Prompt, Stages
<1> QED
  BY <1>2, <1>3, GoingOnKeeps

LEMMA SendKeeps ==
  ASSUME Inv, NEW t \in Threads,
         SendStep(t) \/ (Sends(t) /\ UNCHANGED jobs)
                     \/ (TurnEnds(t) /\ UNCHANGED jobs),
         UNCHANGED <<creating, project, projectMu>>
  PROVE  Inv'
<1>1. ThreadsTyped' /\ NoneIsStored
  <2>1. \/ \E op \in {"none", "send", "opening"}, b \in BOOLEAN :
             \/ threads' = [threads EXCEPT ![t].op = op]
             \/ threads' = [threads EXCEPT ![t].op = op, ![t].conv = b]
             \/ threads' = [threads EXCEPT ![t].op = op, ![t].working = b]
        \/ threads' = [threads EXCEPT ![t].working = FALSE]
    BY DEF SendStep, Opens, Opened, Begins, Sends, TurnEnds
  <2>2. "active" \in Stages /\ FALSE \in BOOLEAN
    BY DEF Stages
  <2> QED
    BY <2>1, <2>2, ThreadFields
<1>2. JobsTyped' /\ \A d \in Creates : GoesOn(d)
  BY SentMoves, JobsStay DEF SendStep, Opens, Opened, Begins
<1> QED
  BY <1>1, <1>2, GoingOnKeeps

LEMMA StageKeeps ==
  ASSUME Inv, NEW t \in Threads,
         (\E to \in Stages : Restage(t, to)) \/ Delete(t) \/ Forget(t),
         UNCHANGED <<jobs, creating, project, projectMu>>
  PROVE  Inv'
<1>1. ThreadsTyped' /\ NoneIsStored
  <2>1. ASSUME NEW to \in Stages, Restage(t, to)
        PROVE  ThreadsTyped' /\ NoneIsStored
    <3>1. PICK b \in BOOLEAN : threads' = [threads EXCEPT ![t].stage = to,
                                                          ![t].conv = b]
      BY <2>1 DEF Restage
    <3> QED
      BY <3>1, ThreadFields
  <2>2. CASE Delete(t) \/ Forget(t)
    <3>1. "active" \in Stages
      BY DEF Stages
    <3> QED
      BY <2>2, <3>1, ThreadFields DEF Delete, Forget
  <2> QED
    BY <2>1, <2>2
<1> QED
  BY <1>1, JobsStay, GoingOnKeeps

LEMMA OthersKeep ==
  ASSUME Inv, UNCHANGED <<jobs, creating, threads, project, projectMu>>
  PROVE  Inv'
BY JobsStay, ThreadsStay, GoingOnKeeps

LEMMA RemovalKeeps ==
  ASSUME Inv, RemovalLocks \/ RemovalRemoves,
         UNCHANGED <<jobs, creating, project, projectMu>>
  PROVE  Inv'
<1>1. CASE UNCHANGED threads
  BY <1>1, OthersKeep
<1>2. CASE \/ threads' = [t \in Threads |-> IF t \in removal.users
                THEN [threads[t] EXCEPT !.op = "remove", !.conv = FALSE]
                ELSE threads[t]]
           \/ threads' = [t \in Threads |-> IF t \in removal.users
                THEN [threads[t] EXCEPT !.op = "none"] ELSE threads[t]]
  <2>1. ASSUME NEW t \in Threads
        PROVE  /\ threads'[t] \in ThreadRecords
               /\ threads'[t].rec = threads[t].rec
               /\ threads'[t].listed = threads[t].listed
    <3>1. threads[t] \in ThreadRecords
      BY DEF Inv, ThreadsTyped
    <3>2. /\ [threads[t] EXCEPT !.op = "none"] \in ThreadRecords
          /\ [threads[t] EXCEPT !.op = "remove", !.conv = FALSE] \in ThreadRecords
      BY <3>1 DEF ThreadRecords
    <3> QED
      BY <1>2, <3>1, <3>2 DEF ThreadRecords
  <2>2. threads' = [t \in Threads |-> threads'[t]]
    BY <1>2
  <2>3. ThreadsTyped' /\ NoneIsStored
    BY <2>1, <2>2 DEF ThreadsTyped, NoneIsStored
  <2> QED
    BY <2>3, JobsStay, GoingOnKeeps
<1> QED
  BY <1>1, <1>2 DEF RemovalLocks, RemovalRemoves

\* register: the create stores its record under projectMu.
LEMMA StoreKeeps ==
  ASSUME WorkplacesConstants, Inv, NEW c \in Creates, Store(c),
         UNCHANGED <<creating, project>>
  PROVE  Inv'
<1>1. /\ jobs[c].pc = "store" /\ projectMu = None /\ c \in Threads
      /\ jobs \in [Creates -> JobRecords] /\ threads \in [Threads -> ThreadRecords]
      /\ c # None /\ c # Owner /\ None # Owner
  BY DEF Store, Threads, Inv, JobsTyped, ThreadsTyped, WorkplacesConstants
<1>2. ~threads[c].listed /\ Running(c)
  BY <1>1 DEF Inv, ListedIsPast, Running
<1>3. CASE /\ \E end \in {"failed", "noroom"} : Undoes(c, end)
           /\ UNCHANGED <<threads, projectMu>>
  <2>1. PICK end \in Ends : jobs' = [jobs EXCEPT ![c].pc = "undo", ![c].end = end]
    BY <1>3 DEF Undoes, Ends
  <2>3. JobsTyped' /\ \A d \in Creates : GoesOn(d)
    BY <1>1, <1>2, <2>1, JobMoves DEF Pcs
  <2> QED
    BY <1>3, <2>3, ThreadsStay, GoingOnKeeps
<1>4. CASE /\ Goes(c, "list") /\ projectMu' = c /\ project.listed
           /\ threads' = [threads EXCEPT ![c].rec = TRUE]
  <2>1. PICK x \in JobRecords : /\ x.pc = "list" /\ x.req = jobs[c].req
                               /\ jobs' = [jobs EXCEPT ![c] = x]
    <3>1. jobs' = [jobs EXCEPT ![c].pc = "list"] /\ "list" \in Pcs /\ "none" \in Ends
      BY <1>4 DEF Goes, Pcs, Ends
    <3> QED
      BY <3>1, JobBecomes
  <2>2. PICK y \in ThreadRecords : /\ y.listed = threads[c].listed
                                  /\ threads' = [threads EXCEPT ![c] = y]
    <3>1. threads[c] \in ThreadRecords
      BY <1>1
    <3>2. /\ [threads[c] EXCEPT !.rec = TRUE] \in ThreadRecords
          /\ [threads[c] EXCEPT !.rec = TRUE].listed = threads[c].listed
      BY <3>1 DEF ThreadRecords
    <3> QED
      BY <1>1, <1>4, <3>2
  <2>3. /\ JobsTyped' /\ ThreadsTyped' /\ ProjectTyped'
    BY <1>1, <2>1, <2>2 DEF Inv, JobsTyped, ThreadsTyped, ProjectTyped
  <2>4. \A d \in Creates : /\ jobs'[d].req = jobs[d].req /\ d \in Threads
                           /\ d # c => jobs'[d].pc = jobs[d].pc
                           /\ threads'[d].listed = threads[d].listed
                           /\ (Running(d) <=> Running(d)') /\ (Has(d)' <=> Has(d))
    BY <1>1, <1>2, <2>1, <2>2 DEF Running, Has, Threads
  <2>5. project.pc = "idle" /\ project.stored
    BY <1>1, <1>4 DEF Inv, ProjectIsHeld
  <2>6. ProjectIsHeld' /\ NoOrphans'
    BY <1>1, <1>4, <2>4, <2>5 DEF Inv, ProjectIsHeld, NoOrphans
  <2>7. OneHas' /\ CreatingRuns'
    BY <2>4 DEF Inv, OneHas, CreatingRuns
  <2>8. ListedIsPast' /\ WaitersHaveRequests'
    BY <1>2, <2>1, <2>4 DEF Inv, ListedIsPast, WaitersHaveRequests
  <2>9. WaitersAreWoken'
    BY <1>1, <2>1, <2>4 DEF Inv, WaitersAreWoken, Running
  <2> QED
    BY <2>3, <2>6, <2>7, <2>8, <2>9 DEF Inv
<1> QED
  BY <1>3, <1>4 DEF Store

\* register: the Thread is listed, and projectMu is free.
LEMMA ListKeeps ==
  ASSUME WorkplacesConstants, Inv, NEW c \in Creates, List(c),
         UNCHANGED <<creating, project>>
  PROVE  Inv'
<1>1. /\ jobs[c].pc = "list" /\ projectMu = c /\ projectMu' = None /\ c \in Threads
      /\ jobs \in [Creates -> JobRecords] /\ threads \in [Threads -> ThreadRecords]
      /\ c # Owner /\ project.pc = "idle"
  BY DEF List, Threads, Inv, JobsTyped, ThreadsTyped, WorkplacesConstants,
         ProjectIsHeld
<1>2. Running(c)
  BY <1>1 DEF Running
<1>3. PICK x \in JobRecords :
        /\ jobs' = [jobs EXCEPT ![c] = x] /\ x.req = jobs[c].req
        /\ \/ x.pc = "undo" /\ UNCHANGED threads
           \/ /\ x.pc = "prompt"
              /\ threads' = [threads EXCEPT ![c].listed = TRUE, ![c].conv = TRUE]
  <2>1. CASE Undoes(c, "failed") /\ UNCHANGED threads
    <3> DEFINE x == [jobs[c] EXCEPT !.pc = "undo", !.end = "failed"]
    <3>1. jobs[c] \in JobRecords
      BY <1>1
    <3>2. x \in JobRecords
      BY <3>1 DEF JobRecords, Pcs, Ends
    <3>3. x.pc = "undo" /\ x.req = jobs[c].req
      BY <3>1 DEF JobRecords
    <3>4. jobs' = [jobs EXCEPT ![c].pc = "undo", ![c].end = "failed"]
      BY <2>1 DEF Undoes
    <3>5. jobs' = [jobs EXCEPT ![c] = x]
      BY <3>4
    <3> HIDE DEF x
    <3> QED
      BY <2>1, <3>2, <3>3, <3>5
  <2>2. CASE /\ jobs' = [jobs EXCEPT ![c].pc = "prompt", ![c].end = "made"]
             /\ threads' = [threads EXCEPT ![c].listed = TRUE, ![c].conv = TRUE]
    <3> DEFINE x == [jobs[c] EXCEPT !.pc = "prompt", !.end = "made"]
    <3>1. jobs[c] \in JobRecords
      BY <1>1
    <3>2. x \in JobRecords
      BY <3>1 DEF JobRecords, Pcs, Ends
    <3>3. x.pc = "prompt" /\ x.req = jobs[c].req
      BY <3>1 DEF JobRecords
    <3>5. jobs' = [jobs EXCEPT ![c] = x]
      BY <2>2
    <3> HIDE DEF x
    <3> QED
      BY <2>2, <3>2, <3>3, <3>5
  <2> QED
    BY <2>1, <2>2 DEF List
<1>4. PICK y \in ThreadRecords : /\ y.rec = threads[c].rec
                                /\ threads' = [threads EXCEPT ![c] = y]
                                /\ (x.pc = "undo" => y.listed = threads[c].listed)
  <2>1. threads[c] \in ThreadRecords
    BY <1>1
  <2>2. CASE x.pc = "undo" /\ UNCHANGED threads
    BY <1>1, <2>1, <2>2
  <2>3. CASE /\ threads' = [threads EXCEPT ![c].listed = TRUE, ![c].conv = TRUE]
             /\ x.pc = "prompt"
    <3>1. /\ [threads[c] EXCEPT !.listed = TRUE, !.conv = TRUE] \in ThreadRecords
          /\ [threads[c] EXCEPT !.listed = TRUE, !.conv = TRUE].rec = threads[c].rec
      BY <2>1 DEF ThreadRecords
    <3> QED
      BY <1>1, <2>3, <3>1
  <2> QED
    BY <1>3, <2>2, <2>3
<1>5. JobsTyped' /\ ThreadsTyped' /\ ProjectTyped'
  BY <1>1, <1>3, <1>4 DEF Inv, JobsTyped, ThreadsTyped, ProjectTyped
<1>6. \A d \in Creates :
        /\ jobs'[d].req = jobs[d].req /\ d \in Threads
        /\ d # c => jobs'[d].pc = jobs[d].pc /\ threads'[d] = threads[d]
        /\ (Running(d) <=> Running(d)') /\ (Has(d)' <=> Has(d))
  BY <1>1, <1>2, <1>3, <1>4 DEF Running, Has, Threads
<1>7. ProjectIsHeld'
  BY <1>1, <1>3, <1>6 DEF Inv, ProjectIsHeld
<1>8. NoOrphans'
  BY <1>1, <1>4 DEF Inv, NoOrphans
<1>9. OneHas' /\ CreatingRuns'
  BY <1>6 DEF Inv, OneHas, CreatingRuns
<1>10. ListedIsPast' /\ WaitersHaveRequests'
  BY <1>1, <1>3, <1>4, <1>6 DEF Inv, ListedIsPast, WaitersHaveRequests
<1>11. WaitersAreWoken'
  BY <1>1, <1>3, <1>6 DEF Inv, WaitersAreWoken, Running
<1> QED
  BY <1>5, <1>7, <1>8, <1>9, <1>10, <1>11 DEF Inv

\* claimCreate: a call that runs no create yet is answered, waits, or runs.
LEMMA ClaimsKeep ==
  ASSUME WorkplacesConstants, Inv, NEW c \in Creates, NEW job \in JobRecords,
         jobs[c].pc \in {"idle", "claim"}, job.req \in Requests,
         Claims(c, job), UNCHANGED <<threads, project, projectMu>>
  PROVE  Inv'
<1>1. /\ jobs \in [Creates -> JobRecords] /\ creating \subseteq Requests
      /\ ~Running(c) /\ ~threads[c].listed /\ c \in Threads /\ None \notin Requests
  BY DEF Inv, JobsTyped, Running, ListedIsPast, Threads, WorkplacesConstants
<1>2. PICK x \in JobRecords :
        /\ jobs' = [jobs EXCEPT ![c] = x] /\ x.req = job.req
        /\ \/ x.pc = "over" /\ UNCHANGED creating
           \/ x.pc = "wait" /\ job.req \in creating /\ UNCHANGED creating
           \/ /\ x.pc = "place" /\ creating' = creating \cup {job.req}
              /\ job.req \notin creating
              /\ ~\E t \in Listed \cap Creates : jobs[t].req = job.req
  <2>1. /\ [job EXCEPT !.pc = "over", !.end = "found"] \in JobRecords
        /\ [job EXCEPT !.pc = "over", !.end = "found"].pc = "over"
        /\ [job EXCEPT !.pc = "over", !.end = "found"].req = job.req
    BY DEF JobRecords, Pcs, Ends
  <2>2. /\ [job EXCEPT !.pc = "wait"] \in JobRecords
        /\ [job EXCEPT !.pc = "wait"].pc = "wait"
        /\ [job EXCEPT !.pc = "wait"].req = job.req
    BY DEF JobRecords, Pcs
  <2>3. /\ [job EXCEPT !.pc = "place"] \in JobRecords
        /\ [job EXCEPT !.pc = "place"].pc = "place"
        /\ [job EXCEPT !.pc = "place"].req = job.req
    BY DEF JobRecords, Pcs
  <2> QED
    BY <2>1, <2>2, <2>3 DEF Claims
<1>3. \A d \in Creates \ {c} : /\ jobs'[d] = jobs[d] /\ d \in Threads
                               /\ (Running(d)' <=> Running(d))
                               /\ (Has(d)' <=> Has(d))
  BY <1>1, <1>2 DEF Running, Has, Threads
<1>4. /\ jobs'[c] = x /\ (Running(c)' <=> x.pc = "place")
      /\ (Has(c)' <=> x.pc = "place")
  BY <1>1, <1>2 DEF Running, Has
<1>5. JobsTyped' /\ ThreadsTyped' /\ ProjectTyped'
  BY <1>1, <1>2 DEF Inv, JobsTyped, ThreadsTyped, ProjectTyped
<1>6. ProjectIsHeld' /\ NoOrphans'
  BY <1>2, <1>3, <1>4 DEF Inv, ProjectIsHeld, NoOrphans
<1>7. \A d \in Creates \ {c} : x.pc = "place" /\ Has(d) => jobs[d].req # job.req
  BY <1>1, <1>2, <1>3 DEF Has, Inv, CreatingRuns, Listed
<1>8. OneHas'
  BY <1>2, <1>3, <1>4, <1>7 DEF Inv, OneHas
<1>9. CreatingRuns'
  BY <1>1, <1>2, <1>3, <1>4 DEF Inv, CreatingRuns
<1>10. ListedIsPast' /\ WaitersHaveRequests'
  BY <1>1, <1>2, <1>3, <1>4 DEF Inv, ListedIsPast, WaitersHaveRequests
<1>11. WaitersAreWoken'
  <2>1. ASSUME NEW w \in Creates \ {c}, jobs'[w].pc = "wait"
        PROVE  \E d \in Creates : jobs'[d].req = jobs'[w].req /\ Running(d)'
    <3>1. PICK d \in Creates : jobs[d].req = jobs[w].req /\ Running(d)
      BY <1>3, <2>1 DEF Inv, WaitersAreWoken, Running
    <3> QED
      BY <1>1, <1>3, <3>1
  <2>2. ASSUME jobs'[c].pc = "wait"
        PROVE  \E d \in Creates : jobs'[d].req = jobs'[c].req /\ Running(d)'
    <3>1. PICK d \in Creates : jobs[d].req = job.req /\ Running(d)
      BY <1>2, <1>4, <2>2 DEF Inv, CreatingRuns
    <3> QED
      BY <1>1, <1>2, <1>3, <1>4, <3>1
  <2> QED
    BY <2>1, <2>2 DEF WaitersAreWoken, Running
<1> QED
  BY <1>5, <1>6, <1>8, <1>9, <1>10, <1>11 DEF Inv

\* An agent's create has no request.
LEMMA SpawnKeeps ==
  ASSUME WorkplacesConstants, Inv, NEW c \in Creates, NEW o \in Old,
         NEW k \in SpawnKinds, Spawn(c, o, k),
         UNCHANGED <<threads, project, projectMu>>
  PROVE  Inv'
<1>1. /\ jobs \in [Creates -> JobRecords] /\ creating \subseteq Requests
      /\ ~Running(c) /\ ~threads[c].listed /\ c \in Threads
  BY DEF Inv, JobsTyped, Running, ListedIsPast, Threads, Spawn, Asks
<1>2. PICK x \in JobRecords : /\ jobs' = [jobs EXCEPT ![c] = x]
                             /\ x.pc = "place" /\ x.req = None
  <2>1. NoJob \in [pc : Pcs, kind : CreateKinds, req : Requests \cup {None},
                   from : {None}, end : Ends] /\ NoJob.req = None
    BY DEF NoJob, Pcs, CreateKinds, Ends
  <2>2. /\ [NoJob EXCEPT !.pc = "place", !.kind = k, !.from = o] \in JobRecords
        /\ [NoJob EXCEPT !.pc = "place", !.kind = k, !.from = o].pc = "place"
        /\ [NoJob EXCEPT !.pc = "place", !.kind = k, !.from = o].req = None
    BY <2>1 DEF JobRecords, Pcs, CreateKinds, SpawnKinds, NoJob, Ends
  <2> QED
    BY <2>2 DEF Spawn
<1>3. \A d \in Creates \ {c} : /\ jobs'[d] = jobs[d] /\ d \in Threads
                               /\ (Running(d)' <=> Running(d))
                               /\ (Has(d)' <=> Has(d))
  BY <1>1, <1>2 DEF Running, Has, Threads
<1>4. jobs'[c] = x /\ Running(c)' /\ creating' = creating
  BY <1>1, <1>2 DEF Running, Spawn
<1>5. JobsTyped' /\ ThreadsTyped' /\ ProjectTyped'
  BY <1>1, <1>2, <1>4 DEF Inv, JobsTyped, ThreadsTyped, ProjectTyped
<1>6. ProjectIsHeld' /\ NoOrphans'
  BY <1>2, <1>3, <1>4 DEF Inv, ProjectIsHeld, NoOrphans
<1>7. OneHas'
  BY <1>2, <1>3, <1>4 DEF Inv, OneHas
<1>8. CreatingRuns'
  BY <1>1, <1>2, <1>3, <1>4 DEF Inv, CreatingRuns
<1>9. ListedIsPast' /\ WaitersHaveRequests'
  BY <1>1, <1>2, <1>3, <1>4 DEF Inv, ListedIsPast, WaitersHaveRequests
<1>10. WaitersAreWoken'
  <2>1. ASSUME NEW w \in Creates, jobs'[w].pc = "wait"
        PROVE  \E d \in Creates : jobs'[d].req = jobs'[w].req /\ Running(d)'
    <3>1. w # c
      BY <1>2, <1>4, <2>1
    <3>2. PICK d \in Creates : jobs[d].req = jobs[w].req /\ Running(d)
      BY <1>3, <2>1, <3>1 DEF Inv, WaitersAreWoken, Running
    <3> QED
      BY <1>1, <1>3, <3>1, <3>2
  <2> QED
    BY <2>1 DEF WaitersAreWoken, Running
<1> QED
  BY <1>5, <1>6, <1>7, <1>8, <1>9, <1>10 DEF Inv

\* createChecked returns.
LEMMA ReturnKeeps ==
  ASSUME WorkplacesConstants, Inv, NEW c \in Creates, Return(c),
         UNCHANGED <<threads, project, projectMu>>
  PROVE  Inv'
<1> DEFINE r == jobs[c].req
<1>1. /\ jobs \in [Creates -> JobRecords] /\ creating \subseteq Requests
      /\ jobs[c].pc = "return" /\ Running(c) /\ creating' = creating \ {r}
      /\ None \notin Requests
  BY DEF Inv, JobsTyped, Return, Running, WorkplacesConstants
<1>2. \A d \in Creates :
        /\ jobs'[d] \in JobRecords /\ jobs'[d].req = jobs[d].req /\ d \in Threads
        /\ \/ jobs'[d].pc = jobs[d].pc /\ d # c
              /\ (jobs[d].pc = "wait" => r = None \/ jobs[d].req # r)
           \/ jobs'[d].pc = "over" /\ d = c
           \/ jobs[d].pc = "wait" /\ jobs'[d].pc = "claim" /\ d # c
  <2> SUFFICES ASSUME NEW d \in Creates
      PROVE  /\ jobs'[d] \in JobRecords /\ jobs'[d].req = jobs[d].req /\ d \in Threads
             /\ \/ jobs'[d].pc = jobs[d].pc /\ d # c
                   /\ (jobs[d].pc = "wait" => r = None \/ jobs[d].req # r)
                \/ jobs'[d].pc = "over" /\ d = c
                \/ jobs[d].pc = "wait" /\ jobs'[d].pc = "claim" /\ d # c
    OBVIOUS
  <2>1. jobs[d] \in JobRecords /\ d \in Threads
    BY <1>1 DEF Threads
  <2>2. /\ [jobs[d] EXCEPT !.pc = "over"] \in JobRecords
        /\ [jobs[d] EXCEPT !.pc = "over"].pc = "over"
        /\ [jobs[d] EXCEPT !.pc = "over"].req = jobs[d].req
        /\ [jobs[d] EXCEPT !.pc = "claim"] \in JobRecords
        /\ [jobs[d] EXCEPT !.pc = "claim"].pc = "claim"
        /\ [jobs[d] EXCEPT !.pc = "claim"].req = jobs[d].req
    BY <2>1 DEF JobRecords, Pcs
  <2> QED
    BY <2>1, <2>2 DEF Return
<1>3. jobs' = [d \in Creates |-> jobs'[d]]
  BY DEF Return
<1>4. JobsTyped' /\ ThreadsTyped' /\ ProjectTyped'
  BY <1>1, <1>2, <1>3 DEF Inv, JobsTyped, ThreadsTyped, ProjectTyped
<1>5. ProjectIsHeld' /\ NoOrphans'
  BY <1>2 DEF Inv, ProjectIsHeld, NoOrphans
<1>6. \A d \in Creates : /\ (d # c => (Running(d)' <=> Running(d)))
                         /\ ~Running(c)' /\ (Has(d)' => Has(d))
  BY <1>1, <1>2 DEF Running, Has
<1>7. OneHas'
  BY <1>2, <1>6 DEF Inv, OneHas
<1>8. \A d \in Creates : d # c /\ Running(d) => r = None \/ jobs[d].req # r
  BY <1>1 DEF Inv, OneHas, Has
<1>9. CreatingRuns'
  BY <1>1, <1>2, <1>6, <1>8 DEF Inv, CreatingRuns
<1>10. ListedIsPast' /\ WaitersHaveRequests'
  BY <1>2 DEF Inv, ListedIsPast, WaitersHaveRequests
<1>11. WaitersAreWoken'
  <2>1. ASSUME NEW w \in Creates, jobs'[w].pc = "wait"
        PROVE  \E d \in Creates : jobs'[d].req = jobs'[w].req /\ Running(d)'
    <3>1. jobs[w].pc = "wait" /\ (r = None \/ jobs[w].req # r)
      BY <1>2, <2>1
    <3>2. jobs[w].req # None
      BY <3>1 DEF Inv, WaitersHaveRequests
    <3>3. PICK d \in Creates : jobs[d].req = jobs[w].req /\ Running(d)
      BY <3>1 DEF Inv, WaitersAreWoken, Running
    <3> QED
      BY <1>2, <1>6, <3>1, <3>2, <3>3
  <2> QED
    BY <2>1 DEF WaitersAreWoken, Running
<1> QED
  BY <1>4, <1>5, <1>7, <1>9, <1>10, <1>11 DEF Inv

-----------------------------------------------------------------------------
(* The removal of the Project.                                             *)

LEMMA ProjectKeeps ==
  ASSUME WorkplacesConstants, Inv, ProjectLists \/ ProjectStep,
         UNCHANGED <<jobs, creating>>
  PROVE  Inv'
<1>1. /\ threads \in [Threads -> ThreadRecords] /\ ProjectTyped
      /\ None # Owner /\ Owner \notin Creates
  BY DEF Inv, ThreadsTyped, WorkplacesConstants
<1>2. /\ JobsTyped' /\ ProjectTyped'
  <2>1. Listed \subseteq Threads
    BY DEF Listed
  <2> QED
    BY <1>1, <2>1 DEF Inv, JobsTyped, ProjectTyped, ProjectLists, ProjectStep,
                      ProjectLocks, ProjectStored, ProjectForgets
<1>3. /\ ThreadsTyped' /\ NoneIsStored
      /\ \/ project'.stored = project.stored
         \/ \A t \in Threads : ~threads'[t].rec
  <2> DEFINE Still == project'.stored = project.stored
  <2>1. CASE UNCHANGED threads /\ Still
    BY <1>1, <2>1 DEF ThreadsTyped, NoneIsStored
  <2>2. CASE \/ threads' = [t \in Threads |-> IF t \in project.tasks
                THEN [threads[t] EXCEPT !.op = "project"] ELSE threads[t]]
                /\ Still
             \/ threads' = [t \in Threads |-> IF t \in project.tasks
                THEN [threads[t] EXCEPT !.op = "none"] ELSE threads[t]]
                /\ Still
             \/ threads' = [t \in Threads |-> [threads[t] EXCEPT !.rec = FALSE]]
             \/ threads' = [t \in Threads |-> IF t \in project.tasks
                THEN [threads[t] EXCEPT !.listed = FALSE, !.conv = FALSE,
                                        !.op = "none"] ELSE threads[t]]
                /\ Still
    <3>1. ASSUME NEW t \in Threads
          PROVE  /\ threads'[t] \in ThreadRecords
                 /\ threads'[t].rec => threads[t].rec
                 /\ threads'[t].listed => threads[t].listed
                 /\ Still \/ ~threads'[t].rec
      <4>1. threads[t] \in ThreadRecords
        BY <1>1
      <4>2. /\ [threads[t] EXCEPT !.op = "project"] \in ThreadRecords
            /\ [threads[t] EXCEPT !.op = "none"] \in ThreadRecords
            /\ [threads[t] EXCEPT !.rec = FALSE] \in ThreadRecords
            /\ [threads[t] EXCEPT !.listed = FALSE, !.conv = FALSE, !.op = "none"]
                 \in ThreadRecords
        BY <4>1 DEF ThreadRecords
      <4>3. CASE threads' = [u \in Threads |-> [threads[u] EXCEPT !.rec = FALSE]]
        BY <4>1, <4>2, <4>3 DEF ThreadRecords
      <4>4. CASE Still
        BY <2>2, <4>1, <4>2, <4>4 DEF ThreadRecords
      <4> QED
        BY <2>2, <4>3, <4>4
    <3>2. threads' = [t \in Threads |-> threads'[t]]
      BY <2>2
    <3> QED
      BY <3>1, <3>2 DEF ThreadsTyped, NoneIsStored
  <2> QED
    BY <1>1, <2>1, <2>2 DEF ProjectLists, ProjectStep, ProjectLocks,
                            ProjectStored, ProjectForgets, ProjectTyped
<1>4. ProjectIsHeld'
  <2>1. \A c \in Creates : jobs[c].pc # "list"
    BY <1>1 DEF Inv, ProjectIsHeld, ProjectLists, ProjectStep, ProjectLocks,
                ProjectStored, ProjectForgets
  <2> QED
    BY <1>1, <2>1 DEF Inv, ProjectTyped, ProjectIsHeld, ProjectLists, ProjectStep,
                      ProjectLocks, ProjectStored, ProjectForgets
<1>5. NoOrphans'
  BY <1>3 DEF Inv, NoOrphans, NoneIsStored
<1>6. \A c \in Creates : Has(c)' => Has(c)
  BY <1>3 DEF Has, Running, NoneIsStored, Threads
<1>7. OneHas' /\ CreatingRuns' /\ WaitersAreWoken' /\ WaitersHaveRequests'
  BY <1>6 DEF Inv, OneHas, CreatingRuns, Running, WaitersAreWoken,
              WaitersHaveRequests
<1>8. ListedIsPast'
  BY <1>3 DEF Inv, ListedIsPast, NoneIsStored, Threads
<1> QED
  BY <1>2, <1>3, <1>4, <1>5, <1>7, <1>8 DEF Inv

LEMMA CreateKeeps ==
  ASSUME WorkplacesConstants, Inv, NEW c \in Creates, CreateBegins(c) \/ CreateGoes(c)
  PROVE  Inv'
<1>1. jobs[c] \in JobRecords
  BY DEF Inv, JobsTyped
<1>2. ASSUME NEW r \in Requests, NEW k \in {"folder", "branch", "worktree"},
             Create(c, r, k), UNCHANGED <<threads, project, projectMu>>
      PROVE  Inv'
  <2>1. /\ [NoJob EXCEPT !.kind = k, !.req = r] \in JobRecords
        /\ [NoJob EXCEPT !.kind = k, !.req = r].req = r
    BY DEF NoJob, JobRecords, Pcs, CreateKinds, Ends
  <2> QED
    BY <1>2, <2>1, ClaimsKeep DEF Create, Asks
<1>3. ASSUME NEW r \in Requests, NEW o \in Old, Rerun(c, r, o),
             UNCHANGED <<threads, project, projectMu>>
      PROVE  Inv'
  <2>1. /\ [NoJob EXCEPT !.kind = "again", !.req = r, !.from = o] \in JobRecords
        /\ [NoJob EXCEPT !.kind = "again", !.req = r, !.from = o].req = r
    BY DEF NoJob, JobRecords, Pcs, CreateKinds, Ends
  <2> QED
    BY <1>3, <2>1, ClaimsKeep DEF Rerun, Asks
<1>4. ASSUME Claim(c), UNCHANGED <<threads, project, projectMu>>
      PROVE  Inv'
  <2>1. jobs[c].req \in Requests /\ jobs[c].pc = "claim"
    BY <1>1, <1>4 DEF JobRecords, Inv, WaitersHaveRequests, Claim
  <2> QED
    BY <1>1, <1>4, <2>1, ClaimsKeep DEF Claim
<1>5. CASE CreateBegins(c)
  BY <1>2, <1>3, <1>5, SpawnKeeps DEF CreateBegins
<1>6. CASE CreateGoes(c)
  BY <1>4, <1>6, CreateMoves, StoreKeeps, ListKeeps, PromptKeeps, ReturnKeeps
     DEF CreateGoes, CreateStep
<1> QED
  BY <1>5, <1>6

LEMMA NextKeeps ==
  ASSUME WorkplacesConstants, Inv, [Next]_vars
  PROVE  Inv'
<1> USE DEF Rest, work
<1>1. ASSUME NEW t \in Threads,
             \/ OwnerSends(t) \/ SendGoes(t) \/ TurnGoes(t) \/ Stage(t)
             \/ DeleteGoes(t) \/ KickGoes(t)
      PROVE  Inv'
  <2>1. CASE OwnerSends(t) \/ SendGoes(t) \/ TurnGoes(t)
    BY <2>1, SendKeeps DEF OwnerSends, SendGoes, TurnGoes, TurnEnds
  <2>2. CASE Stage(t) \/ DeleteGoes(t)
    BY <2>2, StageKeeps DEF Stage, DeleteGoes
  <2>3. CASE KickGoes(t)
    BY <2>3, OthersKeep DEF KickGoes
  <2> QED
    BY <1>1, <2>1, <2>2, <2>3
<1>2. CASE RemovalBegins \/ GitBegins \/ GitGoes \/ ShutsDown \/ UNCHANGED vars
  BY <1>2, OthersKeep DEF RemovalBegins, RemovalLists, GitBegins, GitGoes,
     ShutsDown, vars
<1>3. CASE RemovalGoes
  BY <1>3, RemovalKeeps DEF RemovalGoes
<1>4. CASE OwnerRemovesProject \/ ProjectGoes
  BY <1>4, ProjectKeeps DEF OwnerRemovesProject, ProjectGoes
<1> QED
  BY <1>1, <1>2, <1>3, <1>4, CreateKeeps DEF Next

LEMMA InitInv == ASSUME WorkplacesConstants, Init PROVE Inv
<1>1. PICK stage \in [Old -> Stages \ {"archived"}] :
        threads = [t \in Threads |-> IF t \in Old
          THEN [NoThread EXCEPT !.rec = TRUE, !.listed = TRUE, !.stage = stage[t]]
          ELSE NoThread]
  BY DEF Init
<1>2. ThreadsTyped
  <2>1. NoThread \in ThreadRecords
    BY DEF NoThread, ThreadRecords, Stages
  <2>2. ASSUME NEW t \in Old
        PROVE  [NoThread EXCEPT !.rec = TRUE, !.listed = TRUE, !.stage = stage[t]]
                 \in ThreadRecords
    <3>1. stage[t] \in Stages
      BY <1>1
    <3> QED
      BY <2>1, <3>1 DEF ThreadRecords
  <2> QED
    BY <1>1, <2>1, <2>2 DEF ThreadsTyped
<1>3. \A c \in Creates : jobs[c] = NoJob /\ c \in Threads /\ ~threads[c].listed
  BY <1>1 DEF Init, Threads, NoThread, WorkplacesConstants
<1>4. JobsTyped /\ ProjectTyped
  BY DEF Init, JobsTyped, JobRecords, NoJob, Pcs, CreateKinds, Ends, ProjectTyped
<1>5. ProjectIsHeld /\ NoOrphans
  BY <1>3 DEF Init, ProjectIsHeld, NoOrphans, NoJob
<1>6. OneHas /\ CreatingRuns /\ ListedIsPast
  BY <1>3 DEF Init, OneHas, Has, Running, NoJob, CreatingRuns, ListedIsPast
<1>7. WaitersAreWoken /\ WaitersHaveRequests
  BY <1>3 DEF WaitersAreWoken, WaitersHaveRequests, NoJob
<1> QED
  BY <1>2, <1>4, <1>5, <1>6, <1>7 DEF Inv

\* Every reachable state satisfies the inductive invariant.
THEOREM InvHolds == Spec => []Inv
<1>1. Init => Inv
  BY WorkplacesConstants, InitInv
<1>2. Inv /\ [Next]_vars => Inv'
  BY WorkplacesConstants, NextKeeps
<1> QED
  BY <1>1, <1>2, PTL DEF Spec

\* No stored Thread is of a Project that is gone (register, removeProject).
THEOREM NoneIsOrphaned == Spec => []NoOrphans
<1>1. Inv => NoOrphans
  BY DEF Inv
<1> QED
  BY <1>1, InvHolds, PTL

\* A repeat of a request makes no second Thread, and is answered
\* (claimCreate, releaseCreate).
THEOREM RequestsAnswered == Spec => []RequestsAreAnswered
<1>1. Inv => RequestsAreAnswered
  BY DEF Inv, OneHas, Has, RequestsAreAnswered, OncePerRequest, Listed, Threads
<1> QED
  BY <1>1, InvHolds, PTL

-----------------------------------------------------------------------------
(* The working folders.  A Thread that works has a folder, because a       *)
(* removal on settling takes no worktree with a conversation, under        *)
(* worktrees.ops, and the owner's removal locks the worktree's Threads;    *)
(* git writes a folder only while no Thread works there, because each side *)
(* looks at the other under the Manager's mutex; and a create that fails   *)
(* takes its worktree back.                                                *)

\* A create's Thread is not listed yet.
Before == {"idle", "claim", "wait", "place", "recreate", "take", "busy",
           "switch", "open", "store", "list"}

RemovalRecords ==
  [pc : {"idle", "lock", "remove"}, path : Threads \cup {None},
   users : SUBSET Threads, missed : SUBSET Threads]

\* What else the arguments need of TypeOK.
WorkTyped ==
  /\ disk \subseteq Threads /\ branches \subseteq Threads
  /\ kicks \in [Threads -> Nat] /\ ops \in Threads \cup {None}
  /\ writes \in [Places -> Creates \cup {None, Owner}]
  /\ git \in [pc : {"idle", "busy", "run"}, top : Places]
  /\ removal \in RemovalRecords

\* Nothing else knows a Thread that is not listed.
Unmade ==
  \A c \in Creates : jobs[c].pc \in Before =>
    /\ ~threads[c].working /\ threads[c].op = "none" /\ ~threads[c].listed
    /\ threads[c].stage = "active" /\ kicks[c] = 0
    /\ c \notin removal.users /\ c \notin project.tasks /\ ops # c

\* Who writes a folder with git is at that step.
Writers ==
  /\ \A c \in Creates, p \in Places :
       writes[p] = c <=> p = Folder /\ jobs[c].pc \in {"busy", "switch"}
  /\ \A p \in Places : writes[p] = Owner <=> p = git.top /\ git.pc # "idle"

PutAwayIsIdle ==
  \A t \in Threads : threads[t].stage # "active" =>
    /\ ~threads[t].conv /\ ~threads[t].working
    /\ threads[t].op \notin {"send", "opening"}

\* A conversation has its folder, unless its Thread came to the worktree after
\* the owner's removal looked at who uses it.
HasPlace(t) ==
  Place(t) = Folder \/ Place(t) \in disk \/ t \in removal.missed
ConvHasPlace ==
  /\ \A t \in Listed : threads[t].conv \/ threads[t].working => HasPlace(t)
  /\ \A c \in Creates : jobs[c].pc \in {"store", "list"} => HasPlace(c)

\* The worktree that the holder of worktrees.ops removes has no conversation.
RemovesUnused ==
  ops # None =>
    /\ Place(ops) # Folder
    /\ \A t \in Listed : Place(t) = Place(ops) =>
         ~threads[t].conv /\ ~threads[t].working
    /\ \A c \in Creates : Place(c) = Place(ops) =>
         jobs[c].pc \notin {"open", "store", "list"}

\* A removal of the Project, or of a worktree, locks its Threads first.
ProjectLocked ==
  /\ project.pc # "idle" => Listed \subseteq project.tasks
  /\ project.pc \in {"store", "forget"} =>
       \A t \in project.tasks : threads[t].op = "project"
  /\ ~project.listed =>
       Listed = {} /\ \A c \in Creates : jobs[c].pc # "list"
RemovalLocked ==
  /\ removal.pc # "idle" =>
       /\ removal.path \in Threads
       /\ \A t \in Listed \cap Old :
            Place(t) = removal.path => t \in removal.users
  /\ removal.pc = "remove" => \A t \in removal.users :
       threads[t].op = "remove" /\ ~threads[t].conv /\ ~threads[t].working

\* How far a create of each kind is.
KindsFit ==
  \A c \in Creates :
    /\ jobs[c].pc = "recreate" => jobs[c].kind = "again"
    /\ jobs[c].kind = "again" => jobs[c].from \in Old
    /\ jobs[c].pc \in {"take", "busy", "switch"} => jobs[c].kind = "branch"
Ended ==
  \A c \in Creates :
    /\ jobs[c].pc \in Before => jobs[c].end = "none"
    /\ jobs[c].pc \in {"prompt", "sending"} => jobs[c].end = "made"
    /\ jobs[c].pc = "undo" => jobs[c].end \in {"failed", "noroom"}
    /\ jobs[c].end = "made" =>
         jobs[c].pc \in {"prompt", "sending", "return", "over"}

\* The worktree a create has made.
Branched ==
  \A c \in Creates :
    /\ c \in disk \cup branches =>
         /\ OwnPlace(c)
         /\ jobs[c].pc \notin {"idle", "claim", "wait", "place"}
    /\ OwnPlace(c) /\ jobs[c].pc \in {"open", "store", "list"} =>
         c \in branches
    /\ OwnPlace(c) /\ jobs[c].end = "made" => c \in branches
    /\ c \in disk => c \in branches
    /\ jobs[c].pc \in {"return", "over"} /\ jobs[c].end = "failed" =>
         c \notin disk \cup branches
    /\ threads[c].rec =>
         jobs[c].pc = "list" \/ jobs[c].end = "made" \/ closed

PlaceInv ==
  /\ WorkTyped /\ Unmade /\ Writers /\ PutAwayIsIdle /\ ConvHasPlace
  /\ RemovesUnused /\ ProjectLocked /\ RemovalLocked /\ KindsFit /\ Ended
  /\ Branched /\ WritesAreQuiet

\* Where a Thread runs.
PlacesFit ==
  /\ \A t \in Threads : Place(t) \in Places
  /\ \A c \in Creates :
       /\ OwnPlace(c) => Place(c) = c
       /\ jobs[c].kind = "again" => Place(c) = jobs[c].from
       /\ jobs[c].kind \in {"folder", "branch", "here"} => Place(c) = Folder
  /\ \A c \in Creates, t \in Threads :
       Place(t) = c => t = c /\ OwnPlace(c)

\* What a step writes of the jobs.
Kept == \A d \in Creates :
          jobs'[d].kind = jobs[d].kind /\ jobs'[d].from = jobs[d].from
Moves(c, pc, end) ==
  /\ Kept /\ jobs'[c].pc = pc /\ jobs'[c].end = end
  /\ \A d \in Creates \ {c} : jobs'[d] = jobs[d]

\* The fields of a Thread that a step leaves alone.
Same(t) ==
  /\ threads'[t].rec = threads[t].rec
  /\ threads'[t].listed = threads[t].listed
  /\ threads'[t].stage = threads[t].stage
  /\ threads'[t].working = threads[t].working

\* A step within the same job.
LEMMA GoesMoves ==
  ASSUME Inv, NEW c \in Creates, NEW pc, Goes(c, pc)
  PROVE  Moves(c, pc, jobs[c].end)
<1>1. /\ jobs \in [Creates -> JobRecords] /\ jobs[c] \in JobRecords
      /\ jobs' = [jobs EXCEPT ![c] = [jobs[c] EXCEPT !.pc = pc]]
  BY DEF Goes, Inv, JobsTyped
<1>2. /\ jobs'[c] = [jobs[c] EXCEPT !.pc = pc]
      /\ \A d \in Creates \ {c} : jobs'[d] = jobs[d]
  BY <1>1
<1> QED BY <1>1, <1>2 DEF Moves, Kept, JobRecords

\* A step that ends a job.
LEMMA EndsMoves ==
  ASSUME Inv, NEW c \in Creates, NEW pc, NEW end,
         jobs' = [jobs EXCEPT ![c].pc = pc, ![c].end = end]
  PROVE  Moves(c, pc, end)
<1>1. /\ jobs \in [Creates -> JobRecords] /\ jobs[c] \in JobRecords
      /\ jobs' = [jobs EXCEPT ![c] = [jobs[c] EXCEPT !.pc = pc, !.end = end]]
  BY DEF Inv, JobsTyped
<1>2. /\ jobs'[c] = [jobs[c] EXCEPT !.pc = pc, !.end = end]
      /\ \A d \in Creates \ {c} : jobs'[d] = jobs[d]
  BY <1>1
<1> QED BY <1>1, <1>2 DEF Moves, Kept, JobRecords

\* A removal locks the Threads of a worktree.
LEMMA UsersLocked ==
  ASSUME ThreadsTyped, NEW users \in SUBSET Threads,
         threads' = [u \in Threads |-> IF u \in users
           THEN [threads[u] EXCEPT !.op = "remove", !.conv = FALSE]
           ELSE threads[u]]
  PROVE  /\ \A u \in Threads : Same(u)
         /\ \A u \in Threads \ users : threads'[u] = threads[u]
         /\ \A u \in users : threads'[u].op = "remove" /\ ~threads'[u].conv
<1>1. \A u \in Threads : threads[u] \in ThreadRecords
  BY DEF ThreadsTyped
<1>2. ASSUME NEW u \in users
      PROVE  Same(u) /\ threads'[u].op = "remove" /\ ~threads'[u].conv
  <2>1. threads'[u] = [threads[u] EXCEPT !.op = "remove", !.conv = FALSE]
    BY <1>2
  <2> QED BY <1>1, <2>1 DEF Same, ThreadRecords
<1>3. \A u \in Threads \ users : threads'[u] = threads[u]
  OBVIOUS
<1> QED BY <1>2, <1>3 DEF Same

\* It releases them.
LEMMA UsersReleased ==
  ASSUME ThreadsTyped, NEW users \in SUBSET Threads,
         threads' = [u \in Threads |-> IF u \in users
           THEN [threads[u] EXCEPT !.op = "none"] ELSE threads[u]]
  PROVE  /\ \A u \in Threads : Same(u) /\ threads'[u].conv = threads[u].conv
         /\ \A u \in Threads \ users : threads'[u] = threads[u]
         /\ \A u \in users : threads'[u].op = "none"
<1>1. \A u \in Threads : threads[u] \in ThreadRecords
  BY DEF ThreadsTyped
<1>2. ASSUME NEW u \in users
      PROVE  /\ Same(u) /\ threads'[u].conv = threads[u].conv
             /\ threads'[u].op = "none"
  <2>1. threads'[u] = [threads[u] EXCEPT !.op = "none"]
    BY <1>2
  <2> QED BY <1>1, <2>1 DEF Same, ThreadRecords
<1>3. \A u \in Threads \ users : threads'[u] = threads[u]
  OBVIOUS
<1> QED BY <1>2, <1>3 DEF Same

\* A removed Project forgets its Threads.
LEMMA TasksForgotten ==
  ASSUME ThreadsTyped, NEW tasks \in SUBSET Threads,
         threads' = [t \in Threads |-> IF t \in tasks
           THEN [threads[t] EXCEPT !.listed = FALSE, !.conv = FALSE,
                                   !.op = "none"]
           ELSE threads[t]]
  PROVE  /\ \A u \in Threads \ tasks : threads'[u] = threads[u]
         /\ \A u \in tasks :
              /\ ~threads'[u].listed /\ ~threads'[u].conv
              /\ threads'[u].op = "none"
              /\ threads'[u].rec = threads[u].rec
              /\ threads'[u].stage = threads[u].stage
              /\ threads'[u].working = threads[u].working
<1>1. \A u \in Threads : threads[u] \in ThreadRecords
  BY DEF ThreadsTyped
<1>2. ASSUME NEW u \in tasks
      PROVE  /\ ~threads'[u].listed /\ ~threads'[u].conv
             /\ threads'[u].op = "none"
            /\ threads'[u].rec = threads[u].rec
            /\ threads'[u].stage = threads[u].stage
            /\ threads'[u].working = threads[u].working
  <2>1. threads'[u] = [threads[u] EXCEPT !.listed = FALSE, !.conv = FALSE,
                                         !.op = "none"]
    BY <1>2
  <2> QED BY <1>1, <2>1 DEF ThreadRecords
<1>3. \A u \in Threads \ tasks : threads'[u] = threads[u]
  OBVIOUS
<1> QED BY <1>2, <1>3

\* A removal that was refused, or found nothing.
LEMMA RemovalEnds ==
  ASSUME WorkTyped, removal' = [removal EXCEPT !.pc = "idle"]
  PROVE  /\ removal' \in RemovalRecords
         /\ removal'.pc = "idle" /\ removal'.path = removal.path
         /\ removal'.users = removal.users /\ removal'.missed = removal.missed
BY DEF WorkTyped, RemovalRecords

\* A removal that removed the worktree.
LEMMA RemovalMisses ==
  ASSUME WorkTyped, NEW gone \in SUBSET Threads,
         removal' = [removal EXCEPT !.pc = "idle",
                                    !.missed = removal.missed \cup gone]
  PROVE  /\ removal' \in RemovalRecords
         /\ removal'.pc = "idle" /\ removal'.path = removal.path
         /\ removal'.users = removal.users
         /\ removal'.missed = removal.missed \cup gone
BY DEF WorkTyped, RemovalRecords

\* A create begins: it is found, waits or goes on.
LEMMA ClaimsBegins ==
  ASSUME Inv, NEW c \in Creates, NEW job \in JobRecords, Claims(c, job)
  PROVE  /\ jobs'[c].kind = job.kind /\ jobs'[c].from = job.from
         /\ \/ jobs'[c].pc = "over" /\ jobs'[c].end = "found"
            \/ jobs'[c].pc \in {"wait", "place"} /\ jobs'[c].end = job.end
         /\ \A d \in Creates \ {c} : jobs'[d] = jobs[d]
<1>1. jobs \in [Creates -> JobRecords]
  BY DEF Inv, JobsTyped
<1>2. \E x \in {[job EXCEPT !.pc = "over", !.end = "found"],
                [job EXCEPT !.pc = "wait"], [job EXCEPT !.pc = "place"]} :
        jobs' = [jobs EXCEPT ![c] = x]
  BY DEF Claims
<1>3. PICK x \in {[job EXCEPT !.pc = "over", !.end = "found"],
                 [job EXCEPT !.pc = "wait"], [job EXCEPT !.pc = "place"]} :
        jobs' = [jobs EXCEPT ![c] = x]
  BY <1>2
<1>4. jobs'[c] = x /\ \A d \in Creates \ {c} : jobs'[d] = jobs[d]
  BY <1>1, <1>3
<1> QED BY <1>3, <1>4 DEF JobRecords

\* A create's Thread shares the folder, or has a worktree of its own.
LEMMA PlacesTyped ==
  ASSUME Inv, KindsFit
  PROVE  PlacesFit /\ \A c \in Creates : jobs[c].kind \in CreateKinds
<1>1. \A c \in Creates : c \notin Old /\ jobs[c].kind \in CreateKinds
  BY WorkplacesConstants DEF Inv, JobsTyped, JobRecords
<1> QED
  BY <1>1, WorkplacesConstants
     DEF PlacesFit, KindsFit, Place, Places, Threads, OwnPlace, CreateKinds

\* A Thread keeps its place once its create has begun.
LEMMA PlacesStay ==
  ASSUME Kept
  PROVE  /\ \A t \in Threads : Place(t)' = Place(t)
         /\ \A c \in Creates : OwnPlace(c)' = OwnPlace(c)
<1>1. \A c \in Creates : OwnPlace(c)' = OwnPlace(c)
  BY DEF Kept, OwnPlace
<1>2. ASSUME NEW t \in Threads PROVE Place(t)' = Place(t)
  BY <1>1 DEF Kept, Place, Threads
<1> QED BY <1>1, <1>2

-----------------------------------------------------------------------------
(* Each action keeps each part of PlaceInv.                                *)

LEMMA CreatePlaces ==
  ASSUME Inv, Inv', PlaceInv, NEW c \in Creates, NEW r \in Requests,
         NEW k \in {"folder", "branch", "worktree"}, Create(c, r, k),
         UNCHANGED <<threads, disk, branches, kicks, ops, writes, git, removal,
                     project, projectMu, closed, owned>>
  PROVE  PlaceInv'
<1>1. /\ [NoJob EXCEPT !.kind = k, !.req = r] \in JobRecords
      /\ [NoJob EXCEPT !.kind = k, !.req = r].kind = k
      /\ [NoJob EXCEPT !.kind = k, !.req = r].from = None
      /\ [NoJob EXCEPT !.kind = k, !.req = r].end = "none"
  BY DEF NoJob, JobRecords, Pcs, Ends, CreateKinds
<1>2. PICK job \in JobRecords :
        /\ Claims(c, job) /\ jobs[c].pc = "idle" /\ job.kind = k
        /\ job.from = None /\ job.end = "none"
  BY <1>1 DEF Create, Asks
<1>3. /\ jobs[c].pc = "idle" /\ jobs'[c].kind = k /\ jobs'[c].from = None
      /\ \/ jobs'[c].pc = "over" /\ jobs'[c].end = "found"
         \/ jobs'[c].pc \in {"wait", "place"} /\ jobs'[c].end = "none"
      /\ \A d \in Creates \ {c} : jobs'[d] = jobs[d]
      /\ UNCHANGED <<threads, disk, branches, work, project, closed>>
  BY <1>2, ClaimsBegins DEF work
<1>4. /\ \A u \in Threads \ {c} : Place(u)' = Place(u)
      /\ \A d \in Creates \ {c} : OwnPlace(d)' = OwnPlace(d)
  BY <1>3 DEF Place, OwnPlace, Threads
<1>5. PlacesFit
  BY PlacesTyped DEF PlaceInv
<1>6. WorkTyped'
  BY DEF PlaceInv, WorkTyped
<1>7. Unmade'
  BY <1>3 DEF PlaceInv, Before, Unmade
<1>8. Writers'
  BY <1>3 DEF PlaceInv, Writers
<1>9. PutAwayIsIdle'
  BY DEF PlaceInv, PutAwayIsIdle
<1>10. ConvHasPlace'
  BY <1>3, <1>4
     DEF PlaceInv, Before, Listed, Threads, Unmade, ConvHasPlace, HasPlace
<1>11. RemovesUnused'
  BY <1>3, <1>4
     DEF PlaceInv, WorkTyped, Before, Listed, Threads, Unmade, RemovesUnused
<1>12. ProjectLocked'
  BY <1>3 DEF PlaceInv, Listed, ProjectLocked
<1>13. RemovalLocked'
  BY <1>4, WorkplacesConstants DEF PlaceInv, Listed, RemovalLocked
<1>14. KindsFit'
  BY <1>3 DEF PlaceInv, KindsFit
<1>15. Ended'
  BY <1>3 DEF PlaceInv, Before, Ended
<1>16. Branched'
  BY <1>3, <1>4, <1>5, WorkplacesConstants
     DEF Inv, PlaceInv, JobsTyped, ThreadsTyped, ProjectTyped, WorkTyped,
         ListedIsPast, Before, Listed, Threads, Places, Busy, BusyIn, Unmade,
         PutAwayIsIdle, Moves, Same, Kept, OwnPlace, Branched, KindsFit,
         Ended, PlacesFit
<1>17. WritesAreQuiet'
  BY <1>3, <1>4 DEF PlaceInv, Before, Listed, Unmade, WritesAreQuiet, Writing
<1> QED
  BY <1>6, <1>7, <1>8, <1>9, <1>10, <1>11, <1>12, <1>13, <1>14, <1>15, <1>16,
     <1>17
     DEF PlaceInv

LEMMA RerunPlaces ==
  ASSUME Inv, Inv', PlaceInv, NEW c \in Creates, NEW r \in Requests,
         NEW o \in Old, Rerun(c, r, o),
         UNCHANGED <<threads, disk, branches, kicks, ops, writes, git, removal,
                     project, projectMu, closed, owned>>
  PROVE  PlaceInv'
<1>1. /\ [NoJob EXCEPT !.kind = "again", !.req = r, !.from = o]
           \in JobRecords
      /\ [NoJob EXCEPT !.kind = "again", !.req = r, !.from = o].kind
           = "again"
      /\ [NoJob EXCEPT !.kind = "again", !.req = r, !.from = o].from = o
      /\ [NoJob EXCEPT !.kind = "again", !.req = r, !.from = o].end = "none"
  BY DEF NoJob, JobRecords, Pcs, Ends, CreateKinds
<1>2. PICK job \in JobRecords :
        /\ Claims(c, job) /\ jobs[c].pc = "idle" /\ job.kind = "again"
        /\ job.from = o /\ job.end = "none"
  BY <1>1 DEF Rerun, Asks
<1>3. /\ jobs[c].pc = "idle" /\ jobs'[c].kind = "again" /\ jobs'[c].from = o
      /\ \/ jobs'[c].pc = "over" /\ jobs'[c].end = "found"
         \/ jobs'[c].pc \in {"wait", "place"} /\ jobs'[c].end = "none"
      /\ \A d \in Creates \ {c} : jobs'[d] = jobs[d]
      /\ UNCHANGED <<threads, disk, branches, work, project, closed>>
  BY <1>2, ClaimsBegins DEF work
<1>4. /\ \A u \in Threads \ {c} : Place(u)' = Place(u)
      /\ \A d \in Creates \ {c} : OwnPlace(d)' = OwnPlace(d)
  BY <1>3 DEF Place, OwnPlace, Threads
<1>5. PlacesFit
  BY PlacesTyped DEF PlaceInv
<1>6. WorkTyped'
  BY DEF PlaceInv, WorkTyped
<1>7. Unmade'
  BY <1>3 DEF PlaceInv, Before, Unmade
<1>8. Writers'
  BY <1>3 DEF PlaceInv, Writers
<1>9. PutAwayIsIdle'
  BY DEF PlaceInv, PutAwayIsIdle
<1>10. ConvHasPlace'
  BY <1>3, <1>4
     DEF PlaceInv, Before, Listed, Threads, Unmade, ConvHasPlace, HasPlace
<1>11. RemovesUnused'
  BY <1>3, <1>4
     DEF PlaceInv, WorkTyped, Before, Listed, Threads, Unmade, RemovesUnused
<1>12. ProjectLocked'
  BY <1>3 DEF PlaceInv, Listed, ProjectLocked
<1>13. RemovalLocked'
  BY <1>4, WorkplacesConstants DEF PlaceInv, Listed, RemovalLocked
<1>14. KindsFit'
  BY <1>3 DEF PlaceInv, KindsFit
<1>15. Ended'
  BY <1>3 DEF PlaceInv, Before, Ended
<1>16. Branched'
  BY <1>3 DEF PlaceInv, OwnPlace, Branched, Ended
<1>17. WritesAreQuiet'
  BY <1>3, <1>4, <1>5, WorkplacesConstants
     DEF Inv, PlaceInv, JobsTyped, ThreadsTyped, ProjectTyped, WorkTyped,
         ListedIsPast, Before, Listed, Threads, Places, Busy, BusyIn, Unmade,
         PutAwayIsIdle, Moves, Same, Kept, WritesAreQuiet, Writing, Writers,
         PlacesFit
<1> QED
  BY <1>6, <1>7, <1>8, <1>9, <1>10, <1>11, <1>12, <1>13, <1>14, <1>15, <1>16,
     <1>17
     DEF PlaceInv

LEMMA SpawnPlaces ==
  ASSUME Inv, Inv', PlaceInv, NEW c \in Creates, NEW o \in Old,
         NEW k \in SpawnKinds, Spawn(c, o, k),
         UNCHANGED <<threads, disk, branches, kicks, ops, writes, git, removal,
                     project, projectMu, closed, owned>>
  PROVE  PlaceInv'
<1>1. /\ jobs[c].pc = "idle" /\ jobs'[c].kind \in SpawnKinds /\ jobs'[c].from = o
      /\ \/ jobs'[c].pc = "over" /\ jobs'[c].end = "found"
         \/ jobs'[c].pc \in {"wait", "place"} /\ jobs'[c].end = "none"
      /\ \A d \in Creates \ {c} : jobs'[d] = jobs[d]
      /\ UNCHANGED <<threads, disk, branches, work, project, closed>>
  BY DEF Spawn, NoJob, Inv, JobsTyped, JobRecords, Asks, work
<1>2. /\ \A u \in Threads \ {c} : Place(u)' = Place(u)
      /\ \A d \in Creates \ {c} : OwnPlace(d)' = OwnPlace(d)
  BY <1>1 DEF Place, OwnPlace, Threads
<1>3. PlacesFit
  BY PlacesTyped DEF PlaceInv
<1>4. WorkTyped'
  BY DEF PlaceInv, WorkTyped
<1>5. Unmade'
  BY <1>1 DEF PlaceInv, Before, Unmade
<1>6. Writers'
  BY <1>1 DEF PlaceInv, Writers
<1>7. PutAwayIsIdle'
  BY DEF PlaceInv, PutAwayIsIdle
<1>8. ConvHasPlace'
  BY <1>1, <1>2
     DEF PlaceInv, Before, Listed, Threads, Unmade, ConvHasPlace, HasPlace
<1>9. RemovesUnused'
  BY <1>1, <1>2, <1>3, WorkplacesConstants
     DEF Inv, PlaceInv, JobsTyped, ThreadsTyped, ProjectTyped, WorkTyped,
         ListedIsPast, Before, Listed, Threads, Places, Busy, BusyIn, Unmade,
         PutAwayIsIdle, Moves, Same, Kept, OwnPlace, RemovesUnused, KindsFit,
         HasPlace, ConvHasPlace, ProjectLocked, PlacesFit
<1>10. ProjectLocked'
  BY <1>1 DEF PlaceInv, Listed, ProjectLocked
<1>11. RemovalLocked'
  BY <1>2, WorkplacesConstants DEF PlaceInv, Listed, RemovalLocked
<1>12. KindsFit'
  BY <1>1 DEF PlaceInv, KindsFit
<1>13. Ended'
  BY <1>1 DEF PlaceInv, Before, Ended
<1>14. Branched'
  BY <1>1 DEF PlaceInv, OwnPlace, Branched, Ended
<1>15. WritesAreQuiet'
  BY <1>1, <1>2, <1>3
     DEF PlaceInv, Unmade, Before, Listed, Writing, Writers, Threads, Places,
         WritesAreQuiet, work, PlacesFit
<1> QED
  BY <1>4, <1>5, <1>6, <1>7, <1>8, <1>9, <1>10, <1>11, <1>12, <1>13, <1>14,
     <1>15
     DEF PlaceInv

LEMMA ClaimPlaces ==
  ASSUME Inv, Inv', PlaceInv, NEW c \in Creates, Claim(c),
         UNCHANGED <<kicks, ops, git, removal, project, closed, owned, threads,
                     disk, branches, writes, projectMu>>
  PROVE  PlaceInv'
<1>1. /\ jobs[c].pc = "claim" /\ UNCHANGED <<disk, branches>>
      /\ \/ Moves(c, "over", "found") \/ Moves(c, "wait", jobs[c].end)
         \/ Moves(c, "place", jobs[c].end)
  BY ClaimsBegins DEF Claim, Moves, Kept, Inv, JobsTyped
<1>2. /\ \A u \in Threads : Place(u)' = Place(u)
      /\ \A d \in Creates : OwnPlace(d)' = OwnPlace(d)
  BY <1>1, PlacesStay DEF Moves
<1>3. WorkTyped'
  BY DEF PlaceInv, WorkTyped
<1>4. Unmade'
  BY <1>1 DEF PlaceInv, Before, Unmade, Moves
<1>5. Writers'
  BY <1>1 DEF PlaceInv, Moves, Writers
<1>6. PutAwayIsIdle'
  BY DEF PlaceInv, PutAwayIsIdle
<1>7. ConvHasPlace'
  BY <1>1, <1>2 DEF PlaceInv, Listed, Threads, Moves, ConvHasPlace, HasPlace
<1>8. RemovesUnused'
  BY <1>1, <1>2
     DEF PlaceInv, WorkTyped, Listed, Threads, Moves, RemovesUnused
<1>9. ProjectLocked'
  BY <1>1 DEF PlaceInv, Listed, Moves, ProjectLocked
<1>10. RemovalLocked'
  BY <1>2 DEF PlaceInv, Listed, RemovalLocked
<1>11. KindsFit'
  BY <1>1 DEF PlaceInv, Moves, Kept, KindsFit
<1>12. Ended'
  BY <1>1 DEF PlaceInv, Before, Moves, Ended
<1>13. Branched'
  BY <1>1 DEF PlaceInv, Moves, Branched, Ended, OwnPlace
<1>14. WritesAreQuiet'
  BY <1>1, <1>2 DEF PlaceInv, Listed, Moves, WritesAreQuiet, Writing
<1> QED
  BY <1>3, <1>4, <1>5, <1>6, <1>7, <1>8, <1>9, <1>10, <1>11, <1>12, <1>13,
     <1>14
     DEF PlaceInv

LEMMA PlaceOfPlaces ==
  ASSUME Inv, Inv', PlaceInv, NEW c \in Creates, PlaceOf(c),
         UNCHANGED <<kicks, ops, git, removal, project, closed, owned,
                     creating, threads, writes, projectMu>>
  PROVE  PlaceInv'
<1>1. /\ jobs[c].pc = "place"
      /\ \/ /\ Moves(c, "return", "failed") /\ UNCHANGED <<disk, branches>>
         \/ /\ jobs[c].kind \in {"folder", "here"}
            /\ Moves(c, "open", jobs[c].end)
            /\ UNCHANGED <<disk, branches>>
         \/ /\ jobs[c].kind = "again" /\ Moves(c, "recreate", jobs[c].end)
            /\ UNCHANGED <<disk, branches>>
         \/ /\ jobs[c].kind = "branch" /\ Moves(c, "take", jobs[c].end)
            /\ UNCHANGED <<disk, branches>>
         \/ /\ OwnPlace(c) /\ Moves(c, "open", jobs[c].end)
            /\ disk' = disk \cup {c} /\ branches' = branches \cup {c}
  BY GoesMoves, EndsMoves DEF PlaceOf, Fails
<1>2. /\ \A u \in Threads : Place(u)' = Place(u)
      /\ \A d \in Creates : OwnPlace(d)' = OwnPlace(d)
  BY <1>1, PlacesStay DEF Moves
<1>3. PlacesFit
  BY PlacesTyped DEF PlaceInv
<1>4. WorkTyped'
  BY <1>1 DEF PlaceInv, WorkTyped, Threads
<1>5. Unmade'
  BY <1>1 DEF PlaceInv, Before, Unmade, Moves
<1>6. Writers'
  BY <1>1 DEF PlaceInv, Moves, Writers
<1>7. PutAwayIsIdle'
  BY DEF PlaceInv, PutAwayIsIdle
<1>8. ConvHasPlace'
  BY <1>1, <1>2 DEF PlaceInv, Listed, Threads, Moves, ConvHasPlace, HasPlace
<1>9. RemovesUnused'
  BY <1>1, <1>2, <1>3
     DEF PlaceInv, WorkTyped, Before, Listed, Threads, Unmade, Moves,
         RemovesUnused, PlacesFit
<1>10. ProjectLocked'
  BY <1>1 DEF PlaceInv, Listed, Moves, ProjectLocked
<1>11. RemovalLocked'
  BY <1>2 DEF PlaceInv, Listed, RemovalLocked
<1>12. KindsFit'
  BY <1>1 DEF PlaceInv, Moves, Kept, KindsFit
<1>13. Ended'
  BY <1>1 DEF PlaceInv, Before, Moves, Ended
<1>14. Branched'
  BY <1>1 DEF PlaceInv, Moves, Kept, Branched, Ended, OwnPlace
<1>15. WritesAreQuiet'
  BY <1>1, <1>2 DEF PlaceInv, Listed, Moves, WritesAreQuiet, Writing
<1> QED
  BY <1>4, <1>5, <1>6, <1>7, <1>8, <1>9, <1>10, <1>11, <1>12, <1>13, <1>14,
     <1>15
     DEF PlaceInv

LEMMA RecreatePlaces ==
  ASSUME Inv, Inv', PlaceInv, NEW c \in Creates, Recreate(c),
         UNCHANGED <<kicks, ops, git, removal, project, closed, owned,
                     creating, threads, writes, projectMu>>
  PROVE  PlaceInv'
<1>1. /\ jobs[c].pc = "recreate" /\ UNCHANGED branches /\ ops = None
      /\ \/ /\ Moves(c, "open", jobs[c].end)
            /\ disk' =
                 IF jobs[c].from \in branches THEN disk \cup {jobs[c].from}
                 ELSE disk
         \/ Moves(c, "return", "failed") /\ UNCHANGED disk
  BY GoesMoves, EndsMoves DEF Recreate, Recreates, Fails
<1>2. /\ \A u \in Threads : Place(u)' = Place(u)
      /\ \A d \in Creates : OwnPlace(d)' = OwnPlace(d)
  BY <1>1, PlacesStay DEF Moves
<1>3. WorkTyped'
  BY <1>1 DEF PlaceInv, WorkTyped
<1>4. Unmade'
  BY <1>1 DEF PlaceInv, Before, Unmade, Moves
<1>5. Writers'
  BY <1>1 DEF PlaceInv, Moves, Writers
<1>6. PutAwayIsIdle'
  BY DEF PlaceInv, PutAwayIsIdle
<1>7. ConvHasPlace'
  BY <1>1, <1>2 DEF PlaceInv, Listed, Threads, Moves, ConvHasPlace, HasPlace
<1>8. RemovesUnused'
  BY <1>1 DEF RemovesUnused
<1>9. ProjectLocked'
  BY <1>1 DEF PlaceInv, Listed, Moves, ProjectLocked
<1>10. RemovalLocked'
  BY <1>2 DEF PlaceInv, Listed, RemovalLocked
<1>11. KindsFit'
  BY <1>1 DEF PlaceInv, Moves, Kept, KindsFit
<1>12. Ended'
  BY <1>1 DEF PlaceInv, Before, Moves, Ended
<1>13. Branched'
  BY <1>1 DEF PlaceInv, Moves, Kept, Branched, KindsFit, Ended, OwnPlace
<1>14. WritesAreQuiet'
  BY <1>1, <1>2 DEF PlaceInv, Listed, Moves, WritesAreQuiet, Writing
<1> QED
  BY <1>3, <1>4, <1>5, <1>6, <1>7, <1>8, <1>9, <1>10, <1>11, <1>12, <1>13,
     <1>14
     DEF PlaceInv

LEMMA TakePlaces ==
  ASSUME Inv, Inv', PlaceInv, NEW c \in Creates, Take(c),
         UNCHANGED <<kicks, ops, git, removal, project, closed, owned,
                     creating, threads, disk, branches, projectMu>>
  PROVE  PlaceInv'
<1>1. /\ jobs[c].pc = "take"
      /\ \/ Moves(c, "return", "failed") /\ UNCHANGED writes
         \/ /\ writes[Folder] = None /\ Moves(c, "busy", jobs[c].end)
            /\ writes' = [writes EXCEPT ![Folder] = c]
  BY GoesMoves, EndsMoves DEF Take, Fails
<1>2. /\ \A u \in Threads : Place(u)' = Place(u)
      /\ \A d \in Creates : OwnPlace(d)' = OwnPlace(d)
  BY <1>1, PlacesStay DEF Moves
<1>3. PlacesFit
  BY PlacesTyped DEF PlaceInv
<1>4. WorkTyped'
  BY <1>1 DEF PlaceInv, WorkTyped
<1>5. Unmade'
  BY <1>1 DEF PlaceInv, Before, Unmade, Moves
<1>6. Writers'
  BY <1>1, WorkplacesConstants DEF PlaceInv, WorkTyped, Moves, Writers
<1>7. PutAwayIsIdle'
  BY DEF PlaceInv, PutAwayIsIdle
<1>8. ConvHasPlace'
  BY <1>1, <1>2 DEF PlaceInv, Listed, Threads, Moves, ConvHasPlace, HasPlace
<1>9. RemovesUnused'
  BY <1>1, <1>2
     DEF PlaceInv, WorkTyped, Listed, Threads, Moves, RemovesUnused
<1>10. ProjectLocked'
  BY <1>1 DEF PlaceInv, Listed, Moves, ProjectLocked
<1>11. RemovalLocked'
  BY <1>2 DEF PlaceInv, Listed, RemovalLocked
<1>12. KindsFit'
  BY <1>1 DEF PlaceInv, Moves, Kept, KindsFit
<1>13. Ended'
  BY <1>1 DEF PlaceInv, Before, Moves, Ended
<1>14. Branched'
  BY <1>1 DEF PlaceInv, Moves, Branched, KindsFit, Ended, OwnPlace
<1>15. WritesAreQuiet'
  BY <1>1, <1>2, <1>3
     DEF PlaceInv, WorkTyped, Listed, Moves, WritesAreQuiet, Writing,
         Writers, PlacesFit
<1> QED
  BY <1>4, <1>5, <1>6, <1>7, <1>8, <1>9, <1>10, <1>11, <1>12, <1>13, <1>14,
     <1>15
     DEF PlaceInv

LEMMA CheckPlaces ==
  ASSUME Inv, Inv', PlaceInv, NEW c \in Creates, Check(c),
         UNCHANGED <<kicks, ops, git, removal, project, closed, owned,
                     creating, threads, disk, branches, projectMu>>
  PROVE  PlaceInv'
<1>1. /\ jobs[c].pc = "busy"
      /\ \/ /\ Moves(c, "return", "failed")
            /\ writes' = [writes EXCEPT ![Folder] = None]
         \/ /\ ~BusyIn(Folder) /\ Moves(c, "switch", jobs[c].end)
            /\ UNCHANGED writes
  BY GoesMoves, EndsMoves DEF Check, Fails
<1>2. /\ \A u \in Threads : Place(u)' = Place(u)
      /\ \A d \in Creates : OwnPlace(d)' = OwnPlace(d)
  BY <1>1, PlacesStay DEF Moves
<1>3. PlacesFit
  BY PlacesTyped DEF PlaceInv
<1>4. WorkTyped'
  BY <1>1 DEF PlaceInv, WorkTyped
<1>5. Unmade'
  BY <1>1 DEF PlaceInv, Before, Unmade, Moves
<1>6. Writers'
  BY <1>1, WorkplacesConstants DEF PlaceInv, WorkTyped, Moves, Writers
<1>7. PutAwayIsIdle'
  BY DEF PlaceInv, PutAwayIsIdle
<1>8. ConvHasPlace'
  BY <1>1, <1>2 DEF PlaceInv, Listed, Threads, Moves, ConvHasPlace, HasPlace
<1>9. RemovesUnused'
  BY <1>1, <1>2
     DEF PlaceInv, WorkTyped, Listed, Threads, Moves, RemovesUnused
<1>10. ProjectLocked'
  BY <1>1 DEF PlaceInv, Listed, Moves, ProjectLocked
<1>11. RemovalLocked'
  BY <1>2 DEF PlaceInv, Listed, RemovalLocked
<1>12. KindsFit'
  BY <1>1 DEF PlaceInv, Moves, Kept, KindsFit
<1>13. Ended'
  BY <1>1 DEF PlaceInv, Before, Moves, Ended
<1>14. Branched'
  BY <1>1 DEF PlaceInv, Moves, Branched, KindsFit, Ended, OwnPlace
<1>15. WritesAreQuiet'
  BY <1>1, <1>2, <1>3, WorkplacesConstants
     DEF PlaceInv, WorkTyped, Listed, Busy, BusyIn, WritesAreQuiet, Writing,
         Writers, PlacesFit
<1> QED
  BY <1>4, <1>5, <1>6, <1>7, <1>8, <1>9, <1>10, <1>11, <1>12, <1>13, <1>14,
     <1>15
     DEF PlaceInv

LEMMA SwitchPlaces ==
  ASSUME Inv, Inv', PlaceInv, NEW c \in Creates, Switch(c),
         UNCHANGED <<kicks, ops, git, removal, project, closed, owned,
                     creating, threads, disk, branches, projectMu>>
  PROVE  PlaceInv'
<1>1. /\ jobs[c].pc = "switch" /\ writes' = [writes EXCEPT ![Folder] = None]
      /\ Moves(c, "open", jobs[c].end) \/ Moves(c, "return", "failed")
  BY GoesMoves, EndsMoves DEF Switch, Fails
<1>2. /\ \A u \in Threads : Place(u)' = Place(u)
      /\ \A d \in Creates : OwnPlace(d)' = OwnPlace(d)
  BY <1>1, PlacesStay DEF Moves
<1>3. PlacesFit
  BY PlacesTyped DEF PlaceInv
<1>4. WorkTyped'
  BY <1>1 DEF PlaceInv, WorkTyped, Places
<1>5. Unmade'
  BY <1>1 DEF PlaceInv, Before, Unmade, Moves
<1>6. Writers'
  BY <1>1, WorkplacesConstants DEF PlaceInv, WorkTyped, Moves, Writers
<1>7. PutAwayIsIdle'
  BY DEF PlaceInv, PutAwayIsIdle
<1>8. ConvHasPlace'
  BY <1>1, <1>2 DEF PlaceInv, Listed, Threads, Moves, ConvHasPlace, HasPlace
<1>9. RemovesUnused'
  BY <1>1, <1>2, <1>3
     DEF PlaceInv, WorkTyped, Listed, Threads, Moves, RemovesUnused,
         KindsFit, PlacesFit
<1>10. ProjectLocked'
  BY <1>1 DEF PlaceInv, Listed, Moves, ProjectLocked
<1>11. RemovalLocked'
  BY <1>2 DEF PlaceInv, Listed, RemovalLocked
<1>12. KindsFit'
  BY <1>1 DEF PlaceInv, Moves, Kept, KindsFit
<1>13. Ended'
  BY <1>1 DEF PlaceInv, Before, Moves, Ended
<1>14. Branched'
  BY <1>1 DEF PlaceInv, Moves, Kept, Branched, KindsFit, Ended, OwnPlace
<1>15. WritesAreQuiet'
  BY <1>1, <1>2, WorkplacesConstants
     DEF PlaceInv, Listed, Moves, WritesAreQuiet, Writing
<1> QED
  BY <1>4, <1>5, <1>6, <1>7, <1>8, <1>9, <1>10, <1>11, <1>12, <1>13, <1>14,
     <1>15
     DEF PlaceInv

LEMMA OpenPlaces ==
  ASSUME Inv, Inv', PlaceInv, NEW c \in Creates, Open(c),
         UNCHANGED <<kicks, ops, git, removal, project, closed, owned,
                     creating, threads, disk, branches, writes, projectMu>>
  PROVE  PlaceInv'
<1>1. /\ jobs[c].pc = "open"
      /\ \/ /\ Place(c) # Folder => Place(c) \in disk
            /\ Moves(c, "store", jobs[c].end)
         \/ Moves(c, "undo", "failed")
  BY GoesMoves, EndsMoves DEF Open, Undoes
<1>2. /\ \A u \in Threads : Place(u)' = Place(u)
      /\ \A d \in Creates : OwnPlace(d)' = OwnPlace(d)
  BY <1>1, PlacesStay DEF Moves
<1>3. WorkTyped'
  BY DEF PlaceInv, WorkTyped
<1>4. Unmade'
  BY <1>1 DEF PlaceInv, Before, Unmade, Moves
<1>5. Writers'
  BY <1>1 DEF PlaceInv, Moves, Writers
<1>6. PutAwayIsIdle'
  BY DEF PlaceInv, PutAwayIsIdle
<1>7. ConvHasPlace'
  BY <1>1, <1>2 DEF PlaceInv, Listed, Threads, Moves, ConvHasPlace, HasPlace
<1>8. RemovesUnused'
  BY <1>1, <1>2
     DEF PlaceInv, WorkTyped, Listed, Threads, Moves, RemovesUnused
<1>9. ProjectLocked'
  BY <1>1 DEF PlaceInv, Listed, Moves, ProjectLocked
<1>10. RemovalLocked'
  BY <1>2 DEF PlaceInv, Listed, RemovalLocked
<1>11. KindsFit'
  BY <1>1 DEF PlaceInv, Moves, Kept, KindsFit
<1>12. Ended'
  BY <1>1 DEF PlaceInv, Before, Moves, Ended
<1>13. Branched'
  BY <1>1 DEF PlaceInv, Moves, Kept, Branched, Ended, OwnPlace
<1>14. WritesAreQuiet'
  BY <1>1, <1>2 DEF PlaceInv, Listed, Moves, WritesAreQuiet, Writing
<1> QED
  BY <1>3, <1>4, <1>5, <1>6, <1>7, <1>8, <1>9, <1>10, <1>11, <1>12, <1>13,
     <1>14
     DEF PlaceInv

LEMMA StorePlaces ==
  ASSUME Inv, Inv', PlaceInv, NEW c \in Creates, Store(c),
         UNCHANGED <<kicks, ops, git, removal, project, closed, owned,
                     creating, disk, branches, writes>>
  PROVE  PlaceInv'
<1>1. /\ jobs[c].pc = "store"
      /\ \/ Moves(c, "undo", "failed") /\ UNCHANGED threads
         \/ Moves(c, "undo", "noroom") /\ UNCHANGED threads
         \/ /\ project.listed /\ ~closed /\ Moves(c, "list", jobs[c].end)
            /\ \A u \in Threads \ {c} : threads'[u] = threads[u]
            /\ threads'[c].rec /\ threads'[c].listed = threads[c].listed
            /\ threads'[c].stage = threads[c].stage
            /\ threads'[c].working = threads[c].working
            /\ threads'[c].conv = threads[c].conv
            /\ threads'[c].op = threads[c].op
  BY GoesMoves, EndsMoves
     DEF Store, Undoes, Inv, ThreadsTyped, ThreadRecords, Threads
<1>2. /\ \A u \in Threads : Place(u)' = Place(u)
      /\ \A d \in Creates : OwnPlace(d)' = OwnPlace(d)
  BY <1>1, PlacesStay DEF Moves
<1>3. WorkTyped'
  BY DEF PlaceInv, WorkTyped
<1>4. Unmade'
  BY <1>1 DEF PlaceInv, Before, Threads, Unmade, Moves
<1>5. Writers'
  BY <1>1 DEF PlaceInv, Moves, Writers
<1>6. PutAwayIsIdle'
  BY <1>1 DEF PlaceInv, PutAwayIsIdle
<1>7. ConvHasPlace'
  BY <1>1, <1>2 DEF PlaceInv, Listed, Threads, Moves, ConvHasPlace, HasPlace
<1>8. RemovesUnused'
  BY <1>1, <1>2
     DEF PlaceInv, WorkTyped, Listed, Threads, Moves, RemovesUnused
<1>9. ProjectLocked'
  BY <1>1, WorkplacesConstants
     DEF Inv, PlaceInv, Listed, Moves, ProjectLocked, ProjectIsHeld
<1>10. RemovalLocked'
  BY <1>1, <1>2 DEF PlaceInv, WorkTyped, RemovalRecords, Listed, RemovalLocked
<1>11. KindsFit'
  BY <1>1 DEF PlaceInv, Moves, Kept, KindsFit
<1>12. Ended'
  BY <1>1 DEF PlaceInv, Before, Moves, Ended
<1>13. Branched'
  BY <1>1 DEF PlaceInv, Threads, Moves, Kept, Branched, Ended, OwnPlace
<1>14. WritesAreQuiet'
  BY <1>1, <1>2 DEF PlaceInv, Listed, Moves, WritesAreQuiet, Writing
<1> QED
  BY <1>3, <1>4, <1>5, <1>6, <1>7, <1>8, <1>9, <1>10, <1>11, <1>12, <1>13,
     <1>14
     DEF PlaceInv

LEMMA ListPlaces ==
  ASSUME Inv, Inv', PlaceInv, NEW c \in Creates, List(c),
         UNCHANGED <<kicks, ops, git, removal, project, closed, owned,
                     creating, disk, branches, writes>>
  PROVE  PlaceInv'
<1>1. /\ jobs[c].pc = "list"
      /\ \/ closed /\ Moves(c, "undo", "failed") /\ UNCHANGED threads
         \/ /\ ~closed /\ Moves(c, "prompt", "made")
            /\ \A u \in Threads \ {c} : threads'[u] = threads[u]
            /\ threads'[c].listed /\ threads'[c].conv
            /\ threads'[c].rec = threads[c].rec
            /\ threads'[c].stage = threads[c].stage
            /\ threads'[c].working = threads[c].working
            /\ threads'[c].op = threads[c].op
  BY GoesMoves, EndsMoves, WorkplacesConstants
     DEF List, Undoes, Inv, ThreadsTyped, ThreadRecords, Threads
<1>2. /\ \A u \in Threads : Place(u)' = Place(u)
      /\ \A d \in Creates : OwnPlace(d)' = OwnPlace(d)
  BY <1>1, PlacesStay DEF Moves
<1>3. WorkTyped'
  BY DEF PlaceInv, WorkTyped
<1>4. Unmade'
  BY <1>1 DEF PlaceInv, Before, Threads, Unmade, Moves
<1>5. Writers'
  BY <1>1 DEF PlaceInv, Moves, Writers
<1>6. PutAwayIsIdle'
  BY <1>1 DEF PlaceInv, Before, Unmade, PutAwayIsIdle
<1>7. ConvHasPlace'
  BY <1>1, <1>2 DEF PlaceInv, Listed, Threads, Moves, ConvHasPlace, HasPlace
<1>8. RemovesUnused'
  BY <1>1, <1>2
     DEF PlaceInv, WorkTyped, Listed, Threads, Moves, RemovesUnused
<1>9. ProjectLocked'
  BY <1>1, WorkplacesConstants
     DEF Inv, PlaceInv, ProjectLocked, ProjectIsHeld
<1>10. RemovalLocked'
  BY <1>1, <1>2, WorkplacesConstants
     DEF PlaceInv, WorkTyped, RemovalRecords, Before, Listed, Unmade,
         RemovalLocked
<1>11. KindsFit'
  BY <1>1 DEF PlaceInv, Moves, Kept, KindsFit
<1>12. Ended'
  BY <1>1 DEF PlaceInv, Before, Moves, Ended
<1>13. Branched'
  BY <1>1 DEF PlaceInv, Threads, Moves, Kept, Branched, OwnPlace
<1>14. WritesAreQuiet'
  BY <1>1, <1>2
     DEF PlaceInv, Before, Listed, Unmade, Moves, WritesAreQuiet, Writing
<1> QED
  BY <1>3, <1>4, <1>5, <1>6, <1>7, <1>8, <1>9, <1>10, <1>11, <1>12, <1>13,
     <1>14
     DEF PlaceInv

LEMMA PromptPlaces ==
  ASSUME Inv, Inv', PlaceInv, NEW c \in Creates, Prompt(c),
         UNCHANGED <<kicks, ops, git, removal, project, closed, owned,
                     creating, disk, branches, writes, projectMu>>
  PROVE  PlaceInv'
<1>1. /\ jobs[c].pc = "prompt"
      /\ \/ /\ threads[c].op = "none" /\ threads[c].listed
            /\ threads[c].stage = "active"
            /\ ~threads[c].working
            /\ Moves(c, "sending", jobs[c].end) /\ threads'[c].op = "send"
            /\ Same(c) /\ threads'[c].conv = threads[c].conv
            /\ \A u \in Threads \ {c} : threads'[u] = threads[u]
         \/ Moves(c, "return", jobs[c].end) /\ UNCHANGED threads
  BY GoesMoves, EndsMoves
     DEF Prompt, Same, Inv, ThreadsTyped, ThreadRecords, Threads
<1>2. /\ \A u \in Threads : Place(u)' = Place(u)
      /\ \A d \in Creates : OwnPlace(d)' = OwnPlace(d)
  BY <1>1, PlacesStay DEF Moves
<1>3. WorkTyped'
  BY DEF PlaceInv, WorkTyped
<1>4. Unmade'
  BY <1>1 DEF PlaceInv, Before, Threads, Unmade, Moves
<1>5. Writers'
  BY <1>1 DEF PlaceInv, Moves, Writers
<1>6. PutAwayIsIdle'
  BY <1>1 DEF PlaceInv, PutAwayIsIdle, Same
<1>7. ConvHasPlace'
  BY <1>1, <1>2
     DEF PlaceInv, Listed, Threads, Moves, Same, ConvHasPlace, HasPlace
<1>8. RemovesUnused'
  BY <1>1, <1>2
     DEF PlaceInv, WorkTyped, Listed, Threads, Moves, Same, RemovesUnused
<1>9. ProjectLocked'
  BY <1>1 DEF PlaceInv, Listed, Threads, Moves, ProjectLocked
<1>10. RemovalLocked'
  BY <1>1, <1>2 DEF PlaceInv, WorkTyped, RemovalRecords, Listed, RemovalLocked
<1>11. KindsFit'
  BY <1>1 DEF PlaceInv, Moves, Kept, KindsFit
<1>12. Ended'
  BY <1>1 DEF PlaceInv, Before, Moves, Ended
<1>13. Branched'
  BY <1>1 DEF PlaceInv, Threads, Moves, Kept, Branched, Ended, OwnPlace
<1>14. WritesAreQuiet'
  BY <1>1, <1>2 DEF PlaceInv, Listed, Moves, Same, WritesAreQuiet, Writing
<1> QED
  BY <1>3, <1>4, <1>5, <1>6, <1>7, <1>8, <1>9, <1>10, <1>11, <1>12, <1>13,
     <1>14
     DEF PlaceInv

LEMMA UndoPlaces ==
  ASSUME Inv, Inv', PlaceInv, NEW c \in Creates, Undo(c),
         UNCHANGED <<kicks, ops, git, removal, project, closed, owned,
                     creating, threads, writes, projectMu>>
  PROVE  PlaceInv'
<1>1. /\ jobs[c].pc = "undo"
      /\ \/ /\ Moves(c, "return", jobs[c].end)
            /\ IF OwnPlace(c)
               THEN disk' = disk \ {c} /\ branches' = branches \ {c}
               ELSE UNCHANGED <<disk, branches>>
         \/ /\ Moves(c, "return", "kept") /\ UNCHANGED branches
            /\ disk' \in {disk, disk \ {c}}
  BY GoesMoves, EndsMoves DEF Undo
<1>2. /\ \A u \in Threads : Place(u)' = Place(u)
      /\ \A d \in Creates : OwnPlace(d)' = OwnPlace(d)
  BY <1>1, PlacesStay DEF Moves
<1>3. PlacesFit
  BY PlacesTyped DEF PlaceInv
<1>4. WorkTyped'
  BY <1>1 DEF PlaceInv, WorkTyped
<1>5. Unmade'
  BY <1>1 DEF PlaceInv, Before, Unmade, Moves
<1>6. Writers'
  BY <1>1 DEF PlaceInv, Moves, Writers
<1>7. PutAwayIsIdle'
  BY DEF PlaceInv, PutAwayIsIdle
<1>8. ConvHasPlace'
  BY <1>1, <1>2, <1>3
     DEF Inv, PlaceInv, ListedIsPast, Listed, Threads, Moves, ConvHasPlace,
         HasPlace, PlacesFit
<1>9. RemovesUnused'
  BY <1>1, <1>2
     DEF PlaceInv, WorkTyped, Listed, Threads, Moves, RemovesUnused
<1>10. ProjectLocked'
  BY <1>1 DEF PlaceInv, Listed, Moves, ProjectLocked
<1>11. RemovalLocked'
  BY <1>2 DEF PlaceInv, Listed, RemovalLocked
<1>12. KindsFit'
  BY <1>1 DEF PlaceInv, Moves, Kept, KindsFit
<1>13. Ended'
  BY <1>1 DEF PlaceInv, Before, Moves, Ended
<1>14. Branched'
  <2>1. jobs[c].end \in {"failed", "noroom"} /\ "kept" # "made"
    BY <1>1 DEF PlaceInv, Ended
  <2>2. CASE /\ Moves(c, "return", jobs[c].end)
             /\ OwnPlace(c)
             /\ disk' = disk \ {c} /\ branches' = branches \ {c}
    BY <1>1, <1>2, <2>1, <2>2 DEF PlaceInv, Moves, Branched
  <2>3. CASE /\ Moves(c, "return", jobs[c].end)
             /\ ~OwnPlace(c) /\ UNCHANGED <<disk, branches>>
    BY <1>1, <1>2, <2>1, <2>3 DEF PlaceInv, Moves, Branched
  <2>4. CASE /\ Moves(c, "return", "kept") /\ UNCHANGED branches
             /\ disk' \in {disk, disk \ {c}}
    BY <1>1, <1>2, <2>1, <2>4 DEF PlaceInv, Moves, Branched
  <2> QED
    BY <1>1, <2>2, <2>3, <2>4
<1>15. WritesAreQuiet'
  BY <1>1, <1>2 DEF PlaceInv, Listed, Moves, WritesAreQuiet, Writing
<1> QED
  BY <1>4, <1>5, <1>6, <1>7, <1>8, <1>9, <1>10, <1>11, <1>12, <1>13, <1>14,
     <1>15
     DEF PlaceInv

LEMMA ReturnPlaces ==
  ASSUME Inv, Inv', PlaceInv, NEW c \in Creates, Return(c),
         UNCHANGED <<kicks, ops, git, removal, project, closed, owned, threads,
                     disk, branches, writes, projectMu>>
  PROVE  PlaceInv'
<1>1. /\ jobs[c].pc = "return" /\ Kept /\ jobs'[c].pc = "over"
      /\ \A d \in Creates :
           /\ jobs'[d].end = jobs[d].end
           /\ d # c =>
                \/ jobs'[d].pc = jobs[d].pc
                \/ (jobs[d].pc = "wait" /\ jobs'[d].pc = "claim")
  BY DEF Return, Kept, Inv, JobsTyped, JobRecords
<1>2. /\ \A u \in Threads : Place(u)' = Place(u)
      /\ \A d \in Creates : OwnPlace(d)' = OwnPlace(d)
  BY <1>1, PlacesStay DEF Moves
<1>3. WorkTyped'
  BY DEF PlaceInv, WorkTyped
<1>4. Unmade'
  BY <1>1 DEF PlaceInv, Before, Unmade
<1>5. Writers'
  BY <1>1 DEF PlaceInv, Writers
<1>6. PutAwayIsIdle'
  BY DEF PlaceInv, PutAwayIsIdle
<1>7. ConvHasPlace'
  BY <1>1, <1>2 DEF PlaceInv, Listed, Threads, ConvHasPlace, HasPlace
<1>8. RemovesUnused'
  BY <1>1, <1>2 DEF PlaceInv, WorkTyped, Listed, Threads, RemovesUnused
<1>9. ProjectLocked'
  BY <1>1 DEF PlaceInv, Listed, ProjectLocked
<1>10. RemovalLocked'
  BY <1>2 DEF PlaceInv, Listed, RemovalLocked
<1>11. KindsFit'
  BY <1>1 DEF PlaceInv, Kept, KindsFit
<1>12. Ended'
  BY <1>1 DEF PlaceInv, Before, Ended
<1>13. Branched'
  BY <1>1 DEF PlaceInv, Kept, Branched, OwnPlace
<1>14. WritesAreQuiet'
  BY <1>1, <1>2 DEF PlaceInv, Listed, WritesAreQuiet, Writing
<1> QED
  BY <1>3, <1>4, <1>5, <1>6, <1>7, <1>8, <1>9, <1>10, <1>11, <1>12, <1>13,
     <1>14
     DEF PlaceInv

LEMMA SendsPlaces ==
  ASSUME Inv, Inv', PlaceInv, NEW t \in Threads, Sends(t),
         UNCHANGED <<jobs, disk, creating, branches, kicks, ops, writes, git,
                     removal, project, projectMu, closed>>
  PROVE  PlaceInv'
<1>1. Kept
  BY DEF Kept
<1>2. /\ \A u \in Threads : Place(u)' = Place(u)
      /\ \A d \in Creates : OwnPlace(d)' = OwnPlace(d)
  BY <1>1, PlacesStay DEF Moves
<1>3. WorkTyped'
  BY DEF PlaceInv, WorkTyped
<1>4. Unmade'
  BY DEF PlaceInv, Unmade, Sends
<1>5. Writers'
  BY DEF PlaceInv, Writers
<1>6. PutAwayIsIdle'
  BY DEF PlaceInv, PutAwayIsIdle, Sends
<1>7. ConvHasPlace'
  BY <1>2 DEF PlaceInv, Listed, Threads, Sends, ConvHasPlace, HasPlace
<1>8. RemovesUnused'
  BY <1>2 DEF PlaceInv, WorkTyped, Listed, Threads, Sends, RemovesUnused
<1>9. ProjectLocked'
  BY DEF PlaceInv, Listed, Sends, ProjectLocked
<1>10. RemovalLocked'
  BY <1>2 DEF PlaceInv, Listed, Sends, RemovalLocked
<1>11. KindsFit'
  BY DEF PlaceInv, KindsFit
<1>12. Ended'
  BY DEF PlaceInv, Ended
<1>13. Branched'
  BY DEF PlaceInv, Sends, Branched, OwnPlace
<1>14. WritesAreQuiet'
  BY <1>2 DEF PlaceInv, Listed, Sends, WritesAreQuiet, Writing
<1> QED
  BY <1>3, <1>4, <1>5, <1>6, <1>7, <1>8, <1>9, <1>10, <1>11, <1>12, <1>13,
     <1>14
     DEF PlaceInv

LEMMA OpensPlaces ==
  ASSUME Inv, Inv', PlaceInv, NEW t \in Threads, Opens(t),
         UNCHANGED <<creating, branches, kicks, ops, writes, git, removal,
                     project, projectMu, closed>>
  PROVE  PlaceInv'
<1>1. Kept
  BY DEF Kept, Opens
<1>2. /\ \A u \in Threads : Place(u)' = Place(u)
      /\ \A d \in Creates : OwnPlace(d)' = OwnPlace(d)
  BY <1>1, PlacesStay DEF Moves
<1>3. WorkTyped'
  BY DEF PlaceInv, WorkTyped, Opens
<1>4. Unmade'
  BY DEF PlaceInv, Unmade, Opens
<1>5. Writers'
  BY DEF PlaceInv, Opens, Writers
<1>6. PutAwayIsIdle'
  BY DEF PlaceInv, PutAwayIsIdle, Opens
<1>7. ConvHasPlace'
  BY <1>2 DEF PlaceInv, Listed, Threads, Opens, ConvHasPlace, HasPlace
<1>8. RemovesUnused'
  BY <1>2 DEF PlaceInv, WorkTyped, Listed, Threads, Opens, RemovesUnused
<1>9. ProjectLocked'
  BY DEF PlaceInv, Listed, Opens, ProjectLocked
<1>10. RemovalLocked'
  BY <1>2 DEF PlaceInv, Listed, Opens, RemovalLocked
<1>11. KindsFit'
  BY DEF PlaceInv, Opens, KindsFit
<1>12. Ended'
  BY DEF PlaceInv, Opens, Ended
<1>13. Branched'
  BY DEF PlaceInv, Opens, Branched, OwnPlace
<1>14. WritesAreQuiet'
  BY <1>2 DEF PlaceInv, Listed, Opens, WritesAreQuiet, Writing
<1> QED
  BY <1>3, <1>4, <1>5, <1>6, <1>7, <1>8, <1>9, <1>10, <1>11, <1>12, <1>13,
     <1>14
     DEF PlaceInv

LEMMA OpenedPlaces ==
  ASSUME Inv, Inv', PlaceInv, NEW t \in Threads, Opened(t),
         UNCHANGED <<creating, branches, kicks, ops, writes, git, removal,
                     project, projectMu, closed>>
  PROVE  PlaceInv'
<1>1. /\ Kept
      /\ \A d \in Creates :
           /\ jobs'[d].end = jobs[d].end
           /\ \/ jobs'[d].pc = jobs[d].pc
              \/ d = t /\ jobs[d].pc = "sending" /\ jobs'[d].pc = "return"
  BY DEF Sent, Kept, Inv, JobsTyped, JobRecords, Opened
<1>2. /\ threads[t].op = "opening"
      /\ Place(t) = Folder \/ ~project.listed \/ ops = None
      /\ disk \subseteq disk'
      /\ disk' # disk =>
           /\ ops = None /\ Place(t) # Folder /\ Place(t) \in branches
           /\ disk' = disk \cup {Place(t)}
      /\ \A u \in Threads : Same(u) /\ (u # t => threads'[u] = threads[u])
      /\ \/ /\ Place(t) # Folder => Place(t) \in disk'
            /\ threads'[t].op = "send" /\ threads'[t].conv = TRUE
         \/ threads'[t].op = "none" /\ threads'[t].conv = threads[t].conv
  BY DEF Opened, Recreates, Same, Inv, ThreadsTyped, ThreadRecords
<1>3. /\ \A u \in Threads : Place(u)' = Place(u)
      /\ \A d \in Creates : OwnPlace(d)' = OwnPlace(d)
  BY <1>1, PlacesStay DEF Moves
<1>4. PlacesFit
  BY PlacesTyped DEF PlaceInv
<1>5. WorkTyped'
  BY <1>2 DEF PlaceInv, WorkTyped
<1>6. Unmade'
  BY <1>1, <1>2 DEF PlaceInv, Before, Threads, Unmade
<1>7. Writers'
  BY <1>1 DEF PlaceInv, Writers
<1>8. PutAwayIsIdle'
  BY <1>2 DEF PlaceInv, PutAwayIsIdle, Same
<1>9. ConvHasPlace'
  BY <1>1, <1>2, <1>3
     DEF PlaceInv, Listed, Threads, Same, ConvHasPlace, HasPlace
<1>10. RemovesUnused'
  <2>1. ops' = ops /\ Listed' \subseteq Listed /\ Listed' \subseteq Threads
    BY <1>1, <1>2 DEF Listed, Threads, Same
  <2>2. SUFFICES ASSUME ops # None PROVE RemovesUnused'
    BY <2>1 DEF RemovesUnused
  <2>3. Place(ops) # Folder /\ ops \in Threads /\ Place(ops)' = Place(ops)
    BY <1>3, <2>2 DEF PlaceInv, RemovesUnused, WorkTyped
  <2>4. \A u \in Listed' : Place(u)' = Place(ops)' =>
          ~threads'[u].conv /\ ~threads'[u].working
    BY <1>1, <1>2, <1>3, <2>1, <2>2, <2>3
       DEF PlaceInv, Listed, Same, RemovesUnused, ProjectLocked
  <2>5. \A d \in Creates : Place(d)' = Place(ops)' =>
          jobs'[d].pc \notin {"open", "store", "list"}
    BY <1>1, <1>3, <2>2, <2>3 DEF PlaceInv, RemovesUnused, Threads
  <2> QED BY <2>1, <2>3, <2>4, <2>5 DEF RemovesUnused
<1>11. ProjectLocked'
  BY <1>1, <1>2
     DEF PlaceInv, ProjectLocked, Listed, Same, Inv, ProjectTyped, Threads
<1>12. RemovalLocked'
  BY <1>2, <1>3, <1>4
     DEF PlaceInv, WorkTyped, RemovalRecords, Listed, Same, RemovalLocked,
         PlacesFit
<1>13. KindsFit'
  BY <1>1 DEF PlaceInv, Kept, KindsFit
<1>14. Ended'
  BY <1>1 DEF PlaceInv, Before, Ended
<1>15. Branched'
  BY <1>1, <1>2 DEF PlaceInv, Threads, Same, Kept, Branched, Ended, OwnPlace
<1>16. WritesAreQuiet'
  BY <1>1, <1>2, <1>3 DEF PlaceInv, Listed, Same, WritesAreQuiet, Writing
<1> QED
  BY <1>5, <1>6, <1>7, <1>8, <1>9, <1>10, <1>11, <1>12, <1>13, <1>14, <1>15,
     <1>16
     DEF PlaceInv

LEMMA BeginsPlaces ==
  ASSUME Inv, Inv', PlaceInv, NEW t \in Threads, Begins(t),
         UNCHANGED <<creating, branches, kicks, ops, writes, git, removal,
                     project, projectMu, closed>>
  PROVE  PlaceInv'
<1>1. /\ Kept
      /\ \A d \in Creates :
           /\ jobs'[d].end = jobs[d].end
           /\ \/ jobs'[d].pc = jobs[d].pc
              \/ d = t /\ jobs[d].pc = "sending" /\ jobs'[d].pc = "return"
  BY DEF Sent, Kept, Inv, JobsTyped, JobRecords, Begins
<1>2. /\ threads[t].op = "send" /\ threads[t].conv /\ UNCHANGED disk
      /\ \A u \in Threads \ {t} : threads'[u] = threads[u]
      /\ threads'[t].conv /\ threads'[t].op = "none"
      /\ threads'[t].listed = threads[t].listed
      /\ threads'[t].stage = threads[t].stage
      /\ threads'[t].rec = threads[t].rec
      /\ \/ writes[Place(t)] = None
         \/ threads'[t].working = threads[t].working
  BY DEF Begins, Same, Inv, ThreadsTyped, ThreadRecords
<1>3. /\ \A u \in Threads : Place(u)' = Place(u)
      /\ \A d \in Creates : OwnPlace(d)' = OwnPlace(d)
  BY <1>1, PlacesStay DEF Moves
<1>4. WorkTyped'
  BY <1>2 DEF PlaceInv, WorkTyped
<1>5. Unmade'
  BY <1>1, <1>2 DEF PlaceInv, Before, Threads, Unmade
<1>6. Writers'
  BY <1>1 DEF PlaceInv, Writers
<1>7. PutAwayIsIdle'
  BY <1>2 DEF PlaceInv, PutAwayIsIdle
<1>8. ConvHasPlace'
  BY <1>1, <1>2, <1>3 DEF PlaceInv, Listed, Threads, ConvHasPlace, HasPlace
<1>9. RemovesUnused'
  BY <1>1, <1>2, <1>3 DEF PlaceInv, WorkTyped, Listed, Threads, RemovesUnused
<1>10. ProjectLocked'
  BY <1>1, <1>2 DEF Inv, PlaceInv, ProjectTyped, Listed, ProjectLocked
<1>11. RemovalLocked'
  BY <1>2, <1>3 DEF PlaceInv, WorkTyped, RemovalRecords, Listed, RemovalLocked
<1>12. KindsFit'
  BY <1>1 DEF PlaceInv, Kept, KindsFit
<1>13. Ended'
  BY <1>1 DEF PlaceInv, Before, Ended
<1>14. Branched'
  BY <1>1, <1>2 DEF PlaceInv, Threads, Kept, Branched, Ended, OwnPlace
<1>15. WritesAreQuiet'
  BY <1>1, <1>2, <1>3, WorkplacesConstants
     DEF PlaceInv, Listed, WritesAreQuiet, Writing
<1> QED
  BY <1>4, <1>5, <1>6, <1>7, <1>8, <1>9, <1>10, <1>11, <1>12, <1>13, <1>14,
     <1>15
     DEF PlaceInv

LEMMA TurnEndsPlaces ==
  ASSUME Inv, Inv', PlaceInv, NEW t \in Threads, TurnEnds(t),
         UNCHANGED <<creating, branches, kicks, ops, writes, git, removal,
                     project, projectMu, closed>>
  PROVE  PlaceInv'
<1>1. Kept
  BY DEF Kept, TurnEnds
<1>2. /\ \A u \in Threads : Place(u)' = Place(u)
      /\ \A d \in Creates : OwnPlace(d)' = OwnPlace(d)
  BY <1>1, PlacesStay DEF Moves
<1>3. WorkTyped'
  BY DEF PlaceInv, WorkTyped, TurnEnds
<1>4. Unmade'
  BY DEF PlaceInv, Unmade, TurnEnds
<1>5. Writers'
  BY DEF PlaceInv, TurnEnds, Writers
<1>6. PutAwayIsIdle'
  BY DEF PlaceInv, PutAwayIsIdle, TurnEnds
<1>7. ConvHasPlace'
  BY <1>2 DEF PlaceInv, Listed, Threads, TurnEnds, ConvHasPlace, HasPlace
<1>8. RemovesUnused'
  BY <1>2 DEF PlaceInv, WorkTyped, Listed, Threads, TurnEnds, RemovesUnused
<1>9. ProjectLocked'
  BY DEF PlaceInv, Listed, TurnEnds, ProjectLocked
<1>10. RemovalLocked'
  BY <1>2 DEF PlaceInv, Listed, TurnEnds, RemovalLocked
<1>11. KindsFit'
  BY DEF PlaceInv, TurnEnds, KindsFit
<1>12. Ended'
  BY DEF PlaceInv, TurnEnds, Ended
<1>13. Branched'
  BY DEF PlaceInv, TurnEnds, Branched, OwnPlace
<1>14. WritesAreQuiet'
  BY <1>2 DEF PlaceInv, Listed, TurnEnds, WritesAreQuiet, Writing
<1> QED
  BY <1>3, <1>4, <1>5, <1>6, <1>7, <1>8, <1>9, <1>10, <1>11, <1>12, <1>13,
     <1>14
     DEF PlaceInv

LEMMA RestagePlaces ==
  ASSUME Inv, Inv', PlaceInv, NEW t \in Threads, NEW to \in Stages,
         Restage(t, to),
         UNCHANGED <<jobs, disk, creating, branches, ops, writes, git, removal,
                     project, projectMu, closed>>
  PROVE  PlaceInv'
<1>1. Kept
  BY DEF Kept
<1>2. \E b \in BOOLEAN :
        /\ b => threads[t].conv /\ threads[t].stage # "active"
        /\ threads' = [threads EXCEPT ![t].stage = to, ![t].conv = b]
  BY DEF Restage
<1>3. /\ \A u \in Threads \ {t} : threads'[u] = threads[u]
      /\ threads'[t].rec = threads[t].rec
      /\ threads'[t].listed = threads[t].listed
      /\ threads'[t].working = threads[t].working
      /\ threads'[t].op = threads[t].op
      /\ threads'[t].conv => threads[t].conv /\ threads[t].stage # "active"
      /\ threads'[t].stage = to
  BY <1>2 DEF Inv, ThreadsTyped, ThreadRecords
<1>4. /\ threads[t].op = "none" /\ threads[t].listed
      /\ threads[t].stage = "active" => ~threads[t].working
      /\ kicks' \in [Threads -> Nat]
      /\ \A u \in Threads \ {t} : kicks'[u] = kicks[u]
  BY DEF Restage, Kicks, PlaceInv, WorkTyped
<1>5. /\ \A u \in Threads : Place(u)' = Place(u)
      /\ \A d \in Creates : OwnPlace(d)' = OwnPlace(d)
  BY <1>1, PlacesStay DEF Moves
<1>6. WorkTyped'
  BY <1>4 DEF PlaceInv, WorkTyped
<1>7. Unmade'
  BY <1>3, <1>4 DEF PlaceInv, Threads, Unmade
<1>8. Writers'
  BY DEF PlaceInv, Writers
<1>9. PutAwayIsIdle'
  BY <1>3, <1>4 DEF PlaceInv, PutAwayIsIdle
<1>10. ConvHasPlace'
  BY <1>3, <1>5 DEF PlaceInv, Listed, Threads, ConvHasPlace, HasPlace
<1>11. RemovesUnused'
  BY <1>3, <1>5 DEF PlaceInv, WorkTyped, Listed, Threads, RemovesUnused
<1>12. ProjectLocked'
  BY <1>3, <1>4 DEF PlaceInv, Listed, ProjectLocked
<1>13. RemovalLocked'
  BY <1>3, <1>5 DEF PlaceInv, WorkTyped, RemovalRecords, Listed, RemovalLocked
<1>14. KindsFit'
  BY DEF PlaceInv, KindsFit
<1>15. Ended'
  BY DEF PlaceInv, Ended
<1>16. Branched'
  BY <1>3 DEF PlaceInv, Threads, Branched, OwnPlace
<1>17. WritesAreQuiet'
  BY <1>3, <1>5 DEF PlaceInv, Listed, WritesAreQuiet, Writing
<1> QED
  BY <1>6, <1>7, <1>8, <1>9, <1>10, <1>11, <1>12, <1>13, <1>14, <1>15, <1>16,
     <1>17
     DEF PlaceInv

LEMMA DeletePlaces ==
  ASSUME Inv, Inv', PlaceInv, NEW t \in Threads, Delete(t),
         UNCHANGED <<jobs, disk, creating, branches, ops, writes, git, removal,
                     project, projectMu, closed, kicks>>
  PROVE  PlaceInv'
<1>1. Kept
  BY DEF Kept
<1>2. /\ \A u \in Threads : Place(u)' = Place(u)
      /\ \A d \in Creates : OwnPlace(d)' = OwnPlace(d)
  BY <1>1, PlacesStay DEF Moves
<1>3. WorkTyped'
  BY DEF PlaceInv, WorkTyped
<1>4. Unmade'
  BY DEF Inv, PlaceInv, ThreadsTyped, Threads, Unmade, Delete
<1>5. Writers'
  BY DEF PlaceInv, Writers
<1>6. PutAwayIsIdle'
  BY DEF Inv, PlaceInv, ThreadsTyped, PutAwayIsIdle, Delete
<1>7. ConvHasPlace'
  BY <1>2
     DEF Inv, PlaceInv, ThreadsTyped, Listed, Threads, Delete, ConvHasPlace,
         HasPlace
<1>8. RemovesUnused'
  BY <1>2
     DEF Inv, PlaceInv, ThreadsTyped, WorkTyped, Listed, Threads, Delete,
         RemovesUnused
<1>9. ProjectLocked'
  BY DEF Inv, PlaceInv, ThreadsTyped, Listed, Delete, ProjectLocked
<1>10. RemovalLocked'
  BY <1>2
     DEF Inv, PlaceInv, ThreadsTyped, WorkTyped, RemovalRecords, Listed,
         Delete, RemovalLocked
<1>11. KindsFit'
  BY DEF PlaceInv, KindsFit
<1>12. Ended'
  BY DEF PlaceInv, Ended
<1>13. Branched'
  BY DEF Inv, PlaceInv, ThreadsTyped, Threads, Delete, Branched, OwnPlace
<1>14. WritesAreQuiet'
  BY <1>2
     DEF Inv, PlaceInv, ThreadsTyped, Listed, Delete, WritesAreQuiet, Writing
<1> QED
  BY <1>3, <1>4, <1>5, <1>6, <1>7, <1>8, <1>9, <1>10, <1>11, <1>12, <1>13,
     <1>14
     DEF PlaceInv

LEMMA ForgetPlaces ==
  ASSUME Inv, Inv', PlaceInv, NEW t \in Threads, Forget(t),
         UNCHANGED <<jobs, disk, creating, branches, ops, writes, git, removal,
                     project, projectMu, closed>>
  PROVE  PlaceInv'
<1>1. Kept
  BY DEF Kept
<1>2. /\ threads[t].op = "delete"
      /\ \A u \in Threads \ {t} : threads'[u] = threads[u]
      /\ ~threads'[t].listed /\ ~threads'[t].conv /\ threads'[t].op = "none"
      /\ threads'[t].rec = threads[t].rec
      /\ threads'[t].stage = threads[t].stage
      /\ threads'[t].working = threads[t].working
  BY DEF Forget, Inv, ThreadsTyped, ThreadRecords
<1>3. /\ kicks' \in [Threads -> Nat]
      /\ \A u \in Threads \ {t} : kicks'[u] = kicks[u]
  BY DEF Forget, Kicks, PlaceInv, WorkTyped
<1>4. /\ \A u \in Threads : Place(u)' = Place(u)
      /\ \A d \in Creates : OwnPlace(d)' = OwnPlace(d)
  BY <1>1, PlacesStay DEF Moves
<1>5. WorkTyped'
  BY <1>3 DEF PlaceInv, WorkTyped
<1>6. Unmade'
  BY <1>2, <1>3 DEF PlaceInv, Threads, Unmade
<1>7. Writers'
  BY DEF PlaceInv, Writers
<1>8. PutAwayIsIdle'
  BY <1>2 DEF PlaceInv, PutAwayIsIdle
<1>9. ConvHasPlace'
  BY <1>2, <1>4 DEF PlaceInv, Listed, Threads, ConvHasPlace, HasPlace
<1>10. RemovesUnused'
  BY <1>2, <1>4 DEF PlaceInv, WorkTyped, Listed, Threads, RemovesUnused
<1>11. ProjectLocked'
  BY <1>2 DEF Inv, PlaceInv, ProjectTyped, Listed, ProjectLocked
<1>12. RemovalLocked'
  BY <1>2, <1>4 DEF PlaceInv, WorkTyped, RemovalRecords, Listed, RemovalLocked
<1>13. KindsFit'
  BY DEF PlaceInv, KindsFit
<1>14. Ended'
  BY DEF PlaceInv, Ended
<1>15. Branched'
  BY <1>2 DEF PlaceInv, Threads, Branched, OwnPlace
<1>16. WritesAreQuiet'
  BY <1>2, <1>4 DEF PlaceInv, Listed, WritesAreQuiet, Writing
<1> QED
  BY <1>5, <1>6, <1>7, <1>8, <1>9, <1>10, <1>11, <1>12, <1>13, <1>14, <1>15,
     <1>16
     DEF PlaceInv

LEMMA KickPlaces ==
  ASSUME Inv, Inv', PlaceInv, NEW t \in Threads, Kick(t),
         UNCHANGED <<jobs, threads, creating, branches, writes, git, removal,
                     project, projectMu, closed, owned>>
  PROVE  PlaceInv'
<1>1. Kept
  BY DEF Kept
<1>2. /\ \A u \in Threads : Place(u)' = Place(u)
      /\ \A d \in Creates : OwnPlace(d)' = OwnPlace(d)
  BY <1>1, PlacesStay DEF Moves
<1>3. PlacesFit
  BY PlacesTyped DEF PlaceInv
<1>4. WorkTyped'
  BY DEF PlaceInv, WorkTyped, Kick
<1>5. Unmade'
  BY DEF PlaceInv, Unmade, Kick
<1>6. Writers'
  BY DEF PlaceInv, Writers
<1>7. PutAwayIsIdle'
  BY DEF PlaceInv, PutAwayIsIdle
<1>8. ConvHasPlace'
  BY <1>2 DEF PlaceInv, Listed, Threads, Kick, ConvHasPlace, HasPlace
<1>9. RemovesUnused'
  <2>1. CASE ops' = None
    BY <2>1 DEF RemovesUnused
  <2>2. CASE ops' = t /\ Place(t) \in disk /\ ~InUse(Place(t))
    <3>1. Place(t) # Folder
      BY <2>2, WorkplacesConstants DEF PlaceInv, WorkTyped, Threads
    <3>2. \A u \in Listed : Place(u) = Place(t) =>
            ~threads[u].conv /\ ~threads[u].working
      BY <2>2 DEF InUse, ThreadIn, PlaceInv, PutAwayIsIdle, Listed
    <3>3. ASSUME NEW d \in Creates, Place(d) = Place(t)
          PROVE  jobs[d].pc \notin {"open", "store", "list"}
      <4>1. jobs[d].kind \in {"worktree", "spawn", "again"}
        BY <3>1, <3>3, PlacesTyped DEF PlaceInv, PlacesFit, CreateKinds
      <4>2. CASE jobs[d].kind = "again"
        BY <2>2, <3>3, <4>2 DEF InUse, Keeps
      <4>3. CASE OwnPlace(d)
        <5>1. t = d /\ kicks[t] > 0
          BY <1>3, <3>3, <4>3 DEF Kick, PlacesFit
        <5> QED BY <5>1 DEF PlaceInv, Unmade, Before
      <4> QED BY <4>1, <4>2, <4>3 DEF OwnPlace
    <3> QED
      BY <1>2, <2>2, <3>1, <3>2, <3>3
         DEF RemovesUnused, Listed, Threads
  <2> QED BY <2>1, <2>2 DEF Kick
<1>10. ProjectLocked'
  BY DEF PlaceInv, Listed, ProjectLocked
<1>11. RemovalLocked'
  BY <1>2 DEF PlaceInv, Listed, RemovalLocked
<1>12. KindsFit'
  BY DEF PlaceInv, KindsFit
<1>13. Ended'
  BY DEF PlaceInv, Ended
<1>14. Branched'
  BY DEF PlaceInv, Kick, Branched, OwnPlace
<1>15. WritesAreQuiet'
  BY <1>2 DEF PlaceInv, Listed, WritesAreQuiet, Writing
<1> QED
  BY <1>4, <1>5, <1>6, <1>7, <1>8, <1>9, <1>10, <1>11, <1>12, <1>13, <1>14,
     <1>15
     DEF PlaceInv

LEMMA RemovesPlaces ==
  ASSUME Inv, Inv', PlaceInv, NEW t \in Threads, Removes(t),
         UNCHANGED <<jobs, threads, creating, branches, writes, git, removal,
                     project, projectMu, closed, owned>>
  PROVE  PlaceInv'
<1>1. Kept
  BY DEF Kept
<1>2. /\ \A u \in Threads : Place(u)' = Place(u)
      /\ \A d \in Creates : OwnPlace(d)' = OwnPlace(d)
  BY <1>1, PlacesStay DEF Moves
<1>3. WorkTyped'
  BY DEF PlaceInv, WorkTyped, Removes
<1>4. Unmade'
  BY WorkplacesConstants DEF PlaceInv, Unmade, Removes
<1>5. Writers'
  BY DEF PlaceInv, Writers
<1>6. PutAwayIsIdle'
  BY DEF PlaceInv, PutAwayIsIdle
<1>7. ConvHasPlace'
  BY <1>2, WorkplacesConstants
     DEF PlaceInv, Listed, Threads, Removes, ConvHasPlace, HasPlace,
         RemovesUnused
<1>8. RemovesUnused'
  BY DEF Removes, RemovesUnused
<1>9. ProjectLocked'
  BY DEF PlaceInv, Listed, ProjectLocked
<1>10. RemovalLocked'
  BY <1>2 DEF PlaceInv, Listed, RemovalLocked
<1>11. KindsFit'
  BY DEF PlaceInv, KindsFit
<1>12. Ended'
  BY DEF PlaceInv, Ended
<1>13. Branched'
  BY DEF PlaceInv, Removes, Branched, OwnPlace
<1>14. WritesAreQuiet'
  BY <1>2 DEF PlaceInv, Listed, WritesAreQuiet, Writing
<1> QED
  BY <1>3, <1>4, <1>5, <1>6, <1>7, <1>8, <1>9, <1>10, <1>11, <1>12, <1>13,
     <1>14
     DEF PlaceInv

LEMMA RemovalListsPlaces ==
  ASSUME Inv, Inv', PlaceInv, NEW path \in Threads, RemovalLists(path),
         UNCHANGED <<jobs, creating, branches, kicks, ops, writes, git,
                     project, projectMu, closed>>
  PROVE  PlaceInv'
<1>1. Kept
  BY DEF Kept
<1>2. /\ \A u \in Threads : Place(u)' = Place(u)
      /\ \A d \in Creates : OwnPlace(d)' = OwnPlace(d)
  BY <1>1, PlacesStay DEF Moves
<1>3. PlacesFit
  BY PlacesTyped DEF PlaceInv
<1>4. WorkTyped'
  BY <1>1, <1>2, <1>3, WorkplacesConstants
     DEF Inv, PlaceInv, JobsTyped, ThreadsTyped, ProjectTyped, WorkTyped,
         RemovalRecords, ListedIsPast, Before, Listed, Threads, Places, Busy,
         BusyIn, Unmade, PutAwayIsIdle, RemovalLists, Kept, PlacesFit
<1>5. Unmade'
  BY DEF PlaceInv, Listed, Unmade, RemovalLists
<1>6. Writers'
  BY DEF PlaceInv, Writers
<1>7. PutAwayIsIdle'
  BY DEF PlaceInv, PutAwayIsIdle, RemovalLists
<1>8. ConvHasPlace'
  BY <1>2 DEF PlaceInv, Listed, Threads, RemovalLists, ConvHasPlace, HasPlace
<1>9. RemovesUnused'
  BY <1>2
     DEF PlaceInv, WorkTyped, Listed, Threads, RemovalLists, RemovesUnused
<1>10. ProjectLocked'
  BY DEF PlaceInv, Listed, RemovalLists, ProjectLocked
<1>11. RemovalLocked'
  BY <1>2 DEF Listed, RemovalLists, RemovalLocked
<1>12. KindsFit'
  BY DEF PlaceInv, KindsFit
<1>13. Ended'
  BY DEF PlaceInv, Ended
<1>14. Branched'
  BY DEF PlaceInv, RemovalLists, Branched, OwnPlace
<1>15. WritesAreQuiet'
  BY <1>2 DEF PlaceInv, Listed, RemovalLists, WritesAreQuiet, Writing
<1> QED
  BY <1>4, <1>5, <1>6, <1>7, <1>8, <1>9, <1>10, <1>11, <1>12, <1>13, <1>14,
     <1>15
     DEF PlaceInv

LEMMA RemovalLocksPlaces ==
  ASSUME Inv, Inv', PlaceInv, RemovalLocks,
         UNCHANGED <<jobs, creating, branches, kicks, ops, writes, git,
                     project, projectMu, closed>>
  PROVE  PlaceInv'
<1>1. Kept
  BY DEF Kept
<1>2. /\ removal.pc = "lock"
      /\ \A u \in removal.users : threads[u].op = "none"
      /\ \/ removal' = [removal EXCEPT !.pc = "idle"] /\ UNCHANGED threads
         \/ /\ removal' = [removal EXCEPT !.pc = "remove"]
            /\ \A u \in removal.users : ~threads[u].working
            /\ threads' = [u \in Threads |-> IF u \in removal.users
                 THEN [threads[u] EXCEPT !.op = "remove", !.conv = FALSE]
                 ELSE threads[u]]
  BY DEF RemovalLocks
<1>3. /\ removal' \in RemovalRecords /\ removal.users \in SUBSET Threads
      /\ removal'.path = removal.path /\ removal'.users = removal.users
      /\ removal'.missed = removal.missed
      /\ removal.pc = "lock"
      /\ \A u \in removal.users : threads[u].op = "none"
      /\ UNCHANGED disk
      /\ removal'.pc = "idle" \/ removal'.pc = "remove"
  BY <1>2 DEF PlaceInv, WorkTyped, RemovalRecords, RemovalLocks
<1>4. \/ removal'.pc = "idle" /\ UNCHANGED threads
      \/ /\ removal'.pc = "remove"
         /\ \A u \in removal.users : ~threads[u].working
         /\ \A u \in Threads : Same(u)
         /\ \A u \in Threads \ removal.users : threads'[u] = threads[u]
         /\ \A u \in removal.users :
              threads'[u].op = "remove" /\ ~threads'[u].conv
  BY <1>2, <1>3, UsersLocked DEF Inv, PlaceInv, WorkTyped, RemovalRecords
<1>5. /\ \A u \in Threads : Place(u)' = Place(u)
      /\ \A d \in Creates : OwnPlace(d)' = OwnPlace(d)
  BY <1>1, PlacesStay DEF Moves
<1>6. WorkTyped'
  BY <1>3 DEF PlaceInv, WorkTyped
<1>7. Unmade'
  BY <1>3, <1>4 DEF PlaceInv, Threads, Unmade
<1>8. Writers'
  BY DEF PlaceInv, Writers
<1>9. PutAwayIsIdle'
  BY <1>4 DEF PlaceInv, PutAwayIsIdle, Same
<1>10. ConvHasPlace'
  BY <1>3, <1>4, <1>5
     DEF PlaceInv, ConvHasPlace, HasPlace, Listed, Same, Threads
<1>11. RemovesUnused'
  BY <1>4, <1>5 DEF PlaceInv, WorkTyped, Listed, Threads, Same, RemovesUnused
<1>12. ProjectLocked'
  BY <1>3, <1>4 DEF Inv, PlaceInv, ProjectTyped, Listed, Same, ProjectLocked
<1>13. RemovalLocked'
  BY <1>3, <1>4, <1>5 DEF PlaceInv, Listed, Same, RemovalLocked
<1>14. KindsFit'
  BY DEF PlaceInv, KindsFit
<1>15. Ended'
  BY DEF PlaceInv, Ended
<1>16. Branched'
  BY <1>3, <1>4, <1>5 DEF PlaceInv, Branched, Same, Threads
<1>17. WritesAreQuiet'
  BY <1>4, <1>5 DEF PlaceInv, Listed, Same, WritesAreQuiet, Writing
<1> QED
  BY <1>6, <1>7, <1>8, <1>9, <1>10, <1>11, <1>12, <1>13, <1>14, <1>15, <1>16,
     <1>17
     DEF PlaceInv

LEMMA RemovalRemovesPlaces ==
  ASSUME Inv, Inv', PlaceInv, RemovalRemoves,
         UNCHANGED <<jobs, creating, branches, kicks, ops, writes, git,
                     project, projectMu, closed>>
  PROVE  PlaceInv'
<1>1. Kept
  BY DEF Kept
<1>2. /\ removal.pc = "remove" /\ ops = None
      /\ threads' = [u \in Threads |-> IF u \in removal.users
           THEN [threads[u] EXCEPT !.op = "none"] ELSE threads[u]]
  BY DEF RemovalRemoves
<1>3. PICK gone \in SUBSET Threads :
        /\ gone = {u \in Creates : Place(u) = removal.path
                    /\ u \notin removal.users /\ jobs[u].pc # "idle"}
        /\ \/ UNCHANGED disk /\ removal' = [removal EXCEPT !.pc = "idle"]
           \/ /\ disk' = disk \ {removal.path}
              /\ removal' = [removal EXCEPT !.pc = "idle",
                                         !.missed = removal.missed \cup gone]
  BY DEF RemovalRemoves, Threads
<1>4. /\ removal' \in RemovalRecords /\ removal.users \in SUBSET Threads
      /\ removal.pc = "remove" /\ ops = None
      /\ removal'.pc = "idle" /\ removal'.path = removal.path
      /\ removal'.users = removal.users
  BY <1>2, <1>3, RemovalEnds, RemovalMisses
     DEF PlaceInv, WorkTyped, RemovalRecords
<1>5. /\ removal.missed \subseteq removal'.missed
      /\ \/ UNCHANGED disk
         \/ (disk' = disk \ {removal.path} /\ gone \subseteq removal'.missed)
  <2>1. WorkTyped
    BY DEF PlaceInv
  <2>2. CASE removal' = [removal EXCEPT !.pc = "idle"] /\ UNCHANGED disk
    BY <2>1, <2>2, RemovalEnds
  <2>3. CASE /\ disk' = disk \ {removal.path}
             /\ removal' = [removal EXCEPT !.pc = "idle",
                                        !.missed = removal.missed \cup gone]
    <3>1. removal'.missed = removal.missed \cup gone
      BY <2>1, <2>3, RemovalMisses
    <3> QED BY <2>3, <3>1
  <2> QED BY <1>3, <2>2, <2>3
<1>6. \/ UNCHANGED disk
      \/ /\ disk' = disk \ {removal.path}
         /\ \A u \in Creates :
              Place(u) = removal.path /\ u \notin removal.users
                /\ jobs[u].pc # "idle" => u \in removal'.missed
  BY <1>3, <1>5
<1>7. /\ \A u \in Threads : Same(u) /\ threads'[u].conv = threads[u].conv
      /\ \A u \in Threads \ removal.users : threads'[u] = threads[u]
      /\ \A u \in removal.users : threads'[u].op = "none"
  BY <1>2, <1>4, UsersReleased DEF Inv
<1>8. /\ \A u \in Threads : Place(u)' = Place(u)
      /\ \A d \in Creates : OwnPlace(d)' = OwnPlace(d)
  BY <1>1, PlacesStay DEF Moves
<1>9. WorkTyped'
  BY <1>4, <1>6 DEF PlaceInv, WorkTyped
<1>10. Unmade'
  BY <1>4, <1>7 DEF PlaceInv, Threads, Unmade
<1>11. Writers'
  BY DEF PlaceInv, Writers
<1>12. PutAwayIsIdle'
  BY <1>4, <1>7 DEF PlaceInv, PutAwayIsIdle, Same
<1>13. ConvHasPlace'
  <2>1. ASSUME NEW u \in Threads, HasPlace(u), u \notin removal.users,
               u \in Old => Place(u) # removal.path,
               u \in Creates => jobs[u].pc # "idle"
        PROVE  HasPlace(u)'
    BY <1>4, <1>5, <1>6, <1>8, <2>1 DEF HasPlace, Threads
  <2>2. ASSUME NEW u \in Listed, threads[u].conv \/ threads[u].working
        PROVE  HasPlace(u)'
    <3>1. u \in Threads /\ HasPlace(u) /\ u \notin removal.users
      BY <1>4, <2>2 DEF PlaceInv, ConvHasPlace, RemovalLocked, Listed
    <3>2. u \in Old => Place(u) # removal.path
      BY <1>4, <2>2, <3>1 DEF PlaceInv, RemovalLocked
    <3>3. u \in Creates => jobs[u].pc # "idle"
      BY <2>2 DEF Inv, ListedIsPast, Listed
    <3> QED BY <2>1, <3>1, <3>2, <3>3
  <2>3. ASSUME NEW d \in Creates, jobs[d].pc \in {"store", "list"}
        PROVE  HasPlace(d)'
    <3>1. /\ d \in Threads /\ d \notin Old /\ HasPlace(d)
          /\ d \notin removal.users
      BY <2>3, WorkplacesConstants
         DEF PlaceInv, ConvHasPlace, Unmade, Before, Threads
    <3> QED BY <2>1, <2>3, <3>1
  <2>4. \A u \in Listed' : /\ u \in Listed
                           /\ threads'[u].conv = threads[u].conv
                           /\ threads'[u].working = threads[u].working
    BY <1>7 DEF Listed, Same
  <2> QED BY <2>2, <2>3, <2>4 DEF ConvHasPlace
<1>14. RemovesUnused'
  BY <1>4 DEF RemovesUnused
<1>15. ProjectLocked'
  BY <1>4, <1>7
     DEF PlaceInv, ProjectLocked, RemovalLocked, Listed, Same, Inv,
         ProjectTyped
<1>16. RemovalLocked'
  BY <1>4 DEF RemovalLocked
<1>17. KindsFit'
  BY DEF PlaceInv, KindsFit
<1>18. Ended'
  BY DEF PlaceInv, Ended
<1>19. Branched'
  BY <1>6, <1>7 DEF PlaceInv, Threads, Same, Branched, OwnPlace
<1>20. WritesAreQuiet'
  BY <1>7, <1>8 DEF PlaceInv, Listed, Same, WritesAreQuiet, Writing
<1> QED
  BY <1>9, <1>10, <1>11, <1>12, <1>13, <1>14, <1>15, <1>16, <1>17, <1>18,
     <1>19, <1>20
     DEF PlaceInv

LEMMA GitTakesPlaces ==
  ASSUME Inv, Inv', PlaceInv, NEW top \in Places, GitTakes(top),
         UNCHANGED <<jobs, threads, disk, creating, branches, kicks, ops,
                     removal, project, projectMu, closed>>
  PROVE  PlaceInv'
<1>1. Kept
  BY DEF Kept
<1>2. /\ \A u \in Threads : Place(u)' = Place(u)
      /\ \A d \in Creates : OwnPlace(d)' = OwnPlace(d)
  BY <1>1, PlacesStay DEF Moves
<1>3. WorkTyped'
  BY DEF PlaceInv, WorkTyped, GitTakes
<1>4. Unmade'
  BY DEF PlaceInv, Unmade
<1>5. Writers'
  BY WorkplacesConstants DEF PlaceInv, WorkTyped, GitTakes, Writers
<1>6. PutAwayIsIdle'
  BY DEF PlaceInv, PutAwayIsIdle
<1>7. ConvHasPlace'
  BY <1>2 DEF PlaceInv, Listed, Threads, ConvHasPlace, HasPlace
<1>8. RemovesUnused'
  BY <1>2 DEF PlaceInv, WorkTyped, Listed, Threads, RemovesUnused
<1>9. ProjectLocked'
  BY DEF PlaceInv, Listed, ProjectLocked
<1>10. RemovalLocked'
  BY <1>2 DEF PlaceInv, Listed, RemovalLocked
<1>11. KindsFit'
  BY DEF PlaceInv, KindsFit
<1>12. Ended'
  BY DEF PlaceInv, Ended
<1>13. Branched'
  BY DEF PlaceInv, Branched, OwnPlace
<1>14. WritesAreQuiet'
  BY <1>2, WorkplacesConstants
     DEF PlaceInv, Listed, GitTakes, WritesAreQuiet, Writing
<1> QED
  BY <1>3, <1>4, <1>5, <1>6, <1>7, <1>8, <1>9, <1>10, <1>11, <1>12, <1>13,
     <1>14
     DEF PlaceInv

LEMMA GitChecksPlaces ==
  ASSUME Inv, Inv', PlaceInv, GitChecks,
         UNCHANGED <<jobs, threads, disk, creating, branches, kicks, ops,
                     removal, project, projectMu, closed>>
  PROVE  PlaceInv'
<1>1. Kept
  BY DEF Kept
<1>2. /\ \A u \in Threads : Place(u)' = Place(u)
      /\ \A d \in Creates : OwnPlace(d)' = OwnPlace(d)
  BY <1>1, PlacesStay DEF Moves
<1>3. PlacesFit
  BY PlacesTyped DEF PlaceInv
<1>4. WorkTyped'
  BY DEF PlaceInv, WorkTyped, GitChecks
<1>5. Unmade'
  BY DEF PlaceInv, Unmade
<1>6. Writers'
  BY WorkplacesConstants DEF PlaceInv, WorkTyped, GitChecks, Writers
<1>7. PutAwayIsIdle'
  BY DEF PlaceInv, PutAwayIsIdle
<1>8. ConvHasPlace'
  BY <1>2 DEF PlaceInv, Listed, Threads, ConvHasPlace, HasPlace
<1>9. RemovesUnused'
  BY <1>2 DEF PlaceInv, WorkTyped, Listed, Threads, RemovesUnused
<1>10. ProjectLocked'
  BY DEF PlaceInv, Listed, ProjectLocked
<1>11. RemovalLocked'
  BY <1>2 DEF PlaceInv, Listed, RemovalLocked
<1>12. KindsFit'
  BY DEF PlaceInv, KindsFit
<1>13. Ended'
  BY DEF PlaceInv, Ended
<1>14. Branched'
  BY DEF PlaceInv, Branched, OwnPlace
<1>15. WritesAreQuiet'
  BY <1>2, <1>3, WorkplacesConstants
     DEF PlaceInv, WorkTyped, Listed, Busy, BusyIn, GitChecks,
         WritesAreQuiet, Writing, Writers, PlacesFit
<1> QED
  BY <1>4, <1>5, <1>6, <1>7, <1>8, <1>9, <1>10, <1>11, <1>12, <1>13, <1>14,
     <1>15
     DEF PlaceInv

LEMMA GitEndsPlaces ==
  ASSUME Inv, Inv', PlaceInv, GitEnds,
         UNCHANGED <<jobs, threads, disk, creating, branches, kicks, ops,
                     removal, project, projectMu, closed>>
  PROVE  PlaceInv'
<1>1. Kept
  BY DEF Kept
<1>2. /\ \A u \in Threads : Place(u)' = Place(u)
      /\ \A d \in Creates : OwnPlace(d)' = OwnPlace(d)
  BY <1>1, PlacesStay DEF Moves
<1>3. WorkTyped'
  BY DEF PlaceInv, WorkTyped, GitEnds
<1>4. Unmade'
  BY DEF PlaceInv, Unmade
<1>5. Writers'
  BY WorkplacesConstants DEF PlaceInv, WorkTyped, GitEnds, Writers
<1>6. PutAwayIsIdle'
  BY DEF PlaceInv, PutAwayIsIdle
<1>7. ConvHasPlace'
  BY <1>2 DEF PlaceInv, Listed, Threads, ConvHasPlace, HasPlace
<1>8. RemovesUnused'
  BY <1>2 DEF PlaceInv, WorkTyped, Listed, Threads, RemovesUnused
<1>9. ProjectLocked'
  BY DEF PlaceInv, Listed, ProjectLocked
<1>10. RemovalLocked'
  BY <1>2 DEF PlaceInv, Listed, RemovalLocked
<1>11. KindsFit'
  BY DEF PlaceInv, KindsFit
<1>12. Ended'
  BY DEF PlaceInv, Ended
<1>13. Branched'
  BY DEF PlaceInv, Branched, OwnPlace
<1>14. WritesAreQuiet'
  BY <1>2, WorkplacesConstants
     DEF PlaceInv, Listed, GitEnds, WritesAreQuiet, Writing
<1> QED
  BY <1>3, <1>4, <1>5, <1>6, <1>7, <1>8, <1>9, <1>10, <1>11, <1>12, <1>13,
     <1>14
     DEF PlaceInv

LEMMA ProjectListsPlaces ==
  ASSUME Inv, Inv', PlaceInv, ProjectLists,
         UNCHANGED <<jobs, disk, creating, branches, kicks, ops, writes, git,
                     removal, closed>>
  PROVE  PlaceInv'
<1>1. Kept
  BY DEF Kept
<1>2. /\ project.pc = "idle" /\ project.listed /\ project'.pc = "lock"
      /\ project'.listed /\ project'.tasks = Listed
      /\ UNCHANGED threads
  BY DEF ProjectLists, Inv, ProjectTyped
<1>3. /\ \A u \in Threads : Place(u)' = Place(u)
      /\ \A d \in Creates : OwnPlace(d)' = OwnPlace(d)
  BY <1>1, PlacesStay DEF Moves
<1>4. WorkTyped'
  BY DEF PlaceInv, WorkTyped
<1>5. Unmade'
  BY <1>2 DEF PlaceInv, Listed, Unmade
<1>6. Writers'
  BY DEF PlaceInv, Writers
<1>7. PutAwayIsIdle'
  BY <1>2 DEF PlaceInv, PutAwayIsIdle
<1>8. ConvHasPlace'
  BY <1>2, <1>3 DEF PlaceInv, Listed, Threads, ConvHasPlace, HasPlace
<1>9. RemovesUnused'
  BY <1>2, <1>3 DEF PlaceInv, WorkTyped, Listed, Threads, RemovesUnused
<1>10. ProjectLocked'
  BY <1>2 DEF Listed, ProjectLocked
<1>11. RemovalLocked'
  BY <1>2, <1>3 DEF PlaceInv, Listed, RemovalLocked
<1>12. KindsFit'
  BY DEF PlaceInv, KindsFit
<1>13. Ended'
  BY DEF PlaceInv, Ended
<1>14. Branched'
  BY <1>2 DEF PlaceInv, Branched, OwnPlace
<1>15. WritesAreQuiet'
  BY <1>2, <1>3 DEF PlaceInv, Listed, WritesAreQuiet, Writing
<1> QED
  BY <1>4, <1>5, <1>6, <1>7, <1>8, <1>9, <1>10, <1>11, <1>12, <1>13, <1>14,
     <1>15
     DEF PlaceInv

LEMMA ProjectLocksPlaces ==
  ASSUME Inv, Inv', PlaceInv, ProjectLocks,
         UNCHANGED <<jobs, disk, creating, branches, kicks, ops, writes, git,
                     removal, closed>>
  PROVE  PlaceInv'
<1>1. Kept
  BY DEF Kept
<1>2. /\ project.pc = "lock"
      /\ \A u \in project.tasks : threads[u].op = "none"
      /\ project'.listed = project.listed /\ project'.tasks = project.tasks
      /\ \/ project'.pc = "idle" /\ UNCHANGED threads
         \/ /\ project'.pc = "store"
            /\ \A u \in Threads :
                 Same(u) /\ threads'[u].conv = threads[u].conv
            /\ \A u \in Threads :
                 threads'[u].op = IF u \in project.tasks THEN "project"
                 ELSE threads[u].op
  BY DEF ProjectLocks, Same, Inv, ThreadsTyped, ThreadRecords, ProjectTyped
<1>3. /\ \A u \in Threads : Place(u)' = Place(u)
      /\ \A d \in Creates : OwnPlace(d)' = OwnPlace(d)
  BY <1>1, PlacesStay DEF Moves
<1>4. WorkTyped'
  BY DEF PlaceInv, WorkTyped
<1>5. Unmade'
  BY <1>2 DEF PlaceInv, Threads, Unmade, Same
<1>6. Writers'
  BY DEF PlaceInv, Writers
<1>7. PutAwayIsIdle'
  BY <1>2 DEF PlaceInv, PutAwayIsIdle, Same
<1>8. ConvHasPlace'
  BY <1>2, <1>3 DEF PlaceInv, Listed, Threads, Same, ConvHasPlace, HasPlace
<1>9. RemovesUnused'
  BY <1>2, <1>3 DEF PlaceInv, WorkTyped, Listed, Threads, Same, RemovesUnused
<1>10. ProjectLocked'
  BY <1>2 DEF Inv, PlaceInv, ProjectTyped, Listed, Same, ProjectLocked
<1>11. RemovalLocked'
  BY <1>2, <1>3
     DEF PlaceInv, WorkTyped, RemovalRecords, Listed, Same, RemovalLocked
<1>12. KindsFit'
  BY DEF PlaceInv, KindsFit
<1>13. Ended'
  BY DEF PlaceInv, Ended
<1>14. Branched'
  BY <1>2 DEF PlaceInv, Threads, Same, Branched, OwnPlace
<1>15. WritesAreQuiet'
  BY <1>2, <1>3 DEF PlaceInv, Listed, Same, WritesAreQuiet, Writing
<1> QED
  BY <1>4, <1>5, <1>6, <1>7, <1>8, <1>9, <1>10, <1>11, <1>12, <1>13, <1>14,
     <1>15
     DEF PlaceInv

LEMMA ProjectStoredPlaces ==
  ASSUME Inv, Inv', PlaceInv, ProjectStored,
         UNCHANGED <<jobs, disk, creating, branches, kicks, ops, writes, git,
                     removal, closed>>
  PROVE  PlaceInv'
<1>1. Kept
  BY DEF Kept
<1>2. /\ project.pc = "store" /\ project'.pc \in {"idle", "forget"}
      /\ project'.listed = project.listed /\ project'.tasks = project.tasks
      /\ \A u \in Threads :
           /\ threads'[u].rec => threads[u].rec
           /\ threads'[u].listed = threads[u].listed
           /\ threads'[u].stage = threads[u].stage
           /\ threads'[u].working = threads[u].working
           /\ threads'[u].conv = threads[u].conv
           /\ \/ threads'[u].op = threads[u].op
              \/ /\ project'.pc = "idle" /\ threads[u].op = "project"
                 /\ threads'[u].op = "none"
  <2>1. /\ project.pc = "store"
        /\ \A u \in Threads : threads[u] \in ThreadRecords
        /\ \A u \in project.tasks : threads[u].op = "project"
        /\ project.tasks \subseteq Threads
    BY DEF ProjectStored, Inv, ThreadsTyped, ProjectTyped, PlaceInv,
           ProjectLocked
  <2>2. CASE /\ project' = [project EXCEPT !.pc = "forget", !.stored = FALSE]
             /\ threads' = [t \in Threads |-> [threads[t] EXCEPT !.rec = FALSE]]
    BY <2>1, <2>2 DEF ThreadRecords, Inv, ProjectTyped
  <2>3. CASE /\ project' = [project EXCEPT !.pc = "idle"]
             /\ threads' = [t \in Threads |-> IF t \in project.tasks
                  THEN [threads[t] EXCEPT !.op = "none"] ELSE threads[t]]
    BY <2>1, <2>3 DEF ThreadRecords, Inv, ProjectTyped
  <2> QED
    BY <2>2, <2>3 DEF ProjectStored
<1>3. /\ \A u \in Threads : Place(u)' = Place(u)
      /\ \A d \in Creates : OwnPlace(d)' = OwnPlace(d)
  BY <1>1, PlacesStay DEF Moves
<1>4. WorkTyped'
  BY DEF PlaceInv, WorkTyped
<1>5. Unmade'
  BY <1>2 DEF PlaceInv, Threads, Unmade
<1>6. Writers'
  BY DEF PlaceInv, Writers
<1>7. PutAwayIsIdle'
  BY <1>2 DEF PlaceInv, PutAwayIsIdle
<1>8. ConvHasPlace'
  BY <1>2, <1>3 DEF PlaceInv, Listed, Threads, ConvHasPlace, HasPlace
<1>9. RemovesUnused'
  BY <1>2, <1>3 DEF PlaceInv, WorkTyped, Listed, Threads, RemovesUnused
<1>10. ProjectLocked'
  BY <1>2 DEF Inv, PlaceInv, ProjectTyped, Listed, ProjectLocked
<1>11. RemovalLocked'
  BY <1>2, <1>3 DEF PlaceInv, WorkTyped, RemovalRecords, Listed, RemovalLocked
<1>12. KindsFit'
  BY DEF PlaceInv, KindsFit
<1>13. Ended'
  BY DEF PlaceInv, Ended
<1>14. Branched'
  BY <1>2 DEF PlaceInv, Threads, Branched, OwnPlace
<1>15. WritesAreQuiet'
  BY <1>2, <1>3 DEF PlaceInv, Listed, WritesAreQuiet, Writing
<1> QED
  BY <1>4, <1>5, <1>6, <1>7, <1>8, <1>9, <1>10, <1>11, <1>12, <1>13, <1>14,
     <1>15
     DEF PlaceInv

LEMMA ProjectForgetsPlaces ==
  ASSUME Inv, Inv', PlaceInv, ProjectForgets,
         UNCHANGED <<jobs, disk, creating, branches, kicks, ops, writes, git,
                     removal, closed>>
  PROVE  PlaceInv'
<1>1. Kept
  BY DEF Kept
<1>2. /\ project.pc = "forget" /\ project'.pc = "idle" /\ ~project'.listed
      /\ project'.tasks = project.tasks
      /\ project.tasks \in SUBSET Threads
  BY DEF ProjectForgets, Inv, ProjectTyped
<1>3. /\ \A u \in Threads \ project.tasks : threads'[u] = threads[u]
      /\ \A u \in project.tasks :
           /\ ~threads'[u].listed /\ ~threads'[u].conv
           /\ threads'[u].op = "none"
             /\ threads'[u].rec = threads[u].rec
             /\ threads'[u].stage = threads[u].stage
             /\ threads'[u].working = threads[u].working
  BY <1>2, TasksForgotten DEF ProjectForgets, Inv
<1>4. /\ \A u \in Threads : Place(u)' = Place(u)
      /\ \A d \in Creates : OwnPlace(d)' = OwnPlace(d)
  BY <1>1, PlacesStay DEF Moves
<1>5. WorkTyped'
  BY DEF PlaceInv, WorkTyped
<1>6. Unmade'
  BY <1>2, <1>3 DEF PlaceInv, Threads, Unmade
<1>7. Writers'
  BY DEF PlaceInv, Writers
<1>8. PutAwayIsIdle'
  BY <1>3 DEF PlaceInv, PutAwayIsIdle
<1>9. ConvHasPlace'
  BY <1>3, <1>4 DEF PlaceInv, Listed, Threads, ConvHasPlace, HasPlace
<1>10. RemovesUnused'
  BY <1>3, <1>4 DEF PlaceInv, WorkTyped, Listed, Threads, RemovesUnused
<1>11. ProjectLocked'
  BY <1>2, <1>3, WorkplacesConstants
     DEF Inv, PlaceInv, Listed, ProjectLocked, ProjectIsHeld
<1>12. RemovalLocked'
  BY <1>2, <1>3
     DEF PlaceInv, WorkTyped, RemovalRecords, Listed, RemovalLocked,
         ProjectLocked
<1>13. KindsFit'
  BY DEF PlaceInv, KindsFit
<1>14. Ended'
  BY DEF PlaceInv, Ended
<1>15. Branched'
  BY <1>3 DEF PlaceInv, Threads, Branched, OwnPlace
<1>16. WritesAreQuiet'
  BY <1>3, <1>4 DEF PlaceInv, Listed, WritesAreQuiet, Writing
<1> QED
  BY <1>5, <1>6, <1>7, <1>8, <1>9, <1>10, <1>11, <1>12, <1>13, <1>14, <1>15,
     <1>16
     DEF PlaceInv

LEMMA ShutdownPlaces ==
  ASSUME Inv, Inv', PlaceInv, Shutdown,
         UNCHANGED <<jobs, threads, disk, creating, branches, kicks, ops,
                     writes, git, removal, project, projectMu>>
  PROVE  PlaceInv'
<1>1. Kept
  BY DEF Kept
<1>2. /\ \A u \in Threads : Place(u)' = Place(u)
      /\ \A d \in Creates : OwnPlace(d)' = OwnPlace(d)
  BY <1>1, PlacesStay DEF Moves
<1>3. WorkTyped'
  BY DEF PlaceInv, WorkTyped
<1>4. Unmade'
  BY DEF PlaceInv, Unmade
<1>5. Writers'
  BY DEF PlaceInv, Writers
<1>6. PutAwayIsIdle'
  BY DEF PlaceInv, PutAwayIsIdle
<1>7. ConvHasPlace'
  BY <1>2 DEF PlaceInv, Listed, Threads, ConvHasPlace, HasPlace
<1>8. RemovesUnused'
  BY <1>2 DEF PlaceInv, WorkTyped, Listed, Threads, RemovesUnused
<1>9. ProjectLocked'
  BY DEF PlaceInv, Listed, ProjectLocked
<1>10. RemovalLocked'
  BY <1>2 DEF PlaceInv, Listed, RemovalLocked
<1>11. KindsFit'
  BY DEF PlaceInv, KindsFit
<1>12. Ended'
  BY DEF PlaceInv, Ended
<1>13. Branched'
  BY DEF PlaceInv, Shutdown, Branched, OwnPlace
<1>14. WritesAreQuiet'
  BY <1>2 DEF PlaceInv, Listed, WritesAreQuiet, Writing
<1> QED
  BY <1>3, <1>4, <1>5, <1>6, <1>7, <1>8, <1>9, <1>10, <1>11, <1>12, <1>13,
     <1>14
     DEF PlaceInv

LEMMA CreatePlacesKept ==
  ASSUME Inv, Inv', PlaceInv, NEW c \in Creates, CreateBegins(c) \/ CreateGoes(c)
  PROVE  PlaceInv'
<1> USE DEF Rest, work
<1>1. CASE CreateBegins(c)
  BY <1>1, CreatePlaces, RerunPlaces, SpawnPlaces DEF CreateBegins
<1>2. CASE CreateGoes(c)
  <2>1. UNCHANGED <<kicks, ops, git, removal, project, closed, owned>>
    BY <1>2 DEF CreateGoes
  <2>2. ASSUME Claim(c), UNCHANGED <<threads, disk, branches, writes, projectMu>>
        PROVE  PlaceInv'
    BY <2>1, <2>2, ClaimPlaces
  <2>3. ASSUME PlaceOf(c), UNCHANGED <<creating, threads, writes, projectMu>>
        PROVE  PlaceInv'
    BY <2>1, <2>3, PlaceOfPlaces
  <2>4. ASSUME Recreate(c), UNCHANGED <<creating, threads, writes, projectMu>>
        PROVE  PlaceInv'
    BY <2>1, <2>4, RecreatePlaces
  <2>5. ASSUME Undo(c), UNCHANGED <<creating, threads, writes, projectMu>>
        PROVE  PlaceInv'
    BY <2>1, <2>5, UndoPlaces
  <2>6. ASSUME Take(c), UNCHANGED <<creating, threads, disk, branches, projectMu>>
        PROVE  PlaceInv'
    BY <2>1, <2>6, TakePlaces
  <2>7. ASSUME Check(c), UNCHANGED <<creating, threads, disk, branches, projectMu>>
        PROVE  PlaceInv'
    BY <2>1, <2>7, CheckPlaces
  <2>8. ASSUME Switch(c), UNCHANGED <<creating, threads, disk, branches, projectMu>>
        PROVE  PlaceInv'
    BY <2>1, <2>8, SwitchPlaces
  <2>9. ASSUME Open(c), UNCHANGED <<creating, threads, disk, branches, writes, projectMu>>
        PROVE  PlaceInv'
    BY <2>1, <2>9, OpenPlaces
  <2>10. ASSUME Store(c), UNCHANGED <<creating, disk, branches, writes>>
        PROVE  PlaceInv'
    BY <2>1, <2>10, StorePlaces
  <2>11. ASSUME List(c), UNCHANGED <<creating, disk, branches, writes>>
        PROVE  PlaceInv'
    BY <2>1, <2>11, ListPlaces
  <2>12. ASSUME Prompt(c), UNCHANGED <<creating, disk, branches, writes, projectMu>>
        PROVE  PlaceInv'
    BY <2>1, <2>12, PromptPlaces
  <2>13. ASSUME Return(c), UNCHANGED <<threads, disk, branches, writes, projectMu>>
        PROVE  PlaceInv'
    BY <2>1, <2>13, ReturnPlaces
  <2> QED
    BY <1>2, <2>2, <2>3, <2>4, <2>5, <2>6, <2>7, <2>8, <2>9, <2>10, <2>11,
       <2>12, <2>13
       DEF CreateGoes, CreateStep
<1> QED
  BY <1>1, <1>2

LEMMA ThreadPlacesKept ==
  ASSUME Inv, Inv', PlaceInv, NEW t \in Threads,
         \/ OwnerSends(t) \/ SendGoes(t) \/ TurnGoes(t) \/ Stage(t)
         \/ DeleteGoes(t) \/ KickGoes(t)
  PROVE  PlaceInv'
<1> USE DEF Rest, work
<1>1. CASE OwnerSends(t)
  BY <1>1, SendsPlaces DEF OwnerSends
<1>2. CASE SendGoes(t)
  BY <1>2, OpensPlaces, OpenedPlaces, BeginsPlaces DEF SendGoes, SendStep
<1>3. CASE TurnGoes(t)
  BY <1>3, TurnEndsPlaces DEF TurnGoes, TurnEnds
<1>4. CASE Stage(t)
  BY <1>4, RestagePlaces DEF Stage
<1>5. CASE DeleteGoes(t)
  BY <1>5, DeletePlaces, ForgetPlaces DEF DeleteGoes
<1>6. CASE KickGoes(t)
  BY <1>6, KickPlaces, RemovesPlaces DEF KickGoes
<1> QED
  BY <1>1, <1>2, <1>3, <1>4, <1>5, <1>6

LEMMA UnchangedPlacesKept ==
  ASSUME PlaceInv, UNCHANGED vars
  PROVE  PlaceInv'
BY DEF PlaceInv, WorkTyped, Unmade, Writers, PutAwayIsIdle, ConvHasPlace,
       HasPlace, RemovesUnused, ProjectLocked, RemovalLocked, KindsFit, Ended,
       Branched, WritesAreQuiet, Writing, Listed, Place, OwnPlace, vars, work

LEMMA NextPlacesKept ==
  ASSUME Inv, Inv', PlaceInv, [Next]_vars
  PROVE  PlaceInv'
<1> USE DEF Rest, work
<1>1. CASE RemovalBegins \/ RemovalGoes
  BY <1>1, RemovalListsPlaces, RemovalLocksPlaces, RemovalRemovesPlaces
     DEF RemovalBegins, RemovalGoes
<1>2. CASE GitBegins \/ GitGoes
  BY <1>2, GitTakesPlaces, GitChecksPlaces, GitEndsPlaces
     DEF GitBegins, GitGoes
<1>3. CASE OwnerRemovesProject \/ ProjectGoes
  BY <1>3, ProjectListsPlaces, ProjectLocksPlaces, ProjectStoredPlaces,
     ProjectForgetsPlaces DEF OwnerRemovesProject, ProjectGoes, ProjectStep
<1>4. CASE ShutsDown
  BY <1>4, ShutdownPlaces DEF ShutsDown
<1> QED
  BY <1>1, <1>2, <1>3, <1>4, CreatePlacesKept, ThreadPlacesKept,
     UnchangedPlacesKept DEF Next

LEMMA InitPlaces == ASSUME Init PROVE PlaceInv
<1>1. PICK stage \in [Old -> Stages \ {"archived"}] :
        threads = [t \in Threads |-> IF t \in Old
          THEN [NoThread EXCEPT !.rec = TRUE, !.listed = TRUE, !.stage = stage[t]]
          ELSE NoThread]
  BY DEF Init
<1>2. /\ \A t \in Threads : /\ ~threads[t].conv /\ ~threads[t].working
                            /\ threads[t].op = "none"
      /\ \A c \in Creates : /\ jobs[c] = NoJob /\ c \notin Old /\ c \in Threads
                            /\ threads[c] = NoThread
  <2>1. ASSUME NEW t \in Old
        PROVE  /\ ~threads[t].conv /\ ~threads[t].working
               /\ threads[t].op = "none"
    BY <1>1 DEF Threads, NoThread
  <2> QED
    BY <1>1, <2>1, WorkplacesConstants DEF Init, Threads, NoThread
<1>3. WorkTyped
  BY DEF Init, WorkTyped, RemovalRecords, Threads, Places
<1>4. Unmade
  <2>1. /\ removal.users = {} /\ project.tasks = {} /\ ops = None
        /\ kicks = [t \in Threads |-> 0] /\ None \notin Creates
    BY WorkplacesConstants DEF Init
  <2> QED
    BY <1>2, <2>1 DEF Unmade, NoThread
<1>5. Writers
  BY <1>2, WorkplacesConstants DEF Init, Writers, NoJob, Places
<1>6. PutAwayIsIdle /\ ConvHasPlace /\ RemovesUnused
  BY <1>2 DEF Init, PutAwayIsIdle, ConvHasPlace, RemovesUnused, NoJob, Listed
<1>7. ProjectLocked /\ RemovalLocked /\ KindsFit /\ Ended
  BY <1>2 DEF Init, ProjectLocked, RemovalLocked, KindsFit, Ended, NoJob
<1>8. Branched
  <2>1. disk = Old /\ branches = Old
    BY DEF Init
  <2>2. \A c \in Creates : /\ c \notin disk \cup branches /\ ~threads[c].rec
                           /\ jobs[c].pc = "idle" /\ jobs[c].end = "none"
    BY <1>2, <2>1 DEF NoJob, NoThread
  <2> QED
    BY <2>2 DEF Branched
<1>9. WritesAreQuiet
  BY <1>2 DEF Init, WritesAreQuiet, Listed
<1> QED
  BY <1>3, <1>4, <1>5, <1>6, <1>7, <1>8, <1>9 DEF PlaceInv

\* Every reachable state satisfies the inductive invariant of the folders.
THEOREM PlacesInductive == Spec => []PlaceInv
<1>1. Init => PlaceInv
  BY InitPlaces
<1>2. Inv /\ Inv' /\ PlaceInv /\ [Next]_vars => PlaceInv'
  BY NextPlacesKept
<1> QED
  BY <1>1, <1>2, InvHolds, PTL DEF Spec

\* While git writes a folder no Thread there has a turn (beginWrite, and
\* Manager.send, which waits for gitWriteLocked).
THEOREM WritesQuiet == Spec => []WritesAreQuiet
<1>1. PlaceInv => WritesAreQuiet
  BY DEF PlaceInv
<1> QED
  BY <1>1, PlacesInductive, PTL

\* A Thread with a turn has its folder, whatever is settled, archived, deleted
\* and run again there meanwhile, unless it came there after the owner's removal
\* of the worktree looked at who uses it (worktree_cleanup.go, restage).
THEOREM WorkingHasPlace == Spec => []WorkingHasFolder
<1>1. PlaceInv => WorkingHasFolder
  BY DEF PlaceInv, ConvHasPlace, HasPlace, WorkingHasFolder, Listed
<1> QED
  BY <1>1, PlacesInductive, PTL

\* A create that fails leaves no record, no worktree and no branch, or, where
\* git refused to undo its place, no record and no worktree without its branch;
\* and a stored Thread has its branch; until uam stops (createChecked, its
\* undoPlace).
THEOREM CreateIsAllOrNothing == Spec => []AllOrNothing
<1>1. Inv /\ PlaceInv => AllOrNothing
  <2>1. ASSUME Inv, PlaceInv, NEW c \in Creates, ~closed
        PROVE  /\ /\ jobs[c].end \in {"failed", "kept"}
                  /\ jobs[c].pc \in {"return", "over"}
                  => ~threads[c].rec /\ (c \in disk => c \in branches)
               /\ jobs[c].end = "failed" /\ jobs[c].pc \in {"return", "over"} =>
                    c \notin disk \cup branches
               /\ threads[c].rec /\ OwnPlace(c) => c \in branches
    <3>1. threads[c].rec => jobs[c].pc = "list" \/ jobs[c].end = "made"
      BY <2>1 DEF PlaceInv, Branched
    <3> QED
      BY <2>1, <3>1 DEF PlaceInv, Branched
  <2> QED
    BY <2>1 DEF AllOrNothing
<1> QED
  BY <1>1, InvHolds, PlacesInductive, PTL
=============================================================================

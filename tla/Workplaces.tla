----------------------------- MODULE Workplaces -----------------------------
(***************************************************************************)
(* How a Thread is made and the place it runs in: the creates and their    *)
(* request IDs (Manager.createChecked, register), an agent's own creates   *)
(* and their limit (create_task.go), the worktrees that are made, removed  *)
(* and brought back (worktrees.go, worktree_cleanup.go), the git writes    *)
(* that keep turns out (git_actions.go), and the removal of the Project.   *)
(*                                                                         *)
(* There is one Project.  Its Threads run in its folder or in a worktree   *)
(* beside it, which has the name of the Thread it was made for; a Thread   *)
(* has the name of the create that makes it.  A section of Manager.mu, of  *)
(* worktrees.ops or of store.Update is one action.  Which branch the       *)
(* folder has is left out: Switch and Undo are where it changes.           *)
(***************************************************************************)
EXTENDS Naturals, FiniteSets

CONSTANTS
  Creates,      \* the calls of Create, Rerun and uam_create_task
  Requests,     \* the request IDs of the owner's calls
  Old,          \* the Threads there are before, each in its own worktree
  Kinds,        \* the creates there are: a subset of CreateKinds
  Folder,       \* the Project's folder
  None,         \* no request, no Thread, no holder
  Owner,        \* the holder that is not a create: the owner's action
  MaxSpawns,    \* maxSpawns
  MaxOwner      \* bound: the owner's actions, the stop of uam among them

\* "spawn" and "here" are an agent's creates: in a worktree, in the folder.
CreateKinds == {"folder", "branch", "worktree", "again", "spawn", "here"}
SpawnKinds == {"spawn", "here"}

ASSUME WorkplacesConstants ==
  /\ Kinds \subseteq CreateKinds
  /\ {Folder, None, Owner} \cap (Creates \cup Requests \cup Old) = {}
  /\ Creates \cap Old = {}
  /\ Folder # None /\ Folder # Owner /\ None # Owner
  /\ {MaxSpawns, MaxOwner} \subseteq Nat

VARIABLES
  jobs,      \* the creates
  creating,  \* Manager.creating: the request IDs of creates that run
  threads,   \* the Threads
  disk,      \* the worktrees there are
  branches,  \* the branches of worktrees there are
  kicks,     \* the goroutines that are to remove a Thread's worktree
  ops,       \* worktrees.ops: whose worktree its holder removes
  writes,    \* gitWrites: who writes in a repository
  git,       \* the owner's git action
  removal,   \* the owner's removal of a worktree
  project,   \* the Project and its removal
  projectMu, \* who holds projectMu
  closed,    \* Manager.closed
  owned      \* bound: how often the owner acted

work == <<kicks, ops, writes, git, removal>>
vars == <<jobs, creating, threads, disk, branches, work, project,
          projectMu, closed, owned>>

Threads == Old \cup Creates
Places == {Folder} \cup Threads
Pcs == {"idle", "claim", "wait", "place", "recreate", "take", "busy", "switch",
        "open", "store", "list", "prompt", "sending", "undo", "return", "over"}
\* kept: it failed, and git refused to undo its place.
Ends == {"none", "made", "found", "failed", "noroom", "kept"}
Stages == {"active", "settled", "archived"}

NoJob == [pc |-> "idle", kind |-> "folder", req |-> None, from |-> None,
          end |-> "none"]
\* op: what holds the Thread's op.
NoThread == [rec |-> FALSE, listed |-> FALSE, stage |-> "active", conv |-> FALSE,
             working |-> FALSE, op |-> "none"]

TypeOK ==
  /\ jobs \in [Creates -> [pc : Pcs, kind : CreateKinds, req : Requests \cup {None},
                           from : Old \cup {None}, end : Ends]]
  /\ creating \subseteq Requests
  /\ threads \in [Threads -> [rec : BOOLEAN, listed : BOOLEAN, stage : Stages,
                              conv : BOOLEAN, working : BOOLEAN,
                              op : {"none", "send", "opening", "delete",
                                    "remove", "project"}]]
  /\ disk \subseteq Threads /\ branches \subseteq Threads
  /\ kicks \in [Threads -> 0..MaxOwner]
  /\ ops \in Threads \cup {None}
  /\ writes \in [Places -> Creates \cup {None, Owner}]
  /\ git \in [pc : {"idle", "busy", "run"}, top : Places]
  /\ removal \in [pc : {"idle", "lock", "remove"}, path : Threads \cup {None},
                  users : SUBSET Threads, missed : SUBSET Threads]
  /\ project \in [listed : BOOLEAN, stored : BOOLEAN,
                  pc : {"idle", "lock", "store", "forget"}, tasks : SUBSET Threads]
  /\ projectMu \in Creates \cup {None, Owner}
  /\ closed \in BOOLEAN
  /\ owned \in 0..MaxOwner

Init ==
  /\ jobs = [c \in Creates |-> NoJob]
  /\ creating = {}
  /\ \E stage \in [Old -> Stages \ {"archived"}] :
       threads = [t \in Threads |-> IF t \in Old
         THEN [NoThread EXCEPT !.rec = TRUE, !.listed = TRUE, !.stage = stage[t]]
         ELSE NoThread]
  /\ disk = Old /\ branches = Old
  /\ kicks = [t \in Threads |-> 0] /\ ops = None
  /\ writes = [p \in Places |-> None]
  /\ git = [pc |-> "idle", top |-> Folder]
  /\ removal = [pc |-> "idle", path |-> None, users |-> {}, missed |-> {}]
  /\ project = [listed |-> TRUE, stored |-> TRUE, pc |-> "idle", tasks |-> {}]
  /\ projectMu = None /\ closed = FALSE
  /\ owned = 0

-----------------------------------------------------------------------------

Listed == {t \in Threads : threads[t].listed}
OwnPlace(c) == jobs[c].kind \in {"worktree", "spawn"}

Place(t) ==
  IF t \in Old THEN t
  ELSE CASE jobs[t].kind = "again" -> jobs[t].from
         [] OwnPlace(t) -> t
         [] OTHER -> Folder

\* settleableLocked: a Thread whose conversation opens is starting.
Busy(t) == threads[t].working \/ threads[t].op = "opening"
BusyIn(top) == \E t \in Listed : Place(t) = top /\ Busy(t)

\* keepWorktree, until createChecked returns.
Keeps(c) ==
  jobs[c].kind = "again"
  /\ jobs[c].pc \in {"recreate", "open", "store", "list", "prompt", "sending", "undo", "return"}

ThreadIn(path) ==
  \E t \in Listed : Place(t) = path /\ threads[t].stage = "active"
InUseByThreads(path) == ThreadIn(path)

InUse(path) == ThreadIn(path) \/ \E c \in Creates : Keeps(c) /\ Place(c) = path

\* recreateWorktree, which needs worktrees.ops: a branch brings its worktree
\* back.
Recreates(path) ==
  /\ ops = None
  /\ disk' = IF path \in branches THEN disk \cup {path} ELSE disk

-----------------------------------------------------------------------------
(* A create.                                                               *)

Goes(c, pc) == jobs' = [jobs EXCEPT ![c].pc = pc]
Fails(c) == jobs' = [jobs EXCEPT ![c].pc = "return", ![c].end = "failed"]
Undoes(c, end) == jobs' = [jobs EXCEPT ![c].pc = "undo", ![c].end = end]

Spawned(o) == {c \in Creates : jobs[c].kind \in SpawnKinds /\ jobs[c].from = o}

SpawningNone(o) == {}

\* m.spawns: the creates of an agent that run.
Spawning(o) == {c \in Spawned(o) : jobs[c].pc \notin {"idle", "over"}}

SpawnsLocked(o) == Cardinality((Spawned(o) \cap Listed) \cup Spawning(o))

ClaimsAlways(c, job) ==
  /\ jobs' = [jobs EXCEPT ![c] = [job EXCEPT !.pc = "place"]]
  /\ creating' = creating \cup {job.req}

\* claimCreate: a Thread of the request is the answer; a create of it that
\* runs is waited for.
Claims(c, job) ==
  IF \E t \in Listed \cap Creates : jobs[t].req = job.req
  THEN jobs' = [jobs EXCEPT ![c] = [job EXCEPT !.pc = "over", !.end = "found"]]
       /\ UNCHANGED creating
  ELSE IF job.req \in creating
  THEN jobs' = [jobs EXCEPT ![c] = [job EXCEPT !.pc = "wait"]] /\ UNCHANGED creating
  ELSE jobs' = [jobs EXCEPT ![c] = [job EXCEPT !.pc = "place"]]
       /\ creating' = creating \cup {job.req}

\* checkCreate takes the call; a repeat of a request asks for the same.
Asks(c, r, k) ==
  /\ jobs[c].pc = "idle" /\ project.listed /\ k \in Kinds
  /\ \A d \in Creates : r # None /\ jobs[d].req = r => jobs[d].kind = k

Create(c, r, k) ==
  Asks(c, r, k) /\ Claims(c, [NoJob EXCEPT !.kind = k, !.req = r])

Rerun(c, r, o) ==
  /\ Asks(c, r, "again") /\ threads[o].listed
  /\ Claims(c, [NoJob EXCEPT !.kind = "again", !.req = r, !.from = o])

\* startSpawn: the call of an active Thread that has started too few.
Spawn(c, o, k) ==
  /\ Asks(c, None, k) /\ ~closed
  /\ threads[o].listed /\ threads[o].stage = "active"
  /\ SpawnsLocked(o) < MaxSpawns
  /\ jobs' = [jobs EXCEPT ![c] = [NoJob EXCEPT !.pc = "place", !.kind = k, !.from = o]]
  /\ UNCHANGED creating

Claim(c) == jobs[c].pc = "claim" /\ Claims(c, jobs[c])

\* makePlace, or keepWorktree for a run again; git may refuse.
PlaceOf(c) ==
  /\ jobs[c].pc = "place"
  /\ \/ /\ closed \/ jobs[c].kind \notin {"folder", "here", "again"}
        /\ Fails(c) /\ UNCHANGED <<disk, branches>>
     \/ /\ ~closed /\ jobs[c].kind \in {"folder", "here"}
        /\ Goes(c, "open") /\ UNCHANGED <<disk, branches>>
     \/ /\ ~closed /\ jobs[c].kind = "again"
        /\ Goes(c, "recreate") /\ UNCHANGED <<disk, branches>>
     \/ /\ ~closed /\ jobs[c].kind = "branch" /\ ~BusyIn(Folder)
        /\ Goes(c, "take") /\ UNCHANGED <<disk, branches>>
     \/ /\ ~closed /\ OwnPlace(c) /\ Goes(c, "open")
        /\ disk' = disk \cup {c} /\ branches' = branches \cup {c}

Recreate(c) ==
  /\ jobs[c].pc = "recreate" /\ UNCHANGED branches
  /\ \/ Recreates(jobs[c].from) /\ Goes(c, "open")
     \/ ops = None /\ Fails(c) /\ UNCHANGED disk

\* beginWrite, its two sections, and the switch of the folder's branch.
Take(c) ==
  /\ jobs[c].pc = "take"
  /\ IF writes[Folder] # None THEN Fails(c) /\ UNCHANGED writes
     ELSE Goes(c, "busy") /\ writes' = [writes EXCEPT ![Folder] = c]

Check(c) ==
  /\ jobs[c].pc = "busy"
  /\ IF BusyIn(Folder) THEN Fails(c) /\ writes' = [writes EXCEPT ![Folder] = None]
     ELSE Goes(c, "switch") /\ UNCHANGED writes

Switch(c) ==
  /\ jobs[c].pc = "switch" /\ writes' = [writes EXCEPT ![Folder] = None]
  /\ Goes(c, "open") \/ Fails(c)

Open(c) ==
  /\ jobs[c].pc = "open"
  /\ \/ (Place(c) # Folder => Place(c) \in disk) /\ Goes(c, "store")
     \/ Undoes(c, "failed")

\* register: projectMu, the Project, and the write of the record, which may
\* fail.
StoredBy(o) == {c \in Spawned(o) : threads[c].rec}
HasRoom(c) == Cardinality(StoredBy(jobs[c].from)) < MaxSpawns

StoreUnlocked(c) ==
  /\ jobs[c].pc = "store"
  /\ IF ~project.listed \/ closed
     THEN Undoes(c, "failed") /\ UNCHANGED <<threads, projectMu>>
     ELSE /\ Goes(c, "list") /\ UNCHANGED projectMu
          /\ threads' = [threads EXCEPT ![c].rec = TRUE]

Store(c) ==
  /\ jobs[c].pc = "store" /\ projectMu = None
  /\ IF ~project.listed \/ closed
     THEN Undoes(c, "failed") /\ UNCHANGED <<threads, projectMu>>
     ELSE IF jobs[c].kind \in SpawnKinds /\ ~HasRoom(c)
          THEN Undoes(c, "noroom") /\ UNCHANGED <<threads, projectMu>>
          ELSE \/ /\ Goes(c, "list") /\ projectMu' = c
                  /\ threads' = [threads EXCEPT ![c].rec = TRUE]
               \/ Undoes(c, "failed") /\ UNCHANGED <<threads, projectMu>>

\* register, after the write: the Thread is listed.
List(c) ==
  /\ jobs[c].pc = "list" /\ projectMu' = None
  /\ IF closed THEN Undoes(c, "failed") /\ UNCHANGED threads
     ELSE /\ jobs' = [jobs EXCEPT ![c].pc = "prompt", ![c].end = "made"]
          /\ threads' = [threads EXCEPT ![c].listed = TRUE, ![c].conv = TRUE]

\* The first message, if there is one and the Thread still takes it.
Prompt(c) ==
  /\ jobs[c].pc = "prompt"
  /\ \/ /\ threads[c].op = "none" /\ threads[c].listed /\ ~closed
        /\ threads[c].stage = "active" /\ ~threads[c].working
        /\ Goes(c, "sending") /\ threads' = [threads EXCEPT ![c].op = "send"]
     \/ Goes(c, "return") /\ UNCHANGED threads

UndoNothing(c) ==
  jobs[c].pc = "undo" /\ Goes(c, "return") /\ UNCHANGED <<disk, branches>>

\* undoPlace: git may refuse to remove the worktree, and then its branch is
\* left alone, or only the branch.  What it leaves of the folder's branch is
\* not modelled.
Undo(c) ==
  /\ jobs[c].pc = "undo"
  /\ \/ /\ Goes(c, "return")
        /\ IF OwnPlace(c) THEN disk' = disk \ {c} /\ branches' = branches \ {c}
           ELSE UNCHANGED <<disk, branches>>
     \/ /\ OwnPlace(c) /\ UNCHANGED branches
        /\ jobs' = [jobs EXCEPT ![c].pc = "return", ![c].end = "kept"]
        /\ disk' \in {disk, disk \ {c}}

\* createChecked returns: releaseCreate wakes who waits for the request.
Return(c) ==
  LET r == jobs[c].req
  IN  /\ jobs[c].pc = "return"
      /\ creating' = creating \ {r}
      /\ jobs' = [d \in Creates |->
           IF d = c THEN [jobs[d] EXCEPT !.pc = "over"]
           ELSE IF r # None /\ jobs[d].pc = "wait" /\ jobs[d].req = r
                THEN [jobs[d] EXCEPT !.pc = "claim"] ELSE jobs[d]]

CreateStep(c) ==
  \/ /\ Claim(c)
     /\ UNCHANGED <<threads, disk, branches, writes, projectMu>>
  \/ PlaceOf(c) /\ UNCHANGED <<creating, threads, writes, projectMu>>
  \/ Recreate(c) /\ UNCHANGED <<creating, threads, writes, projectMu>>
  \/ /\ Take(c) \/ Check(c) \/ Switch(c)
     /\ UNCHANGED <<creating, threads, disk, branches, projectMu>>
  \/ Open(c) /\ UNCHANGED <<creating, threads, disk, branches, writes, projectMu>>
  \/ /\ Store(c) \/ List(c)
     /\ UNCHANGED <<creating, disk, branches, writes>>
  \/ Prompt(c) /\ UNCHANGED <<creating, disk, branches, writes, projectMu>>
  \/ Undo(c) /\ UNCHANGED <<creating, threads, writes, projectMu>>
  \/ Return(c) /\ UNCHANGED <<threads, disk, branches, writes, projectMu>>

-----------------------------------------------------------------------------
(* A prompt to a Thread, under its op.                                     *)

Sends(t) ==
  /\ threads[t].op = "none" /\ threads[t].listed /\ ~closed
  /\ threads[t].stage = "active" /\ ~threads[t].working
  /\ threads' = [threads EXCEPT ![t].op = "send"]

\* openLocked shows the Thread as starting, brings its worktree back and
\* opens its conversation there.
Opens(t) ==
  /\ threads[t].op = "send" /\ ~threads[t].conv
  /\ threads' = [threads EXCEPT ![t].op = "opening"]
  /\ UNCHANGED <<jobs, disk>>

\* send returns, to createChecked if it sends the first message.
Sent(t) ==
  jobs' = [c \in Creates |->
    IF c = t /\ jobs[c].pc = "sending" THEN [jobs[c] EXCEPT !.pc = "return"] ELSE jobs[c]]

Opened(t) ==
  /\ threads[t].op = "opening"
  /\ IF Place(t) = Folder \/ ~project.listed THEN UNCHANGED disk ELSE Recreates(Place(t))
  /\ \/ /\ (Place(t) # Folder => Place(t) \in disk') /\ ~closed
        /\ threads' = [threads EXCEPT ![t].op = "send", ![t].conv = TRUE] /\ UNCHANGED jobs
     \/ threads' = [threads EXCEPT ![t].op = "none"] /\ Sent(t)

BeginsAtOnce(t) ==
  /\ threads[t].op = "send" /\ threads[t].conv
  /\ threads' = [threads EXCEPT ![t].op = "none", ![t].working = TRUE]
  /\ Sent(t) /\ UNCHANGED disk

\* No turn begins in a repository while a git action writes there.
Begins(t) ==
  /\ threads[t].op = "send" /\ threads[t].conv
  /\ \/ /\ writes[Place(t)] = None
        /\ threads' = [threads EXCEPT ![t].op = "none", ![t].working = TRUE]
     \/ closed /\ threads' = [threads EXCEPT ![t].op = "none"]
  /\ Sent(t) /\ UNCHANGED disk

TurnEnds(t) ==
  /\ threads[t].working /\ threads' = [threads EXCEPT ![t].working = FALSE]
  /\ UNCHANGED <<jobs, disk>>

SendStep(t) == Opens(t) \/ Opened(t) \/ Begins(t)

-----------------------------------------------------------------------------
(* The stages of a Thread and the worktrees they remove.                   *)

\* kickWorktreeRemoveLocked
Kicks(t) == kicks' = IF Place(t) = Folder THEN kicks ELSE [kicks EXCEPT ![t] = @ + 1]

\* moveStage, restageLocked
Restage(t, to) ==
  /\ threads[t].op = "none" /\ threads[t].listed /\ ~closed
  /\ threads[t].stage # to /\ <<threads[t].stage, to>> # <<"archived", "settled">>
  /\ threads[t].stage = "active" => ~threads[t].working
  /\ threads' = [threads EXCEPT ![t].stage = to,
                                ![t].conv = @ /\ threads[t].stage # "active"]
  /\ IF to = "active" THEN UNCHANGED kicks ELSE Kicks(t)

\* deleteTask: the record, then the Thread.
Delete(t) ==
  /\ threads[t].op = "none" /\ threads[t].listed /\ ~closed
  /\ threads[t].stage = "archived"
  /\ threads' = [threads EXCEPT ![t].rec = FALSE, ![t].op = "delete"]

Forget(t) ==
  /\ threads[t].op = "delete"
  /\ threads' = [threads EXCEPT ![t].listed = FALSE, ![t].conv = FALSE, ![t].op = "none"]
  /\ IF closed THEN UNCHANGED kicks ELSE Kicks(t)

\* The goroutine: under worktrees.ops it reads who uses the worktree, and
\* removes it after; git keeps one with changes.
Kick(t) ==
  /\ kicks[t] > 0 /\ ops = None
  /\ kicks' = [kicks EXCEPT ![t] = @ - 1]
  /\ ops' = IF Place(t) \in disk /\ ~InUse(Place(t)) THEN t ELSE None
  /\ UNCHANGED disk

Removes(t) ==
  /\ ops = t /\ ops' = None
  /\ disk' \in {disk, disk \ {Place(t)}}
  /\ UNCHANGED kicks

\* RemoveWorktree, on the owner's word.
RemovalLists(path) ==
  /\ removal.pc = "idle" /\ path \in disk
  /\ removal' = [removal EXCEPT !.pc = "lock", !.path = path,
                                !.users = {t \in Listed : Place(t) = path}]
  /\ UNCHANGED <<threads, disk>>

RemovalLocks ==
  LET users == removal.users
  IN  /\ removal.pc = "lock" /\ \A t \in users : threads[t].op = "none"
      /\ IF \E t \in users : threads[t].working
         THEN removal' = [removal EXCEPT !.pc = "idle"] /\ UNCHANGED threads
         ELSE /\ removal' = [removal EXCEPT !.pc = "remove"]
              /\ threads' = [t \in Threads |-> IF t \in users
                   THEN [threads[t] EXCEPT !.op = "remove", !.conv = FALSE] ELSE threads[t]]
      /\ UNCHANGED disk

\* missed: the Threads that came to the worktree since.
RemovalRemoves ==
  LET path == removal.path
  IN  /\ removal.pc = "remove" /\ ops = None
      /\ threads' = [t \in Threads |-> IF t \in removal.users
           THEN [threads[t] EXCEPT !.op = "none"] ELSE threads[t]]
      /\ \/ UNCHANGED disk /\ removal' = [removal EXCEPT !.pc = "idle"]
         \/ /\ disk' = disk \ {path}
            /\ removal' = [removal EXCEPT !.pc = "idle",
                 !.missed = @ \cup {t \in Creates : Place(t) = path
                                      /\ t \notin removal.users /\ jobs[t].pc # "idle"}]

-----------------------------------------------------------------------------
(* The owner's git actions and the removal of the Project.                 *)

GitTakes(top) ==
  /\ git.pc = "idle" /\ writes[top] = None /\ top \in {Folder} \cup disk
  /\ git' = [pc |-> "busy", top |-> top]
  /\ writes' = [writes EXCEPT ![top] = Owner]

GitChecks ==
  /\ git.pc = "busy"
  /\ IF BusyIn(git.top)
     THEN git' = [git EXCEPT !.pc = "idle"] /\ writes' = [writes EXCEPT ![git.top] = None]
     ELSE git' = [git EXCEPT !.pc = "run"] /\ UNCHANGED writes

GitEnds ==
  /\ git.pc = "run" /\ git' = [git EXCEPT !.pc = "idle"]
  /\ writes' = [writes EXCEPT ![git.top] = None]

\* removeProject holds projectMu and then the op of every Thread.
ProjectLists ==
  /\ project.pc = "idle" /\ project.listed /\ projectMu = None
  /\ project' = [project EXCEPT !.pc = "lock", !.tasks = Listed]
  /\ projectMu' = Owner /\ UNCHANGED threads

ProjectLocks ==
  /\ project.pc = "lock" /\ \A t \in project.tasks : threads[t].op = "none"
  /\ IF closed \/ \E t \in project.tasks : threads[t].listed /\ threads[t].stage # "archived"
     THEN /\ project' = [project EXCEPT !.pc = "idle"] /\ projectMu' = None
          /\ UNCHANGED threads
     ELSE /\ project' = [project EXCEPT !.pc = "store"] /\ UNCHANGED projectMu
          /\ threads' = [t \in Threads |-> IF t \in project.tasks
               THEN [threads[t] EXCEPT !.op = "project"] ELSE threads[t]]

\* The write, which may fail.
ProjectStored ==
  /\ project.pc = "store"
  /\ \/ /\ project' = [project EXCEPT !.pc = "forget", !.stored = FALSE]
        /\ threads' = [t \in Threads |-> [threads[t] EXCEPT !.rec = FALSE]]
        /\ UNCHANGED projectMu
     \/ /\ project' = [project EXCEPT !.pc = "idle"] /\ projectMu' = None
        /\ threads' = [t \in Threads |-> IF t \in project.tasks
             THEN [threads[t] EXCEPT !.op = "none"] ELSE threads[t]]

ProjectForgets ==
  /\ project.pc = "forget" /\ projectMu' = None
  /\ project' = [project EXCEPT !.pc = "idle", !.listed = FALSE]
  /\ threads' = [t \in Threads |-> IF t \in project.tasks
       THEN [threads[t] EXCEPT !.listed = FALSE, !.conv = FALSE, !.op = "none"] ELSE threads[t]]

ProjectStep == ProjectLocks \/ ProjectStored \/ ProjectForgets

Shutdown == ~closed /\ closed' = TRUE

-----------------------------------------------------------------------------

Owned == owned < MaxOwner /\ owned' = owned + 1

Rest == <<creating, branches>>

CreateBegins(c) ==
  /\ \/ \E r \in Requests : \E k \in {"folder", "branch", "worktree"} : Create(c, r, k)
     \/ \E r \in Requests : \E o \in Old : Rerun(c, r, o)
     \/ \E o \in Old : \E k \in SpawnKinds : Spawn(c, o, k)
  /\ UNCHANGED <<threads, disk, branches, work, project, projectMu, closed, owned>>

CreateGoes(c) ==
  CreateStep(c) /\ UNCHANGED <<kicks, ops, git, removal, project, closed, owned>>

OwnerSends(t) ==
  /\ Sends(t) /\ Owned
  /\ UNCHANGED <<jobs, disk, Rest, work, project, projectMu, closed>>

SendGoes(t) ==
  SendStep(t) /\ UNCHANGED <<Rest, work, project, projectMu, closed, owned>>

TurnGoes(t) ==
  /\ TurnEnds(t)
  /\ UNCHANGED <<Rest, work, project, projectMu, closed, owned>>

Stage(t) ==
  /\ \E to \in Stages : Restage(t, to)
  /\ Owned
  /\ UNCHANGED <<jobs, disk, Rest, ops, writes, git, removal, project, projectMu, closed>>

DeleteGoes(t) ==
  /\ \/ Delete(t) /\ Owned /\ UNCHANGED kicks
     \/ Forget(t) /\ UNCHANGED owned
  /\ UNCHANGED <<jobs, disk, Rest, ops, writes, git, removal, project, projectMu, closed>>

KickGoes(t) ==
  /\ Kick(t) \/ Removes(t)
  /\ UNCHANGED <<jobs, threads, Rest, writes, git, removal, project, projectMu, closed, owned>>

RemovalBegins ==
  /\ \E path \in Threads : RemovalLists(path)
  /\ Owned
  /\ UNCHANGED <<jobs, Rest, kicks, ops, writes, git, project, projectMu, closed>>

RemovalGoes ==
  /\ RemovalLocks \/ RemovalRemoves
  /\ UNCHANGED <<jobs, Rest, kicks, ops, writes, git, project, projectMu, closed, owned>>

GitBegins ==
  /\ \E top \in Places : GitTakes(top)
  /\ Owned
  /\ UNCHANGED <<jobs, threads, disk, Rest, kicks, ops, removal, project, projectMu, closed>>

GitGoes ==
  /\ GitChecks \/ GitEnds
  /\ UNCHANGED <<jobs, threads, disk, Rest, kicks, ops, removal, project, projectMu, closed, owned>>

ProjectGoes ==
  /\ ProjectStep
  /\ UNCHANGED <<jobs, disk, Rest, work, closed, owned>>

OwnerRemovesProject ==
  ProjectLists /\ Owned /\ UNCHANGED <<jobs, disk, Rest, work, closed>>

ShutsDown == Shutdown /\ Owned /\ UNCHANGED <<jobs, threads, disk, Rest, work, project, projectMu>>

Next ==
  \/ \E c \in Creates : CreateBegins(c) \/ CreateGoes(c)
  \/ \E t \in Threads : OwnerSends(t) \/ SendGoes(t) \/ TurnGoes(t) \/ Stage(t)
                        \/ DeleteGoes(t) \/ KickGoes(t)
  \/ RemovalBegins \/ RemovalGoes \/ GitBegins \/ GitGoes
  \/ OwnerRemovesProject \/ ProjectGoes \/ ShutsDown

Spec == Init /\ [][Next]_vars

-----------------------------------------------------------------------------

(* Properties.                                                             *)

Writing(top) ==
  \/ writes[top] = Owner /\ git.pc = "run"
  \/ \E c \in Creates : writes[top] = c /\ jobs[c].pc = "switch"

\* A git action that has checked its repository runs while no Thread has a
\* turn there: the check and the sends exclude each other (beginWrite,
\* Manager.send).
WritesAreQuiet ==
  \A t \in Listed : threads[t].working => ~Writing(Place(t))

\* A Thread with a turn has its worktree, whatever is settled, archived,
\* deleted and run again there meanwhile: no removal on settling takes it.
\* The owner's own removal is left to RemovalSparesWorking.
WorkingHasFolder ==
  \A t \in Listed : threads[t].working =>
    Place(t) = Folder \/ Place(t) \in disk \/ t \in removal.missed

\* A create that fails leaves neither a worktree nor its branch nor a record;
\* where git refused to undo its place it leaves no record, and no worktree
\* without its branch.  The branch that brings a stored Thread's worktree back
\* is there.  Until uam stops (createChecked, its undoPlace).
AllOrNothing ==
  closed \/ \A c \in Creates :
    /\ jobs[c].end \in {"failed", "kept"} /\ jobs[c].pc \in {"return", "over"} =>
         ~threads[c].rec /\ (c \in disk => c \in branches)
    /\ jobs[c].end = "failed" /\ jobs[c].pc \in {"return", "over"} =>
         c \notin disk \cup branches
    /\ threads[c].rec /\ OwnPlace(c) => c \in branches

\* No two Threads have one request ID.
OncePerRequest ==
  \A c, d \in Creates \cap Listed :
    c # d => jobs[c].req = None \/ jobs[c].req # jobs[d].req

\* Who waits for a request waits for a create of it that runs.
WaitersAreWoken ==
  \A c \in Creates : jobs[c].pc = "wait" =>
    \E d \in Creates : jobs[d].req = jobs[c].req
                       /\ jobs[d].pc \notin {"idle", "claim", "wait", "over"}

\* A repeat of a request makes no second Thread, and is answered (claimCreate,
\* releaseCreate).
RequestsAreAnswered == OncePerRequest /\ WaitersAreWoken

\* An agent whose create was taken has room for it when it is stored: the
\* count under Manager.mu is never below that of the store (spawnsLocked,
\* spawnRoom).
RoomIsKept == \A c \in Creates : jobs[c].end # "noroom"

\* No stored Thread is of a Project that is gone (register, removeProject).
NoOrphans == \A t \in Threads : threads[t].rec => project.stored

\* docs/web.md:480: "the folder switches branch only while every active
\* Thread there has finished".  A create that fails switches back without
\* beginWrite.
SwitchesQuietFolder ==
  [][\A c \in Creates : jobs[c].kind = "branch" /\ Undo(c) =>
       ~\E t \in Listed : Place(t) = Folder /\ threads[t].working]_vars

\* docs/web.md:560: a worktree's removal "is refused while the Thread works".
\* RemoveWorktree reads the worktree's Threads before it waits for their op,
\* and not who is being made there.
RemovalSparesWorking ==
  [][\A w \in disk \ disk' : \A t \in Listed : Place(t) = w => ~threads[t].working]_vars
=============================================================================

--------------------------- MODULE TaskWorkspaces ---------------------------
(* workspace.WorkspaceManager: the directory a task runs in, allocated by    *)
(* the dispatcher once it has claimed the task and cleaned up when DELETE    *)
(* archives it.  Git works; the repository is the one the registry runs in.  *)
EXTENDS Naturals

CONSTANTS
    WTask,          \* tasks
    Dir             \* directories that exist before

VARIABLES
    wtask,          \* [WTask -> phase, workspace_kind and workspace_path]
    disk,           \* the directories there are
    head,           \* the branch checked out in the repository itself
    branches        \* the branches worktree/<task_id>

spaceVars == <<wtask, disk, head, branches>>

NoPath == <<"none">>
Main == "main"
Scratch(t) == <<"scratch", t>>
Worktree(t) == <<"worktree", t>>
Given(d) == <<"dir", d>>
NewTask == [phase |-> "none", kind |-> "scratch", path |-> NoPath,
            changed |-> FALSE]

SpaceInit ==
    /\ wtask = [t \in WTask |-> NewTask]
    /\ disk = {Given(d) : d \in Dir}
    /\ head = Main /\ branches = {}

(* POST /v2/tasks takes any kind and any path; no kind is scratch.           *)
CreateWithSpace(t, k, p) ==
    /\ wtask[t].phase = "none"
    /\ wtask' = [wtask EXCEPT ![t].phase = "ready", ![t].kind = k, ![t].path = p]
    /\ UNCHANGED <<disk, head, branches>>

-----------------------------------------------------------------------------
(* The dispatcher stores the path; a failure to allocate fails the task.     *)
Started(t, p) == wtask' = [wtask EXCEPT ![t].phase = "running", ![t].path = p]
Rejected(t) == wtask' = [wtask EXCEPT ![t].phase = "ended"]

(* _allocate_scratch: a directory left by an earlier run is used again.      *)
AllocateScratch(t) ==
    /\ wtask[t].phase = "ready" /\ wtask[t].kind = "scratch"
    /\ disk' = disk \cup {Scratch(t)}
    /\ Started(t, Scratch(t))
    /\ UNCHANGED <<head, branches>>

(* _validate_dir; validate_kind refuses any other kind. *)
AllocateDir(t) ==
    /\ wtask[t].phase = "ready" /\ wtask[t].kind \in {"dir", "other"}
    /\ IF wtask[t].kind = "dir" /\ wtask[t].path \in disk
       THEN Started(t, wtask[t].path) ELSE Rejected(t)
    /\ UNCHANGED <<disk, head, branches>>

(* Mutant: the worktree is taken to be there when its branch is. *)
AllocateWorktreeByBranch(t) ==
    /\ wtask[t].phase = "ready" /\ wtask[t].kind = "worktree"
    /\ head' = IF t \in branches THEN head ELSE t
    /\ branches' = branches \cup {t}
    /\ IF head' # t THEN Started(t, Worktree(t)) ELSE Rejected(t)
    /\ UNCHANGED disk

(* _allocate_worktree: a missing branch is made with git checkout -b, which  *)
(* switches the repository to it; git worktree add then refuses a branch     *)
(* that is checked out, here or in a worktree left by an earlier run.        *)
AllocateWorktree(t) ==
    /\ wtask[t].phase = "ready" /\ wtask[t].kind = "worktree"
    /\ head' = IF t \in branches THEN head ELSE t
    /\ branches' = branches \cup {t}
    /\ IF head' # t /\ Worktree(t) \notin disk
       THEN disk' = disk \cup {Worktree(t)} /\ Started(t, Worktree(t))
       ELSE UNCHANGED disk /\ Rejected(t)

-----------------------------------------------------------------------------
(* The worker changes files in its directory. *)
WriteFiles(t) ==
    /\ wtask[t].phase = "running"
    /\ wtask' = [wtask EXCEPT ![t].changed = TRUE]
    /\ UNCHANGED <<disk, head, branches>>

(* A worker that claims through the route, or PATCH with status running,     *)
(* gets the task no directory.                                               *)
RunWithoutSpace(t) ==
    /\ wtask[t].phase \in {"ready", "ended"}
    /\ wtask' = [wtask EXCEPT ![t].phase = "elsewhere"]
    /\ UNCHANGED <<disk, head, branches>>

(* The task completes, fails, blocks or is cancelled, before or after it ran. *)
EndWithSpace(t) ==
    /\ wtask[t].phase \in {"ready", "running", "elsewhere"}
    /\ wtask' = [wtask EXCEPT ![t].phase = "ended"]
    /\ UNCHANGED <<disk, head, branches>>

(* A failed task is made ready again; it keeps its path and directory.       *)
RetryWithSpace(t) ==
    /\ wtask[t].phase = "ended"
    /\ wtask' = [wtask EXCEPT ![t].phase = "ready"]
    /\ UNCHANGED <<disk, head, branches>>

(* cleanup: a scratch task removes the tree its path names, allocated or     *)
(* given; git worktree remove refuses a worktree that was changed, and the   *)
(* branch stays, since git branch -D is run in the directory just removed.   *)
Cleanup(t) ==
    disk' = CASE wtask[t].path = NoPath -> disk
              [] wtask[t].kind = "scratch" -> disk \ {wtask[t].path}
              [] wtask[t].kind = "worktree" /\ ~wtask[t].changed -> disk \ {Worktree(t)}
              [] OTHER -> disk

(* DELETE /v2/tasks/{id} *)
ArchiveWithSpace(t) ==
    /\ wtask[t].phase = "ended"
    /\ wtask' = [wtask EXCEPT ![t].phase = "archived"]
    /\ Cleanup(t)
    /\ UNCHANGED <<head, branches>>

(* PATCH and the batch route archive a task and leave its directory.         *)
ArchiveOnly(t) ==
    /\ wtask[t].phase = "ended"
    /\ wtask' = [wtask EXCEPT ![t].phase = "shelved"]
    /\ UNCHANGED <<disk, head, branches>>

SpaceNext ==
    \E t \in WTask :
        \/ \E k \in {"scratch", "dir", "worktree", "other"},
              p \in {NoPath} \cup {Given(d) : d \in Dir} : CreateWithSpace(t, k, p)
        \/ AllocateScratch(t) \/ AllocateDir(t) \/ AllocateWorktree(t)
        \/ WriteFiles(t) \/ RunWithoutSpace(t) \/ EndWithSpace(t) \/ RetryWithSpace(t)
        \/ ArchiveWithSpace(t) \/ ArchiveOnly(t)

-----------------------------------------------------------------------------
(* A dispatched task runs in a directory that is there and its own, unless   *)
(* its creator named one.                                                    *)
RunsInItsSpace ==
    \A t \in WTask : wtask[t].phase = "running" =>
        \/ wtask[t].kind = "dir" /\ wtask[t].path \in {Given(d) : d \in Dir}
        \/ wtask[t].path = <<wtask[t].kind, t>> /\ wtask[t].path \in disk

(* After DELETE what was allocated is gone, over failures, retries and       *)
(* reuse, except for a worktree in which files were changed.                 *)
ArchiveLeavesNothing ==
    \A t \in WTask : wtask[t].phase = "archived" =>
        Scratch(t) \notin disk /\ (Worktree(t) \in disk => wtask[t].changed)
=============================================================================

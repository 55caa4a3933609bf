----------------------------- MODULE GitMirror -----------------------------
(***************************************************************************)
(* The workspaces of the sessions of one repository (internal/gitops/      *)
(* workspace.go): one bare mirror that all of them share, and for each     *)
(* session a linked worktree on a branch of its own in that mirror.        *)
(*                                                                         *)
(* The governor runs one command at a time, a sequence of calls of git;    *)
(* the agents edit their worktrees and the repository changes all the      *)
(* time.  A branch is the set of its commits, the files of a worktree are  *)
(* the number of edits made to them.  What git does (clone --mirror, fetch *)
(* --prune, worktree, push) is modelled from how this code calls it.       *)
(* /tree and /diff, which change nothing, are left out, and so is          *)
(* branch --set-upstream-to, whose result nothing reads.                   *)
(***************************************************************************)
EXTENDS Naturals, FiniteSets

CONSTANTS
  Sessions,               \* session ids: each is used once
  Branches,               \* branches of the repository
  NoBranch,
  Remotes,                \* what RELAY_GIT_PUSH_REMOTE may be: "origin", or
                          \* the "url" of the repository
  MaxCommits, MaxEdits,   \* bounds: commits; edits of a worktree
  MaxFails                \* bound: calls of git that fail or are killed

ASSUME NoBranchAssumption == NoBranch \notin Branches
ASSUME RemotesAssumption == Remotes \subseteq {"origin", "url"}
ASSUME BoundsAssumption ==
  MaxCommits \in Nat \ {0} /\ MaxEdits \in Nat /\ MaxFails \in Nat

VARIABLES
  source,                 \* the refs of the repository; a repository that is
                          \* itself a clone has "remotes" as well
  mirror,                 \* the mirror: a clone that was killed leaves "bare",
                          \* without remote.origin.fetch
  refs,                   \* its refs
  dir,                    \* a worktree without its .git file is "broken";
                          \* what an add that was killed has left is "locked"
  meta,                   \* the worktree is registered in the mirror
  branch,                 \* what the session was started with
  live,                   \* sessions that were registered and not stopped
  edits, index, saved,    \* edits in the worktree, its index and its HEAD
  op,                     \* the command that runs and its next call
  found,                  \* branchRef: which of its two refs it has found
  reply,                  \* what came of it
  commits,                \* commits made so far
  fails,                  \* calls that failed
  asked,                  \* history: the commits that the branch asked for has
                          \* had ever since the command came
  askedEdits,             \* history: the edits made before the command came
  unsure,                 \* history: a show-ref of the command failed
  told                    \* history: the commits that were reported

trees == <<dir, meta, edits, index, saved>>
sessions == <<branch, live>>
history == <<asked, askedEdits, unsure, told>>
vars == <<source, mirror, refs, trees, sessions, op, found, reply, commits,
          fails, history>>

Head(b) == <<"heads", b>>
Remote(b) == <<"remotes", b>>
Own(s) == <<"relayshell", s>>
Kinds == {"heads", "remotes"}
Names == Kinds \X Branches \cup {"relayshell"} \X Sessions
Commits == 1 .. MaxCommits
Steps == {"idle", "mirror", "resolve", "add", "stage", "record", "push",
          "remove", "prune", "delete"}

TypeOK ==
  /\ DOMAIN source \subseteq Names /\ DOMAIN refs \subseteq Names
  /\ source \in [DOMAIN source -> SUBSET (1 .. commits)]
  /\ refs \in [DOMAIN refs -> SUBSET (1 .. commits)]
  /\ mirror \in {"absent", "bare", "ready"}
  /\ dir \in [Sessions -> {"none", "whole", "broken", "locked"}]
  /\ meta \in [Sessions -> BOOLEAN]
  /\ branch \in [Sessions -> Branches \cup {NoBranch}]
  /\ live \subseteq {s \in Sessions : branch[s] # NoBranch}
  /\ edits \in [Sessions -> 0 .. MaxEdits]
  /\ index \in [Sessions -> 0 .. MaxEdits] /\ saved \in [Sessions -> 0 .. MaxEdits]
  /\ \A s \in Sessions : saved[s] <= index[s] /\ index[s] <= edits[s]
  /\ op \in [s : Sessions, at : Steps]
  /\ found \in Kinds /\ unsure \in BOOLEAN
  /\ reply \in {"", "ready", "not found", "refused", "no changes", "committed",
                "pushed", "no mirror refspec", "removed", "error"}
  /\ commits \in Commits
  /\ fails \in 0 .. MaxFails
  /\ asked \subseteq 1 .. commits /\ told \in [Sessions -> SUBSET Commits]
  /\ askedEdits \in 0 .. MaxEdits

Init ==
  /\ \E kinds \in {{"heads"}, {"heads", "remotes"}} :
       source = [n \in kinds \X Branches |-> {1}]
  /\ mirror = "absent"
  /\ refs = [n \in {} |-> {}]
  /\ dir = [s \in Sessions |-> "none"]
  /\ meta = [s \in Sessions |-> FALSE]
  /\ branch = [s \in Sessions |-> NoBranch]
  /\ live = {}
  /\ edits = [s \in Sessions |-> 0]
  /\ index = edits /\ saved = edits
  /\ op \in [s : Sessions, at : {"idle"}]
  /\ found = "heads" /\ unsure = FALSE
  /\ reply = ""
  /\ commits = 1
  /\ fails = 0
  /\ asked = {} /\ askedEdits = 0
  /\ told = [s \in Sessions |-> {}]

-----------------------------------------------------------------------------
(* The world: the repository and the agents.                               *)

Publish(b) ==
  /\ Head(b) \in DOMAIN source
  /\ commits < MaxCommits
  /\ commits' = commits + 1
  /\ source' = [source EXCEPT ![Head(b)] = @ \cup {commits'}]
  /\ UNCHANGED <<mirror, refs, trees, sessions, op, found, reply, fails,
                 history>>

Drop(b) ==
  /\ Head(b) \in DOMAIN source
  /\ source' = [n \in DOMAIN source \ {Head(b)} |-> source[n]]
  /\ asked' = IF branch[op.s] = b THEN {} ELSE asked
  /\ UNCHANGED <<mirror, refs, trees, sessions, op, found, reply, commits,
                 fails, askedEdits, unsure, told>>

Edit(s) ==
  /\ s \in live
  /\ edits[s] < MaxEdits
  /\ edits' = [edits EXCEPT ![s] = @ + 1]
  /\ UNCHANGED <<source, mirror, refs, dir, meta, index, saved, sessions, op,
                 found, reply, commits, fails, history>>

-----------------------------------------------------------------------------
(* Commands.                                                               *)

At(step) == op.at = step
Then(step) == op' = [op EXCEPT !.at = step] /\ reply' = reply
Reply(r) == op' = [op EXCEPT !.at = "idle"] /\ reply' = r
Fail == fails < MaxFails /\ fails' = fails + 1
BaseOf(s) ==
  IF Head(branch'[s]) \in DOMAIN source THEN source[Head(branch'[s])] ELSE {}

Receive(s, step) ==
  /\ At("idle")
  /\ op' = [s |-> s, at |-> step]
  /\ reply' = ""
  /\ asked' = BaseOf(s)
  /\ askedEdits' = edits[s]
  /\ unsure' = FALSE
  /\ UNCHANGED <<source, mirror, refs, trees, live, found, commits, fails,
                 told>>

Start(s, b) ==
  /\ branch[s] = NoBranch
  /\ branch' = [branch EXCEPT ![s] = b]
  /\ Receive(s, "mirror")

Command(s, step) ==
  /\ s \in live
  /\ UNCHANGED branch
  /\ Receive(s, step)

(* The governor is killed in the middle of a command.                      *)
Interrupt ==
  /\ ~At("idle")
  /\ Fail
  /\ Reply("error")
  /\ UNCHANGED <<source, mirror, refs, trees, sessions, found, commits,
                 history>>

-----------------------------------------------------------------------------
(* Prepare.                                                                *)

(* ensureMirror without a mirror.  git removes what a clone that fails has *)
(* made; one that is killed leaves it, with or without its configuration   *)
(* and its refs.                                                           *)
Clone ==
  /\ At("mirror")
  /\ mirror = "absent"
  /\ \/ mirror' = "ready" /\ refs' = source /\ Then("resolve")
        /\ UNCHANGED fails
     \/ Fail /\ Reply("error")
        /\ \/ mirror' \in {"absent", "bare"} /\ UNCHANGED refs
           \/ mirror' = "ready" /\ refs' \in {refs, source}
  /\ UNCHANGED <<source, trees, sessions, found, commits, history>>

(* git does not fetch into a branch that a worktree has checked out.       *)
CheckedOut == \E s \in Sessions : Own(s) \in DOMAIN source /\ meta[s]

(* The refs when a fetch was killed: it had pruned them and brought some.  *)
Partly(brought) ==
  [n \in brought \cup (DOMAIN refs \cap DOMAIN source) |->
     IF n \in brought THEN source[n] ELSE refs[n]]

(* Mutant of Fetch: a mirror that is there is not fetched again.           *)
FetchNothing ==
  /\ At("mirror")
  /\ mirror # "absent"
  /\ Then("resolve")
  /\ UNCHANGED <<source, mirror, refs, trees, sessions, found, commits, fails,
                 history>>

(* ensureMirror with one: fetch --prune makes the refs those of the        *)
(* repository.                                                             *)
Fetch ==
  /\ At("mirror")
  /\ mirror # "absent"
  /\ \/ mirror = "bare" /\ Then("resolve") /\ UNCHANGED <<refs, fails>>
     \/ /\ mirror = "ready" /\ ~CheckedOut
        /\ refs' = source
        /\ Then("resolve")
        /\ UNCHANGED fails
     \/ mirror = "ready" /\ CheckedOut /\ Reply("refused")
        /\ UNCHANGED <<refs, fails>>
     \/ Fail /\ Reply("error") /\ UNCHANGED refs
     \/ /\ mirror = "ready" /\ ~CheckedOut
        /\ Fail /\ Reply("error")
        /\ \E brought \in SUBSET DOMAIN source : refs' = Partly(brought)
  /\ UNCHANGED <<source, mirror, trees, sessions, found, commits, history>>

(* The refs of the branch that show-ref tells of, when the calls for some  *)
(* of them fail.                                                           *)
Seen(failed) ==
  {kind \in Kinds \ failed : <<kind, branch[op.s]>> \in DOMAIN refs}

(* Mutant of Resolve: only the tracking branch is looked for.              *)
ResolveRemote ==
  /\ At("resolve")
  /\ IF "remotes" \in Seen({}) THEN Then("add") ELSE Reply("not found")
  /\ found' = "remotes"
  /\ UNCHANGED <<source, mirror, refs, trees, sessions, commits, fails,
                 history>>

(* The directory of a new session is not there: there is nothing to clean  *)
(* up.  resolveBranchRef: the tracking branch, then the branch, and a      *)
(* show-ref that fails, for whatever reason, is a ref that is not there.   *)
Resolve ==
  /\ At("resolve")
  /\ \E failed \in SUBSET Kinds :
       /\ IF failed = {} THEN UNCHANGED fails ELSE Fail
       /\ unsure' = (failed # {})
       /\ IF Seen(failed) = {} THEN Reply("not found") ELSE Then("add")
       /\ found' = IF "remotes" \in Seen(failed) THEN "remotes" ELSE "heads"
  /\ UNCHANGED <<source, mirror, refs, trees, sessions, commits, asked,
                 askedEdits, told>>

(* The refs when worktree add -B has made the branch of a session.         *)
Branched ==
  [n \in DOMAIN refs \cup {Own(op.s)} |->
     IF n = Own(op.s) THEN refs[<<found, branch[op.s]>>] ELSE refs[n]]

(* worktree add -B; startSession registers the session.  The call makes    *)
(* the branch, registers a worktree that is locked and then checks it out; *)
(* if it is killed, what it has made stays, and is of no session.          *)
AddWorktree ==
  /\ At("add")
  /\ \/ /\ refs' = Branched
        /\ dir' = [dir EXCEPT ![op.s] = "whole"]
        /\ meta' = [meta EXCEPT ![op.s] = TRUE]
        /\ live' = live \cup {op.s}
        /\ Reply("ready")
        /\ UNCHANGED fails
     \/ /\ Fail /\ Reply("error")
        /\ refs' \in {refs, Branched} /\ UNCHANGED <<dir, meta, live>>
     \/ /\ Fail /\ Reply("error")
        /\ refs' = Branched
        /\ \E d \in {"locked", "whole"} : dir' = [dir EXCEPT ![op.s] = d]
        /\ meta' = [meta EXCEPT ![op.s] = TRUE]
        /\ UNCHANGED live
  /\ UNCHANGED <<source, mirror, edits, index, saved, branch, found, commits,
                 history>>

-----------------------------------------------------------------------------
(* CommitAll.                                                              *)

Unborn(s) == Own(s) \notin DOMAIN refs

(* Mutant of Stage: the changes are looked for before they are staged.     *)
StageLate ==
  /\ At("stage")
  /\ index' = [index EXCEPT ![op.s] = edits[op.s]]
  /\ IF index[op.s] = saved[op.s] /\ ~Unborn(op.s) THEN Reply("no changes")
     ELSE Then("record")
  /\ UNCHANGED <<source, mirror, refs, dir, meta, edits, saved, sessions,
                 found, commits, fails, history>>

(* add -A, and diff --cached against HEAD, which on a branch that is gone  *)
(* lists every file.  If the second fails, the first has been done.        *)
Stage ==
  /\ At("stage")
  /\ \/ /\ index' = [index EXCEPT ![op.s] = edits[op.s]]
        /\ IF index'[op.s] = saved[op.s] /\ ~Unborn(op.s)
           THEN Reply("no changes") ELSE Then("record")
        /\ UNCHANGED fails
     \/ /\ Fail /\ Reply("error")
        /\ index' \in {index, [index EXCEPT ![op.s] = edits[op.s]]}
  /\ UNCHANGED <<source, mirror, refs, dir, meta, edits, saved, sessions,
                 found, commits, history>>

(* Mutant of Record: the commit is taken to be of the files as they are.   *)
RecordFiles ==
  /\ At("record")
  /\ commits < MaxCommits
  /\ commits' = commits + 1
  /\ refs' = [n \in DOMAIN refs \cup {Own(op.s)} |->
                IF n # Own(op.s) THEN refs[n]
                ELSE (IF Unborn(op.s) THEN {} ELSE refs[n]) \cup {commits'}]
  /\ saved' = [saved EXCEPT ![op.s] = edits[op.s]]
  /\ told' = [told EXCEPT ![op.s] = @ \cup {commits'}]
  /\ Reply("committed")
  /\ UNCHANGED <<source, mirror, dir, meta, edits, index, sessions, found,
                 asked, askedEdits, unsure, fails>>

(* What a commit is to the mirror and the worktree: on a branch that is    *)
(* gone it has no parent.                                                  *)
Committed ==
  /\ commits' = commits + 1
  /\ refs' = [n \in DOMAIN refs \cup {Own(op.s)} |->
                IF n # Own(op.s) THEN refs[n]
                ELSE (IF Unborn(op.s) THEN {} ELSE refs[n]) \cup {commits'}]
  /\ saved' = [saved EXCEPT ![op.s] = index[op.s]]

(* commit, and rev-parse of what it has made: if that fails, the commit    *)
(* was made and nobody is told of it.                                      *)
Record ==
  /\ At("record")
  /\ commits < MaxCommits
  /\ \/ /\ Committed
        /\ told' = [told EXCEPT ![op.s] = @ \cup {commits'}]
        /\ Reply("committed")
        /\ UNCHANGED fails
     \/ /\ Fail /\ Reply("error")
        /\ Committed \/ UNCHANGED <<commits, refs, saved>>
        /\ UNCHANGED told
  /\ UNCHANGED <<source, mirror, dir, meta, edits, index, sessions, found,
                 asked, askedEdits, unsure>>

-----------------------------------------------------------------------------
(* Push, with an SSH key: to "origin" git refuses to push one branch, since *)
(* clone --mirror has made remote.origin.mirror true.  (Nobody else moves  *)
(* the branch of a session, so a push never has to be forced.)  One that   *)
(* is killed may have been taken.                                          *)
Push ==
  /\ At("push")
  /\ \/ /\ "origin" \in Remotes
        /\ Reply("no mirror refspec")
        /\ UNCHANGED <<source, fails>>
     \/ /\ "url" \in Remotes
        /\ ~Unborn(op.s)
        /\ source' = [n \in DOMAIN source \cup {Own(op.s)} |->
                        IF n = Own(op.s) THEN refs[n] ELSE source[n]]
        /\ (Reply("pushed") /\ UNCHANGED fails) \/ (Fail /\ Reply("error"))
     \/ /\ (Unborn(op.s) /\ UNCHANGED fails) \/ Fail
        /\ Reply("error")
        /\ UNCHANGED source
  /\ UNCHANGED <<mirror, refs, trees, sessions, found, commits, history>>

-----------------------------------------------------------------------------
(* CleanupWorkspace, for stopSession, which goes on if it fails.           *)

Stopped == live' = live \ {op.s}

(* Mutant of Remove: the directory is removed without git.                 *)
RemoveFiles ==
  /\ At("remove")
  /\ Then("delete")
  /\ UNCHANGED <<source, mirror, refs, trees, sessions, found, commits, fails,
                 history>>

(* worktree remove --force: its error is ignored.  It needs the .git file, *)
(* and may have removed that and not the rest when it is killed.           *)
Remove ==
  /\ At("remove")
  /\ \/ /\ dir[op.s] = "none"
        /\ Reply("removed") /\ Stopped
        /\ UNCHANGED <<dir, meta, fails>>
     \/ /\ dir[op.s] = "broken"
        /\ Then("delete")
        /\ UNCHANGED <<dir, meta, live, fails>>
     \/ /\ dir[op.s] = "whole"
        /\ dir' = [dir EXCEPT ![op.s] = "none"]
        /\ meta' = [meta EXCEPT ![op.s] = FALSE]
        /\ Then("prune")
        /\ UNCHANGED <<live, fails>>
     \/ /\ dir[op.s] = "whole"
        /\ Fail
        /\ \E d \in {"whole", "broken"} : dir' = [dir EXCEPT ![op.s] = d]
        /\ Then("prune")
        /\ UNCHANGED <<meta, live>>
  /\ UNCHANGED <<source, mirror, refs, edits, index, saved, branch, found,
                 commits, history>>

(* worktree prune, of every worktree that has no .git file any more and is *)
(* not locked.                                                             *)
Prune ==
  /\ At("prune")
  /\ \/ meta' = [s \in Sessions |-> meta[s] /\ dir[s] \in {"whole", "locked"}]
        /\ UNCHANGED fails
     \/ Fail /\ UNCHANGED meta
  /\ Then("delete")
  /\ UNCHANGED <<source, mirror, refs, dir, edits, index, saved, sessions,
                 found, commits, history>>

(* os.RemoveAll.                                                           *)
Delete ==
  /\ At("delete")
  /\ \/ /\ dir' = [dir EXCEPT ![op.s] = "none"]
        /\ Reply("removed")
        /\ UNCHANGED fails
     \/ Fail /\ Reply("error") /\ UNCHANGED dir
  /\ Stopped
  /\ UNCHANGED <<source, mirror, refs, meta, edits, index, saved, branch,
                 found, commits, history>>

-----------------------------------------------------------------------------
Next ==
  \/ Interrupt \/ Clone \/ Fetch \/ Resolve \/ AddWorktree
  \/ Stage \/ Record \/ Push \/ Remove \/ Prune \/ Delete
  \/ \E b \in Branches : Publish(b) \/ Drop(b)
  \/ \E s \in Sessions :
       \/ Edit(s)
       \/ \E b \in Branches : Start(s, b)
       \/ \E step \in {"stage", "push", "remove"} : Command(s, step)

Spec == Init /\ [][Next]_vars

-----------------------------------------------------------------------------
(* What the code keeps.                                                    *)

(* A session starts from all the commits that its branch had when /start   *)
(* came and still has, whatever fetches failed or were killed before --    *)
(* unless the repository is itself a clone, whose tracking branches are    *)
(* preferred to its branches.                                              *)
FreshBase ==
  reply = "ready" =>
    \/ asked \subseteq refs[Own(op.s)]
    \/ Remote(branch[op.s]) \in DOMAIN refs

(* A branch that /start does not find is not there, unless the mirror is   *)
(* what a clone that was killed has left, or a call that looked for the    *)
(* branch failed.                                                          *)
NotFoundIsTrue ==
  reply = "not found" => asked = {} \/ mirror = "bare" \/ unsure

(* After a /commit that succeeds, or finds no changes, the branch has      *)
(* every edit that was made before it.                                     *)
CommitTakesAll ==
  reply \in {"committed", "no changes"} =>
    ~Unborn(op.s) /\ saved[op.s] >= askedEdits

(* A workspace that was reported removed is gone, with whatever a clean-up *)
(* that was killed before it had left; and where no call has failed, so is *)
(* what the mirror knew of it, which would keep the branch from being      *)
(* fetched.                                                                *)
CleanedUp ==
  reply = "removed" =>
    /\ dir[op.s] = "none"
    /\ fails = 0 => ~meta[op.s]

-----------------------------------------------------------------------------
(* What the code does not keep.                                            *)

(* The branch of a session that runs has all the commits it was told of.   *)
CommitsKept ==
  \A s \in live : told[s] \subseteq (IF Unborn(s) THEN {} ELSE refs[Own(s)])
=============================================================================

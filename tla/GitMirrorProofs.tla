-------------------------- MODULE GitMirrorProofs --------------------------
(***************************************************************************)
(* Proofs about GitMirror for any number of sessions, branches, commits    *)
(* and failed calls: its types, what a session starts from, when a branch  *)
(* is said not to be there, what a commit holds and what a clean-up leaves.*)
(***************************************************************************)
EXTENDS GitMirror, TLAPS

(* What the refs that are given have of branch b.                          *)
Base(some, b) == IF Head(b) \in DOMAIN some THEN some[Head(b)] ELSE {}

(* A command that runs has not been answered; the steps of Prepare are for *)
(* a session that has a branch.                                            *)
OpInv ==
  /\ op.at # "idle" => reply = ""
  /\ op.at \in {"mirror", "resolve", "add"} => branch[op.s] \in Branches

(* Before a mirror is ready it has no refs, and no session has a worktree. *)
MirrorInv ==
  /\ mirror # "ready" => DOMAIN refs = {} /\ live = {}
  /\ op.at \in {"stage", "record", "push", "remove", "prune", "delete"} =>
       mirror = "ready"

(* What was asked for is still in the repository, and from the fetch on it *)
(* is in the mirror; what is added is there to be added.                   *)
AskedInv ==
  /\ asked \subseteq Base(source, branch[op.s])
  /\ op.at \in {"resolve", "add"} =>
       mirror = "bare" \/ asked \subseteq Base(refs, branch[op.s])
  /\ op.at = "add" => <<found, branch[op.s]>> \in DOMAIN refs

(* The edits made before the command are in the worktree, and in its index *)
(* once they are staged.                                                   *)
EditsInv ==
  /\ askedEdits <= edits[op.s]
  /\ op.at = "record" => askedEdits <= index[op.s]

(* Without a failure, no worktree is broken, what is registered is there,  *)
(* and what git removed is gone.                                           *)
TreeInv ==
  fails = 0 =>
    /\ \A s \in Sessions : dir[s] # "broken" /\ (meta[s] => dir[s] = "whole")
    /\ op.at \in {"prune", "delete"} => dir[op.s] = "none"

Answers == FreshBase /\ NotFoundIsTrue /\ CommitTakesAll /\ CleanedUp

MirrorIInv ==
  TypeOK /\ OpInv /\ MirrorInv /\ AskedInv /\ EditsInv /\ TreeInv /\ Answers

-----------------------------------------------------------------------------
(* The bounds are numbers.                                                 *)
LEMMA Bounds ==
  /\ MaxCommits \in Nat /\ MaxCommits > 0
  /\ MaxEdits \in Nat /\ MaxFails \in Nat
BY BoundsAssumption

(* What the types say of the counters.                                     *)
LEMMA Counters ==
  ASSUME TypeOK
  PROVE  /\ commits \in Nat /\ commits > 0 /\ commits <= MaxCommits
         /\ fails \in Nat /\ fails <= MaxFails
         /\ askedEdits \in Nat /\ askedEdits <= MaxEdits
         /\ op.s \in Sessions /\ op.at \in Steps
         /\ \A s \in Sessions :
              /\ edits[s] \in Nat /\ index[s] \in Nat /\ saved[s] \in Nat
              /\ saved[s] <= index[s] /\ index[s] <= edits[s]
              /\ edits[s] <= MaxEdits
<1>1. commits \in Commits /\ fails \in 0 .. MaxFails /\ askedEdits \in 0 .. MaxEdits
  BY DEF TypeOK
<1>2. /\ edits \in [Sessions -> 0 .. MaxEdits]
      /\ index \in [Sessions -> 0 .. MaxEdits]
      /\ saved \in [Sessions -> 0 .. MaxEdits]
      /\ \A s \in Sessions : saved[s] <= index[s] /\ index[s] <= edits[s]
  BY DEF TypeOK
<1>3. op.s \in Sessions /\ op.at \in Steps
  BY DEF TypeOK
<1>4. commits \in Nat /\ commits > 0 /\ commits <= MaxCommits
  BY <1>1, Bounds DEF Commits
<1>5. fails \in Nat /\ fails <= MaxFails /\ askedEdits \in Nat /\ askedEdits <= MaxEdits
  BY <1>1, Bounds
<1>6. ASSUME NEW s \in Sessions
      PROVE  /\ edits[s] \in Nat /\ index[s] \in Nat /\ saved[s] \in Nat
             /\ saved[s] <= index[s] /\ index[s] <= edits[s]
             /\ edits[s] <= MaxEdits
  BY <1>2, Bounds
<1> QED
  BY <1>3, <1>4, <1>5, <1>6

(* The refs have their names apart from each other.                        *)
LEMMA RefNames ==
  ASSUME NEW b \in Branches, NEW s \in Sessions
  PROVE  /\ Head(b) # Own(s) /\ Remote(b) # Own(s) /\ Head(b) # Remote(b)
         /\ {Head(b), Remote(b), Own(s)} \subseteq Names
         /\ \A c : Head(b) = Head(c) => b = c
         /\ \A u : Own(s) = Own(u) => s = u
BY DEF Head, Remote, Own, Names, Kinds

(* How a command goes on, and how it is answered.                          *)
LEMMA GoesOn ==
  ASSUME TypeOK, NEW step \in Steps, Then(step)
  PROVE  /\ op' \in [s : Sessions, at : Steps] /\ op'.s = op.s /\ op'.at = step
         /\ reply' = reply
BY DEF TypeOK, Then

(* A command that is answered is over.                                     *)
LEMMA Answered ==
  ASSUME TypeOK, NEW r, Reply(r)
  PROVE  /\ op' \in [s : Sessions, at : Steps] /\ op'.s = op.s
         /\ op'.at = "idle" /\ reply' = r
BY DEF TypeOK, Reply, Steps

(* Failures are counted, and stay within their bound.                      *)
LEMMA FailsType ==
  ASSUME TypeOK, Fail \/ UNCHANGED fails
  PROVE  fails' \in 0 .. MaxFails /\ (fails' = 0 => fails = 0)
<1>1. fails \in Nat /\ fails <= MaxFails
  BY Counters
<1>2. CASE Fail
  BY <1>1, <1>2, Bounds DEF Fail
<1>3. CASE UNCHANGED fails
  BY <1>1, <1>3, Bounds
<1> QED
  BY <1>2, <1>3

(* What Resolve finds is in the mirror; what it does not find is not, or a *)
(* call failed.                                                            *)
LEMMA Resolved ==
  ASSUME TypeOK, Resolve
  PROVE  /\ op.at = "resolve" /\ op'.s = op.s
         /\ found' \in Kinds /\ unsure' \in BOOLEAN
         /\ Fail \/ UNCHANGED fails
         /\ \/ /\ Then("add") /\ op'.at = "add"
               /\ <<found', branch[op.s]>> \in DOMAIN refs
            \/ /\ Reply("not found") /\ op'.at = "idle"
               /\ unsure' \/ Head(branch[op.s]) \notin DOMAIN refs
<1>1. PICK failed \in SUBSET Kinds :
        /\ IF failed = {} THEN UNCHANGED fails ELSE Fail
        /\ unsure' = (failed # {})
        /\ IF Seen(failed) = {} THEN Reply("not found") ELSE Then("add")
        /\ found' = IF "remotes" \in Seen(failed) THEN "remotes" ELSE "heads"
  BY DEF Resolve
<1>2. op.at = "resolve"
  BY DEF Resolve, At
<1>3. CASE Seen(failed) = {}
  <2>1. failed = {} => Head(branch[op.s]) \notin DOMAIN refs
    BY <1>3 DEF Seen, Kinds, Head
  <2>2. Reply("not found") /\ found' = "heads"
    BY <1>1, <1>3
  <2> QED
    BY <1>1, <1>2, <2>1, <2>2, Answered DEF Kinds
<1>4. CASE Seen(failed) # {}
  <2>1. found' \in Seen(failed)
    BY <1>1, <1>4 DEF Seen, Kinds
  <2>2. <<found', branch[op.s]>> \in DOMAIN refs /\ found' \in Kinds
    BY <2>1 DEF Seen
  <2>3. Then("add") /\ op'.s = op.s /\ op'.at = "add"
    BY <1>1, <1>4, GoesOn DEF Steps
  <2> QED
    BY <1>1, <1>2, <2>2, <2>3
<1> QED
  BY <1>3, <1>4

-----------------------------------------------------------------------------
(* Initially there is no mirror and no session.                            *)
LEMMA InitInv == Init => MirrorIInv
<1> SUFFICES ASSUME Init PROVE MirrorIInv
  OBVIOUS
<1>1. PICK kinds \in {{"heads"}, {"heads", "remotes"}} :
        source = [n \in kinds \X Branches |-> {1}]
  BY DEF Init
<1>2. /\ op \in [s : Sessions, at : {"idle"}] /\ op.at = "idle"
      /\ op.s \in Sessions
  BY DEF Init
<1>3. TypeOK
  <2>1. /\ DOMAIN source \subseteq Names
        /\ source \in [DOMAIN source -> SUBSET (1 .. commits)]
    <3>1. commits = 1
      BY DEF Init
    <3> QED
      BY <1>1, <3>1 DEF Names, Kinds
  <2>2. /\ DOMAIN refs = {} /\ refs \in [DOMAIN refs -> SUBSET (1 .. commits)]
    BY DEF Init
  <2>3. /\ edits \in [Sessions -> 0 .. MaxEdits]
        /\ index \in [Sessions -> 0 .. MaxEdits]
        /\ saved \in [Sessions -> 0 .. MaxEdits]
        /\ \A s \in Sessions : saved[s] <= index[s] /\ index[s] <= edits[s]
    <3>1. edits = [s \in Sessions |-> 0] /\ index = edits /\ saved = edits
      BY DEF Init
    <3>2. 0 \in 0 .. MaxEdits
      BY Bounds
    <3> QED
      BY <3>1, <3>2
  <2>4. /\ dir \in [Sessions -> {"none", "whole", "broken"}]
        /\ meta \in [Sessions -> BOOLEAN]
        /\ branch \in [Sessions -> Branches \cup {NoBranch}]
        /\ told \in [Sessions -> SUBSET Commits]
        /\ live = {} /\ asked = {} /\ mirror = "absent" /\ reply = ""
    BY DEF Init
  <2>5. commits \in Commits /\ fails \in 0 .. MaxFails /\ askedEdits \in 0 .. MaxEdits
    <3>1. commits = 1 /\ fails = 0 /\ askedEdits = 0
      BY DEF Init
    <3> QED
      BY <3>1, Bounds DEF Commits
  <2>6. op \in [s : Sessions, at : Steps] /\ found \in Kinds /\ unsure \in BOOLEAN
    BY <1>2 DEF Init, Steps, Kinds
  <2> QED
    BY <2>1, <2>2, <2>3, <2>4, <2>5, <2>6 DEF TypeOK
<1>4. OpInv /\ MirrorInv /\ AskedInv
  BY <1>2 DEF Init, OpInv, MirrorInv, AskedInv
<1>5. EditsInv /\ TreeInv
  <2>1. edits[op.s] = 0 /\ askedEdits = 0 /\ op.at = "idle"
    BY <1>2 DEF Init
  <2>2. \A s \in Sessions : ~meta[s] /\ dir[s] = "none"
    BY DEF Init
  <2> QED
    BY <2>1, <2>2 DEF EditsInv, TreeInv
<1>6. Answers
  BY DEF Init, Answers, FreshBase, NotFoundIsTrue, CommitTakesAll, CleanedUp
<1> QED
  BY <1>3, <1>4, <1>5, <1>6 DEF MirrorIInv

-----------------------------------------------------------------------------
(* Every step keeps the types.                                             *)
LEMMA TypeStep == MirrorIInv /\ [Next]_vars => TypeOK'
<1> SUFFICES ASSUME MirrorIInv, [Next]_vars PROVE TypeOK'
  OBVIOUS
<1>0. TypeOK /\ OpInv /\ AskedInv
  BY DEF MirrorIInv
<1> USE DEF trees, sessions, history
<1>1. CASE Interrupt
  BY <1>0, <1>1, Answered, FailsType DEF Interrupt, TypeOK
<1>2. CASE Clone
  BY <1>0, <1>2, Answered, GoesOn, FailsType DEF Clone, TypeOK, Steps
<1>3. CASE Fetch
  <2>1. /\ DOMAIN refs' \subseteq Names
        /\ refs' \in [DOMAIN refs' -> SUBSET (1 .. commits)]
    <3>1. \/ refs' \in {refs, source}
          \/ \E brought \in SUBSET DOMAIN source : refs' = Partly(brought)
      BY <1>3 DEF Fetch
    <3>2. ASSUME NEW brought \in SUBSET DOMAIN source, refs' = Partly(brought)
          PROVE  /\ DOMAIN refs' \subseteq Names
                 /\ refs' \in [DOMAIN refs' -> SUBSET (1 .. commits)]
      BY <1>0, <3>2 DEF TypeOK, Partly
    <3>3. CASE refs' \in {refs, source}
      BY <1>0, <3>3 DEF TypeOK
    <3> QED
      BY <3>1, <3>2, <3>3
  <2>2. /\ op' \in [s : Sessions, at : Steps] /\ fails' \in 0 .. MaxFails
        /\ reply' \in {reply, "refused", "error"}
    BY <1>0, <1>3, Answered, GoesOn, FailsType DEF Fetch, Steps
  <2> QED
    BY <1>0, <1>3, <2>1, <2>2 DEF Fetch, TypeOK
<1>4. CASE Resolve
  <2>1. /\ found' \in Kinds /\ unsure' \in BOOLEAN /\ fails' \in 0 .. MaxFails
        /\ op' \in [s : Sessions, at : Steps] /\ reply' \in {reply, "not found"}
    BY <1>0, <1>4, Resolved, Answered, GoesOn, FailsType DEF Steps
  <2> QED
    BY <1>0, <1>4, <2>1 DEF Resolve, TypeOK
<1>5. CASE AddWorktree
  <2>1. op.s \in Sessions /\ branch[op.s] \in Branches /\ op.at = "add"
    BY <1>0, <1>5 DEF AddWorktree, At, OpInv, TypeOK
  <2>2. /\ DOMAIN refs' \subseteq Names
        /\ refs' \in [DOMAIN refs' -> SUBSET (1 .. commits)]
    <3>1. <<found, branch[op.s]>> \in DOMAIN refs
      BY <1>0, <2>1 DEF AskedInv
    <3>2. refs[<<found, branch[op.s]>>] \in SUBSET (1 .. commits)
      BY <1>0, <3>1 DEF TypeOK
    <3>3. Own(op.s) \in Names
      BY <2>1, RefNames
    <3>4. refs' \in {refs, Branched}
      BY <1>5 DEF AddWorktree
    <3> QED
      BY <1>0, <3>2, <3>3, <3>4 DEF Branched, TypeOK
  <2>3. live' \subseteq {s \in Sessions : branch[s] # NoBranch}
    <3>1. live' \subseteq live \cup {op.s}
      BY <1>5 DEF AddWorktree
    <3> QED
      BY <1>0, <2>1, <3>1, NoBranchAssumption DEF TypeOK
  <2>4. /\ op' \in [s : Sessions, at : Steps] /\ fails' \in 0 .. MaxFails
        /\ reply' \in {"ready", "error"}
    BY <1>0, <1>5, Answered, FailsType DEF AddWorktree
  <2>5. /\ dir' \in [Sessions -> {"none", "whole", "broken", "locked"}]
        /\ meta' \in [Sessions -> BOOLEAN]
    BY <1>0, <1>5, <2>1 DEF AddWorktree, TypeOK
  <2> QED
    BY <1>0, <1>5, <2>2, <2>3, <2>4, <2>5 DEF AddWorktree, TypeOK
<1>6. CASE Stage
  <2>1. /\ op' \in [s : Sessions, at : Steps] /\ fails' \in 0 .. MaxFails
        /\ reply' \in {reply, "no changes", "error"}
    BY <1>0, <1>6, Answered, GoesOn, FailsType DEF Stage, Steps
  <2>2. /\ index' \in [Sessions -> 0 .. MaxEdits]
        /\ \A s \in Sessions : saved[s] <= index'[s] /\ index'[s] <= edits[s]
    <3>1. op.s \in Sessions
      BY <1>0 DEF TypeOK
    <3>2. index' = [index EXCEPT ![op.s] = edits[op.s]] \/ index' = index
      BY <1>6 DEF Stage
    <3>3. /\ edits \in [Sessions -> 0 .. MaxEdits]
          /\ index \in [Sessions -> 0 .. MaxEdits]
          /\ saved \in [Sessions -> 0 .. MaxEdits]
          /\ \A s \in Sessions : saved[s] <= index[s] /\ index[s] <= edits[s]
      BY <1>0 DEF TypeOK
    <3>4. saved[op.s] <= edits[op.s] /\ edits[op.s] <= edits[op.s]
      BY <3>1, <3>3, Bounds
    <3> QED
      BY <3>1, <3>2, <3>3, <3>4
  <2> QED
    BY <1>0, <1>6, <2>1, <2>2 DEF Stage, TypeOK
<1>7. CASE Record
  <2>1. /\ op' \in [s : Sessions, at : Steps] /\ fails' \in 0 .. MaxFails
        /\ reply' \in {"committed", "error"}
    BY <1>0, <1>7, Answered, FailsType DEF Record
  <2>2. /\ saved' \in [Sessions -> 0 .. MaxEdits]
        /\ \A s \in Sessions : saved'[s] <= index[s]
    <3>1. saved' = [saved EXCEPT ![op.s] = index[op.s]] \/ saved' = saved
      BY <1>7 DEF Record, Committed
    <3>2. /\ op.s \in Sessions
          /\ index \in [Sessions -> 0 .. MaxEdits]
          /\ saved \in [Sessions -> 0 .. MaxEdits]
          /\ \A s \in Sessions : saved[s] <= index[s]
      BY <1>0 DEF TypeOK
    <3>3. index[op.s] <= index[op.s]
      BY <3>2, Bounds
    <3> QED
      BY <3>1, <3>2, <3>3
  <2>3. /\ commits' \in Commits /\ 1 .. commits \subseteq 1 .. commits'
        /\ asked \subseteq 1 .. commits' /\ commits' \in 1 .. commits'
    <3>1. /\ commits \in Nat /\ commits > 0 /\ commits <= MaxCommits
          /\ asked \subseteq 1 .. commits
      BY <1>0, Counters DEF TypeOK
    <3>2. commits < MaxCommits /\ commits' \in {commits, commits + 1}
      BY <1>7 DEF Record, Committed
    <3>3. commits' \in 1 .. MaxCommits /\ commits' >= commits
      BY <3>1, <3>2, Bounds
    <3>4. 1 .. commits \subseteq 1 .. commits'
      BY <3>1, <3>3, Bounds
    <3>5. commits' \in 1 .. commits'
      BY <3>3, Bounds
    <3> QED
      BY <3>1, <3>3, <3>4, <3>5 DEF Commits
  <2>4. /\ DOMAIN refs' \subseteq Names
        /\ refs' \in [DOMAIN refs' -> SUBSET (1 .. commits')]
    <3>1. op.s \in Sessions /\ \A n \in DOMAIN refs : refs[n] \subseteq 1 .. commits'
      <4>1. refs \in [DOMAIN refs -> SUBSET (1 .. commits)]
        BY <1>0 DEF TypeOK
      <4> QED
        BY <1>0, <2>3, <4>1, Counters
    <3>2. CASE UNCHANGED refs
      BY <1>0, <3>1, <3>2 DEF TypeOK
    <3>3. CASE /\ commits' = commits + 1
               /\ refs' = [n \in DOMAIN refs \cup {Own(op.s)} |->
                             IF n # Own(op.s) THEN refs[n]
                             ELSE (IF Unborn(op.s) THEN {} ELSE refs[n])
                                  \cup {commits'}]
      <4>1. Own(op.s) \in Names
        BY <3>1 DEF Own, Names
      <4> QED
        BY <1>0, <2>3, <3>1, <3>3, <4>1 DEF TypeOK, Unborn
    <3> QED
      BY <1>7, <3>2, <3>3 DEF Record, Committed
  <2>5. source \in [DOMAIN source -> SUBSET (1 .. commits')]
    <3>1. source \in [DOMAIN source -> SUBSET (1 .. commits)]
      BY <1>0 DEF TypeOK
    <3> QED
      BY <2>3, <3>1
  <2>6. told' \in [Sessions -> SUBSET Commits]
    <3>1. \/ told' = told
          \/ told' = [told EXCEPT ![op.s] = @ \cup {commits'}]
      BY <1>7 DEF Record
    <3>2. told \in [Sessions -> SUBSET Commits]
      BY <1>0 DEF TypeOK
    <3>3. op.s \in Sessions
      BY <1>0, Counters
    <3>4. told[op.s] \cup {commits'} \in SUBSET Commits
      BY <2>3, <3>2, <3>3
    <3> QED
      BY <3>1, <3>2, <3>4, Zenon
  <2> QED
    BY <1>0, <1>7, <2>1, <2>2, <2>3, <2>4, <2>5, <2>6 DEF Record, TypeOK
<1>8. CASE Push
  <2>1. /\ op' \in [s : Sessions, at : Steps] /\ fails' \in 0 .. MaxFails
        /\ reply' \in {"no mirror refspec", "pushed", "error"}
    BY <1>0, <1>8, Answered, FailsType DEF Push
  <2>2. /\ DOMAIN source' \subseteq Names
        /\ source' \in [DOMAIN source' -> SUBSET (1 .. commits)]
    <3>1. Own(op.s) \in Names
      BY <1>0 DEF TypeOK, Own, Names
    <3> QED
      BY <1>0, <1>8, <3>1 DEF Push, Unborn, TypeOK
  <2> QED
    BY <1>0, <1>8, <2>1, <2>2 DEF Push, TypeOK
<1>9. CASE Remove
  <2>1. /\ op' \in [s : Sessions, at : Steps] /\ fails' \in 0 .. MaxFails
        /\ reply' \in {reply, "removed"}
    BY <1>0, <1>9, Answered, GoesOn, FailsType DEF Remove, Steps
  <2>2. /\ dir' \in [Sessions -> {"none", "whole", "broken", "locked"}]
        /\ meta' \in [Sessions -> BOOLEAN]
    <3>1. /\ dir \in [Sessions -> {"none", "whole", "broken", "locked"}]
          /\ meta \in [Sessions -> BOOLEAN]
      BY <1>0 DEF TypeOK
    <3>2. /\ \/ UNCHANGED dir
             \/ \E d \in {"none", "whole", "broken"} :
                  dir' = [dir EXCEPT ![op.s] = d]
          /\ UNCHANGED meta \/ meta' = [meta EXCEPT ![op.s] = FALSE]
      BY <1>9, Zenon DEF Remove
    <3> QED
      BY <3>1, <3>2
  <2>3. live' \subseteq {s \in Sessions : branch'[s] # NoBranch}
    BY <1>0, <1>9 DEF Remove, Stopped, TypeOK
  <2>4. UNCHANGED <<source, mirror, refs, edits, index, saved, branch, found,
                    commits, history>>
    BY <1>9 DEF Remove
  <2> QED
    BY <1>0, <2>1, <2>2, <2>3, <2>4 DEF history, TypeOK
<1>10. CASE Prune
  <2>1. /\ op' \in [s : Sessions, at : Steps] /\ fails' \in 0 .. MaxFails
        /\ reply' = reply
    BY <1>0, <1>10, GoesOn, FailsType DEF Prune, Steps
  <2>2. meta' \in [Sessions -> BOOLEAN]
    BY <1>0, <1>10 DEF Prune, TypeOK
  <2> QED
    BY <1>0, <1>10, <2>1, <2>2 DEF Prune, TypeOK
<1>11. CASE Delete
  <2>1. /\ op' \in [s : Sessions, at : Steps] /\ fails' \in 0 .. MaxFails
        /\ reply' \in {"removed", "error"}
    BY <1>0, <1>11, Answered, FailsType DEF Delete
  <2> QED
    BY <1>0, <1>11, <2>1 DEF Delete, Stopped, TypeOK
<1>12. ASSUME NEW b \in Branches, Publish(b) PROVE TypeOK'
  <2>1. /\ commits' \in Commits /\ 1 .. commits \subseteq 1 .. commits'
        /\ asked \subseteq 1 .. commits' /\ commits' \in 1 .. commits'
    <3>1. /\ commits \in Nat /\ commits > 0 /\ commits <= MaxCommits
          /\ asked \subseteq 1 .. commits
      BY <1>0, Counters DEF TypeOK
    <3>2. commits < MaxCommits /\ commits' \in {commits, commits + 1}
      BY <1>12 DEF Publish
    <3>3. commits' \in 1 .. MaxCommits /\ commits' >= commits
      BY <3>1, <3>2, Bounds
    <3>4. 1 .. commits \subseteq 1 .. commits'
      BY <3>1, <3>3, Bounds
    <3>5. commits' \in 1 .. commits'
      BY <3>3, Bounds
    <3> QED
      BY <3>1, <3>3, <3>4, <3>5 DEF Commits
  <2>2. /\ source' \in [DOMAIN source -> SUBSET (1 .. commits')]
        /\ refs \in [DOMAIN refs -> SUBSET (1 .. commits')]
    <3>1. /\ source \in [DOMAIN source -> SUBSET (1 .. commits)]
          /\ refs \in [DOMAIN refs -> SUBSET (1 .. commits)]
      BY <1>0 DEF TypeOK
    <3>2. source' = [source EXCEPT ![Head(b)] = @ \cup {commits'}]
      BY <1>12 DEF Publish
    <3>3. \A n \in DOMAIN source : source[n] \cup {commits'} \in SUBSET (1 .. commits')
      BY <2>1, <3>1
    <3> QED
      BY <2>1, <3>1, <3>2, <3>3
  <2> QED
    BY <1>0, <1>12, <2>1, <2>2 DEF Publish, TypeOK
<1>13. ASSUME NEW b \in Branches, Drop(b) PROVE TypeOK'
  BY <1>0, <1>13 DEF Drop, TypeOK
<1>14. ASSUME NEW s \in Sessions, Edit(s) PROVE TypeOK'
  <2>1. /\ edits' \in [Sessions -> 0 .. MaxEdits]
        /\ \A u \in Sessions : index[u] <= edits'[u]
    <3>1. edits' = [edits EXCEPT ![s] = @ + 1] /\ edits[s] < MaxEdits
      BY <1>14 DEF Edit
    <3>2. edits \in [Sessions -> 0 .. MaxEdits]
      BY <1>0 DEF TypeOK
    <3>3. edits[s] \in Nat /\ index[s] \in Nat /\ index[s] <= edits[s]
      BY <1>0, Counters
    <3>4. edits[s] + 1 \in 0 .. MaxEdits /\ index[s] <= edits[s] + 1
      BY <3>1, <3>3, Bounds
    <3>5. \A u \in Sessions : index[u] <= edits[u]
      BY <1>0, Counters
    <3> QED
      BY <3>1, <3>2, <3>4, <3>5
  <2> QED
    BY <1>0, <1>14, <2>1 DEF Edit, TypeOK
<1>15. ASSUME NEW s \in Sessions, NEW step \in Steps, Receive(s, step),
              branch' \in [Sessions -> Branches \cup {NoBranch}],
              live \subseteq {u \in Sessions : branch'[u] # NoBranch}
       PROVE  TypeOK'
  <2>1. asked' \subseteq 1 .. commits
    BY <1>0, <1>15 DEF Receive, BaseOf, TypeOK
  <2>2. askedEdits' \in 0 .. MaxEdits
    BY <1>0, <1>15 DEF Receive, TypeOK
  <2> QED
    BY <1>0, <1>15, <2>1, <2>2 DEF Receive, TypeOK
<1>16. ASSUME NEW s \in Sessions, NEW b \in Branches, Start(s, b) PROVE TypeOK'
  <2>1. /\ branch' \in [Sessions -> Branches \cup {NoBranch}]
        /\ live \subseteq {u \in Sessions : branch'[u] # NoBranch}
    BY <1>0, <1>16, NoBranchAssumption DEF Start, TypeOK
  <2>2. Receive(s, "mirror") /\ "mirror" \in Steps
    BY <1>16 DEF Start, Steps
  <2> QED
    BY <1>15, <2>1, <2>2
<1>17. ASSUME NEW s \in Sessions, NEW step \in {"stage", "push", "remove"},
              Command(s, step)
       PROVE  TypeOK'
  <2>1. /\ branch' \in [Sessions -> Branches \cup {NoBranch}]
        /\ live \subseteq {u \in Sessions : branch'[u] # NoBranch}
    BY <1>0, <1>17 DEF Command, TypeOK
  <2>2. Receive(s, step) /\ step \in Steps
    BY <1>17 DEF Command, Steps
  <2> QED
    BY <1>15, <2>1, <2>2
<1>18. CASE UNCHANGED vars
  BY <1>0, <1>18 DEF vars, TypeOK
<1> QED
  BY <1>1, <1>2, <1>3, <1>4, <1>5, <1>6, <1>7, <1>8, <1>9, <1>10, <1>11,
     <1>12, <1>13, <1>14, <1>16, <1>17, <1>18 DEF Next

-----------------------------------------------------------------------------
(* Every step keeps what is known of the command that runs.                *)
LEMMA OpStep == MirrorIInv /\ [Next]_vars => OpInv'
<1> SUFFICES ASSUME MirrorIInv, [Next]_vars PROVE OpInv'
  OBVIOUS
<1>0. TypeOK /\ OpInv
  BY DEF MirrorIInv
<1> USE DEF trees, sessions, history
<1>1. ASSUME NEW r, Reply(r) PROVE OpInv'
  BY <1>0, <1>1, Answered DEF OpInv
<1>2. ASSUME NEW step \in Steps, Then(step), op.at # "idle", UNCHANGED branch,
             step \in {"mirror", "resolve", "add"} =>
               op.at \in {"mirror", "resolve", "add"}
      PROVE  OpInv'
  <2>1. op'.s = op.s /\ op'.at = step /\ reply' = reply
    BY <1>0, <1>2, GoesOn
  <2> QED
    BY <1>0, <1>2, <2>1 DEF OpInv
<1>3. CASE Interrupt
  BY <1>1, <1>3 DEF Interrupt
<1>4. CASE Clone
  BY <1>1, <1>2, <1>4 DEF Clone, At, Steps
<1>5. CASE Fetch
  BY <1>1, <1>2, <1>5 DEF Fetch, At, Steps
<1>6. CASE Resolve
  BY <1>1, <1>2, <1>6 DEF Resolve, At, Steps
<1>7. CASE AddWorktree
  BY <1>1, <1>7 DEF AddWorktree
<1>8. CASE Stage
  BY <1>1, <1>2, <1>8 DEF Stage, At, Steps
<1>9. CASE Record
  BY <1>1, <1>9 DEF Record
<1>10. CASE Push
  BY <1>1, <1>10 DEF Push
<1>11. CASE Remove
  BY <1>1, <1>2, <1>11 DEF Remove, At, Steps
<1>12. CASE Prune
  BY <1>1, <1>2, <1>12 DEF Prune, At, Steps
<1>13. CASE Delete
  BY <1>1, <1>13 DEF Delete
<1>14. ASSUME NEW b \in Branches, Publish(b) \/ Drop(b) PROVE OpInv'
  BY <1>0, <1>14 DEF Publish, Drop, OpInv
<1>15. ASSUME NEW s \in Sessions, Edit(s) PROVE OpInv'
  BY <1>0, <1>15 DEF Edit, OpInv
<1>16. ASSUME NEW s \in Sessions, NEW b \in Branches, Start(s, b) PROVE OpInv'
  <2>1. branch'[s] = b /\ op'.s = s /\ reply' = ""
    BY <1>0, <1>16 DEF Start, Receive, TypeOK
  <2> QED
    BY <2>1 DEF OpInv
<1>17. ASSUME NEW s \in Sessions, NEW step \in {"stage", "push", "remove"},
              Command(s, step)
       PROVE  OpInv'
  BY <1>17 DEF Command, Receive, OpInv
<1>18. CASE UNCHANGED vars
  BY <1>0, <1>18 DEF vars, OpInv
<1> QED
  BY <1>3, <1>4, <1>5, <1>6, <1>7, <1>8, <1>9, <1>10, <1>11, <1>12, <1>13,
     <1>14, <1>15, <1>16, <1>17, <1>18 DEF Next

-----------------------------------------------------------------------------
(* Every step keeps a mirror that is not ready empty.                      *)
LEMMA MirrorStep == MirrorIInv /\ [Next]_vars => MirrorInv'
<1> SUFFICES ASSUME MirrorIInv, [Next]_vars PROVE MirrorInv'
  OBVIOUS
<1>0. TypeOK /\ MirrorInv /\ AskedInv
  BY DEF MirrorIInv
<1> USE DEF trees, sessions, history
<1>1. CASE Interrupt
  BY <1>0, <1>1, Answered DEF Interrupt, MirrorInv
<1>2. CASE Clone
  <2>1. op'.at \in {"idle", "resolve"}
    BY <1>0, <1>2, Answered, GoesOn DEF Clone, Steps
  <2> QED
    BY <1>0, <1>2, <2>1 DEF Clone, MirrorInv
<1>3. CASE Fetch
  <2>1. op'.at \in {"idle", "resolve"}
    BY <1>0, <1>3, Answered, GoesOn DEF Fetch, Steps
  <2>2. mirror # "ready" => UNCHANGED refs
    <3>1. mirror # "ready" => mirror = "bare"
      BY <1>0, <1>3 DEF Fetch, TypeOK
    <3> QED
      BY <1>3, <3>1 DEF Fetch
  <2> QED
    BY <1>0, <1>3, <2>1, <2>2 DEF Fetch, MirrorInv
<1>4. CASE Resolve
  <2>1. op'.at \in {"idle", "add"}
    BY <1>0, <1>4, Resolved
  <2> QED
    BY <1>0, <1>4, <2>1 DEF Resolve, MirrorInv
<1>5. CASE AddWorktree
  <2>1. op'.at = "idle" /\ mirror' = mirror
    BY <1>0, <1>5, Answered DEF AddWorktree
  <2>2. <<found, branch[op.s]>> \in DOMAIN refs
    BY <1>0, <1>5 DEF AddWorktree, At, AskedInv
  <2> QED
    BY <1>0, <2>1, <2>2 DEF MirrorInv
<1>6. CASE Stage \/ Record \/ Push \/ Remove \/ Prune \/ Delete
  <2>1. mirror = "ready"
    BY <1>0, <1>6 DEF Stage, Record, Push, Remove, Prune, Delete, At, MirrorInv
  <2>2. mirror' = mirror
    BY <1>6 DEF Stage, Record, Push, Remove, Prune, Delete
  <2> QED
    BY <2>1, <2>2 DEF MirrorInv
<1>7. ASSUME NEW b \in Branches, Publish(b) \/ Drop(b) PROVE MirrorInv'
  BY <1>0, <1>7 DEF Publish, Drop, MirrorInv
<1>8. ASSUME NEW s \in Sessions, Edit(s) PROVE MirrorInv'
  BY <1>0, <1>8 DEF Edit, MirrorInv
<1>9. ASSUME NEW s \in Sessions, NEW b \in Branches, Start(s, b) PROVE MirrorInv'
  BY <1>0, <1>9 DEF Start, Receive, MirrorInv
<1>10. ASSUME NEW s \in Sessions, NEW step \in {"stage", "push", "remove"},
              Command(s, step)
       PROVE  MirrorInv'
  BY <1>0, <1>10 DEF Command, Receive, MirrorInv
<1>11. CASE UNCHANGED vars
  BY <1>0, <1>11 DEF vars, MirrorInv
<1> QED
  BY <1>1, <1>2, <1>3, <1>4, <1>5, <1>6, <1>7, <1>8, <1>9, <1>10, <1>11 DEF Next

-----------------------------------------------------------------------------
(* More commits in the repository, or in the mirror, leave what was asked  *)
(* for where it was.                                                       *)
LEMMA BaseGrows ==
  ASSUME NEW some, NEW more, NEW b,
         DOMAIN some \subseteq DOMAIN more,
         Head(b) \in DOMAIN some => some[Head(b)] \subseteq more[Head(b)]
  PROVE  Base(some, b) \subseteq Base(more, b)
BY DEF Base

(* Every step keeps what was asked for.                                    *)
LEMMA AskedStep == MirrorIInv /\ [Next]_vars => AskedInv'
<1> SUFFICES ASSUME MirrorIInv, [Next]_vars PROVE AskedInv'
  OBVIOUS
<1>0. TypeOK /\ OpInv /\ MirrorInv /\ AskedInv
  BY DEF MirrorIInv
<1> USE DEF trees, sessions, history
<1>1. ASSUME op'.s = op.s, UNCHANGED <<source, branch, asked>>,
             op'.at \notin {"resolve", "add"}
      PROVE  AskedInv'
  BY <1>0, <1>1 DEF AskedInv, Base
<1>2. CASE Interrupt
  BY <1>0, <1>1, <1>2, Answered DEF Interrupt
<1>3. ASSUME Clone \/ Fetch, op'.at = "resolve" PROVE AskedInv'
  <2>1. mirror' = "bare" \/ refs' = source
    <3>1. ASSUME NEW r, Reply(r) PROVE FALSE
      BY <1>0, <1>3, <3>1, Answered
    <3> QED
      BY <1>3, <3>1 DEF Clone, Fetch
  <2>2. op'.s = op.s /\ UNCHANGED <<source, branch, asked>>
    BY <1>0, <1>3 DEF Clone, Fetch, Then, Reply, TypeOK
  <2> QED
    BY <1>0, <1>3, <2>1, <2>2 DEF AskedInv, Base
<1>4. CASE Clone \/ Fetch
  <2>1. op'.s = op.s /\ UNCHANGED <<source, branch, asked>>
    BY <1>0, <1>4, Answered, GoesOn DEF Clone, Fetch, Steps
  <2>2. op'.at \in {"idle", "resolve"}
    BY <1>0, <1>4, Answered, GoesOn DEF Clone, Fetch, Steps
  <2> QED
    BY <1>1, <1>3, <1>4, <2>1, <2>2
<1>5. CASE Resolve
  <2>1. op'.s = op.s /\ op.at = "resolve"
    BY <1>0, <1>5, Resolved
  <2>2. UNCHANGED <<source, mirror, refs, branch, asked>>
    BY <1>5 DEF Resolve
  <2>3. op'.at = "add" => <<found', branch[op.s]>> \in DOMAIN refs
    BY <1>0, <1>5, Resolved
  <2> QED
    BY <1>0, <2>1, <2>2, <2>3 DEF AskedInv, Base
<1>6. CASE AddWorktree
  <2>1. op'.s = op.s /\ op'.at = "idle"
    BY <1>0, <1>6, Answered DEF AddWorktree
  <2> QED
    BY <1>1, <1>6, <2>1 DEF AddWorktree
<1>7. CASE Stage \/ Record \/ Remove \/ Prune \/ Delete
  <2>1. op'.s = op.s /\ op'.at \in {"idle", "record", "prune", "delete"}
    BY <1>0, <1>7, Answered, GoesOn
    DEF Stage, Record, Remove, Prune, Delete, Steps
  <2>2. UNCHANGED <<source, branch, asked>>
    BY <1>7 DEF Stage, Record, Remove, Prune, Delete
  <2> QED
    BY <1>1, <2>1, <2>2
<1>8. CASE Push
  <2>1. op'.s = op.s /\ op'.at = "idle" /\ UNCHANGED <<branch, asked>>
    BY <1>0, <1>8, Answered DEF Push
  <2>2. Base(source, branch[op.s]) \subseteq Base(source', branch[op.s])
    <3>1. Head(branch[op.s]) # Own(op.s)
      BY DEF Head, Own
    <3>2. \/ source' = source
          \/ source' = [n \in DOMAIN source \cup {Own(op.s)} |->
                          IF n = Own(op.s) THEN refs[n] ELSE source[n]]
      BY <1>8 DEF Push
    <3> QED
      BY <3>1, <3>2, BaseGrows
  <2> QED
    BY <1>0, <2>1, <2>2 DEF AskedInv
<1>9. ASSUME NEW b \in Branches, Publish(b) PROVE AskedInv'
  <2>1. UNCHANGED <<mirror, refs, branch, asked, op, found>>
    BY <1>9 DEF Publish
  <2>2. Base(source, branch[op.s]) \subseteq Base(source', branch[op.s])
    <3>1. source' = [source EXCEPT ![Head(b)] = source[Head(b)] \cup {commits'}]
      BY <1>9 DEF Publish
    <3> QED
      BY <3>1, BaseGrows
  <2> QED
    BY <1>0, <2>1, <2>2 DEF AskedInv, Base
<1>10. ASSUME NEW b \in Branches, Drop(b) PROVE AskedInv'
  <2>1. UNCHANGED <<mirror, refs, branch, op, found>>
    BY <1>10 DEF Drop
  <2>2. asked' \subseteq asked
    BY <1>10 DEF Drop
  <2>3. asked' \subseteq Base(source', branch[op.s])
    <3>1. CASE branch[op.s] = b
      BY <1>10, <3>1 DEF Drop
    <3>2. CASE branch[op.s] # b
      <4>1. Head(branch[op.s]) # Head(b)
        BY <3>2 DEF Head
      <4>2. Base(source', branch[op.s]) = Base(source, branch[op.s])
        BY <1>10, <4>1 DEF Drop, Base
      <4> QED
        BY <1>0, <2>2, <4>2 DEF AskedInv
    <3> QED
      BY <3>1, <3>2
  <2> QED
    BY <1>0, <2>1, <2>2, <2>3 DEF AskedInv, Base
<1>11. ASSUME NEW s \in Sessions, Edit(s) PROVE AskedInv'
  BY <1>0, <1>11 DEF Edit, AskedInv, Base
<1>12. ASSUME NEW s \in Sessions, NEW step \in {"mirror", "stage", "push", "remove"},
              Receive(s, step)
       PROVE  AskedInv'
  <2>1. op'.s = s /\ op'.at = step /\ source' = source /\ asked' = BaseOf(s)
    BY <1>12 DEF Receive
  <2> QED
    BY <2>1 DEF AskedInv, Base, BaseOf
<1>13. CASE UNCHANGED vars
  BY <1>0, <1>13 DEF vars, AskedInv, Base
<1> QED
  BY <1>2, <1>4, <1>5, <1>6, <1>7, <1>8, <1>9, <1>10, <1>11, <1>12, <1>13
  DEF Next, Start, Command

-----------------------------------------------------------------------------
(* Every step keeps the edits that a commit is to have.                    *)
LEMMA EditsStep == MirrorIInv /\ [Next]_vars => EditsInv'
<1> SUFFICES ASSUME MirrorIInv, [Next]_vars PROVE EditsInv'
  OBVIOUS
<1>0. TypeOK /\ EditsInv
  BY DEF MirrorIInv
<1> USE DEF trees, sessions, history
<1>1. ASSUME op'.s = op.s, op'.at # "record", UNCHANGED <<edits, askedEdits>>
      PROVE  EditsInv'
  BY <1>0, <1>1 DEF EditsInv
<1>2. CASE Interrupt
  BY <1>0, <1>1, <1>2, Answered DEF Interrupt
<1>3. CASE Clone \/ Fetch \/ Resolve \/ AddWorktree \/ Record
  <2>1. op'.s = op.s /\ op'.at \in {"idle", "resolve", "add"}
    BY <1>0, <1>3, Answered, GoesOn, Resolved
    DEF Clone, Fetch, AddWorktree, Record, Steps
  <2>2. UNCHANGED <<edits, askedEdits>>
    BY <1>3 DEF Clone, Fetch, Resolve, AddWorktree, Record
  <2> QED
    BY <1>1, <2>1, <2>2
<1>4. CASE Push \/ Remove \/ Prune \/ Delete
  <2>1. op'.s = op.s /\ op'.at \in {"idle", "prune", "delete"}
    BY <1>0, <1>4, Answered, GoesOn DEF Push, Remove, Prune, Delete, Steps
  <2>2. UNCHANGED <<edits, askedEdits>>
    BY <1>4 DEF Push, Remove, Prune, Delete
  <2> QED
    BY <1>1, <2>1, <2>2
<1>5. CASE Stage
  <2>1. op'.s = op.s /\ UNCHANGED <<edits, askedEdits>>
    BY <1>0, <1>5, Answered, GoesOn DEF Stage, Steps
  <2>2. CASE Reply("error")
    BY <1>0, <1>1, <2>1, <2>2, Answered
  <2>3. CASE index' = [index EXCEPT ![op.s] = edits[op.s]]
    <3>1. index'[op.s] = edits[op.s]
      BY <1>0, <2>3 DEF TypeOK
    <3> QED
      BY <1>0, <2>1, <3>1 DEF EditsInv
  <2> QED
    BY <1>5, <2>2, <2>3 DEF Stage
<1>6. ASSUME NEW b \in Branches, Publish(b) \/ Drop(b) PROVE EditsInv'
  BY <1>0, <1>6 DEF Publish, Drop, EditsInv
<1>7. ASSUME NEW s \in Sessions, Edit(s) PROVE EditsInv'
  <2>1. UNCHANGED <<op, index, askedEdits>>
    BY <1>7 DEF Edit
  <2>2. edits[op.s] <= edits'[op.s]
    <3>1. edits' = [edits EXCEPT ![s] = edits[s] + 1]
      BY <1>7 DEF Edit
    <3>2. edits \in [Sessions -> 0 .. MaxEdits]
      BY <1>0 DEF TypeOK
    <3>3. edits[op.s] \in Nat /\ op.s \in Sessions
      BY <1>0, Counters
    <3> QED
      BY <3>1, <3>2, <3>3
  <2>3. askedEdits \in Nat /\ edits[op.s] \in Nat
    BY <1>0, Counters
  <2>4. edits'[op.s] \in Nat
    <3>1. TypeOK'
      BY TypeStep
    <3>2. edits' \in [Sessions -> 0 .. MaxEdits] /\ op.s \in Sessions
      BY <1>0, <3>1 DEF TypeOK
    <3> QED
      BY <3>2, Bounds
  <2> QED
    BY <1>0, <2>1, <2>2, <2>3, <2>4 DEF EditsInv
<1>8. ASSUME NEW s \in Sessions, NEW step \in {"mirror", "stage", "push", "remove"},
              Receive(s, step)
       PROVE  EditsInv'
  <2>1. /\ op'.s = s /\ op'.at # "record"
        /\ askedEdits' = edits[s] /\ edits' = edits
    BY <1>8 DEF Receive
  <2>2. edits[s] \in Nat
    BY <1>0, Counters
  <2> QED
    BY <2>1, <2>2 DEF EditsInv
<1>9. CASE UNCHANGED vars
  BY <1>0, <1>9 DEF vars, EditsInv
<1> QED
  BY <1>2, <1>3, <1>4, <1>5, <1>6, <1>7, <1>8, <1>9 DEF Next, Start, Command

-----------------------------------------------------------------------------
(* Every step keeps the worktrees whole where nothing fails.               *)
LEMMA TreeStep == MirrorIInv /\ [Next]_vars => TreeInv'
<1> SUFFICES ASSUME MirrorIInv, [Next]_vars, fails' = 0 PROVE TreeInv'
  BY DEF TreeInv
<1>0. TypeOK /\ TreeInv
  BY DEF MirrorIInv
<1> USE DEF trees, sessions, history
<1>1. ~Fail
  BY <1>0, Counters DEF Fail
<1>2. ASSUME UNCHANGED <<fails, dir, meta>>, op'.at \notin {"prune", "delete"}
      PROVE  TreeInv'
  BY <1>0, <1>2 DEF TreeInv
<1>3. CASE Interrupt
  BY <1>1, <1>3 DEF Interrupt
<1>4. CASE Clone \/ Fetch \/ Resolve \/ Stage \/ Record \/ Push
  <2>1. op'.at \in {"idle", "resolve", "add", "record"}
    BY <1>0, <1>4, Answered, GoesOn, Resolved
    DEF Clone, Fetch, Stage, Record, Push, Steps
  <2>2. UNCHANGED <<fails, dir, meta>>
    BY <1>0, <1>1, <1>4, Resolved
    DEF Clone, Fetch, Resolve, Stage, Record, Push
  <2> QED
    BY <1>2, <2>1, <2>2
<1>5. CASE AddWorktree
  <2>1. op'.at = "idle"
    BY <1>0, <1>5, Answered DEF AddWorktree
  <2>2. /\ dir' = [dir EXCEPT ![op.s] = "whole"]
        /\ meta' = [meta EXCEPT ![op.s] = TRUE] /\ fails' = fails
    BY <1>1, <1>5 DEF AddWorktree
  <2> QED
    BY <1>0, <2>1, <2>2 DEF TreeInv, TypeOK
<1>6. CASE Remove
  <2>1. /\ op.s \in Sessions /\ fails' = fails /\ dir[op.s] # "broken"
        /\ dir \in [Sessions -> {"none", "whole", "broken", "locked"}]
        /\ meta \in [Sessions -> BOOLEAN]
    BY <1>0, <1>1, <1>6 DEF Remove, TreeInv, TypeOK
  <2>2. CASE Reply("removed") /\ UNCHANGED <<dir, meta>>
    BY <1>0, <1>2, <2>1, <2>2, Answered
  <2>3. CASE /\ dir' = [dir EXCEPT ![op.s] = "none"]
             /\ meta' = [meta EXCEPT ![op.s] = FALSE]
             /\ Then("prune")
    <3>1. op'.s = op.s
      BY <1>0, <2>3, GoesOn DEF Steps
    <3> QED
      BY <1>0, <2>1, <2>3, <3>1 DEF TreeInv
  <2> QED
    BY <1>1, <1>6, <2>1, <2>2, <2>3 DEF Remove
<1>7. CASE Prune
  <2>1. /\ op'.s = op.s /\ dir' = dir /\ fails' = fails
        /\ dir[op.s] = "none"
    BY <1>0, <1>1, <1>7, GoesOn DEF Prune, Steps, At, TreeInv
  <2>2. meta' = [s \in Sessions |-> meta[s] /\ dir[s] \in {"whole", "locked"}]
    BY <1>1, <1>7 DEF Prune
  <2> QED
    BY <1>0, <2>1, <2>2 DEF TreeInv
<1>8. CASE Delete
  <2>1. op'.at = "idle" /\ meta' = meta /\ fails' = fails /\ dir[op.s] = "none"
    BY <1>0, <1>1, <1>8, Answered DEF Delete, At, TreeInv
  <2>2. dir' = [dir EXCEPT ![op.s] = "none"]
    BY <1>1, <1>8 DEF Delete
  <2> QED
    BY <1>0, <2>1, <2>2 DEF TreeInv, TypeOK
<1>9. ASSUME NEW b \in Branches, Publish(b) \/ Drop(b) PROVE TreeInv'
  BY <1>0, <1>9 DEF Publish, Drop, TreeInv
<1>10. ASSUME NEW s \in Sessions, Edit(s) PROVE TreeInv'
  BY <1>0, <1>10 DEF Edit, TreeInv
<1>11. ASSUME NEW s \in Sessions, NEW step \in {"mirror", "stage", "push", "remove"},
              Receive(s, step)
       PROVE  TreeInv'
  BY <1>2, <1>11 DEF Receive
<1>12. CASE UNCHANGED vars
  BY <1>0, <1>12 DEF vars, TreeInv
<1> QED
  BY <1>3, <1>4, <1>5, <1>6, <1>7, <1>8, <1>9, <1>10, <1>11, <1>12
  DEF Next, Start, Command

-----------------------------------------------------------------------------
(* A step of the world: what the answers are about stays, and what was     *)
(* asked for may go.                                                       *)
Apart ==
  /\ UNCHANGED <<mirror, refs, dir, meta, branch, saved, op, reply, fails,
                 askedEdits, unsure>>
  /\ asked' \subseteq asked

(* Which step gives which answer.                                          *)
LEMMA AnswerOf ==
  ASSUME MirrorIInv, [Next]_vars
  PROVE  \/ reply' \in {"", "error", "refused", "pushed", "no mirror refspec"}
         \/ reply' = "ready" /\ AddWorktree
         \/ reply' = "not found" /\ Resolve
         \/ reply' = "no changes" /\ Stage
         \/ reply' = "committed" /\ Record
         \/ reply' = "removed" /\ (Remove \/ Delete)
         \/ Apart
<1> DEFINE Known ==
      \/ reply' \in {"", "error", "refused", "pushed", "no mirror refspec"}
      \/ reply' = "ready" /\ AddWorktree
      \/ reply' = "not found" /\ Resolve
      \/ reply' = "no changes" /\ Stage
      \/ reply' = "committed" /\ Record
      \/ reply' = "removed" /\ (Remove \/ Delete)
      \/ Apart
<1>0. op.at # "idle" => reply = ""
  BY DEF MirrorIInv, OpInv
<1> USE DEF trees, sessions, history
<1>1. CASE Interrupt \/ Clone \/ Fetch \/ Push \/ Prune
  BY <1>0, <1>1 DEF Interrupt, Clone, Fetch, Push, Prune, Reply, Then, At
<1>2. CASE Resolve
  BY <1>0, <1>2 DEF Resolve, Reply, Then, At
<1>3. CASE AddWorktree
  BY <1>3 DEF AddWorktree, Reply
<1>4. CASE Stage
  BY <1>0, <1>4 DEF Stage, Reply, Then, At
<1>5. CASE Record
  BY <1>5 DEF Record, Reply
<1>6. CASE Remove
  BY <1>0, <1>6 DEF Remove, Reply, Then, At
<1>7. CASE Delete
  BY <1>7 DEF Delete, Reply
<1>8. ASSUME NEW b \in Branches, Publish(b) \/ Drop(b) PROVE Known
  BY <1>8 DEF Publish, Drop, Apart
<1>9. ASSUME NEW s \in Sessions, Edit(s) PROVE Known
  BY <1>9 DEF Edit, Apart
<1>10. ASSUME NEW s \in Sessions, NEW step, Receive(s, step) PROVE Known
  BY <1>10 DEF Receive
<1>11. CASE UNCHANGED vars
  BY <1>11 DEF vars, Apart
<1> QED
  BY <1>1, <1>2, <1>3, <1>4, <1>5, <1>6, <1>7, <1>8, <1>9, <1>10, <1>11
  DEF Next, Start, Command

(* A session is answered "ready" with the commits it asked for.            *)
LEMMA FreshStep == MirrorIInv /\ [Next]_vars => FreshBase'
<1> SUFFICES ASSUME MirrorIInv, [Next]_vars, reply' = "ready" PROVE FreshBase'
  BY DEF FreshBase
<1>0. TypeOK /\ MirrorInv /\ AskedInv /\ FreshBase
  BY DEF MirrorIInv, Answers
<1>1. CASE Apart
  BY <1>0, <1>1 DEF Apart, FreshBase
<1>2. CASE AddWorktree
  <2>1. /\ op.at = "add" /\ op'.s = op.s /\ branch' = branch /\ asked' = asked
        /\ <<found, branch[op.s]>> \in DOMAIN refs /\ found \in Kinds
    BY <1>0, <1>2, Answered DEF AddWorktree, At, history, AskedInv, TypeOK
  <2>2. refs' = [n \in DOMAIN refs \cup {Own(op.s)} |->
                   IF n = Own(op.s) THEN refs[<<found, branch[op.s]>>]
                   ELSE refs[n]]
    BY <1>2 DEF AddWorktree, Branched, Reply
  <2>3. CASE found = "remotes"
    <3>1. Remote(branch'[op'.s]) \in DOMAIN refs'
      BY <2>1, <2>2, <2>3 DEF Remote
    <3> QED
      BY <3>1 DEF FreshBase
  <2>4. CASE found = "heads"
    <3>1. <<found, branch[op.s]>> = Head(branch[op.s])
      BY <2>4 DEF Head
    <3>2. mirror # "bare"
      BY <1>0, <2>1 DEF MirrorInv
    <3>3. asked \subseteq refs[Head(branch[op.s])]
      BY <1>0, <2>1, <3>1, <3>2 DEF AskedInv, Base
    <3>4. asked' \subseteq refs'[Own(op'.s)]
      BY <2>1, <2>2, <3>1, <3>3
    <3> QED
      BY <3>4 DEF FreshBase
  <2> QED
    BY <2>1, <2>3, <2>4 DEF Kinds
<1> QED
  BY <1>1, <1>2, AnswerOf

(* A branch that is not found is not there.                                *)
LEMMA NotFoundStep == MirrorIInv /\ [Next]_vars => NotFoundIsTrue'
<1> SUFFICES ASSUME MirrorIInv, [Next]_vars, reply' = "not found"
             PROVE  NotFoundIsTrue'
  BY DEF NotFoundIsTrue
<1>0. TypeOK /\ OpInv /\ AskedInv /\ NotFoundIsTrue
  BY DEF MirrorIInv, Answers
<1>1. CASE Apart
  BY <1>0, <1>1 DEF Apart, NotFoundIsTrue
<1>2. CASE Resolve
  <2>1. /\ op.at = "resolve" /\ UNCHANGED <<asked, mirror>> /\ reply = ""
    BY <1>0, <1>2 DEF Resolve, At, OpInv
  <2>2. unsure' \/ Head(branch[op.s]) \notin DOMAIN refs
    BY <1>0, <1>2, <2>1, Resolved DEF Then
  <2>3. unsure' \/ mirror = "bare" \/ asked = {}
    BY <1>0, <2>1, <2>2 DEF AskedInv, Base
  <2> QED
    BY <2>1, <2>3 DEF NotFoundIsTrue
<1> QED
  BY <1>1, <1>2, AnswerOf

(* A commit has what it was to have.                                       *)
LEMMA CommitStep == MirrorIInv /\ [Next]_vars => CommitTakesAll'
<1> SUFFICES ASSUME MirrorIInv, [Next]_vars, reply' \in {"committed", "no changes"}
             PROVE  CommitTakesAll'
  BY DEF CommitTakesAll
<1>0. TypeOK /\ OpInv /\ EditsInv /\ CommitTakesAll
  BY DEF MirrorIInv, Answers
<1>1. CASE Apart
  BY <1>0, <1>1 DEF Apart, CommitTakesAll, Unborn
<1>2. ASSUME op'.s = op.s, Own(op.s) \in DOMAIN refs', askedEdits' = askedEdits,
             saved'[op.s] \in Nat, askedEdits <= saved'[op.s]
      PROVE  CommitTakesAll'
  <2>1. askedEdits \in Nat
    BY <1>0, Counters
  <2> QED
    BY <1>2, <2>1 DEF CommitTakesAll, Unborn
<1>3. op.s \in Sessions
  BY <1>0, Counters
<1>4. CASE Stage /\ reply' = "no changes"
  <2>1. op.at = "stage" /\ reply = ""
    BY <1>0, <1>4 DEF Stage, At, OpInv
  <2>2. /\ index' = [index EXCEPT ![op.s] = edits[op.s]]
        /\ index'[op.s] = saved[op.s] /\ ~Unborn(op.s)
        /\ Reply("no changes")
    BY <1>4, <2>1 DEF Stage, Reply, Then
  <2>3. saved[op.s] = edits[op.s]
    BY <1>0, <1>3, <2>2 DEF TypeOK
  <2>4. UNCHANGED <<refs, saved, askedEdits>>
    BY <1>4 DEF Stage, history
  <2>5. op'.s = op.s
    BY <1>0, <2>2, Answered
  <2>6. saved[op.s] \in Nat /\ askedEdits <= saved[op.s]
    BY <1>0, <1>3, <2>3, Counters DEF EditsInv
  <2> QED
    BY <1>2, <2>2, <2>4, <2>5, <2>6 DEF Unborn
<1>5. CASE Record /\ reply' = "committed"
  <2>1. op.at = "record"
    BY <1>5 DEF Record, At
  <2>2. /\ saved' = [saved EXCEPT ![op.s] = index[op.s]]
        /\ DOMAIN refs' = DOMAIN refs \cup {Own(op.s)}
        /\ Reply("committed") /\ askedEdits' = askedEdits
    BY <1>5 DEF Record, Committed, Reply
  <2>3. saved'[op.s] = index[op.s]
    BY <1>0, <1>3, <2>2 DEF TypeOK
  <2>4. op'.s = op.s
    BY <1>0, <2>2, Answered
  <2>5. index[op.s] \in Nat /\ askedEdits <= index[op.s]
    BY <1>0, <1>3, <2>1, Counters DEF EditsInv
  <2> QED
    BY <1>2, <2>2, <2>3, <2>4, <2>5
<1> QED
  BY <1>1, <1>4, <1>5, AnswerOf

(* What is reported removed is gone.                                       *)
LEMMA CleanStep == MirrorIInv /\ [Next]_vars => CleanedUp'
<1> SUFFICES ASSUME MirrorIInv, [Next]_vars, reply' = "removed" PROVE CleanedUp'
  BY DEF CleanedUp
<1>0. TypeOK /\ OpInv /\ TreeInv /\ CleanedUp
  BY DEF MirrorIInv, Answers
<1>1. CASE Apart
  BY <1>0, <1>1 DEF Apart, CleanedUp
<1>2. op.s \in Sessions
  BY <1>0, Counters
<1>3. CASE Remove
  <2>1. reply = "" /\ op.at = "remove"
    BY <1>0, <1>3 DEF Remove, At, OpInv
  <2>2. /\ dir[op.s] = "none" /\ UNCHANGED <<dir, meta, fails>>
        /\ Reply("removed")
    BY <1>3, <2>1 DEF Remove, Then
  <2>3. op'.s = op.s
    BY <1>0, <2>2, Answered
  <2>4. fails = 0 => ~meta[op.s]
    BY <1>0, <1>2, <2>2 DEF TreeInv
  <2> QED
    BY <2>2, <2>3, <2>4 DEF CleanedUp
<1>4. CASE Delete
  <2>1. /\ dir' = [dir EXCEPT ![op.s] = "none"] /\ UNCHANGED <<meta, fails>>
        /\ Reply("removed") /\ op.at = "delete"
    BY <1>4 DEF Delete, Reply, At
  <2>2. op'.s = op.s
    BY <1>0, <2>1, Answered
  <2>3. dir'[op.s] = "none"
    BY <1>0, <1>2, <2>1 DEF TypeOK
  <2>4. fails = 0 => ~meta[op.s]
    BY <1>0, <1>2, <2>1 DEF TreeInv
  <2> QED
    BY <2>1, <2>2, <2>3, <2>4 DEF CleanedUp
<1> QED
  BY <1>1, <1>3, <1>4, AnswerOf

-----------------------------------------------------------------------------
(* The invariant of the workspaces: what is asked for is in the mirror     *)
(* from the fetch to the worktree, what was edited is in the index from    *)
(* add to commit, and what a mirror that is not ready has is nothing.      *)
THEOREM MirrorInvariance == Spec => []MirrorIInv
<1>1. Init => MirrorIInv
  BY InitInv
<1>2. MirrorIInv /\ [Next]_vars => MirrorIInv'
  BY TypeStep, OpStep, MirrorStep, AskedStep, EditsStep, TreeStep, FreshStep,
     NotFoundStep, CommitStep, CleanStep, Zenon DEF MirrorIInv, Answers
<1> QED
  BY <1>1, <1>2, PTL DEF Spec

(* The refs, worktrees and commands of the model keep to their types; a    *)
(* HEAD is never ahead of its index, nor an index of its files.            *)
THEOREM MirrorTypes == Spec => []TypeOK
<1>1. MirrorIInv => TypeOK
  BY DEF MirrorIInv
<1> QED
  BY <1>1, MirrorInvariance, PTL

(* A session starts from all that its branch had when /start came and      *)
(* still has, however many fetches failed before.                          *)
THEOREM StartsFresh == Spec => []FreshBase
<1>1. MirrorIInv => FreshBase
  BY DEF MirrorIInv, Answers
<1> QED
  BY <1>1, MirrorInvariance, PTL

(* A branch that /start does not find is not there, unless a clone was     *)
(* killed or a call that looked for the branch failed.                     *)
THEOREM NotFoundMeansGone == Spec => []NotFoundIsTrue
<1>1. MirrorIInv => NotFoundIsTrue
  BY DEF MirrorIInv, Answers
<1> QED
  BY <1>1, MirrorInvariance, PTL

(* After /commit the branch of the session has every edit made before it.  *)
THEOREM CommitHoldsAll == Spec => []CommitTakesAll
<1>1. MirrorIInv => CommitTakesAll
  BY DEF MirrorIInv, Answers
<1> QED
  BY <1>1, MirrorInvariance, PTL

(* A workspace that was reported removed is gone, and where nothing failed *)
(* the mirror knows nothing of it either.                                  *)
THEOREM CleanUpIsWhole == Spec => []CleanedUp
<1>1. MirrorIInv => CleanedUp
  BY DEF MirrorIInv, Answers
<1> QED
  BY <1>1, MirrorInvariance, PTL
=============================================================================

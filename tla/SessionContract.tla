-------------------------- MODULE SessionContract --------------------------
(***************************************************************************)
(* What the governor promises of a session, whatever it does in between: a *)
(* worktree is made first, the row of the sessions table next, then        *)
(* workers, one after the other; the worktree goes when no worker is at    *)
(* work on it, and the row when the worktree is gone.  A governor that     *)
(* ends or crashes at any point leaves what a later one can find by the    *)
(* rows.  SessionLifecycle implements it.                                  *)
(***************************************************************************)
CONSTANTS
  Sessions,
  Workers,
  Faulty                  \* the sessions that database and file-system
                          \* errors may hit

VARIABLES
  files,                  \* the sessions that have a worktree
  listed,                 \* the sessions that have a row
  workers                 \* <<s, w>>: w is at work on the worktree of s, and
                          \* under control

vars == <<files, listed, workers>>

Init == files = {} /\ listed = {} /\ workers = {}

AtWork(s) == \E w \in Workers : <<s, w>> \in workers

MakeFiles(s) ==
  /\ s \notin files \cup listed
  /\ ~AtWork(s)
  /\ files' = files \cup {s}
  /\ UNCHANGED <<listed, workers>>

(* The exit watcher of the last worker may be so late that it brings back  *)
(* a row without files, which the user can remove by one more /exit.       *)
List(s) ==
  /\ s \notin listed
  /\ listed' = listed \cup {s}
  /\ UNCHANGED <<files, workers>>

StartWorker(s, w) ==
  /\ ~AtWork(s)
  /\ s \in listed \cup Faulty
  /\ workers' = workers \cup {<<s, w>>}
  /\ UNCHANGED <<files, listed>>

EndWorker(s, w) ==
  /\ <<s, w>> \in workers
  /\ workers' = workers \ {<<s, w>>}
  /\ UNCHANGED <<files, listed>>

RemoveFiles(s) ==
  /\ s \in files
  /\ ~AtWork(s)
  /\ files' = files \ {s}
  /\ UNCHANGED <<listed, workers>>

Unlist(s) ==
  /\ s \in listed
  /\ ~AtWork(s)
  /\ s \notin files \/ s \in Faulty
  /\ listed' = listed \ {s}
  /\ UNCHANGED <<files, workers>>

(* The governor ends: the next one has no worker.                          *)
End == workers' = {} /\ UNCHANGED <<files, listed>>

Next ==
  \/ \E s \in Sessions :
       \/ MakeFiles(s) \/ List(s) \/ RemoveFiles(s) \/ Unlist(s)
       \/ \E w \in Workers : StartWorker(s, w) \/ EndWorker(s, w)
  \/ End

Spec == Init /\ [][Next]_vars
=============================================================================

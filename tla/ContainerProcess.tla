-------------------------- MODULE ContainerProcess --------------------------
(***************************************************************************)
(* The handle the governor keeps on a worker, container.Process            *)
(* (internal/container/runner.go): the runtime's CLI started by cmd.Start, *)
(* the goroutine that reaps it and publishes its exit status on the        *)
(* channel p.done, and Stop, which signals it and waits on the same        *)
(* channel.  p.done has capacity one, gets exactly one value and is then   *)
(* closed, so of the two goroutines that may wait on it -- Stop and the    *)
(* governor's exit watcher -- one gets the status and the other gets the   *)
(* zero value of a closed channel.                                         *)
(*                                                                         *)
(* The governor's goroutines take these steps: SessionLifecycle.           *)
(*                                                                         *)
(* Not modelled here: the streams (they belong to the bridge) and the      *)
(* choice between PTY and pipes, which ends in the same handle.            *)
(***************************************************************************)
CONSTANT Procs            \* the process handles

VARIABLES
  proc,                   \* proc[p]: "unused", "alive", or how cmd.Wait ended
  done,                   \* done[p]: p.done is "empty", "full" or "drained"
  stop                    \* stop[p]: p.once and the progress of Stop

procVars == <<proc, done, stop>>

(* What cmd.Wait returns: nil, an exit error, or context.Canceled.         *)
ExitStatus == {"nil", "error", "canceled"}

Dead(p) == proc[p] \in ExitStatus

ProcTypeOK ==
  /\ proc \in [Procs -> {"unused", "alive"} \cup ExitStatus]
  /\ done \in [Procs -> {"empty", "full", "drained"}]
  /\ stop \in [Procs -> {"none", "term", "kill", "over"}]

ProcInit ==
  /\ proc = [p \in Procs |-> "unused"]
  /\ done = [p \in Procs |-> "empty"]
  /\ stop = [p \in Procs |-> "none"]

(* Runner.Start succeeds, through a PTY or, failing that, through pipes: a *)
(* new handle on a live process.  A handle nobody refers to any more may   *)
(* be taken for it, so that a finite Procs stands for any number of them.  *)
Launch(p) ==
  /\ proc[p] # "alive"
  /\ proc' = [proc EXCEPT ![p] = "alive"]
  /\ done' = [done EXCEPT ![p] = "empty"]
  /\ stop' = [stop EXCEPT ![p] = "none"]

(* The process ends and the goroutine of Start reaps it: setExit, the send *)
(* on p.done (which never blocks) and its close.                           *)
Reap(p, how) ==
  /\ proc[p] = "alive"
  /\ proc' = [proc EXCEPT ![p] = how]
  /\ done' = [done EXCEPT ![p] = "full"]
  /\ UNCHANGED stop

(* What WriteInput may return.  Once the exit status is set it is          *)
(* ErrProcessExited; before, the write may succeed, break (ErrBrokenPipe)  *)
(* or fail otherwise, as on a PTY whose other end just closed.             *)
WriteInput(p) ==
  IF done[p] # "empty" THEN {"exited"} ELSE {"ok", "broken", "other"}

(* A receive on p.done by the exit watcher: the status, if it is there.    *)
ReceiveExit(p) ==
  /\ done[p] = "full"
  /\ done' = [done EXCEPT ![p] = "drained"]
  /\ UNCHANGED <<proc, stop>>

(* Stop, first part: the body of p.once is entered once and sends SIGTERM. *)
StopBegin(p) ==
  /\ stop[p] = "none"
  /\ stop' = [stop EXCEPT ![p] = "term"]
  /\ UNCHANGED <<proc, done>>

(* Mutant of StopEscalate: it sends SIGTERM once more.                     *)
StopAsksAgain(p) == stop[p] = "term" /\ UNCHANGED procVars

(* Stop, its five seconds have passed: SIGKILL.                            *)
StopEscalate(p) ==
  /\ stop[p] = "term"
  /\ stop' = [stop EXCEPT ![p] = "kill"]
  /\ UNCHANGED <<proc, done>>

(* Mutants of StopEnd: p.done is not closed after the send; Stop gives up  *)
(* waiting once it has sent SIGKILL.                                       *)
StopEndNotClosed(p) ==
  /\ stop[p] \in {"term", "kill"}
  /\ done[p] = "full"
  /\ done' = [done EXCEPT ![p] = "drained"]
  /\ stop' = [stop EXCEPT ![p] = "over"]
  /\ UNCHANGED proc

StopEndAtKill(p) ==
  /\ stop[p] = "kill" \/ (stop[p] = "term" /\ done[p] # "empty")
  /\ stop' = [stop EXCEPT ![p] = "over"]
  /\ UNCHANGED <<proc, done>>

(* Stop returns when its receive does: with the status, or with the zero   *)
(* value when the watcher took the status and the channel is closed.       *)
StopEnd(p) ==
  /\ stop[p] \in {"term", "kill"}
  /\ done[p] # "empty"
  /\ done' = [done EXCEPT ![p] = "drained"]
  /\ stop' = [stop EXCEPT ![p] = "over"]
  /\ UNCHANGED proc

-----------------------------------------------------------------------------
(* Stop returns only when the process has been reaped: a caller that goes  *)
(* on to start another worker on the same workspace may rely on it.        *)
StopMeansDead == \A p \in Procs : stop[p] = "over" => Dead(p)
=============================================================================

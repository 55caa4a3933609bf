------------------------ MODULE SessionSafetyProofs ------------------------
(***************************************************************************)
(* What SessionLifecycle keeps beyond its contract, for any number of      *)
(* sessions, processes and errors: sessions that are settled between       *)
(* commands, rows that tell their State, images that are not lost, starts  *)
(* that restore every row and shutdowns that stop every worker.  SafeInv,  *)
(* on top of IInv and DataInv, is inductive.                               *)
(***************************************************************************)
EXTENDS SessionContractProofs

(* The session of a worker that can be reached is registered, so that the  *)
(* shutdown comes to it; and the shutdown leaves no session with one.      *)
Reached(s) == bridge[s] # NoProc /\ proc[bridge[s]] = "alive"
ShutdownInv ==
  /\ \A s \in Sessions : Reached(s) => s \in registered
  /\ mode = "shutdown" =>
       \A s \in Sessions : Reached(s) =>
         s \in todo \/ (main.cur = s /\ main.pc \in {"stop", "await"})

(* Where the commands that stop a worker lead.                             *)
PathInv ==
  /\ main.pc \in {"stop", "await"} => main.cmd \in {"restart", "exit", "input"}
  /\ main.pc = "unbridge" => main.cmd \in {"exit", "input"}
  /\ main.pc # "ready" =>
       /\ main.cmd = "input" => main.pc \in {"write", "stop", "await", "unbridge"}
       /\ main.cmd = "exit" =>
            main.pc \in {"stop", "await", "unbridge", "cleanup", "forget",
                        "delete", "archive"}

(* A session is registered when it has its room, and until /exit is done.  *)
PlaceInv ==
  main.pc \in {"prepare", "create", "register", "delete", "archive"} =>
    main.cur \notin registered

(* Sessions are settled, except the one whose handler runs.                *)
SettledInv ==
  /\ \A s \in registered :
       sess[s].state \in Settled \/ (main.cur = s /\ main.pc # "ready")
  /\ main.pc = "commit" => main.prev \in Settled
  /\ main.pc # "ready" /\ main.cmd = "input" => sess[main.cur].state \in Settled

(* A row tells the State, or will when a statement is done.                *)
RowInv ==
  ~ctxDone =>
    \A s \in registered \ (Faulty \cup stale) :
      \/ row[s].state = sess[s].state
      \/ main.cur = s /\ main.pend # NoState
      \/ \E p \in Procs : owner[p] = s /\ watch[p] \in {"set", "read"}

(* A session that /exit has taken on is not resumed any more, nor is its   *)
(* row when the first statement is done.                                   *)
ExitInv ==
  main.pc # "ready" /\ main.cmd = "exit" =>
    /\ sess[main.cur].state \in {"stopping", "exited", "failed"}
    /\ main.pend = NoState /\ main.cur \notin Faulty \cup stale /\ ~ctxDone =>
         row[main.cur].state \notin Resumable

StateInv == PathInv /\ PlaceInv /\ SettledInv /\ RowInv /\ ExitInv

(* A governor that is down, or has yet to read the rows, has no sessions   *)
(* in memory; one that has read them has those it has restored, and will   *)
(* have the others.                                                        *)
MemoryInv ==
  /\ mode \in {"down", "start"} => Known = {} /\ registered = {}
  /\ mode = "boot" =>
       /\ Known \subseteq registered
       /\ Known \cap todo = {}
       /\ \A s \in Sessions : Present(s) => s \in todo \cup registered

(* The image of a session is that of its row; a session that had a worker  *)
(* has one, and a worker is started without one only where the row has     *)
(* none and nobody can write one.                                          *)
InMemory(s) == s \in Known \/ (mode = "shutdown" /\ s \in todo)
ImagesInv ==
  /\ \A s \in Sessions : InMemory(s) /\ row[s].image => sess[s].image
  /\ \A p \in Procs : owner[p] \in Sessions => sess[owner[p]].image
  /\ main.pc = "launch" =>
       /\ main.pend = NoState
       /\ ~main.img => /\ ~row[main.cur].image
                       /\ \A p \in Procs : owner[p] # main.cur

SafeInv == ShutdownInv /\ StateInv /\ MemoryInv /\ ImagesInv

-----------------------------------------------------------------------------
(* How the handler moves.                                                  *)

Moved(pc, pend) ==
  /\ main'.pc = pc /\ main'.pend = pend
  /\ main'.cur = main.cur /\ main'.cmd = main.cmd
  /\ main'.prev = main.prev

Begun(cmd, pc, s) == main'.cmd = cmd /\ main'.pc = pc /\ main'.cur = s

(* The State of s becomes state, that of no other session changes.         *)
Wrote(s, state) ==
  /\ \A t \in Sessions : sess'[t].image = sess[t].image
  /\ sess'[s].state = state
  /\ \A t \in Sessions \ {s} : sess'[t].state = sess[t].state

(* The fields that an update of the handler sets, and those it keeps.      *)
LEMMA GoneTo ==
  ASSUME NEW m \in Handler, NEW pc
  PROVE  /\ [m EXCEPT !.pc = pc].pc = pc
         /\ [m EXCEPT !.pc = pc].pend = m.pend
         /\ [m EXCEPT !.pc = pc].cur = m.cur
         /\ [m EXCEPT !.pc = pc].cmd = m.cmd
         /\ [m EXCEPT !.pc = pc].prev = m.prev
         /\ [m EXCEPT !.pc = pc].img = m.img
BY Zenon DEF Handler

(* The same, of an update of what is to be written.                        *)
LEMMA GonePending ==
  ASSUME NEW m \in Handler, NEW pend
  PROVE  /\ [m EXCEPT !.pend = pend].pc = m.pc
         /\ [m EXCEPT !.pend = pend].pend = pend
         /\ [m EXCEPT !.pend = pend].cur = m.cur
         /\ [m EXCEPT !.pend = pend].cmd = m.cmd
         /\ [m EXCEPT !.pend = pend].prev = m.prev
         /\ [m EXCEPT !.pend = pend].img = m.img
BY Zenon DEF Handler

(* The same, of a step that leaves something to be written.                *)
LEMMA GoneToPending ==
  ASSUME NEW m \in Handler, NEW pc, NEW pend
  PROVE  /\ [m EXCEPT !.pc = pc, !.pend = pend].pc = pc
         /\ [m EXCEPT !.pc = pc, !.pend = pend].pend = pend
         /\ [m EXCEPT !.pc = pc, !.pend = pend].cur = m.cur
         /\ [m EXCEPT !.pc = pc, !.pend = pend].cmd = m.cmd
         /\ [m EXCEPT !.pc = pc, !.pend = pend].prev = m.prev
BY Zenon DEF Handler

(* The same, of a step to where a worker is stopped.                       *)
LEMMA GoneToStop ==
  ASSUME NEW m \in Handler, NEW pc, NEW tgt
  PROVE  /\ [m EXCEPT !.pc = pc, !.tgt = tgt].pc = pc
         /\ [m EXCEPT !.pc = pc, !.tgt = tgt].pend = m.pend
         /\ [m EXCEPT !.pc = pc, !.tgt = tgt].cur = m.cur
         /\ [m EXCEPT !.pc = pc, !.tgt = tgt].cmd = m.cmd
         /\ [m EXCEPT !.pc = pc, !.tgt = tgt].prev = m.prev
BY Zenon DEF Handler

(* The same, of a step to the launch with an image.                        *)
LEMMA GoneToLaunch ==
  ASSUME NEW m \in Handler, NEW pc, NEW img
  PROVE  /\ [m EXCEPT !.pc = pc, !.img = img].pc = pc
         /\ [m EXCEPT !.pc = pc, !.img = img].img = img
         /\ [m EXCEPT !.pc = pc, !.img = img].pend = m.pend
         /\ [m EXCEPT !.pc = pc, !.img = img].cur = m.cur
         /\ [m EXCEPT !.pc = pc, !.img = img].cmd = m.cmd
         /\ [m EXCEPT !.pc = pc, !.img = img].prev = m.prev
BY Zenon DEF Handler

(* The same, of an update of the worker that is stopped.                   *)
LEMMA TgtKeeps ==
  ASSUME NEW m \in Handler, NEW tgt
  PROVE  /\ [m EXCEPT !.tgt = tgt].pc = m.pc
         /\ [m EXCEPT !.tgt = tgt].pend = m.pend
         /\ [m EXCEPT !.tgt = tgt].cur = m.cur
         /\ [m EXCEPT !.tgt = tgt].cmd = m.cmd
         /\ [m EXCEPT !.tgt = tgt].prev = m.prev
BY Zenon DEF Handler

(* The same, of an update of the State to return to.                       *)
LEMMA PrevKeeps ==
  ASSUME NEW m \in Handler, NEW prev
  PROVE  /\ [m EXCEPT !.prev = prev].pc = m.pc
         /\ [m EXCEPT !.prev = prev].pend = m.pend
         /\ [m EXCEPT !.prev = prev].cur = m.cur
         /\ [m EXCEPT !.prev = prev].cmd = m.cmd
         /\ [m EXCEPT !.prev = prev].prev = prev
BY Zenon DEF Handler

(* What a handler begins with.                                             *)
LEMMA BegunAs ==
  ASSUME NEW cmd, NEW pc, NEW s
  PROVE  /\ Begin(cmd, pc, s).cmd = cmd /\ Begin(cmd, pc, s).pc = pc
         /\ Begin(cmd, pc, s).cur = s /\ Begin(cmd, pc, s).pend = NoState
BY IdleTyped, Zenon DEF Begin, Handler, Idle

(* A write of the State changes that of its session only.                  *)
LEMMA WriteWrote ==
  ASSUME sess \in SessType, NEW s \in Sessions, NEW state, Write(s, state)
  PROVE  Wrote(s, state)
BY DEF SessType, Record, Write, Wrote

(* Where each step of the main goroutine takes it.                         *)
LEMMA HandlerMoves ==
  ASSUME IInv
  PROVE  /\ MainRead => Moved(main.pc, sess[main.cur].state)
         /\ MainUpsert =>
              (main' = Idle /\ main.pc = "ready") \/ Moved(main.pc, NoState)
         /\ Prepare => main' = Idle \/ Moved("create", NoState)
         /\ CreateRoom => main' = Idle \/ Moved("register", NoState)
         /\ Register => Moved("starting", "unread")
         /\ Starting => Moved("resolve", "unread")
         /\ ResolveImage => Moved("launch", NoState) \/ Moved("ready", "unread")
         /\ LaunchWorker => Moved("run", NoState) \/ Moved("ready", "unread")
         /\ Run \/ Commit => Moved("ready", "unread")
         /\ InputTaken => main' = Idle
         /\ InputFails => main' = Idle \/ Moved("stop", "unread")
         /\ StopWorker => Moved("await", NoState) \/ Moved(AfterStop, NoState)
         /\ AwaitStop => Moved(AfterStop, NoState)
         /\ Unbridge => IF main.cmd = "exit" THEN Moved("cleanup", NoState)
                        ELSE main' = Idle
         /\ Cleanup => Moved("forget", NoState)
         /\ Forget => Moved("delete", NoState)
         /\ DeleteRow => Moved("archive", NoState)
         /\ Archive => main' = Idle
<1>1. main \in Handler
  BY DEF IInv, TypeOK
<1>2. ASSUME NEW state, NEW pc, main.pend = NoState, SetState(state, Goto(pc))
      PROVE  Moved(pc, "unread")
  <2>1. main' = [Goto(pc) EXCEPT !.pend = "unread"]
    BY <1>2 DEF SetState
  <2>2. [[main EXCEPT !.pc = pc] EXCEPT !.pend = "unread"] =
          [main EXCEPT !.pc = pc, !.pend = "unread"]
    OBVIOUS
  <2> QED
    BY <1>1, <2>1, <2>2, GoneToPending DEF Goto, Moved
<1>3. ASSUME NEW pc, main.pend = NoState, main' = Goto(pc)
      PROVE  Moved(pc, NoState)
  BY <1>1, <1>3, GoneTo DEF Goto, Moved
<1>4. MainRead => Moved(main.pc, sess[main.cur].state)
  BY <1>1, GonePending DEF MainRead, Moved
<1>5. MainUpsert => (main' = Idle /\ main.pc = "ready") \/ Moved(main.pc, NoState)
  BY <1>1, GonePending DEF MainUpsert, Moved
<1>6. Register => Moved("starting", "unread")
  BY <1>1, GoneToPending DEF Register, Moved
<1>7. ResolveImage => Moved("launch", NoState) \/ Moved("ready", "unread")
  <2>1. ASSUME NEW img, At("resolve"),
               main' = [main EXCEPT !.pc = "launch", !.img = img]
        PROVE  Moved("launch", NoState)
    BY <1>1, <2>1, GoneToLaunch DEF At, Moved
  <2> QED
    BY <1>2, <2>1 DEF ResolveImage, At, Return
<1>8. InputFails => main' = Idle \/ Moved("stop", "unread")
  <2>1. ASSUME At("write"), SetState("failed", [Goto("stop") EXCEPT !.tgt = NoProc])
        PROVE  Moved("stop", "unread")
    <3>1. [main EXCEPT !.pc = "stop"] \in Handler
      BY <1>1, GotoTyped DEF Goto, Labels
    <3>2. [Goto("stop") EXCEPT !.tgt = NoProc] \in Handler
      BY <3>1, TgtTyped DEF Goto
    <3>3. main' = [[Goto("stop") EXCEPT !.tgt = NoProc] EXCEPT !.pend = "unread"]
      BY <2>1 DEF SetState
    <3> QED
      BY <1>1, <3>1, <3>2, <3>3, GoneTo, TgtKeeps, GonePending DEF Goto, Moved
  <2> QED
    BY <2>1 DEF InputFails
<1>9. StopWorker => Moved("await", NoState) \/ Moved(AfterStop, NoState)
  <2>1. ASSUME NEW p, main.pend = NoState,
               main' = [main EXCEPT !.pc = "await", !.tgt = p]
        PROVE  Moved("await", NoState)
    BY <1>1, <2>1, GoneToStop DEF Moved
  <2>2. StopWorker => /\ main.pend = NoState
                      /\ \/ \E p : main' = [main EXCEPT !.pc = "await", !.tgt = p]
                         \/ main' = Goto(AfterStop)
    BY Zenon DEF StopWorker, At
  <2> QED
    BY <1>3, <2>1, <2>2
<1>10. AwaitStop => Moved(AfterStop, NoState)
  BY <1>1, GoneToStop DEF AwaitStop, At, Moved
<1>11. /\ Starting => Moved("resolve", "unread")
       /\ LaunchWorker => Moved("run", NoState) \/ Moved("ready", "unread")
       /\ Run \/ Commit => Moved("ready", "unread")
  BY <1>2, <1>3 DEF Starting, LaunchWorker, Run, Commit, At, Return
<1>12. /\ Prepare => main' = Idle \/ Moved("create", NoState)
       /\ CreateRoom => main' = Idle \/ Moved("register", NoState)
       /\ InputTaken => main' = Idle
       /\ Unbridge => IF main.cmd = "exit" THEN Moved("cleanup", NoState)
                      ELSE main' = Idle
  BY <1>3 DEF Prepare, CreateRoom, InputTaken, Unbridge, At
<1>13. /\ Cleanup => Moved("forget", NoState)
       /\ Forget => Moved("delete", NoState)
       /\ DeleteRow => Moved("archive", NoState)
       /\ Archive => main' = Idle
  BY <1>3 DEF Cleanup, Forget, DeleteRow, Archive, At
<1> QED
  BY <1>4, <1>5, <1>6, <1>7, <1>8, <1>9, <1>10, <1>11, <1>12, <1>13

(* Where each command, restore or stop of the shutdown begins.             *)
LEMMA HandlerBegins ==
  ASSUME IInv, NEW s \in Sessions
  PROVE  /\ RecvStart(s) => Begun("start", "prepare", s) /\ main'.pend = NoState
         /\ RecvRestart(s) => Begun("restart", "stop", s) /\ main'.pend = "unread"
         /\ RecvExit(s) \/ ShutdownNext(s) =>
              Begun("exit", "stop", s) /\ main'.pend = "unread"
         /\ RecvInput(s) => Begun("input", "write", s) /\ main'.pend = NoState
         /\ RecvCommit(s) =>
              /\ Begun("commit", "commit", s) /\ main'.pend = "unread"
              /\ main'.prev = sess[s].state
         /\ RestoreSession(s) =>
              IF row[s].state \in Resumable
              THEN Begun("restart", "stop", s) /\ main'.pend = "unread"
              ELSE main' = main
<1>1. ASSUME NEW cmd \in Commands, NEW pc \in Labels
      PROVE  Begin(cmd, pc, s) \in Handler
  BY BeginTyped
<1>2. ASSUME NEW cmd \in Commands, NEW pc \in Labels, NEW state,
             SetState(state, Begin(cmd, pc, s))
      PROVE  Begun(cmd, pc, s) /\ main'.pend = "unread"
  BY <1>1, <1>2, BegunAs, GonePending DEF SetState, Begun
<1>3. /\ {"start", "restart", "exit", "input", "commit"} \subseteq Commands
      /\ {"prepare", "stop", "commit", "write"} \subseteq Labels
  BY DEF Commands, Labels
<1>4. RecvStart(s) => Begun("start", "prepare", s) /\ main'.pend = NoState
  <2>1. RecvStart(s) => main' = Begin("start", "prepare", s)
    BY DEF RecvStart, Begin
  <2> QED
    BY <2>1, BegunAs DEF Begun
<1>5. /\ RecvRestart(s) => Begun("restart", "stop", s) /\ main'.pend = "unread"
      /\ RecvExit(s) \/ ShutdownNext(s) =>
           Begun("exit", "stop", s) /\ main'.pend = "unread"
  BY <1>2, <1>3 DEF RecvRestart, RecvExit, ShutdownNext
<1>6. RecvInput(s) => Begun("input", "write", s) /\ main'.pend = NoState
  BY <1>1, <1>3, BegunAs, TgtKeeps DEF RecvInput, Begun
<1>7. RecvCommit(s) =>
        /\ Begun("commit", "commit", s) /\ main'.pend = "unread"
        /\ main'.prev = sess[s].state
  <2>1. sess[s].state \in States \cup {NoState}
    BY DEF IInv, TypeOK, Record
  <2>2. Begin("commit", "commit", s) \in Handler
    BY <1>1, <1>3
  <2>3. [Begin("commit", "commit", s) EXCEPT !.prev = sess[s].state] \in Handler
    BY <2>1, <2>2, PrevTyped
  <2>4. RecvCommit(s) =>
          main' = [[Begin("commit", "commit", s) EXCEPT !.prev = sess[s].state]
                     EXCEPT !.pend = "unread"]
    BY DEF RecvCommit, SetState
  <2> DEFINE m == [Begin("commit", "commit", s) EXCEPT !.prev = sess[s].state]
  <2>5. /\ m.cmd = "commit" /\ m.pc = "commit" /\ m.cur = s
        /\ m.prev = sess[s].state
    BY <2>2, BegunAs, PrevKeeps
  <2>6. RecvCommit(s) => main' = [m EXCEPT !.pend = "unread"]
    BY <2>4
  <2>7. m \in Handler
    BY <2>3
  <2> HIDE DEF m
  <2>8. LET n == [m EXCEPT !.pend = "unread"]
        IN  /\ n.cmd = m.cmd /\ n.pc = m.pc /\ n.cur = m.cur /\ n.prev = m.prev
            /\ n.pend = "unread"
    BY <2>7, GonePending
  <2> QED
    BY <2>5, <2>6, <2>8 DEF Begun
<1>8. RestoreSession(s) =>
        IF row[s].state \in Resumable
        THEN Begun("restart", "stop", s) /\ main'.pend = "unread"
        ELSE main' = main
  <2>1. ASSUME main' = [Begin("restart", "stop", s) EXCEPT !.pend = "unread"]
        PROVE  Begun("restart", "stop", s) /\ main'.pend = "unread"
    BY <1>1, <1>3, <2>1, BegunAs, GonePending DEF Begun
  <2> QED
    BY <2>1, Zenon DEF RestoreSession
<1> QED
  BY <1>4, <1>5, <1>6, <1>7, <1>8

(* Which States the main goroutine writes.                                 *)
LEMMA StateWritten ==
  ASSUME IInv, main.cur \in Sessions
  PROVE  /\ Prepare => Wrote(main.cur, "creating_room") \/ Wrote(main.cur, "failed")
         /\ CreateRoom => sess' = sess \/ Wrote(main.cur, "failed")
         /\ Starting => Wrote(main.cur, "starting_container")
         /\ Run => Wrote(main.cur, "running")
         /\ Commit => Wrote(main.cur, main.prev)
         /\ Forget => Wrote(main.cur, "exited")
         /\ LaunchWorker => sess' = sess \/ Wrote(main.cur, "failed")
         /\ InputFails => sess' = sess \/ Wrote(main.cur, "failed")
<1>1. sess \in SessType /\ main \in Handler
  BY DEF IInv, TypeOK, SessType
<1>2. ASSUME NEW state, Write(main.cur, state) PROVE Wrote(main.cur, state)
  BY <1>1, <1>2, WriteWrote
<1>3. ASSUME NEW state, NEW pc, SetState(state, Goto(pc))
      PROVE  Wrote(main.cur, state)
  BY <1>1, <1>2, <1>3, GoneTo DEF SetState, Goto
<1>4. InputFails => sess' = sess \/ Wrote(main.cur, "failed")
  <2>1. [Goto("stop") EXCEPT !.tgt = NoProc].cur = main.cur
    <3>1. [main EXCEPT !.pc = "stop"] \in Handler
      BY <1>1, GotoTyped DEF Goto, Labels
    <3> QED
      BY <1>1, <3>1, GoneTo, TgtKeeps DEF Goto
  <2> QED
    BY <1>2, <2>1 DEF InputFails, SetState
<1> QED
  BY <1>2, <1>3, <1>4
     DEF Prepare, CreateRoom, Starting, Run, Commit, Forget, LaunchWorker, Return

-----------------------------------------------------------------------------
(* Workers and the workers that can be reached.                            *)

(* Only launches and ends touch workers and their sessions.                *)
LEMMA WorkersTouched ==
  ASSUME [Next]_vars
  PROVE  \/ UNCHANGED <<proc, owner>>
         \/ LaunchWorker \/ PowerOff
         \/ \E p \in Procs : Exit(p)
<1> DEFINE Kept == UNCHANGED <<proc, owner>>
<1> USE DEF OnlyState, procVars, watchVars
<1>1. CASE MainStep
  <2>1. CASE \/ MainRead \/ MainUpsert \/ Prepare \/ CreateRoom \/ Register
             \/ Starting \/ ResolveImage \/ Run \/ Commit
    BY <2>1 DEF MainRead, MainUpsert, Prepare, CreateRoom, Register, Starting,
                ResolveImage, Run, Commit
  <2>2. CASE \/ InputFails \/ StopWorker \/ AwaitStop \/ Unbridge \/ Cleanup
             \/ Forget \/ DeleteRow \/ Archive \/ ListRows \/ ListFails \/ BootDone
             \/ BeginShutdown
    BY <2>2 DEF InputFails, StopWorker, AwaitStop, Unbridge, Cleanup, Forget,
                DeleteRow, Archive, ListRows, ListFails, BootDone,
                BeginShutdown, StopBegin, StopEnd
  <2>3. ASSUME NEW s \in Sessions, RestoreSession(s) \/ ShutdownNext(s)
        PROVE  Kept
    BY <2>3 DEF RestoreSession, ShutdownNext
  <2> QED
    BY <1>1, <2>1, <2>2, <2>3 DEF MainStep, Halt, JoinFails
<1>2. CASE User
  BY <1>2 DEF User, RecvStart, RecvRestart, RecvExit, RecvInput, RecvCommit
<1>3. CASE Operator
  BY <1>3 DEF Operator, Boot, Sigterm, Crash
<1>4. CASE InputTaken \/ InputFails
  BY <1>4 DEF InputTaken, InputFails
<1>5. ASSUME NEW p \in Procs, WatchStep(p) \/ Escalate(p) PROVE Kept
  BY <1>5 DEF WatchStep, WatchReceive, WatchCheck, WatchUnbridge,
              WatchSetState, WatchRead, WatchUpsert, ReceiveExit, Escalate,
              StopEscalate
<1>6. CASE UNCHANGED vars
  BY <1>6 DEF vars
<1>7. ASSUME NEW s \in Sessions, LeftEnds(s) PROVE Kept
  BY <1>7 DEF LeftEnds
<1> QED
  BY <1>1, <1>2, <1>3, <1>4, <1>5, <1>6, <1>7 DEF Next

(* Only a launch makes a worker one that can be reached.                   *)
LEMMA ReachedBefore ==
  ASSUME IInv, [Next]_vars, NEW s \in Sessions, Reached(s)'
  PROVE  Reached(s) \/ (LaunchWorker /\ s = main.cur)
<1>1. /\ bridge \in [Sessions -> Procs \cup {NoProc}]
      /\ proc \in [Procs -> {"unused", "alive"} \cup ExitStatus]
      /\ NoProc \notin Procs
  BY NoProcAssumption DEF IInv, TypeOK, ProcTypeOK
<1>2. bridge'[s] # NoProc /\ proc'[bridge'[s]] = "alive"
  BY DEF Reached
<1>3. CASE LaunchWorker
  <2>1. CASE UNCHANGED <<procVars, bridge, watchVars, box>>
    BY <1>2, <2>1 DEF procVars, Reached
  <2>2. CASE \E p \in Procs : /\ Free(p) /\ Launch(p)
                              /\ bridge' = [bridge EXCEPT ![main.cur] = p]
    <3>1. PICK p \in Procs : /\ Free(p) /\ Launch(p)
                             /\ bridge' = [bridge EXCEPT ![main.cur] = p]
      BY <2>2
    <3>2. CASE s # main.cur
      <4>1. bridge'[s] = bridge[s] /\ bridge[s] # p
        BY <1>1, <3>1, <3>2 DEF Free
      <4>2. bridge[s] \in Procs /\ proc'[bridge[s]] = proc[bridge[s]]
        BY <1>1, <1>2, <3>1, <4>1 DEF Launch
      <4> QED
        BY <1>2, <4>1, <4>2 DEF Reached
    <3> QED
      BY <1>3, <3>2
  <2> QED
    BY <1>3, <2>1, <2>2 DEF LaunchWorker
<1>4. CASE PowerOff
  BY <1>2, <1>4 DEF PowerOff
<1>5. CASE ~LaunchWorker /\ ~PowerOff
  <2>1. \A p \in Procs : proc'[p] = "alive" => proc[p] = "alive"
    <3>1. CASE UNCHANGED <<proc, owner>>
      BY <3>1
    <3>2. ASSUME NEW p \in Procs, Exit(p)
          PROVE  \A q \in Procs : proc'[q] = "alive" => proc[q] = "alive"
      BY <1>1, <3>2 DEF Exit, Reap
    <3> QED
      BY <1>5, <3>1, <3>2, WorkersTouched
  <2>2. bridge'[s] \in {bridge[s], NoProc}
    <3> USE DEF OnlyState
    <3>1. CASE MainStep
      <4>1. CASE Unbridge
        BY <1>1, <4>1 DEF Unbridge
      <4>2. CASE \/ MainRead \/ MainUpsert \/ Prepare \/ CreateRoom \/ Register
                 \/ Starting \/ ResolveImage \/ Run \/ Commit
        BY <4>2 DEF MainRead, MainUpsert, Prepare, CreateRoom, Register,
                    Starting, ResolveImage, Run, Commit
      <4>3. CASE \/ InputFails \/ StopWorker \/ AwaitStop \/ Cleanup
                 \/ Forget \/ DeleteRow \/ Archive \/ ListRows \/ ListFails \/ BootDone
                 \/ BeginShutdown
        BY <4>3 DEF InputFails, StopWorker, AwaitStop, Cleanup, Forget,
                    DeleteRow, Archive, ListRows, ListFails, BootDone,
                    BeginShutdown
      <4>4. ASSUME NEW u \in Sessions, RestoreSession(u) \/ ShutdownNext(u)
            PROVE  bridge' = bridge
        BY <4>4 DEF RestoreSession, ShutdownNext
      <4> QED
        BY <1>5, <3>1, <4>1, <4>2, <4>3, <4>4 DEF MainStep, Halt, JoinFails
    <3>2. CASE User \/ InputTaken \/ InputFails
      BY <3>2 DEF User, RecvStart, RecvRestart, RecvExit, RecvInput, RecvCommit,
                  InputTaken, InputFails
    <3>3. CASE Operator
      BY <1>5, <3>3 DEF Operator, Boot, Sigterm, Crash
    <3>4. ASSUME NEW p \in Procs, WatchStep(p) \/ Exit(p) \/ Escalate(p)
          PROVE  bridge'[s] \in {bridge[s], NoProc}
      BY <1>1, <3>4 DEF WatchStep, WatchReceive, WatchCheck, WatchUnbridge,
                WatchSetState, WatchRead, WatchUpsert, Exit, Escalate
    <3>5. ASSUME NEW u \in Sessions, LeftEnds(u) PROVE bridge' = bridge
      BY <3>5 DEF LeftEnds
    <3>6. CASE UNCHANGED vars
      BY <3>6 DEF vars
    <3> QED
      BY <3>1, <3>2, <3>3, <3>4, <3>5, <3>6 DEF Next
  <2> QED
    BY <1>1, <1>2, <2>1, <2>2 DEF Reached
<1> QED
  BY <1>3, <1>4, <1>5

(* Every step keeps the sessions with a worker registered, and the         *)
(* shutdown on its way to them.                                            *)
LEMMA ShutdownStep ==
  ASSUME IInv, DataInv, ShutdownInv, [Next]_vars
  PROVE  ShutdownInv'
<1>0. IInv'
  BY TypeStep, ControlStep DEF IInv
<1>1. /\ \A s \in Sessions : Reached(s) => s \in registered
      /\ \A s \in Sessions : Reached(s)' =>
           Reached(s) \/ (LaunchWorker /\ s = main.cur)
  BY ReachedBefore DEF ShutdownInv
<1> USE DEF OnlyState, loop
<1>2. ASSUME registered \subseteq registered', ~LaunchWorker,
             mode' = mode, todo' = todo,
             mode = "shutdown" =>
               \/ main'.cur = main.cur
                  /\ (main.pc \in {"stop", "await"} => main'.pc \in {"stop", "await"})
               \/ main.pc \notin {"stop", "await"}
      PROVE  ShutdownInv'
  BY <1>1, <1>2 DEF ShutdownInv
<1>3. CASE MainRead \/ MainUpsert
  <2>1. UNCHANGED <<registered, mode, todo>> /\ ~LaunchWorker
    BY <1>3 DEF MainRead, MainUpsert, LaunchWorker, At, NoState, States
  <2> QED
    BY <1>2, <1>3, <2>1, HandlerMoves DEF Moved
<1>4. CASE \/ Prepare \/ CreateRoom \/ Register \/ Starting \/ ResolveImage
           \/ Run \/ Commit \/ InputTaken \/ InputFails
  <2>1. registered \subseteq registered' /\ mode' = mode /\ todo' = todo
    BY <1>4 DEF Prepare, CreateRoom, Register, Starting, ResolveImage, Run,
                Commit, InputTaken, InputFails
  <2>2. main.pc \notin {"stop", "await", "launch"}
    BY <1>4 DEF Prepare, CreateRoom, Register, Starting, ResolveImage, Run,
                Commit, InputTaken, InputFails, At
  <2>3. ~LaunchWorker
    BY <2>2 DEF LaunchWorker, At
  <2> QED
    BY <1>2, <2>1, <2>2, <2>3
<1>5. CASE \/ Unbridge \/ Cleanup \/ DeleteRow \/ Archive
  <2>1. registered \subseteq registered' /\ mode' = mode /\ todo' = todo
    BY <1>5 DEF Unbridge, Cleanup, DeleteRow, Archive
  <2>2. main.pc \notin {"stop", "await", "launch"}
    BY <1>5 DEF Unbridge, Cleanup, DeleteRow, Archive, At
  <2>3. ~LaunchWorker
    BY <2>2 DEF LaunchWorker, At
  <2> QED
    BY <1>2, <2>1, <2>2, <2>3
<1>6. CASE Forget
  <2>1. /\ main.pc = "forget" /\ registered' = registered \ {main.cur}
        /\ mode' = mode /\ todo' = todo
    BY <1>6 DEF Forget, At
  <2>2. ~Reached(main.cur)
    BY <2>1 DEF Reached, IInv, ControlInv, GoneInv, WorkerGone
  <2>3. ~LaunchWorker
    BY <2>1 DEF LaunchWorker, At
  <2> QED
    BY <1>1, <2>1, <2>2, <2>3 DEF ShutdownInv
<1>7. CASE LaunchWorker
  <2>1. /\ main.pc = "launch" /\ UNCHANGED <<registered, mode>>
        /\ main.cur \in registered /\ mode # "shutdown"
    BY <1>7 DEF LaunchWorker, At, DataInv, LaunchInv, CommandInv
  <2> QED
    BY <1>1, <2>1 DEF ShutdownInv
<1>8. CASE StopWorker \/ AwaitStop
  <2>1. /\ UNCHANGED <<registered, mode, todo>>
        /\ main.pc \in {"stop", "await"} /\ ~LaunchWorker
    BY <1>8 DEF StopWorker, AwaitStop, At, LaunchWorker
  <2>2. \/ main'.pc = "await" /\ main'.cur = main.cur
        \/ main'.pc = AfterStop /\ main'.cur = main.cur
    BY <1>8, HandlerMoves DEF Moved
  <2>3. CASE main'.pc = "await" /\ main'.cur = main.cur
    BY <1>2, <2>1, <2>3
  <2>4. CASE main'.pc = AfterStop /\ main'.cur = main.cur
    <3>1. \A s \in Sessions : Reached(s)' => s # main.cur
      BY <1>0, <2>4 DEF AfterStop, Reached, IInv, ControlInv, GoneInv, WorkerGone
    <3> QED
      BY <1>1, <2>1, <3>1 DEF ShutdownInv
  <2> QED
    BY <2>2, <2>3, <2>4
<1>9. CASE BootDone \/ BeginShutdown
  <2>1. /\ registered' = registered /\ main.pc = "ready"
        /\ mode' = "shutdown" => todo' = registered
    BY <1>9 DEF BootDone, BeginShutdown, Ready, At
  <2>2. ~LaunchWorker
    BY <2>1 DEF LaunchWorker, At
  <2> QED
    BY <1>1, <2>1, <2>2 DEF ShutdownInv
<1>10. CASE PowerOff
  <2>1. \A s \in Sessions : ~Reached(s)'
    BY <1>10 DEF PowerOff, Reached
  <2> QED
    BY <2>1 DEF ShutdownInv
<1>11. ASSUME NEW s \in Sessions, RestoreSession(s) PROVE ShutdownInv'
  <2>1. /\ registered \subseteq registered' /\ mode' = "boot"
        /\ main.pc = "ready"
    BY <1>11 DEF RestoreSession, Ready, At
  <2>2. ~LaunchWorker
    BY <2>1 DEF LaunchWorker, At
  <2> QED
    BY <1>1, <2>1, <2>2 DEF ShutdownInv
<1>12. ASSUME NEW s \in Sessions, ShutdownNext(s) PROVE ShutdownInv'
  <2>1. /\ registered' = registered /\ mode' = mode /\ main.pc = "ready"
        /\ mode = "shutdown"
        /\ todo' = todo \ {s} /\ main'.cur = s /\ main'.pc = "stop"
    BY <1>12, HandlerBegins DEF ShutdownNext, Ready, At, Begun
  <2>2. ~LaunchWorker
    BY <2>1 DEF LaunchWorker, At
  <2>3. \A u \in Sessions : Reached(u)' => u = s \/ u \in todo'
    BY <1>1, <2>1, <2>2 DEF ShutdownInv
  <2> QED
    BY <1>1, <2>1, <2>2, <2>3 DEF ShutdownInv
<1>13. CASE User
  <2>1. registered' = registered /\ mode' = "serve" /\ main.pc = "ready"
    BY <1>13 DEF User, RecvStart, RecvRestart, RecvExit, RecvInput, RecvCommit,
                 Addressed, Serving, Ready, At
  <2>2. ~LaunchWorker
    BY <2>1 DEF LaunchWorker, At
  <2> QED
    BY <1>1, <2>1, <2>2 DEF ShutdownInv
<1>14. CASE Boot \/ ListRows \/ ListFails
  <2>1. registered' = registered /\ mode' # "shutdown" /\ mode \in {"down", "start"}
    BY <1>14 DEF Boot, ListRows, ListFails, Unlisted
  <2>2. ~LaunchWorker
    BY <2>1 DEF LaunchWorker, At, IInv, ControlInv, BootInv
  <2> QED
    BY <1>1, <2>1, <2>2 DEF ShutdownInv
<1>15. ASSUME UNCHANGED <<registered, mode, todo, main>> PROVE ShutdownInv'
  <2>1. LaunchWorker => main'.pc # main.pc
    <3>1. LaunchWorker => main'.pc \in {"run", "ready"}
      BY HandlerMoves DEF Moved
    <3> QED
      BY <3>1 DEF LaunchWorker, At
  <2> QED
    BY <1>2, <1>15, <2>1
<1>16. CASE Sigterm \/ UNCHANGED vars
  BY <1>15, <1>16 DEF Sigterm, vars
<1>17. ASSUME NEW p \in Procs, WatchStep(p) \/ Exit(p) \/ Escalate(p)
       PROVE  ShutdownInv'
  BY <1>15, <1>17 DEF WatchStep, WatchReceive, WatchCheck, WatchUnbridge,
            WatchSetState, WatchRead, WatchUpsert, Exit, Escalate
<1>18. ASSUME NEW s \in Sessions, LeftEnds(s) PROVE ShutdownInv'
  BY <1>15, <1>18 DEF LeftEnds
<1> QED
  BY <1>3, <1>4, <1>5, <1>6, <1>7, <1>8, <1>9, <1>10, <1>11, <1>12, <1>13,
     <1>14, <1>16, <1>17, <1>18 DEF Next, MainStep, Operator, Halt, JoinFails, Crash

-----------------------------------------------------------------------------
(* The paths of the handlers.                                              *)

Within ==
  \/ MainRead \/ MainUpsert \/ Prepare \/ CreateRoom \/ Register \/ Starting
  \/ ResolveImage \/ LaunchWorker \/ Run \/ Commit \/ InputTaken \/ InputFails
  \/ StopWorker \/ AwaitStop \/ Unbridge \/ Cleanup \/ Forget \/ DeleteRow
  \/ Archive

Begins(s) ==
  \/ RecvStart(s) \/ RecvRestart(s) \/ RecvExit(s) \/ RecvInput(s)
  \/ RecvCommit(s) \/ ShutdownNext(s) \/ RestoreSession(s)

Outside ==
  \/ Boot \/ ListRows \/ ListFails \/ BootDone \/ Sigterm \/ BeginShutdown
  \/ \E p \in Procs : WatchStep(p) \/ Exit(p) \/ Escalate(p)
  \/ \E s \in Sessions : LeftEnds(s)
  \/ UNCHANGED vars

(* Every step goes on in a handler, begins one, leaves it alone or is the  *)
(* end of the governor.                                                    *)
LEMMA StepKinds ==
  ASSUME [Next]_vars
  PROVE  Within \/ (\E s \in Sessions : Begins(s)) \/ Outside \/ PowerOff
BY DEF Next, MainStep, User, Operator, Halt, JoinFails, Crash, Within, Begins,
       Outside

(* A step that leaves the handler alone leaves the registration alone.     *)
LEMMA OutsideKeeps ==
  ASSUME Outside
  PROVE  main' = main /\ registered' = registered
<1> USE DEF loop
<1>1. ASSUME NEW p \in Procs, WatchStep(p) \/ Exit(p) \/ Escalate(p)
      PROVE  main' = main /\ registered' = registered
  BY <1>1 DEF WatchStep, WatchReceive, WatchCheck, WatchUnbridge,
              WatchSetState, WatchRead, WatchUpsert, Exit, Escalate
<1>2. ASSUME NEW s \in Sessions, LeftEnds(s)
      PROVE  main' = main /\ registered' = registered
  BY <1>2 DEF LeftEnds
<1> QED
  BY <1>1, <1>2 DEF Outside, Boot, ListRows, ListFails, Sigterm, BootDone,
                    BeginShutdown, vars

(* A handler changes no other session.                                     *)
LEMMA WithinKeeps ==
  ASSUME IInv, Within
  PROVE  /\ main.cur \in Sessions
         /\ \A t \in Sessions \ {main.cur} : sess'[t] = sess[t]
         /\ registered' \subseteq registered \cup {main.cur}
         /\ UNCHANGED <<mode, todo, ctxDone>>
<1> USE DEF OnlyState, loop
<1>1. /\ main.pc # "ready" \/ main.pend # NoState => main.cur \in Sessions
      /\ sess \in SessType /\ main \in Handler
  BY DEF IInv, TypeOK, ControlInv, HandlerInv, SessType
<1>2. ASSUME NEW state, NEW s \in Sessions, Write(s, state)
      PROVE  \A t \in Sessions \ {s} : sess'[t] = sess[t]
  BY <1>1, <1>2 DEF Write, SessType
<1>3. ASSUME NEW state, NEW pc, SetState(state, Goto(pc))
      PROVE  Write(main.cur, state)
  BY <1>1, <1>3, GoneTo DEF SetState, Goto
<1>4. CASE MainRead \/ MainUpsert \/ Register \/ InputTaken \/ StopWorker \/ AwaitStop
  BY <1>1, <1>4 DEF MainRead, MainUpsert, Register, InputTaken, StopWorker,
                    AwaitStop, At, NoState, States
<1>5. CASE Unbridge \/ Cleanup \/ DeleteRow \/ Archive
  BY <1>1, <1>5 DEF Unbridge, Cleanup, DeleteRow, Archive, At
<1>6. CASE Prepare \/ CreateRoom \/ Forget
  BY <1>1, <1>2, <1>6 DEF Prepare, CreateRoom, Forget, At
<1>7. CASE Starting \/ LaunchWorker \/ Run \/ Commit
  <2>1. /\ main.cur \in Sessions
        /\ UNCHANGED <<registered, mode, todo, ctxDone>>
    BY <1>1, <1>7 DEF Starting, LaunchWorker, Run, Commit, At
  <2>2. sess' = sess \/ \E state : Write(main.cur, state)
    BY <1>3, <1>7 DEF Starting, LaunchWorker, Run, Commit, Return
  <2> QED
    BY <1>2, <2>1, <2>2
<1>8. CASE ResolveImage
  <2>1. main.cur \in Sessions /\ UNCHANGED <<registered, mode, todo, ctxDone>>
    BY <1>1, <1>8 DEF ResolveImage, At
  <2>2. \/ sess' = [sess EXCEPT ![main.cur].image = TRUE]
        \/ \E state : Write(main.cur, state)
    BY <1>3, <1>8 DEF ResolveImage, Return
  <2> QED
    BY <1>1, <1>2, <2>1, <2>2 DEF SessType
<1>9. CASE InputFails
  <2>1. main.cur \in Sessions /\ UNCHANGED <<registered, mode, todo, ctxDone>>
    BY <1>1, <1>9 DEF InputFails, At
  <2>2. sess' = sess \/ Wrote(main.cur, "failed")
    BY <1>9, <2>1, StateWritten
  <2>3. [Goto("stop") EXCEPT !.tgt = NoProc].cur = main.cur
    <3>1. [main EXCEPT !.pc = "stop"] \in Handler
      BY <1>1, GotoTyped DEF Goto, Labels
    <3> QED
      BY <1>1, <3>1, GoneTo, TgtKeeps DEF Goto
  <2>4. sess' = sess \/ Write(main.cur, "failed")
    BY <1>9, <2>3 DEF InputFails, SetState
  <2> QED
    BY <1>2, <2>1, <2>4
<1> QED
  BY <1>4, <1>5, <1>6, <1>7, <1>8, <1>9 DEF Within

(* Every step keeps the handlers on their paths.                           *)
LEMMA PathStep ==
  ASSUME IInv, DataInv, PathInv, [Next]_vars
  PROVE  PathInv'
<1>1. Idle.pc = "ready" /\ Idle.cmd = "none"
  BY DEF Idle
<1>2. CASE main' \in {main, Idle}
  BY <1>1, <1>2 DEF PathInv
<1>3. CASE Within
  <2>1. CASE MainRead \/ MainUpsert
    BY <1>2, <2>1, HandlerMoves DEF Moved, PathInv
  <2>2. CASE Prepare \/ CreateRoom \/ Register \/ Starting
    <3>1. main.pc \in {"prepare", "create", "register", "starting"}
      BY <2>2 DEF Prepare, CreateRoom, Register, Starting, At
    <3>2. /\ main'.pc \in {"create", "register", "starting", "resolve"}
          /\ main'.cmd = main.cmd
          \/ main' = Idle
      BY <2>2, HandlerMoves DEF Moved
    <3> QED
      BY <1>2, <3>1, <3>2 DEF PathInv
  <2>3. CASE ResolveImage \/ LaunchWorker \/ Run \/ Commit
    <3>1. /\ main.pc \in {"resolve", "launch", "run", "commit"}
          /\ main'.pc \in {"launch", "run", "ready"} /\ main'.cmd = main.cmd
      BY <2>3, HandlerMoves DEF Moved, ResolveImage, LaunchWorker, Run, Commit, At
    <3> QED
      BY <3>1 DEF PathInv
  <2>4. CASE InputTaken \/ InputFails
    <3>1. main.cmd = "input"
      BY <2>4 DEF InputTaken, InputFails, At, DataInv, CommandInv
    <3>2. main' = Idle \/ (main'.pc = "stop" /\ main'.cmd = main.cmd)
      BY <2>4, HandlerMoves DEF Moved
    <3> QED
      BY <1>2, <3>1, <3>2 DEF PathInv
  <2>5. CASE StopWorker \/ AwaitStop
    <3>1. /\ main.pc \in {"stop", "await"} /\ main'.cmd = main.cmd
          /\ main'.pc \in {"await", AfterStop}
      BY <2>5, HandlerMoves DEF Moved, StopWorker, AwaitStop, At
    <3>2. AfterStop = IF main.cmd = "restart" THEN "resolve" ELSE "unbridge"
      BY DEF AfterStop
    <3> QED
      BY <3>1, <3>2 DEF PathInv
  <2>6. CASE Unbridge
    <3>1. main' = Idle \/ (/\ main'.pc = "cleanup" /\ main'.cmd = main.cmd
                          /\ main.cmd = "exit")
      BY <2>6, HandlerMoves DEF Moved
    <3> QED
      BY <1>2, <3>1 DEF PathInv
  <2>7. CASE Cleanup \/ Forget \/ DeleteRow \/ Archive
    <3>1. /\ main.pc \in {"cleanup", "forget", "delete", "archive"}
          /\ \/ main' = Idle
             \/ main'.pc \in {"forget", "delete", "archive"} /\ main'.cmd = main.cmd
      BY <2>7, HandlerMoves DEF Moved, Cleanup, Forget, DeleteRow, Archive, At
    <3> QED
      BY <1>2, <3>1 DEF PathInv
  <2> QED
    BY <1>3, <2>1, <2>2, <2>3, <2>4, <2>5, <2>6, <2>7 DEF Within
<1>4. ASSUME NEW s \in Sessions, Begins(s) PROVE PathInv'
  BY <1>2, <1>4, HandlerBegins DEF Begins, Begun, PathInv
<1>5. CASE Outside
  BY <1>2, <1>5, OutsideKeeps
<1>6. CASE PowerOff
  BY <1>2, <1>6 DEF PowerOff
<1> QED
  BY <1>3, <1>4, <1>5, <1>6, StepKinds

(* Every step keeps a session that is made or deleted out of the           *)
(* SessionStore.                                                           *)
LEMMA PlaceStep ==
  ASSUME IInv, DataInv, PlaceInv, [Next]_vars
  PROVE  PlaceInv'
<1> DEFINE Places == {"prepare", "create", "register", "delete", "archive"}
<1>1. Idle.pc = "ready"
  BY DEF Idle
<1>2. ASSUME main'.pc \notin Places PROVE PlaceInv'
  BY <1>2 DEF PlaceInv
<1>3. CASE Within
  <2>1. CASE MainRead \/ MainUpsert
    <3>1. registered' = registered
      BY <2>1 DEF MainRead, MainUpsert
    <3> QED
      BY <1>1, <2>1, <3>1, HandlerMoves DEF Moved, PlaceInv
  <2>2. CASE Prepare \/ CreateRoom
    <3>1. registered' = registered /\ main.pc \in Places
      BY <2>2 DEF Prepare, CreateRoom, At
    <3> QED
      BY <1>1, <2>2, <3>1, HandlerMoves DEF Moved, PlaceInv
  <2>3. CASE Forget
    <3>1. registered' = registered \ {main.cur}
      BY <2>3 DEF Forget
    <3> QED
      BY <2>3, <3>1, HandlerMoves DEF Moved, PlaceInv
  <2>4. CASE DeleteRow
    <3>1. registered' = registered /\ main.pc \in Places
      BY <2>4 DEF DeleteRow, At
    <3> QED
      BY <2>4, <3>1, HandlerMoves DEF Moved, PlaceInv
  <2>5. CASE Register \/ Starting \/ ResolveImage \/ LaunchWorker \/ Run \/ Commit
    BY <1>1, <1>2, <2>5, HandlerMoves DEF Moved
  <2>6. CASE \/ InputTaken \/ InputFails \/ StopWorker \/ AwaitStop \/ Unbridge
             \/ Cleanup \/ Archive
    BY <1>1, <1>2, <2>6, HandlerMoves DEF Moved, AfterStop
  <2> QED
    BY <1>3, <2>1, <2>2, <2>3, <2>4, <2>5, <2>6 DEF Within
<1>4. ASSUME NEW s \in Sessions, Begins(s) PROVE PlaceInv'
  <2>1. CASE RecvStart(s)
    <3>1. sess[s] = NoRecord /\ registered' = registered
      BY <2>1 DEF RecvStart, Fresh, OnlyState
    <3>2. s \notin registered
      BY <3>1 DEF DataInv, KnownInv, Known, NoRecord, NoState, States
    <3> QED
      BY <2>1, <3>1, <3>2, HandlerBegins DEF Begun, PlaceInv
  <2>2. CASE RestoreSession(s)
    <3>1. main.pc = "ready"
      BY <2>2 DEF RestoreSession, Ready, At
    <3> QED
      BY <1>2, <2>2, <3>1, HandlerBegins DEF Begun
  <2> QED
    BY <1>2, <1>4, <2>1, <2>2, HandlerBegins DEF Begins, Begun
<1>5. CASE Outside
  BY <1>5, OutsideKeeps DEF PlaceInv
<1>6. CASE PowerOff
  BY <1>1, <1>2, <1>6 DEF PowerOff
<1> QED
  BY <1>3, <1>4, <1>5, <1>6, StepKinds

-----------------------------------------------------------------------------
(* What is written outside of the handlers, and by them.                   *)

(* The statement of UpsertSession writes the State that was read; where it *)
(* is not the State any more, the row is stale.                            *)
LEMMA UpsertTells ==
  ASSUME row \in SessType, NEW s \in Sessions, NEW st, Upsert(s, st)
  PROVE  /\ row'[s].state = st /\ row'[s].image = sess[s].image
         /\ \A t \in Sessions \ {s} :
              row'[t] = row[t] /\ (t \in stale' <=> t \in stale)
         /\ s \notin stale' => st = sess[s].state
BY DEF Upsert, SessType

(* Outside of the handlers only a watcher writes a State, and a row only   *)
(* then.                                                                   *)
LEMMA OutsideWrites ==
  ASSUME IInv, Outside
  PROVE  /\ owner' = owner
         /\ \A t \in Sessions :
              /\ sess'[t].image = sess[t].image
              /\ \/ sess'[t].state = sess[t].state
                 \/ /\ sess'[t].state \in {"exited", "failed"}
                    /\ \E p \in Procs : owner[p] = t /\ watch'[p] = "set"
         /\ \A p \in Procs : watch[p] \in {"set", "read"} =>
              watch'[p] \in {"set", "read"} \/ WatchUpsert(p)
         /\ \/ UNCHANGED rows
            \/ \E p \in Procs : WatchUpsert(p)
<1> USE DEF durable, watchVars
<1>1. /\ sess \in SessType
      /\ watch \in [Procs -> {"none", "waiting", "received", "checked",
                              "unbridged", "set", "read", "silent", "told"}]
      /\ \A p \in Procs : watch[p] # "none" => owner[p] \in Sessions
  BY DEF IInv, TypeOK, ControlInv, WatcherInv, SessType
<1>2. ASSUME UNCHANGED <<sess, watchVars, rows>>
      PROVE  /\ owner' = owner /\ sess' = sess /\ watch' = watch /\ UNCHANGED rows
  BY <1>2
<1>3. ASSUME NEW p \in Procs, Exit(p) \/ Escalate(p)
      PROVE  /\ owner' = owner /\ sess' = sess /\ watch' = watch /\ UNCHANGED rows
  BY <1>3 DEF Exit, Escalate
<1>4. ASSUME NEW s \in Sessions, LeftEnds(s)
      PROVE  /\ owner' = owner /\ sess' = sess /\ watch' = watch /\ UNCHANGED rows
  BY <1>4 DEF LeftEnds
<1>5. CASE \/ Boot \/ ListRows \/ ListFails \/ BootDone \/ Sigterm
           \/ BeginShutdown \/ UNCHANGED vars
  BY <1>5 DEF Boot, ListRows, ListFails, Sigterm, BootDone, BeginShutdown, vars
<1>6. ASSUME NEW p \in Procs,
             \/ WatchReceive(p) \/ WatchCheck(p) \/ WatchUnbridge(p)
             \/ WatchRead(p)
      PROVE  /\ owner' = owner /\ sess' = sess /\ UNCHANGED rows
             /\ \A q \in Procs : watch[q] \in {"set", "read"} =>
                  watch'[q] \in {"set", "read"}
  BY <1>1, <1>6 DEF WatchReceive, WatchCheck, WatchUnbridge, WatchRead
<1>7. ASSUME NEW p \in Procs, WatchSetState(p)
      PROVE  /\ owner' = owner /\ UNCHANGED rows
             /\ \A q \in Procs : watch[q] \in {"set", "read"} =>
                  watch'[q] \in {"set", "read"}
             /\ \A t \in Sessions :
                  /\ sess'[t].image = sess[t].image
                  /\ \/ sess'[t].state = sess[t].state
                     \/ /\ sess'[t].state \in {"exited", "failed"}
                        /\ owner[p] = t /\ watch'[p] = "set"
  <2>1. /\ watch[p] = "unbridged" /\ watch' = [watch EXCEPT ![p] = "set"]
        /\ owner' = owner /\ UNCHANGED rows
        /\ \E state \in {"exited", "failed"} : Write(owner[p], state)
    BY <1>7 DEF WatchSetState
  <2>2. PICK state \in {"exited", "failed"} : Wrote(owner[p], state)
    BY <1>1, <2>1, WriteWrote
  <2> QED
    BY <1>1, <2>1, <2>2 DEF Wrote
<1>8. ASSUME NEW p \in Procs, WatchUpsert(p)
      PROVE  /\ owner' = owner /\ sess' = sess
             /\ \A q \in Procs \ {p} : watch'[q] = watch[q]
  BY <1>1, <1>8 DEF WatchUpsert
<1> QED
  BY <1>3, <1>4, <1>5, <1>6, <1>7, <1>8 DEF Outside, WatchStep

(* A command, a restore and a stop of the shutdown begin between handlers, *)
(* and change one session.                                                 *)
LEMMA BeginsKeeps ==
  ASSUME IInv, NEW s \in Sessions, Begins(s)
  PROVE  /\ main.pc = "ready" /\ main.pend = NoState
         /\ UNCHANGED <<owner, watch, snap, row, stale, disk, mode, ctxDone>>
         /\ \A u \in Sessions \ {s} : sess'[u] = sess[u]
         /\ IF RestoreSession(s)
            THEN /\ registered' = registered \cup {s}
                 /\ mode = "boot" /\ s \in todo /\ todo' = todo \ {s}
                 /\ sess'[s].image = row[s].image
                 /\ row[s].state \notin Resumable => sess'[s] = row[s]
            ELSE /\ registered' = registered /\ mode # "boot"
                 /\ sess'[s].image = sess[s].image
<1> USE DEF OnlyState, watchVars, rows, durable, loop
<1>1. sess \in SessType /\ row \in SessType
  BY DEF IInv, TypeOK, SessType
<1>2. /\ main.pc = "ready" /\ main.pend = NoState
      /\ UNCHANGED <<owner, watch, snap, row, stale, disk, mode, ctxDone>>
  BY DEF Begins, RecvStart, RecvRestart, RecvExit, RecvInput, RecvCommit,
         ShutdownNext, RestoreSession, Addressed, Serving, Ready, At
<1>3. CASE RestoreSession(s)
  <2>1. /\ registered' = registered \cup {s}
        /\ mode = "boot" /\ s \in todo /\ todo' = todo \ {s}
    BY <1>3, Zenon DEF RestoreSession, Ready
  <2>2. IF row[s].state \in Resumable
        THEN sess' = [sess EXCEPT ![s] = [row[s] EXCEPT !.state = "restarting"]]
        ELSE sess' = [sess EXCEPT ![s] = row[s]]
    BY <1>3, Zenon DEF RestoreSession
  <2>3. [row[s] EXCEPT !.state = "restarting"].image = row[s].image
    <3>1. row[s] \in Record
      BY <1>1 DEF SessType
    <3> QED
      BY <3>1, Zenon DEF Record
  <2>4. /\ \A u \in Sessions \ {s} : sess'[u] = sess[u]
        /\ sess'[s].image = row[s].image
        /\ row[s].state \notin Resumable => sess'[s] = row[s]
    BY <1>1, <2>2, <2>3 DEF SessType
  <2> QED
    BY <1>2, <1>3, <2>1, <2>4
<1>4. CASE ~RestoreSession(s)
  <2>1. registered' = registered /\ mode # "boot"
    BY <1>4 DEF Begins, RecvStart, RecvRestart, RecvExit, RecvInput,
                RecvCommit, ShutdownNext, Addressed, Serving, Ready
  <2>2. sess' = sess \/ \E state : Write(s, state)
    <3>1. ASSUME NEW cmd \in Commands, NEW pc \in Labels, NEW state,
                 NEW prev \in States \cup {NoState},
                 \/ SetState(state, Begin(cmd, pc, s))
                 \/ SetState(state, [Begin(cmd, pc, s) EXCEPT !.prev = prev])
          PROVE  Write(s, state)
      <4>1. Begin(cmd, pc, s) \in Handler /\ Begin(cmd, pc, s).cur = s
        BY BeginTyped
      <4>2. [Begin(cmd, pc, s) EXCEPT !.prev = prev].cur = s
        BY <4>1, PrevKeeps
      <4> QED
        BY <3>1, <4>1, <4>2 DEF SetState
    <3>2. /\ {"restart", "exit", "commit"} \subseteq Commands
          /\ {"stop", "commit"} \subseteq Labels
          /\ sess[s].state \in States \cup {NoState}
      BY <1>1 DEF Commands, Labels, SessType, Record
    <3> QED
      BY <1>4, <3>1, <3>2
         DEF Begins, RecvStart, RecvRestart, RecvExit, RecvInput, RecvCommit,
             ShutdownNext
  <2>3. /\ \A u \in Sessions \ {s} : sess'[u] = sess[u]
        /\ sess'[s].image = sess[s].image
    <3>1. ASSUME NEW state, Write(s, state)
          PROVE  /\ \A u \in Sessions \ {s} : sess'[u] = sess[u]
                 /\ sess'[s].image = sess[s].image
      <4>1. Wrote(s, state)
        BY <1>1, <3>1, WriteWrote
      <4> QED
        BY <1>1, <3>1, <4>1 DEF Write, SessType, Wrote
    <3> QED
      BY <2>2, <3>1
  <2> QED
    BY <1>2, <1>4, <2>1, <2>3
<1> QED
  BY <1>3, <1>4

(* Every step keeps the sessions settled whose handler does not run.       *)
LEMMA SettledStep ==
  ASSUME IInv, DataInv, PathInv, PlaceInv, SettledInv, [Next]_vars
  PROVE  SettledInv'
<1>0. /\ registered \subseteq Sessions /\ registered' \subseteq Sessions
      /\ sess \in SessType
  <2>1. TypeOK /\ TypeOK'
    BY TypeStep DEF IInv
  <2> QED
    BY <2>1 DEF TypeOK, SessType
<1>1. Idle.pc = "ready" /\ {"failed", "running", "exited"} \subseteq Settled
  BY DEF Idle, Settled
<1>2. ASSUME Within, registered' \subseteq registered \cup {main.cur},
             main'.pc # "ready" /\ main'.cur = main.cur,
             main'.pc = "commit" => main.pc = "commit" /\ main'.prev = main.prev,
             main'.cmd = "input" =>
               /\ main.cmd = "input" /\ main.pc # "ready"
               /\ \/ sess'[main.cur].state = sess[main.cur].state
                  \/ sess'[main.cur].state \in Settled
      PROVE  SettledInv'
  BY <1>0, <1>2, WithinKeeps DEF SettledInv
<1>3. ASSUME Within, main'.pc = "ready",
             \/ main.cur \notin registered' \/ sess'[main.cur].state \in Settled
      PROVE  SettledInv'
  BY <1>0, <1>3, WithinKeeps DEF SettledInv
<1>4. CASE Within
  <2>1. main.cur \in Sessions /\ registered' \subseteq registered \cup {main.cur}
    BY <1>4, WithinKeeps
  <2>2. CASE MainRead \/ MainUpsert
    <3>1. sess' = sess /\ registered' = registered
      BY <2>2 DEF MainRead, MainUpsert
    <3>2. \/ main' = Idle /\ main.pc = "ready"
          \/ /\ main'.pc = main.pc /\ main'.cur = main.cur
             /\ main'.cmd = main.cmd /\ main'.prev = main.prev
      BY <2>2, HandlerMoves DEF Moved
    <3> QED
      BY <1>1, <3>1, <3>2 DEF SettledInv
  <2>3. CASE Prepare \/ CreateRoom
    <3>1. main.pc \in {"prepare", "create"} /\ registered' = registered
      BY <2>3 DEF Prepare, CreateRoom, At
    <3>2. main.cur \notin registered
      BY <3>1 DEF PlaceInv
    <3>3. \/ main' = Idle
          \/ /\ main'.pc \in {"create", "register"} /\ main'.cur = main.cur
             /\ main'.cmd = main.cmd
      BY <2>3, HandlerMoves DEF Moved
    <3> QED
      BY <1>1, <1>2, <1>3, <1>4, <2>1, <3>1, <3>2, <3>3 DEF PathInv
  <2>4. CASE Register \/ Starting
    <3>1. /\ main.pc \in {"register", "starting"}
          /\ main'.pc \in {"starting", "resolve"} /\ main'.cur = main.cur
          /\ main'.cmd = main.cmd
      BY <2>4, HandlerMoves DEF Moved, Register, Starting, At
    <3> QED
      BY <1>2, <1>4, <2>1, <3>1 DEF PathInv
  <2>5. CASE ResolveImage
    <3>1. CASE SetState("failed", Return)
      <4>1. /\ main'.pc = "ready" /\ Wrote(main.cur, "failed")
        <5>1. Return \in Handler /\ Return.pc = "ready" /\ Return.cur = main.cur
          BY GotoTyped, GoneTo DEF Return, Labels, IInv, TypeOK
        <5>2. main'.pc = "ready"
          BY <3>1, <5>1, GonePending DEF SetState
        <5> QED
          BY <1>0, <2>1, <3>1, <5>1, <5>2, WriteWrote DEF SetState
      <4> QED
        BY <1>1, <1>3, <1>4, <4>1 DEF Wrote
    <3>2. CASE ~SetState("failed", Return)
      <4>1. main.pc = "resolve"
        BY <2>5 DEF ResolveImage, At
      <4>2. main'.pc = "launch" /\ main'.cur = main.cur /\ main'.cmd = main.cmd
        <5>1. \E img : main' = [main EXCEPT !.pc = "launch", !.img = img]
          BY <2>5, <3>2 DEF ResolveImage
        <5>2. main \in Handler
          BY DEF IInv, TypeOK
        <5> QED
          BY <5>1, <5>2, GoneToLaunch
      <4> QED
        BY <1>2, <1>4, <2>1, <4>1, <4>2 DEF PathInv
    <3> QED
      BY <3>1, <3>2
  <2>6. CASE LaunchWorker
    <3>1. main.pc = "launch"
      BY <2>6 DEF LaunchWorker, At
    <3>2. CASE main' = Goto("run")
      <4>1. main'.pc = "run" /\ main'.cur = main.cur /\ main'.cmd = main.cmd
        BY <3>2, GoneTo DEF Goto, IInv, TypeOK
      <4> QED
        BY <1>2, <1>4, <2>1, <3>1, <4>1 DEF PathInv
    <3>3. CASE SetState("failed", Return)
      <4>1. Return \in Handler /\ Return.pc = "ready" /\ Return.cur = main.cur
        BY GotoTyped, GoneTo DEF Return, Labels, IInv, TypeOK
      <4>2. main'.pc = "ready"
        BY <3>3, <4>1, GonePending DEF SetState
      <4>3. Wrote(main.cur, "failed")
        BY <1>0, <2>1, <3>3, <4>1, WriteWrote DEF SetState
      <4> QED
        BY <1>1, <1>3, <1>4, <4>2, <4>3 DEF Wrote
    <3> QED
      BY <2>6, <3>2, <3>3 DEF LaunchWorker
  <2>7. CASE Run \/ Commit
    <3>1. main'.pc = "ready"
      BY <2>7, HandlerMoves DEF Moved
    <3>2. CASE Run
      BY <1>1, <1>3, <1>4, <2>1, <3>1, <3>2, StateWritten DEF Wrote
    <3>3. CASE Commit
      <4>1. main.prev \in Settled
        BY <3>3 DEF Commit, At, SettledInv
      <4> QED
        BY <1>3, <1>4, <2>1, <3>1, <3>3, <4>1, StateWritten DEF Wrote
    <3> QED
      BY <2>7, <3>2, <3>3
  <2>8. CASE InputTaken \/ InputFails
    <3>1. main.cmd = "input" /\ main.pc = "write"
      BY <2>8 DEF InputTaken, InputFails, At, DataInv, CommandInv
    <3>2. sess' = sess \/ Wrote(main.cur, "failed")
      BY <2>1, <2>8, StateWritten DEF InputTaken
    <3>3. sess'[main.cur].state \in Settled
      BY <1>1, <3>1, <3>2 DEF Wrote, SettledInv
    <3>4. main' = Idle \/ (/\ main'.pc = "stop" /\ main'.cur = main.cur
                          /\ main'.cmd = main.cmd)
      BY <2>8, HandlerMoves DEF Moved
    <3> QED
      BY <1>1, <1>2, <1>3, <1>4, <2>1, <3>1, <3>3, <3>4
  <2>9. CASE StopWorker \/ AwaitStop
    <3>1. sess' = sess /\ main.pc \in {"stop", "await"}
      BY <2>9 DEF StopWorker, AwaitStop, At
    <3>2. /\ main'.pc \in {"await", "resolve", "unbridge"}
          /\ main'.cur = main.cur /\ main'.cmd = main.cmd
      BY <2>9, HandlerMoves DEF Moved, AfterStop
    <3> QED
      BY <1>2, <1>4, <2>1, <3>1, <3>2
  <2>10. CASE Unbridge
    <3>1. sess' = sess /\ main.pc = "unbridge"
      BY <2>10 DEF Unbridge, At
    <3>2. CASE main.cmd = "exit"
      <4>1. main'.pc = "cleanup" /\ main'.cur = main.cur /\ main'.cmd = "exit"
        BY <2>10, <3>2, HandlerMoves DEF Moved
      <4> QED
        BY <1>2, <1>4, <2>1, <4>1
    <3>3. CASE main.cmd # "exit"
      <4>1. main' = Idle /\ main.cmd = "input"
        BY <2>10, <3>1, <3>3, HandlerMoves DEF PathInv
      <4> QED
        BY <1>1, <1>3, <1>4, <3>1, <4>1 DEF SettledInv
    <3> QED
      BY <3>2, <3>3
  <2>11. CASE Cleanup \/ Forget \/ DeleteRow
    <3>1. main.pc \in {"cleanup", "forget", "delete"}
      BY <2>11 DEF Cleanup, Forget, DeleteRow, At
    <3>2. /\ main'.pc \in {"forget", "delete", "archive"}
          /\ main'.cur = main.cur /\ main'.cmd = main.cmd
      BY <2>11, HandlerMoves DEF Moved
    <3> QED
      BY <1>2, <1>4, <2>1, <3>1, <3>2 DEF PathInv
  <2>12. CASE Archive
    <3>1. /\ main.cur \notin registered /\ registered' = registered
          /\ main' = Idle
      BY <2>12 DEF Archive, At, PlaceInv
    <3> QED
      BY <1>1, <1>3, <1>4, <3>1
  <2> QED
    BY <1>4, <2>2, <2>3, <2>4, <2>5, <2>6, <2>7, <2>8, <2>9, <2>10, <2>11,
       <2>12 DEF Within
<1>5. ASSUME NEW s \in Sessions, Begins(s) PROVE SettledInv'
  <2>1. /\ main.pc = "ready"
        /\ \A u \in registered : sess[u].state \in Settled
    BY <1>5, BeginsKeeps DEF SettledInv
  <2>2. CASE RestoreSession(s)
    <3>1. /\ registered' = registered \cup {s}
          /\ \A u \in Sessions \ {s} : sess'[u] = sess[u]
      BY <1>5, <2>2, BeginsKeeps
    <3>2. CASE row[s].state \in Resumable
      <4>1. main'.cmd = "restart" /\ main'.pc = "stop" /\ main'.cur = s
        BY <2>2, <3>2, HandlerBegins DEF Begun
      <4> QED
        BY <1>0, <2>1, <3>1, <4>1 DEF SettledInv
    <3>3. CASE row[s].state \notin Resumable
      <4>1. sess'[s] = row[s] /\ main' = main
        BY <1>5, <2>2, <3>3, BeginsKeeps, HandlerBegins
      <4>2. Present(s)
        BY <2>2 DEF RestoreSession, Ready, DataInv, RestoreInv
      <4>3. row[s].state \in Settled
        BY <3>3, <4>2 DEF DataInv, KnownInv, Resumable, Settled
      <4> QED
        BY <1>0, <2>1, <3>1, <4>1, <4>3 DEF SettledInv
    <3> QED
      BY <3>2, <3>3
  <2>3. CASE ~RestoreSession(s)
    <3>1. registered' = registered
      BY <1>5, <2>3, BeginsKeeps
    <3>2. /\ main'.cur = s /\ main'.pc \in {"prepare", "stop", "write", "commit"}
          /\ main'.pc = "commit" => main'.prev = sess[s].state /\ s \in registered
          /\ main'.cmd = "input" => RecvInput(s)
      BY <1>5, <2>3, HandlerBegins DEF Begins, Begun, RecvCommit, Addressed
    <3>3. \A u \in Sessions \ {s} : sess'[u] = sess[u]
      BY <1>5, BeginsKeeps
    <3>4. RecvInput(s) => sess' = sess /\ s \in registered
      BY DEF RecvInput, Addressed
    <3> QED
      BY <1>0, <2>1, <3>1, <3>2, <3>3, <3>4 DEF SettledInv
  <2> QED
    BY <2>2, <2>3
<1>6. CASE Outside
  <2>1. main' = main /\ registered' = registered
    BY <1>6, OutsideKeeps
  <2>2. \A t \in Sessions : \/ sess'[t].state = sess[t].state
                           \/ sess'[t].state \in Settled
    BY <1>6, OutsideWrites DEF Settled
  <2>3. main.pc # "ready" => main.cur \in Sessions
    BY DEF IInv, ControlInv, HandlerInv
  <2> QED
    BY <1>0, <2>1, <2>2, <2>3 DEF SettledInv
<1>7. CASE PowerOff
  <2>1. main' = Idle /\ registered' = {}
    BY <1>7 DEF PowerOff
  <2> QED
    BY <1>1, <2>1 DEF SettledInv
<1> QED
  BY <1>4, <1>5, <1>6, <1>7, StepKinds

-----------------------------------------------------------------------------
(* The rows and the State.                                                 *)

(* A handler writes the State of its session at the beginning of an update *)
(* of the row, or where the session is not registered; the row only by the *)
(* statement of the update and in DeleteRow; and no watcher that is about  *)
(* to update a row is disturbed.                                           *)
LEMMA WithinWrites ==
  ASSUME IInv, DataInv, Within
  PROVE  /\ \A p \in Procs : watch[p] \in {"set", "read"} =>
              watch'[p] = watch[p] /\ owner'[p] = owner[p]
         /\ \/ MainUpsert \/ DeleteRow
            \/ UNCHANGED rows
         /\ \/ main'.pend = "unread" /\ main'.cur = main.cur
            \/ MainUpsert \/ MainRead
            \/ Prepare \/ CreateRoom \/ Forget
            \/ sess'[main.cur].state = sess[main.cur].state /\ main.pend = NoState
<1> USE DEF OnlyState, rows, durable, watchVars
<1>1. /\ main.cur \in Sessions
      /\ sess \in SessType /\ main \in Handler
      /\ watch \in [Procs -> {"none", "waiting", "received", "checked",
                              "unbridged", "set", "read", "silent", "told"}]
      /\ owner \in [Procs -> Sessions \cup {NoSession}]
  BY WithinKeeps DEF IInv, TypeOK, SessType
<1>2. \A p \in Procs : watch[p] \in {"set", "read"} =>
        watch'[p] = watch[p] /\ owner'[p] = owner[p]
  <2>1. CASE LaunchWorker
    <3>1. \/ UNCHANGED <<owner, watch>>
          \/ \E p \in Procs : /\ Free(p)
                              /\ owner' = [owner EXCEPT ![p] = main.cur]
                              /\ watch' = [watch EXCEPT ![p] = "waiting"]
      BY <2>1 DEF LaunchWorker
    <3>2. ASSUME NEW p \in Procs, Free(p),
                 owner' = [owner EXCEPT ![p] = main.cur],
                 watch' = [watch EXCEPT ![p] = "waiting"],
                 NEW q \in Procs, watch[q] \in {"set", "read"}
          PROVE  watch'[q] = watch[q] /\ owner'[q] = owner[q]
      <4>1. q # p
        BY <3>2 DEF Free
      <4> QED
        BY <1>1, <3>2, <4>1
    <3> QED
      BY <3>1, <3>2
  <2>2. CASE \/ MainRead \/ MainUpsert \/ Prepare \/ CreateRoom \/ Register
             \/ Starting \/ ResolveImage \/ Run \/ Commit \/ InputTaken
    BY <2>2 DEF MainRead, MainUpsert, Prepare, CreateRoom, Register, Starting,
                ResolveImage, Run, Commit, InputTaken
  <2>3. CASE \/ InputFails \/ StopWorker \/ AwaitStop \/ Unbridge \/ Cleanup
             \/ Forget \/ DeleteRow \/ Archive
    BY <2>3 DEF InputFails, StopWorker, AwaitStop, Unbridge, Cleanup, Forget,
                DeleteRow, Archive
  <2> QED
    BY <2>1, <2>2, <2>3 DEF Within
<1>3. MainUpsert \/ DeleteRow \/ UNCHANGED rows
  BY DEF Within, MainRead, Prepare, CreateRoom, Register, Starting,
         ResolveImage, LaunchWorker, Run, Commit, InputTaken, InputFails,
         StopWorker, AwaitStop, Unbridge, Cleanup, Forget, Archive
<1>4. ASSUME NEW state, NEW next \in Handler, next.cur = main.cur,
             SetState(state, next)
      PROVE  main'.pend = "unread" /\ main'.cur = main.cur
  BY <1>4, GonePending DEF SetState
<1>5. ASSUME NEW pc \in Labels
      PROVE  /\ Goto(pc) \in Handler /\ Goto(pc).cur = main.cur
             /\ [Goto(pc) EXCEPT !.tgt = NoProc] \in Handler
             /\ [Goto(pc) EXCEPT !.tgt = NoProc].cur = main.cur
  <2>1. Goto(pc) \in Handler /\ Goto(pc).cur = main.cur
    BY <1>1, GotoTyped, GoneTo DEF Goto
  <2> QED
    BY <2>1, TgtTyped, TgtKeeps
<1>6. {"resolve", "ready", "stop"} \subseteq Labels
  BY DEF Labels
<1>7. CASE Starting \/ Run \/ Commit \/ Register
  BY <1>2, <1>3, <1>7, HandlerMoves DEF Moved
<1>8. CASE InputFails
  <2>1. main.pend = NoState
    BY <1>8 DEF InputFails, At
  <2>2. \/ SetState("failed", [Goto("stop") EXCEPT !.tgt = NoProc])
        \/ sess' = sess
    BY <1>8 DEF InputFails
  <2> QED
    BY <1>2, <1>3, <1>4, <1>5, <1>6, <2>1, <2>2
<1>9. CASE ResolveImage
  <2>1. main.pend = NoState
    BY <1>9 DEF ResolveImage, At
  <2>2. \/ SetState("failed", Return)
        \/ sess' = [sess EXCEPT ![main.cur].image = TRUE]
    BY <1>9 DEF ResolveImage
  <2>3. sess' = [sess EXCEPT ![main.cur].image = TRUE] =>
          sess'[main.cur].state = sess[main.cur].state
    BY <1>1 DEF SessType, Record
  <2> QED
    BY <1>2, <1>3, <1>4, <1>5, <1>6, <2>1, <2>2, <2>3 DEF Return
<1>10. CASE LaunchWorker
  <2>1. main.pend = NoState
    BY <1>10 DEF LaunchWorker, At
  <2>2. SetState("failed", Return) \/ sess' = sess
    BY <1>10 DEF LaunchWorker
  <2> QED
    BY <1>2, <1>3, <1>4, <1>5, <1>6, <2>1, <2>2 DEF Return
<1>11. CASE InputTaken \/ StopWorker \/ AwaitStop \/ Unbridge \/ Cleanup
            \/ DeleteRow \/ Archive
  BY <1>2, <1>3, <1>11 DEF InputTaken, StopWorker, AwaitStop, Unbridge, Cleanup,
                    DeleteRow, Archive, At
<1> QED
  BY <1>2, <1>3, <1>7, <1>8, <1>9, <1>10, <1>11 DEF Within

(* Every step keeps the rows true or about to be.                          *)
LEMMA RowStep ==
  ASSUME IInv, DataInv, PlaceInv, RowInv, [Next]_vars
  PROVE  RowInv'
<1>0. /\ registered \subseteq Sessions /\ registered' \subseteq Sessions
      /\ row \in SessType
  <2>1. TypeOK /\ TypeOK'
    BY TypeStep DEF IInv
  <2> QED
    BY <2>1 DEF TypeOK, SessType
<1>1. CASE Within
  <2>1. /\ main.cur \in Sessions
        /\ \A t \in Sessions \ {main.cur} : sess'[t] = sess[t]
        /\ registered' \subseteq registered \cup {main.cur}
        /\ ctxDone' = ctxDone
    BY <1>1, WithinKeeps
  <2>2. \A t \in Sessions \ {main.cur} :
          row'[t] = row[t] /\ (t \in stale' <=> t \in stale)
    <3>1. MainUpsert => (\E st : Upsert(main.cur, st)) \/ UNCHANGED rows
      BY DEF MainUpsert
    <3>2. DeleteRow => \/ /\ row' = [row EXCEPT ![main.cur] = NoRecord]
                          /\ stale' = stale \ {main.cur}
                       \/ UNCHANGED rows
      BY DEF DeleteRow
    <3> QED
      BY <1>0, <1>1, <2>1, <3>1, <3>2, UpsertTells, WithinWrites DEF SessType, rows
  <2>3. \A p \in Procs : watch[p] \in {"set", "read"} =>
          watch'[p] = watch[p] /\ owner'[p] = owner[p]
    BY <1>1, WithinWrites
  <2>4. ASSUME ~ctxDone, main.cur \in registered',
               main.cur \notin Faulty \cup stale'
        PROVE  \/ row'[main.cur].state = sess'[main.cur].state
               \/ main'.cur = main.cur /\ main'.pend # NoState
               \/ \E p \in Procs : owner'[p] = main.cur /\ watch'[p] \in {"set", "read"}
    <3>1. CASE MainUpsert
      <4>1. Upsert(main.cur, main.pend) /\ sess' = sess
        BY <2>4, <3>1 DEF MainUpsert, Fails
      <4> QED
        BY <1>0, <2>1, <2>4, <4>1, UpsertTells
    <3>2. CASE MainRead
      <4>1. main'.cur = main.cur /\ main'.pend = sess[main.cur].state
        BY <3>2, HandlerMoves DEF Moved
      <4>2. sess[main.cur].state \in States
        BY <3>2 DEF MainRead, NoState, DataInv, KnownInv, Known
      <4> QED
        BY <4>1, <4>2 DEF States, NoState
    <3>3. CASE Prepare \/ CreateRoom \/ Forget \/ DeleteRow
      <4>1. registered' = registered \/ registered' = registered \ {main.cur}
        BY <3>3 DEF Prepare, CreateRoom, Forget, DeleteRow
      <4>2. main.cur \notin registered'
        BY <3>3, <4>1 DEF Prepare, CreateRoom, Forget, DeleteRow, At, PlaceInv
      <4> QED
        BY <2>4, <4>2
    <3>4. CASE main'.pend = "unread" /\ main'.cur = main.cur
      BY <3>4 DEF NoState
    <3>5. CASE /\ sess'[main.cur].state = sess[main.cur].state
               /\ main.pend = NoState
               /\ ~MainUpsert /\ ~DeleteRow
               /\ ~(main'.pend = "unread" /\ main'.cur = main.cur)
      <4>1. UNCHANGED rows
        BY <1>1, <3>5, WithinWrites
      <4>2. Register => main'.pend = "unread" /\ main'.cur = main.cur
        BY HandlerMoves DEF Moved
      <4>3. registered' \subseteq registered
        BY <1>1, <2>1, <3>5, <4>2
           DEF Within, MainRead, Prepare, CreateRoom, Starting,
               ResolveImage, LaunchWorker, Run, Commit, InputTaken, InputFails,
               StopWorker, AwaitStop, Unbridge, Cleanup, Forget, Archive,
               OnlyState
      <4> QED
        BY <2>3, <2>4, <3>5, <4>1, <4>3 DEF RowInv, rows
    <3> QED
      BY <1>1, <3>1, <3>2, <3>3, <3>4, <3>5, WithinWrites
  <2> QED
    BY <1>0, <2>1, <2>2, <2>3, <2>4 DEF RowInv
<1>2. ASSUME NEW s \in Sessions, Begins(s) PROVE RowInv'
  <2>1. /\ main.pend = NoState
        /\ UNCHANGED <<owner, watch, row, stale, ctxDone>>
        /\ \A u \in Sessions \ {s} : sess'[u] = sess[u]
        /\ registered' \subseteq registered \cup {s}
    BY <1>2, BeginsKeeps
  <2>2. s \in registered' =>
          \/ main'.cur = s /\ main'.pend # NoState
          \/ row[s].state = sess'[s].state
          \/ s \in registered /\ sess'[s] = sess[s]
    <3>1. CASE RestoreSession(s)
      BY <1>2, <3>1, BeginsKeeps, HandlerBegins DEF Begun, NoState
    <3>2. CASE RecvStart(s)
      <4>1. sess[s] = NoRecord /\ registered' = registered
        BY <3>2 DEF RecvStart, Fresh, OnlyState
      <4> QED
        BY <4>1 DEF DataInv, KnownInv, Known, NoRecord, NoState, States
    <3>3. CASE RecvInput(s)
      BY <3>3 DEF RecvInput, OnlyState
    <3> QED
      BY <1>2, <3>1, <3>2, <3>3, HandlerBegins DEF Begins, Begun, NoState
  <2> QED
    BY <1>0, <2>1, <2>2 DEF RowInv
<1>3. CASE Outside
  <2>1. main' = main /\ registered' = registered
    BY <1>3, OutsideKeeps
  <2>2. ctxDone' = FALSE => ctxDone = FALSE
    BY <1>3 DEF Outside, Boot, ListRows, ListFails, Sigterm, BootDone,
                BeginShutdown, vars, loop,
         WatchStep, WatchReceive, WatchCheck, WatchUnbridge, WatchSetState,
         WatchRead, WatchUpsert, Exit, Escalate, LeftEnds
  <2>3. ctxDone \in BOOLEAN /\ ctxDone' \in BOOLEAN
    BY TypeStep DEF IInv, TypeOK
  <2>4. CASE ~\E p \in Procs : WatchUpsert(p)
    <3>1. UNCHANGED rows
      BY <1>3, <2>4, OutsideWrites
    <3> QED
      BY <1>0, <1>3, <2>1, <2>2, <2>3, <2>4, <3>1, OutsideWrites DEF RowInv, rows
  <2>5. ASSUME NEW p \in Procs, WatchUpsert(p) PROVE RowInv'
    <3>1. /\ owner' = owner /\ sess' = sess /\ ctxDone' = ctxDone
          /\ Upsert(owner[p], snap[p]) \/ (owner[p] \in Faulty /\ UNCHANGED rows)
          /\ owner[p] \in Sessions
      BY <2>5 DEF WatchUpsert, loop, IInv, ControlInv, WatcherInv
    <3>2. \A q \in Procs \ {p} : watch'[q] = watch[q]
      BY <2>5 DEF WatchUpsert, IInv, TypeOK
    <3>3. \A t \in Sessions : t # owner[p] =>
            row'[t] = row[t] /\ (t \in stale' <=> t \in stale)
      BY <1>0, <3>1, UpsertTells DEF rows
    <3>4. owner[p] \in stale' \cup Faulty \/ row'[owner[p]].state = sess[owner[p]].state
      BY <1>0, <3>1, UpsertTells
    <3> QED
      BY <1>0, <2>1, <3>1, <3>2, <3>3, <3>4 DEF RowInv
  <2> QED
    BY <2>4, <2>5
<1>4. CASE PowerOff
  <2>1. registered' = {}
    BY <1>4 DEF PowerOff
  <2> QED
    BY <2>1 DEF RowInv
<1> QED
  BY <1>1, <1>2, <1>3, <1>4, StepKinds

(* Every step keeps a session that /exit has taken on from being resumed.  *)
LEMMA ExitStep ==
  ASSUME IInv, DataInv, PathInv, ExitInv, [Next]_vars
  PROVE  ExitInv'
<1> DEFINE Over == {"stopping", "exited", "failed"}
<1>0. row \in SessType /\ ctxDone \in BOOLEAN /\ sess \in SessType
  BY DEF IInv, TypeOK, SessType
<1>1. Idle.pc = "ready" /\ NoRecord.state \notin Resumable
  BY DEF Idle, NoRecord, NoState, Resumable, States
<1>2. ASSUME main'.pc = "ready" \/ main'.cmd # "exit" PROVE ExitInv'
  BY <1>2 DEF ExitInv
<1>3. ASSUME main.pc # "ready", main.cmd = "exit", main'.cur = main.cur,
             sess'[main.cur].state \in Over,
             UNCHANGED <<row, stale, ctxDone>>, main.pend = NoState
      PROVE  ExitInv'
  <2>1. /\ main.cur \notin Faulty \cup stale /\ ~ctxDone =>
             row[main.cur].state \notin Resumable
    BY <1>3 DEF ExitInv
  <2> QED
    BY <1>3, <2>1 DEF ExitInv
<1>4. CASE Within
  <2>1. main.cur \in Sessions /\ ctxDone' = ctxDone
    BY <1>4, WithinKeeps
  <2>2. CASE MainRead
    <3>1. /\ Moved(main.pc, sess[main.cur].state) /\ sess' = sess
          /\ main.cur \in Sessions
      BY <2>1, <2>2, HandlerMoves DEF MainRead
    <3>2. sess[main.cur].state # NoState
      BY <2>2 DEF MainRead, DataInv, KnownInv, Known, NoState, States
    <3> QED
      BY <3>1, <3>2 DEF ExitInv, Moved
  <2>3. CASE MainUpsert
    <3>1. \/ main' = Idle
          \/ /\ main'.pc = main.pc /\ main'.cmd = main.cmd
             /\ main'.cur = main.cur
      BY <2>3, HandlerMoves DEF Moved
    <3>2. /\ sess' = sess
          /\ Upsert(main.cur, main.pend) \/ main.cur \in Faulty \/ ctxDone
      BY <2>3 DEF MainUpsert, Fails
    <3>3. Upsert(main.cur, main.pend) =>
            main.cur \in stale' \/ row'[main.cur].state = sess[main.cur].state
      BY <1>0, <2>1, UpsertTells
    <3>4. ASSUME main.pc # "ready", main.cmd = "exit"
          PROVE  /\ sess[main.cur].state \in Over
                 /\ sess[main.cur].state \notin Resumable
      BY <3>4 DEF ExitInv, Resumable
    <3> QED
      BY <1>1, <1>2, <2>1, <3>1, <3>2, <3>3, <3>4 DEF ExitInv
  <2>4. CASE StopWorker \/ AwaitStop \/ Unbridge \/ Cleanup
    <3>1. /\ sess' = sess /\ UNCHANGED <<row, stale>>
          /\ main.pc # "ready" /\ main.pend = NoState
      BY <2>4 DEF StopWorker, AwaitStop, Unbridge, Cleanup, At, rows, durable
    <3>2. main' = Idle \/ (main'.cur = main.cur /\ main'.cmd = main.cmd)
      BY <2>4, HandlerMoves DEF Moved
    <3>3. main.cmd = "exit" => sess[main.cur].state \in Over
      BY <3>1 DEF ExitInv
    <3> QED
      BY <1>1, <1>2, <1>3, <2>1, <3>1, <3>2, <3>3
  <2>5. CASE Forget
    <3>1. /\ UNCHANGED <<row, stale>> /\ main.pc # "ready"
          /\ main.pend = NoState
      BY <2>5 DEF Forget, At, rows, durable
    <3>2. main'.cur = main.cur /\ main'.cmd = main.cmd
      BY <2>5, HandlerMoves DEF Moved
    <3>3. sess'[main.cur].state = "exited"
      BY <2>1, <2>5, StateWritten DEF Wrote
    <3> QED
      BY <1>2, <1>3, <2>1, <3>1, <3>2, <3>3
  <2>6. CASE DeleteRow
    <3>1. /\ sess' = sess /\ main.pc # "ready" /\ main.pend = NoState
          /\ main'.cur = main.cur /\ main'.cmd = main.cmd
      BY <2>6, HandlerMoves DEF DeleteRow, At, Moved
    <3>2. \/ row'[main.cur] = NoRecord
          \/ UNCHANGED <<row, stale>>
      BY <1>0, <2>1, <2>6 DEF DeleteRow, rows, SessType
    <3>3. main.cmd = "exit" => sess[main.cur].state \in Over
      BY <3>1 DEF ExitInv
    <3>4. CASE UNCHANGED <<row, stale>>
      BY <1>2, <1>3, <2>1, <3>1, <3>3, <3>4
    <3>5. CASE row'[main.cur] = NoRecord
      <4>1. row'[main.cur].state \notin Resumable
        BY <1>1, <3>5
      <4> QED
        BY <3>1, <3>3, <4>1 DEF ExitInv
    <3> QED
      BY <3>2, <3>4, <3>5
  <2>7. CASE Archive
    BY <1>1, <1>2, <2>7, HandlerMoves
  <2>8. CASE Prepare \/ CreateRoom \/ Register \/ Starting \/ ResolveImage
             \/ LaunchWorker
    <3>1. main.pc \in {"prepare", "create", "register", "starting", "resolve",
                       "launch"}
      BY <2>8 DEF Prepare, CreateRoom, Register, Starting, ResolveImage,
                  LaunchWorker, At
    <3>2. main.cmd # "exit"
      BY <3>1 DEF DataInv, CommandInv
    <3>3. main' = Idle \/ main'.cmd = main.cmd
      BY <2>8, HandlerMoves DEF Moved
    <3> QED
      BY <1>1, <1>2, <3>2, <3>3
  <2>9. CASE Run \/ Commit \/ InputTaken \/ InputFails
    <3>1. InputFails => main.cmd = "input"
      BY DEF InputFails, At, DataInv, CommandInv
    <3>2. main'.pc = "ready" \/ main'.cmd = "input"
      BY <1>1, <2>9, <3>1, HandlerMoves DEF Moved
    <3> QED
      BY <1>2, <3>2
  <2> QED
    BY <1>4, <2>2, <2>3, <2>4, <2>5, <2>6, <2>7, <2>8, <2>9 DEF Within
<1>5. ASSUME NEW s \in Sessions, Begins(s) PROVE ExitInv'
  <2>1. CASE RecvExit(s) \/ ShutdownNext(s)
    <3>1. main'.cur = s /\ main'.pend = "unread"
      BY <2>1, HandlerBegins DEF Begun
    <3>2. SetState("stopping", Begin("exit", "stop", s))
      BY <2>1 DEF RecvExit, ShutdownNext
    <3>3. Write(s, "stopping")
      BY <3>2, BegunAs DEF SetState
    <3>4. sess'[s].state = "stopping"
      BY <1>0, <3>3, WriteWrote DEF Wrote
    <3> QED
      BY <3>1, <3>4 DEF ExitInv, NoState
  <2>2. CASE RestoreSession(s) /\ row[s].state \notin Resumable
    <3>1. main' = main /\ main.pc = "ready"
      BY <2>2, HandlerBegins DEF RestoreSession, Ready, At
    <3> QED
      BY <1>2, <3>1
  <2> QED
    BY <1>2, <1>5, <2>1, <2>2, HandlerBegins DEF Begins, Begun
<1>6. CASE Outside
  <2>1. main' = main
    BY <1>6, OutsideKeeps
  <2>2. CASE main.pc # "ready" /\ main.cmd = "exit"
    <3>1. main.cur \in Sessions /\ sess[main.cur].state \in Over
      BY <2>2 DEF ExitInv, IInv, ControlInv, HandlerInv
    <3>2. sess'[main.cur].state \in Over
      BY <1>6, <3>1, OutsideWrites
    <3>3. ~ctxDone' => ~ctxDone
      BY <1>0, <1>6 DEF Outside, Boot, ListRows, ListFails, Sigterm, BootDone,
                        BeginShutdown, vars,
         loop, WatchStep, WatchReceive, WatchCheck, WatchUnbridge,
         WatchSetState, WatchRead, WatchUpsert, Exit, Escalate, LeftEnds,
         IInv, ControlInv, BootInv
    <3>4. \/ /\ row'[main.cur] = row[main.cur]
             /\ main.cur \in stale' <=> main.cur \in stale
          \/ main.cur \in stale'
          \/ row'[main.cur].state \in Over
      <4>1. CASE UNCHANGED rows
        BY <4>1 DEF rows
      <4>2. ASSUME NEW p \in Procs, WatchUpsert(p)
            PROVE  \/ /\ row'[main.cur] = row[main.cur]
                      /\ main.cur \in stale' <=> main.cur \in stale
                   \/ main.cur \in stale'
                   \/ row'[main.cur].state \in Over
        <5>1. /\ Upsert(owner[p], snap[p]) \/ UNCHANGED rows
              /\ owner[p] \in Sessions
          BY <4>2 DEF WatchUpsert, IInv, ControlInv, WatcherInv
        <5> QED
          BY <1>0, <3>1, <4>1, <5>1, UpsertTells
      <4> QED
        BY <1>6, <4>1, <4>2, OutsideWrites
    <3>5. \A st \in Over : st \notin Resumable
      BY DEF Resumable
    <3>6. main.pend = NoState /\ main.cur \notin Faulty \cup stale' /\ ~ctxDone' =>
            row'[main.cur].state \notin Resumable
      BY <2>2, <3>3, <3>4, <3>5 DEF ExitInv
    <3> QED
      BY <2>1, <3>2, <3>6 DEF ExitInv
  <2> QED
    BY <1>2, <2>1, <2>2
<1>7. CASE PowerOff
  BY <1>1, <1>2, <1>7 DEF PowerOff
<1> QED
  BY <1>4, <1>5, <1>6, <1>7, StepKinds

-----------------------------------------------------------------------------
(* The sessions in memory and their images.                                *)

(* Only a row of a session in memory is written outside of the handlers.   *)
LEMMA OutsideRows ==
  ASSUME IInv, DataInv, Outside, NEW s \in Sessions, row'[s] # row[s]
  PROVE  s \in Known /\ row'[s].image = sess[s].image
<1>1. ~UNCHANGED rows
  BY DEF rows
<1>2. PICK p \in Procs : WatchUpsert(p)
  BY <1>1, OutsideWrites
<1>3. Upsert(owner[p], snap[p]) /\ owner[p] \in Sessions /\ row \in SessType
  BY <1>1, <1>2 DEF WatchUpsert, IInv, TypeOK, SessType, ControlInv, WatcherInv
<1>4. s = owner[p] /\ row'[s].image = sess[s].image
  BY <1>3, UpsertTells
<1> QED
  BY <1>4 DEF DataInv, KnownInv

(* No step of a handler or a watcher gives another session its first       *)
(* State.                                                                  *)
LEMMA KnownKept ==
  ASSUME IInv, DataInv, Within \/ Outside
  PROVE  Known' \subseteq Known
<1>1. CASE Within
  <2>1. main.cur \in Known
    <3>1. main.pc # "ready" \/ main.pend # NoState
      BY <1>1 DEF Within, MainRead, MainUpsert, Prepare, CreateRoom, Register,
            Starting, ResolveImage, LaunchWorker, Run, Commit, InputTaken,
            InputFails, StopWorker, AwaitStop, Unbridge, Cleanup, Forget,
            DeleteRow, Archive, At, NoState, States
    <3> QED
      BY <3>1 DEF DataInv, KnownInv
  <2> QED
    BY <1>1, <2>1, WithinKeeps DEF Known
<1>2. CASE Outside
  <2>1. \A t \in Sessions : \/ sess'[t].state = sess[t].state
                           \/ \E p \in Procs : owner[p] = t
    BY <1>2, OutsideWrites
  <2> QED
    BY <2>1 DEF Known, DataInv, KnownInv
<1> QED
  BY <1>1, <1>2

(* Every step keeps the sessions in memory those that were restored or     *)
(* started.                                                                *)
LEMMA MemoryStep ==
  ASSUME IInv, DataInv, MemoryInv, [Next]_vars
  PROVE  MemoryInv'
<1> USE DEF loop
<1>0. registered \subseteq Known /\ row \in SessType
  BY DEF DataInv, KnownInv, IInv, TypeOK, SessType
<1>1. ASSUME mode' \notin {"down", "start", "boot"} PROVE MemoryInv'
  BY <1>1 DEF MemoryInv
<1>2. ASSUME mode' = mode, todo' = todo, Known' \subseteq Known,
             registered' = registered \/ (registered \subseteq registered' /\ mode \notin {"down", "start"})
                \/ mode \notin {"down", "start", "boot"},
             mode = "boot" =>
               \A s \in Sessions : row'[s] # row[s] => s \in Known
      PROVE  MemoryInv'
  BY <1>2 DEF MemoryInv, Present
<1>3. CASE Within
  <2>1. /\ main.cur \in Sessions /\ UNCHANGED <<mode, todo>>
        /\ Known' \subseteq Known
    BY <1>3, WithinKeeps, KnownKept
  <2>2. main.cur \in Known /\ mode \notin {"down", "start"}
    <3>1. main.pc # "ready" \/ main.pend # NoState
      BY <1>3 DEF Within, MainRead, MainUpsert, Prepare, CreateRoom, Register,
            Starting, ResolveImage, LaunchWorker, Run, Commit, InputTaken,
            InputFails, StopWorker, AwaitStop, Unbridge, Cleanup, Forget,
            DeleteRow, Archive, At, NoState, States
    <3>2. main.cur \in Known
      BY <3>1 DEF DataInv, KnownInv
    <3> QED
      BY <3>2 DEF MemoryInv
  <2>3. \/ registered \subseteq registered' \/ mode \notin {"down", "start", "boot"}
    <3>1. Forget => mode # "boot"
      BY DEF Forget, At, DataInv, CommandInv
    <3>2. ~Forget => registered \subseteq registered'
      BY <1>3 DEF Within, MainRead, MainUpsert, Prepare, CreateRoom, Register,
            Starting, ResolveImage, LaunchWorker, Run, Commit, InputTaken,
            InputFails, StopWorker, AwaitStop, Unbridge, Cleanup,
            DeleteRow, Archive, OnlyState
    <3> QED
      BY <2>2, <3>1, <3>2
  <2>4. mode = "boot" => \A s \in Sessions : row'[s] # row[s] => s \in Known
    <3>1. DeleteRow => mode # "boot"
      BY DEF DeleteRow, At, DataInv, CommandInv
    <3>2. MainUpsert => Upsert(main.cur, main.pend) \/ UNCHANGED rows
      BY DEF MainUpsert
    <3> QED
      BY <1>0, <1>3, <2>1, <2>2, <3>1, <3>2, UpsertTells, WithinWrites DEF rows
  <2> QED
    BY <1>2, <2>1, <2>2, <2>3, <2>4
<1>4. ASSUME NEW s \in Sessions, Begins(s) PROVE MemoryInv'
  <2>1. /\ mode' = mode /\ row' = row
        /\ \A u \in Sessions \ {s} : sess'[u] = sess[u]
    BY <1>4, BeginsKeeps
  <2>2. mode \notin {"down", "start"}
    BY <1>4 DEF Begins, RecvStart, RecvRestart, RecvExit, RecvInput, RecvCommit,
         ShutdownNext, RestoreSession, Addressed, Serving, Ready
  <2>3. Known' \subseteq Known \cup {s}
    BY <2>1 DEF Known
  <2>4. CASE RestoreSession(s)
    <3>1. registered' = registered \cup {s} /\ todo' = todo \ {s} /\ mode = "boot"
      BY <1>4, <2>4, BeginsKeeps
    <3> QED
      BY <2>1, <2>2, <2>3, <3>1 DEF MemoryInv, Present
  <2> QED
    BY <1>1, <1>4, <2>1, <2>2, <2>4, BeginsKeeps
<1>5. CASE Outside
  <2>1. registered' = registered /\ Known' \subseteq Known
    BY <1>5, OutsideKeeps, KnownKept
  <2>2. CASE Boot \/ ListRows
    <3>1. /\ mode \in {"down", "start"} /\ mode' \in {"start", "boot"}
          /\ mode' = "boot" => todo' = {s \in Sessions : Present(s)}
          /\ row' = row
      BY <2>2 DEF Boot, ListRows, durable, rows
    <3>2. Known = {} /\ registered = {}
      BY <3>1 DEF MemoryInv
    <3> QED
      BY <2>1, <3>1, <3>2 DEF MemoryInv, Present
  <2>3. CASE ListFails \/ BootDone \/ BeginShutdown
    BY <1>1, <2>3 DEF ListFails, BootDone, BeginShutdown
  <2>4. CASE UNCHANGED <<mode, todo>>
    BY <1>2, <1>5, <2>1, <2>4, OutsideRows
  <2>5. \/ Boot \/ ListRows \/ ListFails \/ BootDone \/ BeginShutdown
        \/ UNCHANGED <<mode, todo>>
    BY <1>5 DEF Outside, Sigterm, vars, WatchStep, WatchReceive, WatchCheck,
         WatchUnbridge, WatchSetState, WatchRead, WatchUpsert, Exit, Escalate,
         LeftEnds
  <2> QED
    BY <2>2, <2>3, <2>4, <2>5
<1>6. CASE PowerOff
  <2>1. /\ mode' = "down" /\ registered' = {}
        /\ sess' = [s \in Sessions |-> NoRecord]
    BY <1>6 DEF PowerOff
  <2>2. Known' = {}
    BY <2>1 DEF Known, NoRecord, NoState, States
  <2> QED
    BY <2>1, <2>2 DEF MemoryInv
<1> QED
  BY <1>3, <1>4, <1>5, <1>6, StepKinds

(* A handler takes no image from a session, and starts no worker for       *)
(* another one.                                                            *)
LEMMA ImagesKept ==
  ASSUME IInv, Within
  PROVE  /\ \A t \in Sessions : sess[t].image => sess'[t].image
         /\ \A p \in Procs : owner'[p] = owner[p] \/ (LaunchWorker /\ owner'[p] = main.cur)
<1> USE DEF OnlyState, watchVars
<1>1. /\ main.cur \in Sessions /\ sess \in SessType
      /\ owner \in [Procs -> Sessions \cup {NoSession}]
  BY WithinKeeps DEF IInv, TypeOK, SessType
<1>2. ASSUME NEW state, Wrote(main.cur, state)
      PROVE  \A t \in Sessions : sess[t].image => sess'[t].image
  BY <1>2 DEF Wrote
<1>3. CASE ResolveImage
  <2>1. Return.cur = main.cur
    BY GoneTo DEF Return, Goto, IInv, TypeOK
  <2>2. \/ sess' = [sess EXCEPT ![main.cur].image = TRUE]
        \/ Write(main.cur, "failed")
    BY <1>3, <2>1 DEF ResolveImage, SetState
  <2>3. CASE Write(main.cur, "failed")
    BY <1>1, <1>2, <1>3, <2>3, WriteWrote DEF ResolveImage
  <2>4. CASE sess' = [sess EXCEPT ![main.cur].image = TRUE]
    BY <1>1, <1>3, <2>4 DEF SessType, Record, ResolveImage
  <2> QED
    BY <2>2, <2>3, <2>4
<1>4. CASE Prepare \/ CreateRoom \/ Starting \/ Run \/ Commit \/ Forget
  <2>1. owner' = owner
    BY <1>4 DEF Prepare, CreateRoom, Starting, Run, Commit, Forget
  <2> QED
    BY <1>1, <1>2, <1>4, <2>1, StateWritten
<1>5. CASE LaunchWorker \/ InputFails
  <2>1. \A t \in Sessions : sess[t].image => sess'[t].image
    BY <1>1, <1>2, <1>5, StateWritten
  <2>2. InputFails => owner' = owner
    BY DEF InputFails
  <2>3. LaunchWorker => \/ owner' = owner
                        \/ \E p \in Procs : owner' = [owner EXCEPT ![p] = main.cur]
    BY DEF LaunchWorker
  <2> QED
    BY <1>1, <1>5, <2>1, <2>2, <2>3
<1>6. CASE \/ MainRead \/ MainUpsert \/ Register \/ InputTaken \/ StopWorker
           \/ AwaitStop \/ Unbridge \/ Cleanup \/ DeleteRow \/ Archive
  BY <1>6 DEF MainRead, MainUpsert, Register, InputTaken, StopWorker,
              AwaitStop, Unbridge, Cleanup, DeleteRow, Archive
<1> QED
  BY <1>3, <1>4, <1>5, <1>6 DEF Within

(* Every step keeps the images.                                            *)
LEMMA ImagesStep ==
  ASSUME IInv, DataInv, MemoryInv, ImagesInv, [Next]_vars
  PROVE  ImagesInv'
<1>0. /\ row \in SessType /\ sess \in SessType /\ main \in Handler
      /\ NoSession \notin Sessions /\ registered \subseteq Sessions
      /\ owner \in [Procs -> Sessions \cup {NoSession}]
  BY NoSessionAssumption DEF IInv, TypeOK, SessType
<1>1. /\ \A p \in Procs : owner[p] \in Sessions => owner[p] \in Known
      /\ registered \subseteq Known
      /\ main.pc # "ready" \/ main.pend # NoState => main.cur \in Known
  BY DEF DataInv, KnownInv
<1>2. /\ \A s \in Sessions : InMemory(s) /\ row[s].image => sess[s].image
      /\ \A p \in Procs : owner[p] \in Sessions => sess[owner[p]].image
  BY DEF ImagesInv
<1>3. CASE Within
  <2>1. /\ main.cur \in Sessions /\ Known' \subseteq Known
        /\ mode' = mode /\ todo' = todo
    BY <1>3, WithinKeeps, KnownKept
  <2>2. /\ \A t \in Sessions : sess[t].image => sess'[t].image
        /\ \A p \in Procs : owner'[p] = owner[p] \/ (LaunchWorker /\ owner'[p] = main.cur)
    BY <1>3, ImagesKept
  <2>3. \A t \in Sessions : row'[t].image =>
          row[t].image \/ (MainUpsert /\ t = main.cur /\ sess[t].image)
    <3>1. MainUpsert => Upsert(main.cur, main.pend) \/ UNCHANGED rows
      BY DEF MainUpsert
    <3>2. DeleteRow => row' = [row EXCEPT ![main.cur] = NoRecord] \/ UNCHANGED rows
      BY DEF DeleteRow
    <3> QED
      BY <1>0, <1>3, <2>1, <3>1, <3>2, UpsertTells, WithinWrites
         DEF rows, SessType, NoRecord
  <2>4. \A s \in Sessions : InMemory(s)' /\ row'[s].image => sess'[s].image
    BY <1>2, <2>1, <2>2, <2>3 DEF InMemory
  <2>5. \A p \in Procs : owner'[p] \in Sessions => sess'[owner'[p]].image
    <3>1. LaunchWorker => sess[main.cur].image
      BY DEF LaunchWorker, At, IInv, ControlInv, ImageInv
    <3> QED
      BY <1>2, <2>1, <2>2, <3>1
  <2>6. main'.pc = "launch" =>
          /\ main'.pend = NoState
          /\ ~main'.img => /\ ~row'[main'.cur].image
                           /\ \A p \in Procs : owner'[p] # main'.cur
    <3>1. CASE ResolveImage
      <4>1. SetState("failed", Return) => main'.pc = "ready"
        <5>1. Return \in Handler /\ Return.pc = "ready"
          BY <1>0, GotoTyped, GoneTo DEF Return, Goto, Labels
        <5> QED
          BY <5>1, GonePending DEF SetState
      <4>2. ASSUME main' = [main EXCEPT !.pc = "launch",
                      !.img = (main.cmd = "start" \/ sess[main.cur].image)]
            PROVE  main'.cur = main.cur /\ (~main'.img => ~sess[main.cur].image)
        <5> DEFINE img == main.cmd = "start" \/ sess[main.cur].image
        <5>1. sess[main.cur].image => img
          OBVIOUS
        <5>2. main' = [main EXCEPT !.pc = "launch", !.img = img]
          BY <4>2
        <5> HIDE DEF img
        <5>3. main'.cur = main.cur /\ main'.img = img
          BY <1>0, <5>2, GoneToLaunch
        <5> QED
          BY <5>1, <5>3
      <4>3. main'.pc = "launch" =>
              /\ main'.cur = main.cur /\ main'.pend = NoState
              /\ ~main'.img => ~sess[main.cur].image
        BY <3>1, <4>1, <4>2, HandlerMoves DEF ResolveImage, Moved
      <4>4. ~sess[main.cur].image =>
              ~row[main.cur].image /\ \A p \in Procs : owner[p] # main.cur
        <5>1. main.cur \in Known
          BY <1>1, <3>1 DEF ResolveImage, At
        <5> QED
          BY <1>2, <2>1, <5>1 DEF InMemory
      <4>5. row' = row /\ owner' = owner
        BY <3>1 DEF ResolveImage, OnlyState, watchVars, durable, rows
      <4> QED
        BY <4>3, <4>4, <4>5
    <3>2. CASE MainRead \/ MainUpsert
      <4>1. main.pend # NoState
        BY <3>2 DEF MainRead, MainUpsert, NoState, States
      <4>2. main.pc # "launch"
        BY <4>1 DEF ImagesInv
      <4>3. main'.pc # "launch"
        BY <3>2, <4>2, HandlerMoves DEF Moved, Idle
      <4> QED
        BY <4>3
    <3>3. CASE ~(ResolveImage \/ MainRead \/ MainUpsert)
      <4>1. Idle.pc # "launch" /\ AfterStop # "launch"
        BY DEF Idle, AfterStop
      <4>2. main'.pc # "launch"
        BY <1>3, <3>3, <4>1, HandlerMoves DEF Moved, Within
      <4> QED
        BY <4>2
    <3> QED
      BY <3>1, <3>2, <3>3
  <2> QED
    BY <2>4, <2>5, <2>6 DEF ImagesInv
<1>4. ASSUME NEW s \in Sessions, Begins(s) PROVE ImagesInv'
  <2>1. /\ UNCHANGED <<owner, row, mode>> /\ main.pc = "ready"
        /\ \A u \in Sessions \ {s} : sess'[u] = sess[u]
    BY <1>4, BeginsKeeps
  <2>2. main'.pc # "launch"
    BY <1>4, <2>1, HandlerBegins DEF Begins, Begun
  <2>3. CASE RestoreSession(s)
    <3>1. /\ mode = "boot" /\ s \in todo
          /\ sess'[s].image = row[s].image
      BY <1>4, <2>3, BeginsKeeps
    <3>2. s \notin Known
      BY <3>1 DEF MemoryInv
    <3>3. \A p \in Procs : owner[p] # s
      BY <1>1, <3>2
    <3>4. \A u \in Sessions \ {s} : InMemory(u)' => InMemory(u)
      BY <2>1, <3>1 DEF InMemory, Known
    <3> QED
      BY <1>2, <2>1, <2>2, <3>1, <3>3, <3>4 DEF ImagesInv
  <2>4. CASE ~RestoreSession(s)
    <3>1. sess'[s].image = sess[s].image
      BY <1>4, <2>4, BeginsKeeps
    <3>2. todo' \subseteq todo
      BY <1>4, <2>4 DEF Begins, RecvStart, RecvRestart, RecvExit, RecvInput,
           RecvCommit, ShutdownNext, OnlyState, loop
    <3>3. InMemory(s) \/ ~row[s].image
      <4>1. CASE RecvStart(s)
        BY <4>1 DEF RecvStart, Fresh, NoRecord
      <4>2. CASE ShutdownNext(s)
        BY <4>2 DEF ShutdownNext, Ready, InMemory
      <4>3. CASE RecvRestart(s) \/ RecvExit(s) \/ RecvInput(s) \/ RecvCommit(s)
        <5>1. s \in registered
          BY <4>3 DEF RecvRestart, RecvExit, RecvInput, RecvCommit, Addressed
        <5> QED
          BY <1>1, <5>1 DEF InMemory
      <4> QED
        BY <1>4, <2>4, <4>1, <4>2, <4>3 DEF Begins
    <3>4. \A u \in Sessions \ {s} : InMemory(u)' => InMemory(u)
      BY <2>1, <3>2 DEF InMemory, Known
    <3>5. \A u \in Sessions : sess'[u].image = sess[u].image
      BY <2>1, <3>1
    <3> QED
      BY <1>2, <2>1, <2>2, <3>3, <3>4, <3>5 DEF ImagesInv
  <2> QED
    BY <2>3, <2>4
<1>5. CASE Outside
  <2>1. /\ main' = main /\ registered' = registered /\ owner' = owner
        /\ \A t \in Sessions : sess'[t].image = sess[t].image
        /\ Known' \subseteq Known
    BY <1>5, OutsideKeeps, OutsideWrites, KnownKept
  <2>2. \A t \in Sessions : row'[t].image = row[t].image
                            \/ (t \in Known /\ row'[t].image = sess[t].image)
    BY <1>5, OutsideRows
  <2>3. \A t \in Sessions : InMemory(t)' => InMemory(t)
    <3>1. (mode' = mode /\ todo' = todo) \/ mode' # "shutdown" \/ BeginShutdown
      BY <1>5 DEF Outside, Boot, ListRows, ListFails, BootDone, Sigterm, vars,
                  loop, WatchStep,
           WatchReceive, WatchCheck, WatchUnbridge, WatchSetState, WatchRead,
           WatchUpsert, Exit, Escalate, LeftEnds
    <3>2. BeginShutdown => todo' \subseteq Known
      BY <1>1 DEF BeginShutdown
    <3> QED
      BY <2>1, <3>1, <3>2 DEF InMemory
  <2>4. \A s \in Sessions : InMemory(s)' /\ row'[s].image => sess'[s].image
    BY <1>2, <2>1, <2>2, <2>3
  <2>5. main.pc = "launch" /\ ~main.img =>
          ~row'[main.cur].image
    <3>1. main.pc = "launch" => main.cur \in Sessions /\ sess[main.cur].image
      BY DEF IInv, ControlInv, HandlerInv, ImageInv
    <3>2. ASSUME main.pc = "launch", ~main.img PROVE row'[main.cur] = row[main.cur]
      <4>1. \A p \in Procs : owner[p] # main.cur
        BY <3>2 DEF ImagesInv
      <4>2. CASE UNCHANGED rows
        BY <4>2 DEF rows
      <4>3. ASSUME NEW p \in Procs, WatchUpsert(p)
            PROVE  row'[main.cur] = row[main.cur]
        <5>1. /\ Upsert(owner[p], snap[p]) \/ UNCHANGED rows
              /\ owner[p] \in Sessions
          BY <4>3 DEF WatchUpsert, IInv, ControlInv, WatcherInv
        <5> QED
          BY <1>0, <3>1, <3>2, <4>1, <4>2, <5>1, UpsertTells
      <4> QED
        BY <1>5, <4>2, <4>3, OutsideWrites
    <3> QED
      BY <3>2 DEF ImagesInv
  <2> QED
    BY <1>2, <2>1, <2>4, <2>5 DEF ImagesInv
<1>6. CASE PowerOff
  <2>1. /\ mode' = "down" /\ main' = Idle
        /\ owner' = [p \in Procs |-> NoSession]
        /\ sess' = [s \in Sessions |-> NoRecord]
    BY <1>6 DEF PowerOff
  <2>2. Known' = {} /\ Idle.pc = "ready"
    BY <2>1 DEF Known, NoRecord, NoState, States, Idle
  <2> QED
    BY <1>0, <2>1, <2>2 DEF ImagesInv, InMemory
<1> QED
  BY <1>3, <1>4, <1>5, <1>6, StepKinds

-----------------------------------------------------------------------------
(* The invariant, and what follows from it.                                *)

(* Initially the governor is down and nothing runs.                        *)
LEMMA InitSafe == Init => SafeInv
<1>1. ASSUME Init PROVE Known = {}
  BY <1>1 DEF Init, Known, NoRecord, NoState, States
<1>2. ASSUME Init PROVE ShutdownInv
  BY <1>2 DEF Init, ShutdownInv, Reached
<1>3. ASSUME Init PROVE StateInv
  BY <1>3 DEF Init, Idle, StateInv, PathInv, PlaceInv, SettledInv, RowInv, ExitInv
<1>4. ASSUME Init PROVE MemoryInv
  BY <1>1, <1>4 DEF Init, MemoryInv
<1>5. ASSUME Init PROVE ImagesInv
  BY <1>1, <1>5, NoSessionAssumption DEF Init, Idle, ImagesInv, InMemory
<1> QED
  BY <1>2, <1>3, <1>4, <1>5 DEF SafeInv

(* SafeInv is inductive on top of the control and data invariants.         *)
THEOREM SafeInvariance == Spec => [](IInv /\ DataInv /\ SafeInv)
<1>1. Init => IInv /\ DataInv /\ SafeInv
  BY InitIInv, InitData, InitSafe
<1>2. IInv /\ DataInv /\ SafeInv /\ [Next]_vars => (IInv /\ DataInv /\ SafeInv)'
  <2> SUFFICES ASSUME IInv, DataInv, SafeInv, [Next]_vars
               PROVE  (IInv /\ DataInv /\ SafeInv)'
    OBVIOUS
  <2>1. IInv' /\ DataInv'
    BY TypeStep, ControlStep, DataStep DEF IInv
  <2>2. ShutdownInv'
    BY ShutdownStep DEF SafeInv
  <2>3. StateInv'
    BY PathStep, PlaceStep, SettledStep, RowStep, ExitStep DEF SafeInv, StateInv
  <2>4. MemoryInv' /\ ImagesInv'
    BY MemoryStep, ImagesStep DEF SafeInv
  <2> QED
    BY <2>1, <2>2, <2>3, <2>4 DEF SafeInv
<1> QED
  BY <1>1, <1>2, PTL DEF Spec

(* Stop has returned only for a process that was reaped: whoever starts    *)
(* the next worker on the worktree after it may rely on that.              *)
THEOREM StopWaitsForTheEnd == Spec => []StopMeansDead
<1>1. IInv => StopMeansDead
  BY DEF IInv, ControlInv, HandleInv, StopMeansDead
<1> QED
  BY SafeInvariance, <1>1, PTL

(* Between two events every session is in a State it can stay in: no error *)
(* path of a handler forgets to set one.                                   *)
THEOREM SessionsSettle == Spec => []SettledBetweenCommands
<1>1. SafeInv => SettledBetweenCommands
  BY DEF SafeInv, StateInv, SettledInv, SettledBetweenCommands, Ready, At
<1> QED
  BY SafeInvariance, <1>1, PTL

(* Between two events the row of a session tells its State, but for errors *)
(* and overtaken writes.                                                   *)
THEOREM RowsTellState == Spec => []RowIsState
<1>1. SafeInv => RowIsState
  BY DEF SafeInv, StateInv, RowInv, RowIsState, Ready, At
<1> QED
  BY SafeInvariance, <1>1, PTL

-----------------------------------------------------------------------------
(* What a step never does.                                                 *)

(* Only Cleanup removes a worktree.                                        *)
LEMMA DiskShrinks ==
  ASSUME [Next]_vars, NEW s \in disk \ disk'
  PROVE  Cleanup /\ s = main.cur
<1> USE DEF durable, OnlyState
<1>1. CASE Within
  BY <1>1 DEF Within, MainRead, MainUpsert, Prepare, CreateRoom, Register,
        Starting, ResolveImage, LaunchWorker, Run, Commit, InputTaken,
        InputFails, StopWorker, AwaitStop, Unbridge, Cleanup, Forget,
        DeleteRow, Archive
<1>2. ASSUME NEW u \in Sessions, Begins(u) PROVE disk' = disk
  BY <1>2 DEF Begins, RecvStart, RecvRestart, RecvExit, RecvInput, RecvCommit,
              ShutdownNext, RestoreSession
<1>3. CASE Outside
  BY <1>3 DEF Outside, Boot, ListRows, ListFails, Sigterm, BootDone,
              BeginShutdown, vars, WatchStep,
        WatchReceive, WatchCheck, WatchUnbridge, WatchSetState, WatchRead,
        WatchUpsert, Exit, Escalate, LeftEnds
<1>4. CASE PowerOff
  BY <1>4 DEF PowerOff
<1> QED
  BY <1>1, <1>2, <1>3, <1>4, StepKinds

(* The worktree of a session goes only once its row says that the session  *)
(* is not to be resumed, but for errors, overtaken writes and SIGTERM.     *)
THEOREM WorktreesOutliveSessions == Spec => WorktreeOutlivesSession
<1>1. DataInv /\ SafeInv /\ [Next]_vars =>
        \A s \in disk \ disk' :
          row[s].state \in Resumable => s \in Faulty \cup stale \/ ctxDone
  <2> SUFFICES ASSUME DataInv, SafeInv, [Next]_vars, NEW s \in disk \ disk'
               PROVE  row[s].state \in Resumable => s \in Faulty \cup stale \/ ctxDone
    OBVIOUS
  <2>1. Cleanup /\ s = main.cur
    BY DiskShrinks
  <2>2. main.pc = "cleanup" /\ main.pend = NoState /\ main.cmd = "exit"
    BY <2>1 DEF Cleanup, At, DataInv, CommandInv
  <2> QED
    BY <2>1, <2>2
       DEF SafeInv, StateInv, ExitInv
<1> QED
  BY SafeInvariance, <1>1, PTL DEF Spec, WorktreeOutlivesSession

(* An image that is in a row stays in it, and the next worker is started   *)
(* in it.                                                                  *)
THEOREM ImagesSurvive == Spec => ImageSurvives
<1>1. IInv /\ DataInv /\ SafeInv /\ [Next]_vars =>
        \A s \in Sessions : Present(s) /\ row[s].image =>
          /\ Present(s)' => row'[s].image
          /\ main.cur = s /\ main.pc = "launch" => main.img
  <2> SUFFICES ASSUME IInv, DataInv, SafeInv, [Next]_vars,
                      NEW s \in Sessions, Present(s), row[s].image
               PROVE  /\ row'[s] # NoRecord => row'[s].image
                      /\ main.cur = s /\ main.pc = "launch" => main.img
    BY DEF Present
  <2>1. row \in SessType /\ ImagesInv
    BY DEF IInv, TypeOK, SessType, SafeInv
  <2>2. s \in Known => sess[s].image
    BY <2>1 DEF ImagesInv, InMemory
  <2>3. row'[s] # NoRecord => row'[s].image
    <3>1. CASE Within
      <4>1. MainUpsert => /\ Upsert(main.cur, main.pend) \/ UNCHANGED rows
                          /\ main.cur \in Known
        BY DEF MainUpsert, NoState, States, DataInv, KnownInv
      <4>2. DeleteRow => \/ UNCHANGED rows
                         \/ row' = [row EXCEPT ![main.cur] = NoRecord]
        BY DEF DeleteRow
      <4>3. main.cur \in Sessions
        BY <3>1, WithinKeeps
      <4> QED
        BY <2>1, <2>2, <3>1, <4>1, <4>2, <4>3, UpsertTells, WithinWrites
           DEF rows, SessType
    <3>2. ASSUME NEW u \in Sessions, Begins(u) PROVE row' = row
      BY <3>2, BeginsKeeps
    <3>3. CASE Outside
      BY <2>2, <3>3, OutsideRows
    <3>4. CASE PowerOff
      BY <3>4 DEF PowerOff, rows
    <3> QED
      BY <3>1, <3>2, <3>3, <3>4, StepKinds
  <2>4. main.cur = s /\ main.pc = "launch" => main.img
    BY <2>1 DEF ImagesInv
  <2> QED
    BY <2>3, <2>4
<1> QED
  BY SafeInvariance, <1>1, PTL DEF Spec, ImageSurvives

(* The event loop begins with every row a session in memory, whatever      *)
(* errors, signals and crashes the restore of each session met, unless the *)
(* list of rows could not be read.                                         *)
THEOREM EveryRowRestored == Spec => BootRestoresEveryRow
<1>1. MemoryInv /\ [Next]_vars =>
        (mode # "serve" /\ mode' = "serve" =>
           Unlisted \/ \A s \in Sessions : Present(s) => s \in registered)
  <2> SUFFICES ASSUME MemoryInv, [Next]_vars, mode # "serve", mode' = "serve"
               PROVE  Unlisted \/ \A s \in Sessions : Present(s) => s \in registered
    OBVIOUS
  <2>1. BootDone \/ ListFails
    <3> USE DEF loop, OnlyState
    <3>1. CASE Within
      BY <3>1 DEF Within, MainRead, MainUpsert, Prepare, CreateRoom, Register,
            Starting, ResolveImage, LaunchWorker, Run, Commit, InputTaken,
            InputFails, StopWorker, AwaitStop, Unbridge, Cleanup, Forget,
            DeleteRow, Archive
    <3>2. ASSUME NEW s \in Sessions, Begins(s) PROVE mode' = mode
      BY <3>2 DEF Begins, RecvStart, RecvRestart, RecvExit, RecvInput,
                  RecvCommit, ShutdownNext, RestoreSession
    <3>3. CASE Outside
      BY <3>3 DEF Outside, Boot, ListRows, Sigterm, BeginShutdown, vars, WatchStep,
            WatchReceive, WatchCheck, WatchUnbridge, WatchSetState,
            WatchRead, WatchUpsert, Exit, Escalate, LeftEnds
    <3>4. CASE PowerOff
      BY <3>4 DEF PowerOff
    <3> QED
      BY <3>1, <3>2, <3>3, <3>4, StepKinds
  <2> QED
    BY <2>1 DEF BootDone, ListFails, Ready, MemoryInv
<1>2. SafeInv => MemoryInv
  BY DEF SafeInv
<1> QED
  BY SafeInvariance, <1>1, <1>2, PTL DEF Spec, BootRestoresEveryRow

(* A governor that was told to end and ends in order leaves no worker that *)
(* it can reach.                                                           *)
THEOREM ShutdownLeavesNone == Spec => ShutdownStopsWorkers
<1>1. IInv /\ SafeInv =>
        (Halt => \A p \in Procs : proc[p] = "alive" => p \in severed)
  <2> SUFFICES ASSUME IInv, SafeInv, Halt, NEW p \in Procs,
                      proc[p] = "alive", p \notin severed
               PROVE  FALSE
    OBVIOUS
  <2>1. mode = "shutdown" /\ main.pc = "ready" /\ todo = {}
    BY DEF Halt, Ready, At
  <2>2. owner[p] \in Sessions /\ bridge[owner[p]] = p
    BY DEF IInv, ControlInv, WatcherInv, LiveWorkerReachable
  <2>3. Reached(owner[p])
    BY <2>2, NoProcAssumption DEF Reached
  <2> QED
    BY <2>1, <2>2, <2>3 DEF SafeInv, ShutdownInv
<1> QED
  BY SafeInvariance, <1>1, PTL DEF Spec, ShutdownStopsWorkers
=============================================================================

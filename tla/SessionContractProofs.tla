----------------------- MODULE SessionContractProofs -----------------------
(***************************************************************************)
(* SessionLifecycle implements SessionContract, for any number of          *)
(* sessions, processes and errors.  DataInv, on top of IInv, is inductive; *)
(* under both, every step of the governor is a step of the contract or     *)
(* changes none of worktrees, rows and workers under control.              *)
(***************************************************************************)
EXTENDS SessionLifecycleProofs

-----------------------------------------------------------------------------
(* What the updates of the handler and of the sessions leave alone.        *)

(* Going on within a handler changes neither its command nor prev.         *)
LEMMA GotoKeeps ==
  ASSUME main \in Handler, NEW pc \in Labels
  PROVE  Goto(pc).cmd = main.cmd /\ Goto(pc).prev = main.prev
  BY Zenon DEF Goto, Handler

(* A handler begins with the command it is of.                             *)
LEMMA BeginKeeps ==
  ASSUME NEW cmd \in Commands, NEW pc \in Labels, NEW s \in Sessions
  PROVE  Begin(cmd, pc, s).cmd = cmd /\ Begin(cmd, pc, s).pend = NoState
  BY IdleTyped, Zenon DEF Begin, Handler, Idle

(* Progress in UpsertSession sets pend, and neither command nor prev.      *)
LEMMA PendKeeps ==
  ASSUME NEW m \in Handler, NEW pend \in Pending
  PROVE  /\ [m EXCEPT !.pend = pend].cmd = m.cmd
         /\ [m EXCEPT !.pend = pend].prev = m.prev
         /\ [m EXCEPT !.pend = pend].pend = pend
  BY Zenon DEF Handler

(* setSessionState begins an UpsertSession and gives the session a State.  *)
LEMMA SetStateKeeps ==
  ASSUME sess \in SessType, NEW next \in Handler, next.cur \in Sessions,
         NEW state \in States, SetState(state, next)
  PROVE  /\ main'.pc = next.pc /\ main'.cur = next.cur
         /\ main'.cmd = next.cmd /\ main'.prev = next.prev
         /\ main'.pend = "unread"
         /\ Known' = Known \cup {next.cur}
  <1>1. "unread" \in Pending
    BY DEF Pending
  <1>2. main' = [next EXCEPT !.pend = "unread"]
    BY DEF SetState
  <1>3. Known' = Known \cup {next.cur}
    BY DEF SetState, Write, Known, SessType, Record
  <1> QED
    BY <1>1, <1>2, <1>3, PendTyped, PendKeeps

(* Writing a State makes the session known.                                *)
LEMMA WriteKnown ==
  ASSUME sess \in SessType, NEW s \in Sessions, NEW state \in States,
         Write(s, state)
  PROVE  Known' = Known \cup {s}
  BY DEF Write, Known, SessType, Record

(* An UpsertSession leaves a row that is there, and no other new one.      *)
LEMMA UpsertRow ==
  ASSUME sess \in SessType, row \in SessType, NEW s \in Sessions,
         NEW st \in States, Upsert(s, st)
  PROVE  /\ row'[s].state = st /\ row'[s] # NoRecord
         /\ \A t \in Sessions \ {s} : row'[t] = row[t]
         /\ Rows' = Rows \cup {s}
  <1>1. /\ row'[s] = [state |-> st, image |-> sess[s].image]
        /\ \A t \in Sessions \ {s} : row'[t] = row[t]
    BY DEF Upsert, SessType
  <1>2. row'[s].state = st /\ st # NoState
    BY <1>1 DEF States, NoState
  <1>3. row'[s] # NoRecord
    BY <1>2 DEF NoRecord
  <1> QED
    BY <1>1, <1>2, <1>3 DEF Rows, Present

-----------------------------------------------------------------------------
(* DataInv is inductive.                                                   *)

(* The steps that change neither what is known of sessions elsewhere, nor  *)
(* rows, worktrees, workers: it remains to see where the handler goes.     *)
LEMMA HandlerData ==
  ASSUME IInv, DataInv,
         UNCHANGED <<registered, owner, row, disk, mode, todo, ctxDone>>,
         \A p \in Procs : watch'[p] = "read" => watch[p] = "read" /\ snap'[p] = snap[p],
         Known \subseteq Known',
         \/ main'.pend # NoState /\ main'.cur = main.cur
         \/ main.pend = NoState,
         \/ main'.pc = main.pc /\ main'.cur = main.cur /\ main'.prev = main.prev
         \/ main'.pc \notin {"prepare", "forget", "delete", "commit"},
         main'.pc = "prepare" => main'.pend = NoState,
         main'.pc # "ready" \/ main'.pend # NoState => main'.cur \in Known',
         LaunchInv', CommandInv'
  PROVE  DataInv'
<1> USE DEF DataInv
<1>1. KnownInv'
  BY DEF KnownInv, Present
<1>2. PrepareInv' /\ RemovedInv'
  BY DEF PrepareInv, RemovedInv, Present
<1>3. NoLostSession' /\ RestoreInv'
  BY DEF NoLostSession, RestoreInv, Present
<1> QED
  BY <1>1, <1>2, <1>3

(* The same for the steps within a handler.                                *)
LEMMA WithinData ==
  ASSUME IInv, DataInv,
         UNCHANGED <<registered, owner, watch, snap, row, disk, loop>>,
         Known \subseteq Known',
         main.pc # "ready", main.pend = NoState,
         \/ main'.pc = "ready" /\ main'.pend = NoState
         \/ /\ main'.cur = main.cur /\ main'.cmd = main.cmd
            /\ main'.pc \notin {"prepare", "forget", "delete", "commit",
                               "write"},
         main'.pc \in {"starting", "resolve", "launch"} =>
           \/ main.pc \in {"starting", "resolve", "launch"}
           \/ main.pc \in {"stop", "await"} /\ main.cmd = "restart",
         main'.pc \in {"create", "register"} =>
           main.pc \in {"prepare", "create", "register"},
         main'.pc \in {"stop", "await"} =>
           main.pc \in {"stop", "await"} \/ main.cmd # "restart",
         main'.pc = "cleanup" => main.cmd = "exit"
  PROVE  DataInv'
<1>1. LaunchInv'
  BY DEF DataInv, LaunchInv
<1>2. CommandInv'
  BY DEF DataInv, CommandInv, loop
<1> QED
  BY <1>1, <1>2, HandlerData DEF DataInv, KnownInv, loop

(* A governor that is down satisfies DataInv: its rows are what they were. *)
LEMMA PowerOffData ==
  ASSUME IInv, DataInv, PowerOff
  PROVE  DataInv'
<1>1. NoSession \notin Sessions
  BY NoSessionAssumption
<1> QED
  BY <1>1 DEF PowerOff, rows, DataInv, KnownInv, PrepareInv, LaunchInv, CommandInv,
              RemovedInv, RestoreInv, NoLostSession, Present, Idle

(* The two steps of UpsertSession in the main goroutine keep DataInv.      *)
LEMMA UpsertData ==
  ASSUME IInv, DataInv, MainRead \/ MainUpsert
  PROVE  DataInv'
<1> USE DEF procVars, watchVars, rows, containers, durable, loop
<1>1. /\ main \in Handler /\ sess \in SessType /\ row \in SessType
      /\ main.cur \in Known /\ main.cur \in Sessions
      /\ sess[main.cur].state \in States
  <2>1. main.pend # NoState
    BY DEF MainRead, MainUpsert, States, NoState
  <2> QED
    BY <2>1 DEF IInv, TypeOK, SessType, DataInv, KnownInv, Known
<1>2. CASE MainRead
  <2>1. /\ main'.pc = main.pc /\ main'.cur = main.cur /\ main'.cmd = main.cmd
        /\ main'.prev = main.prev /\ main'.pend # NoState
    BY <1>1, <1>2, PendTyped, PendKeeps DEF MainRead, Pending, States, NoState
  <2>2. UNCHANGED <<registered, owner, watch, snap, row, disk, mode, todo,
                    ctxDone, sess>>
    BY <1>2 DEF MainRead
  <2>3. LaunchInv' /\ CommandInv' /\ Known' = Known
    BY <2>1, <2>2 DEF DataInv, LaunchInv, CommandInv, Known
  <2>4. main.pc # "prepare"
    BY <1>2 DEF DataInv, PrepareInv, MainRead, NoState
  <2> QED
    BY <1>1, <2>1, <2>2, <2>3, <2>4, HandlerData
<1>3. CASE MainUpsert
  <2>1. /\ UNCHANGED <<registered, owner, watch, snap, sess, disk, mode, todo,
                       ctxDone>>
        /\ main.pend \in States /\ Known' = Known
    BY <1>3 DEF MainUpsert, Known
  <2>2. /\ \/ Upsert(main.cur, main.pend)
           \/ (main.cur \in Faulty \/ ctxDone) /\ row' = row
        /\ \/ main' = Idle
           \/ main.pc # "ready" /\ main' = [main EXCEPT !.pend = NoState]
    BY <1>3 DEF MainUpsert, Fails
  <2>3. /\ \A s \in Sessions \ {main.cur} : row'[s] = row[s]
        /\ row'[main.cur] # NoRecord => row'[main.cur].state \in States
        /\ \/ row'[main.cur] # NoRecord
           \/ (main.cur \in Faulty \/ ctxDone) /\ row' = row
    <3>1. CASE Upsert(main.cur, main.pend)
      BY <1>1, <2>1, <3>1, UpsertRow
    <3>2. CASE row' = row
      BY <1>1, <2>2, <3>2, <3>1 DEF DataInv, KnownInv, Present
    <3> QED
      BY <2>2, <3>1, <3>2
  <2>4. /\ main'.pend = NoState
        /\ \/ main'.pc = "ready" /\ main'.cmd = "none"
           \/ /\ main'.pc = main.pc /\ main'.cur = main.cur
              /\ main'.cmd = main.cmd /\ main'.prev = main.prev
              /\ main.pc # "ready"
    <3>1. CASE main' = Idle
      BY <3>1 DEF Idle
    <3>2. CASE main.pc # "ready" /\ main' = [main EXCEPT !.pend = NoState]
      BY <1>1, <3>2, PendTyped, PendKeeps DEF Pending
    <3> QED
      BY <2>2, <3>1, <3>2
  <2>5. main.pc # "prepare"
    BY <2>1 DEF IInv, DataInv, PrepareInv, States, NoState
  <2>6. KnownInv'
    BY <1>1, <2>1, <2>3, <2>4 DEF DataInv, KnownInv, Present
  <2>7. /\ PrepareInv' /\ LaunchInv' /\ CommandInv' /\ RemovedInv'
        /\ RestoreInv'
    <3>1. PrepareInv' /\ LaunchInv' /\ CommandInv' /\ RemovedInv'
      BY <2>1, <2>4, <2>5
         DEF DataInv, PrepareInv, LaunchInv, CommandInv, RemovedInv
    <3>2. RestoreInv'
      BY <2>1, <2>3 DEF IInv, TypeOK, DataInv, RestoreInv, Present
    <3> QED
      BY <3>1, <3>2
  <2>8. NoLostSession'
    <3>1. SUFFICES ASSUME NEW s \in registered, ~(s \in Faulty), ~ctxDone
                   PROVE  row'[s] # NoRecord
      BY <2>1 DEF NoLostSession, Present
    <3>2. s \in Sessions
      BY <3>1 DEF IInv, TypeOK
    <3>3. CASE s = main.cur
      BY <2>3, <3>1, <3>3
    <3>4. CASE s # main.cur
      BY <2>3, <3>1, <3>2, <3>4 DEF DataInv, NoLostSession, Present
    <3> QED
      BY <3>3, <3>4
  <2> QED
    BY <2>6, <2>7, <2>8 DEF DataInv
<1> QED
  BY <1>2, <1>3

(* The rest of the main goroutine's steps keep DataInv: those within a     *)
(* handler that touch neither rows nor worktrees nor the SessionStore.     *)
LEMMA QuietData ==
  ASSUME IInv, DataInv,
         \/ CreateRoom \/ Starting \/ ResolveImage \/ Run \/ Commit
         \/ InputTaken \/ InputFails \/ StopWorker \/ AwaitStop \/ Unbridge
         \/ Archive
  PROVE  DataInv'
<1> USE DEF OnlyState, watchVars, rows, containers, durable, loop
<1>1. /\ main \in Handler /\ sess \in SessType /\ main.cur \in Sessions
      /\ main.pc # "ready" /\ main.pend = NoState
      /\ main.cmd = "exit" => main.pc \notin {"prepare", "create", "register",
                                "starting", "resolve", "launch"}
  BY DEF IInv, ControlInv, HandlerInv, TypeOK, SessType, DataInv, CommandInv,
         At, CreateRoom, Starting, ResolveImage, Run, Commit, InputTaken,
         InputFails, StopWorker, AwaitStop, Unbridge, Archive
<1>2. UNCHANGED <<registered, owner, watch, snap, row, disk, loop>>
  BY DEF CreateRoom, Starting, ResolveImage, Run, Commit, InputTaken,
         InputFails, StopWorker, AwaitStop, Unbridge, Archive
<1>g. ASSUME NEW pc \in Labels
      PROVE  /\ Goto(pc) \in Handler
             /\ Goto(pc).pc = pc /\ Goto(pc).cur = main.cur
             /\ Goto(pc).cmd = main.cmd
  BY <1>1, GotoTyped, GotoKeeps
<1>i. Idle.pc = "ready" /\ Idle.pend = NoState
  BY DEF Idle
<1>l. /\ {"register", "resolve", "ready", "cleanup", "stop", "unbridge"}
           \subseteq Labels
      /\ {"failed", "starting_container", "running"} \subseteq States
  BY DEF Labels, States
<1>s. ASSUME NEW pc \in Labels, NEW state \in States,
             SetState(state, Goto(pc))
      PROVE  /\ main'.pc = pc /\ main'.cur = main.cur
             /\ main'.cmd = main.cmd
             /\ Known \subseteq Known'
  BY <1>1, <1>g, <1>s, SetStateKeeps
<1>3. CASE CreateRoom
  <2>1. Known \subseteq Known'
    BY <1>1, <1>3, <1>l, WriteKnown DEF CreateRoom, Known
  <2> QED
    BY <1>1, <1>2, <1>3, <1>g, <1>i, <1>l, <2>1, WithinData DEF CreateRoom, At
<1>4. CASE Starting
  BY <1>1, <1>2, <1>4, <1>l, <1>s, WithinData DEF Starting, At
<1>5. CASE ResolveImage
  <2>1. CASE SetState("failed", Return)
    BY <1>1, <1>2, <1>5, <1>l, <1>s, <2>1, WithinData
       DEF ResolveImage, Return, At
  <2>2. CASE ~SetState("failed", Return)
    <3>1. /\ main' = [main EXCEPT !.pc = "launch",
                        !.img = (main.cmd = "start" \/ sess[main.cur].image)]
          /\ sess' = [sess EXCEPT ![main.cur].image = TRUE]
      BY <1>5, <2>2 DEF ResolveImage
    <3>2. main'.pc = "launch" /\ main'.cur = main.cur /\ main'.cmd = main.cmd
      BY <1>1, <3>1, Zenon DEF Handler
    <3>3. Known' = Known
      BY <1>1, <3>1 DEF Known, SessType, Record
    <3> QED
      BY <1>1, <1>2, <1>5, <3>2, <3>3, WithinData DEF ResolveImage, At
  <2> QED
    BY <2>1, <2>2
<1>6. CASE Run
  BY <1>1, <1>2, <1>6, <1>l, <1>s, WithinData DEF Run, Return, At
<1>7. CASE Commit
  <2>1. main.prev \in States
    BY <1>7 DEF Commit, At, DataInv, KnownInv
  <2> QED
    BY <1>1, <1>2, <1>7, <1>l, <1>s, <2>1, WithinData DEF Commit, Return, At
<1>8. CASE InputTaken \/ InputFails
  <2>1. CASE SetState("failed", [Goto("stop") EXCEPT !.tgt = NoProc])
    <3>1. LET m == [Goto("stop") EXCEPT !.tgt = NoProc]
          IN  /\ m \in Handler /\ m.pc = "stop" /\ m.cur = main.cur
              /\ m.cmd = main.cmd
      BY <1>g, <1>l, TgtTyped, Zenon DEF Handler
    <3>2. /\ main'.pc = "stop" /\ main'.cur = main.cur
          /\ main'.cmd = main.cmd
          /\ Known \subseteq Known'
      BY <1>1, <1>l, <2>1, <3>1, SetStateKeeps
    <3>3. main.cmd # "restart"
      BY <1>8 DEF InputTaken, InputFails, At, DataInv, CommandInv
    <3> QED
      BY <1>1, <1>2, <3>2, <3>3, WithinData
  <2>2. CASE main' = Idle /\ UNCHANGED sess
    BY <1>1, <1>2, <1>i, <2>2, WithinData DEF Known
  <2> QED
    BY <1>8, <2>1, <2>2 DEF InputTaken, InputFails
<1>9. CASE StopWorker \/ AwaitStop
  <2>1. /\ AfterStop \in {"resolve", "unbridge"}
        /\ AfterStop = "resolve" => main.cmd = "restart"
    BY DEF AfterStop
  <2>2. /\ main'.pc \in {"await", AfterStop}
        /\ main'.cur = main.cur /\ main'.cmd = main.cmd
    <3>1. CASE \E p : main' = [main EXCEPT !.pc = "await", !.tgt = p]
      BY <1>1, <3>1, Zenon DEF Handler
    <3>2. CASE main' = Goto(AfterStop)
      BY <1>g, <1>l, <2>1, <3>2
    <3>3. CASE main' = [main EXCEPT !.pc = AfterStop, !.tgt = NoProc]
      BY <1>1, <3>3, Zenon DEF Handler
    <3> QED
      BY <1>9, <3>1, <3>2, <3>3 DEF StopWorker, AwaitStop
  <2>3. Known' = Known /\ main.pc \in {"stop", "await"}
    BY <1>9 DEF StopWorker, AwaitStop, At, Known
  <2> QED
    BY <1>1, <1>2, <2>1, <2>2, <2>3, WithinData
<1>10. CASE Unbridge
  BY <1>1, <1>2, <1>10, <1>g, <1>i, <1>l, WithinData DEF Unbridge, Known
<1>11. CASE Archive
  BY <1>1, <1>2, <1>11, <1>i, WithinData DEF Archive, Known
<1> QED
  BY <1>3, <1>4, <1>5, <1>6, <1>7, <1>8, <1>9, <1>10, <1>11

(* So do those that make, register, delete: the rest of /start and /exit.  *)
LEMMA PlaceData ==
  ASSUME IInv, DataInv,
         \/ Prepare \/ Register \/ LaunchWorker
         \/ Cleanup \/ Forget \/ DeleteRow
  PROVE  DataInv'
<1> USE DEF OnlyState, watchVars, rows, containers, durable, loop
<1>1. /\ main \in Handler /\ sess \in SessType /\ main.cur \in Sessions
      /\ main.cur \in Known
      /\ main.pc # "ready" /\ main.pend = NoState
      /\ KnownInv /\ LaunchInv /\ CommandInv /\ RemovedInv /\ RestoreInv
      /\ NoLostSession
      /\ row \in SessType /\ owner \in [Procs -> Sessions \cup {NoSession}]
  BY DEF IInv, ControlInv, HandlerInv, TypeOK, SessType, DataInv, KnownInv, At,
         Prepare, Register, LaunchWorker, Cleanup, Forget, DeleteRow
<1>g. ASSUME NEW pc \in Labels
      PROVE  /\ Goto(pc).pc = pc /\ Goto(pc).cur = main.cur
             /\ Goto(pc).cmd = main.cmd /\ Goto(pc).pend = NoState
  BY <1>1, GotoTyped, GotoKeeps
<1>i. Idle.pc = "ready" /\ Idle.pend = NoState /\ Idle.cmd = "none"
  BY DEF Idle
<1>l. {"create", "run", "ready", "forget", "delete", "archive"} \subseteq Labels
  BY DEF Labels
<1>2. CASE Prepare
  <2>1. Known \subseteq Known'
    BY <1>1, <1>2, WriteKnown DEF Prepare, States
  <2>2. /\ UNCHANGED <<registered, owner, watch, snap, row, loop>>
        /\ main.pc = "prepare"
    BY <1>2 DEF Prepare, At
  <2>3. \/ main'.pc = "create" /\ main'.cur = main.cur /\ main'.cmd = main.cmd
        \/ main'.pc = "ready"
    BY <1>2, <1>g, <1>i, <1>l DEF Prepare
  <2>4. main'.pend = NoState
    BY <1>2, <1>g, <1>i, <1>l DEF Prepare
  <2>5. KnownInv' /\ NoLostSession'
    BY <1>1, <2>1, <2>2, <2>3, <2>4 DEF KnownInv, NoLostSession, Present
  <2>6. /\ PrepareInv' /\ LaunchInv' /\ CommandInv' /\ RemovedInv'
        /\ RestoreInv'
    BY <1>1, <2>2, <2>3
       DEF PrepareInv, LaunchInv, CommandInv, RemovedInv, RestoreInv,
           Present
  <2> QED
    BY <2>5, <2>6 DEF DataInv
<1>3. CASE Register
  <2>1. /\ main'.pc = "starting" /\ main'.cur = main.cur
        /\ main'.cmd = main.cmd /\ main'.pend = "unread"
    <3>1. main' = [main EXCEPT !.pc = "starting", !.pend = "unread"]
      BY <1>3 DEF Register
    <3> QED
      BY <1>1, <3>1, Zenon DEF Handler
  <2>2. /\ UNCHANGED <<owner, watch, snap, row, disk, sess, loop>>
        /\ registered' = registered \cup {main.cur} /\ main.pc = "register"
        /\ Known' = Known
    BY <1>3 DEF Register, At, Known
  <2>3. KnownInv' /\ NoLostSession'
    BY <1>1, <2>1, <2>2 DEF KnownInv, NoLostSession, Present, NoState
  <2>4. /\ PrepareInv' /\ LaunchInv' /\ CommandInv' /\ RemovedInv'
        /\ RestoreInv'
    BY <1>1, <2>1, <2>2
       DEF PrepareInv, LaunchInv, CommandInv, RemovedInv, RestoreInv,
           Present
  <2> QED
    BY <2>3, <2>4 DEF DataInv
<1>4. CASE LaunchWorker
  <2>1. /\ UNCHANGED <<registered, row, disk, loop>>
        /\ main.pc = "launch"
    BY <1>4 DEF LaunchWorker, At
  <2>2. CASE /\ SetState("failed", Return)
             /\ UNCHANGED <<procVars, bridge, watchVars, box>>
    <3>1. Return \in Handler /\ Return.pc = "ready" /\ Return.cur = main.cur
          /\ Return.cmd = main.cmd
      BY <1>1, <1>l, GotoTyped, GotoKeeps DEF Return
    <3>2. /\ main'.pc = "ready" /\ main'.cur = main.cur
          /\ main'.cmd = main.cmd
          /\ Known \subseteq Known'
      BY <1>1, <2>2, <3>1, SetStateKeeps DEF States
    <3> QED
      BY <1>1, <2>1, <2>2, <3>2, WithinData
  <2>3. CASE \E p \in Procs : /\ owner' = [owner EXCEPT ![p] = main.cur]
                              /\ watch' = [watch EXCEPT ![p] = "waiting"]
                              /\ snap' = [snap EXCEPT ![p] = NoState]
                              /\ main' = Goto("run") /\ sess' = sess
    <3>1. PICK p \in Procs : /\ owner' = [owner EXCEPT ![p] = main.cur]
                             /\ watch' = [watch EXCEPT ![p] = "waiting"]
                             /\ snap' = [snap EXCEPT ![p] = NoState]
                             /\ main' = Goto("run") /\ sess' = sess
      BY <2>3
    <3>2. /\ main'.pc = "run" /\ main'.cur = main.cur
          /\ main'.cmd = main.cmd /\ main'.pend = NoState
          /\ Known' = Known
      BY <1>g, <1>l, <3>1 DEF Known
    <3>3. /\ \A q \in Procs : owner'[q] \in {owner[q], main.cur}
          /\ \A q \in Procs : watch'[q] = "read" =>
               watch[q] = "read" /\ snap'[q] = snap[q]
      BY <1>1, <3>1 DEF IInv, TypeOK
    <3>4. KnownInv' /\ NoLostSession'
      BY <1>1, <2>1, <3>2, <3>3 DEF KnownInv, NoLostSession, Present
    <3>5. /\ PrepareInv' /\ LaunchInv' /\ CommandInv' /\ RemovedInv'
          /\ RestoreInv'
      BY <1>1, <2>1, <3>2
         DEF PrepareInv, LaunchInv, CommandInv, RemovedInv, RestoreInv,
           Present
    <3> QED
      BY <3>4, <3>5 DEF DataInv
  <2> QED
    BY <1>4, <2>2, <2>3 DEF LaunchWorker
<1>5. CASE Cleanup \/ Forget \/ DeleteRow
  <2>1. /\ UNCHANGED <<owner, watch, snap, loop>>
        /\ main.pc \in {"cleanup", "forget", "delete"}
        /\ registered' \subseteq registered
        /\ disk' \subseteq disk
    BY <1>5 DEF Cleanup, Forget, DeleteRow, At
  <2>2. /\ main'.pc = (CASE main.pc = "cleanup" -> "forget"
                          [] main.pc = "forget"  -> "delete"
                          [] OTHER               -> "archive")
        /\ main'.cur = main.cur /\ main'.cmd = main.cmd
        /\ main'.pend = NoState
    BY <1>5, <1>g, <1>l DEF Cleanup, Forget, DeleteRow, At
  <2>3. Known \subseteq Known'
    BY <1>1, <1>5, WriteKnown DEF Cleanup, Forget, DeleteRow, States, Known
  <2>4. /\ \A s \in Sessions \ {main.cur} : row'[s] = row[s]
        /\ row'[main.cur] \in {row[main.cur], NoRecord}
        /\ main.pc = "delete" \/ row' = row
    BY <1>1, <1>5 DEF Cleanup, Forget, DeleteRow, At, SessType
  <2>5. main.pc = "cleanup" => main.cur \notin disk' \ Faulty
    BY <1>5 DEF Cleanup, Forget, DeleteRow, At
  <2>6. main.pc = "forget" => registered' = registered \ {main.cur}
    BY <1>5 DEF Cleanup, Forget, DeleteRow, At
  <2>7. main.pc = "delete" => main.cur \notin registered
    BY DEF DataInv, RemovedInv
  <2>8. KnownInv'
    BY <1>1, <2>1, <2>2, <2>3, <2>4 DEF KnownInv, Present
  <2>9. NoLostSession'
    BY <1>1, <2>1, <2>2, <2>4, <2>7 DEF NoLostSession, Present, IInv, TypeOK
  <2>10. /\ PrepareInv' /\ LaunchInv' /\ CommandInv' /\ RemovedInv'
         /\ RestoreInv'
    BY <1>1, <2>1, <2>2, <2>5, <2>6
       DEF PrepareInv, LaunchInv, CommandInv, RemovedInv, RestoreInv,
           Present
  <2> QED
    BY <2>8, <2>9, <2>10 DEF DataInv
<1> QED
  BY <1>2, <1>3, <1>4, <1>5

(* The steps that leave handlers and sessions alone keep DataInv.          *)
LEMMA OtherData ==
  ASSUME IInv, DataInv,
         UNCHANGED <<registered, owner, row, disk, main>>,
         \A p \in Procs : watch'[p] = "read" => watch[p] = "read" /\ snap'[p] = snap[p],
         Known \subseteq Known',
         mode' # mode => main.pc = "ready",
         RestoreInv',
         ctxDone => ctxDone'
  PROVE  DataInv'
<1> USE DEF DataInv
<1>1. KnownInv' /\ NoLostSession'
  BY DEF KnownInv, NoLostSession, Present
<1>2. PrepareInv' /\ LaunchInv' /\ CommandInv' /\ RemovedInv'
  BY DEF PrepareInv, LaunchInv, CommandInv, RemovedInv, Present
<1> QED
  BY <1>1, <1>2

(* The beginning of a handler, by a command, by the restore or by the      *)
(* shutdown, keeps DataInv.                                                *)
LEMMA BeginData ==
  ASSUME IInv, DataInv, NEW s \in Sessions,
         UNCHANGED <<owner, watch, snap, row, disk, mode, ctxDone>>,
         todo' \subseteq todo,
         Known \subseteq Known', s \in Known',
         main.pc = "ready", main.pend = NoState, main'.cur = s,
         \/ registered' = registered
         \/ registered' = registered \cup {s} /\ Present(s),
         \/ main'.pc = "prepare" /\ main'.pend = NoState /\ Fresh(s) /\ s \notin Known
         \/ main'.pc = "commit" /\ main'.prev \in States
         \/ main'.pc = "write" /\ main'.cmd = "input"
         \/ main'.pc = "stop" /\ (main'.cmd = "restart" => s \in registered'),
         mode = "shutdown" => main'.cmd = "exit",
         mode = "boot" => main'.cmd = "restart",
         main'.pc = "prepare" => main'.cmd # "exit"
  PROVE  DataInv'
<1> USE DEF DataInv
<1>1. KnownInv'
  BY DEF KnownInv, Present
<1>2. NoLostSession'
  BY DEF NoLostSession, Present
<1>3. PrepareInv'
  <2>1. main'.pc = "prepare" => \A p \in Procs : owner[p] # s
    BY DEF KnownInv
  <2> QED
    BY <2>1 DEF PrepareInv, Present, Fresh
<1>4. LaunchInv' /\ CommandInv' /\ RemovedInv' /\ RestoreInv'
  BY DEF LaunchInv, CommandInv, RemovedInv, RestoreInv,
           Present
<1> QED
  BY <1>1, <1>2, <1>3, <1>4

(* The beginning of every command keeps DataInv.                           *)
LEMMA UserData ==
  ASSUME IInv, DataInv, NEW s \in Sessions,
         \/ RecvStart(s) \/ RecvRestart(s) \/ RecvExit(s) \/ RecvInput(s)
         \/ RecvCommit(s)
  PROVE  DataInv'
<1> USE DEF OnlyState, watchVars, rows, containers, durable, loop
<1>1. /\ sess \in SessType /\ bridge \in [Sessions -> Procs \cup {NoProc}]
      /\ main.pc = "ready" /\ main.pend = NoState /\ mode = "serve"
      /\ UNCHANGED <<registered, owner, watch, snap, row, disk, loop>>
  BY DEF IInv, TypeOK, SessType, RecvStart, RecvRestart, RecvExit, RecvInput,
         RecvCommit, Addressed, Serving, Ready, At
<1>2. ~RecvStart(s) => s \in registered /\ s \in Known
  BY DEF RecvRestart, RecvExit, RecvInput, RecvCommit, Addressed, DataInv,
         KnownInv
<1>3. ASSUME NEW cmd \in Commands, NEW pc \in Labels
      PROVE  /\ Begin(cmd, pc, s) \in Handler
             /\ Begin(cmd, pc, s).pc = pc /\ Begin(cmd, pc, s).cur = s
             /\ Begin(cmd, pc, s).cmd = cmd
             /\ Begin(cmd, pc, s).pend = NoState
  BY BeginTyped, BeginKeeps
<1>4. /\ {"start", "restart", "exit", "input", "commit"} \subseteq Commands
      /\ {"prepare", "stop", "commit", "write"} \subseteq Labels
      /\ {"preparing_workspace", "restarting", "stopping",
          "committing"} \subseteq States
  BY DEF Commands, Labels, States
<1>5. CASE RecvStart(s)
  <2>1. Known' = Known \cup {s} /\ Fresh(s)
    BY <1>1, <1>4, <1>5, WriteKnown DEF RecvStart
  <2>2. s \notin Known
    BY <2>1 DEF Fresh, Known, NoRecord, NoState, States
  <2>3. /\ main'.pc = "prepare" /\ main'.cur = s /\ main'.cmd = "start"
        /\ main'.pend = NoState
    <3>1. LET m == Begin("start", "prepare", s)
          IN  m.pc = "prepare" /\ m.cur = s /\ m.cmd = "start" /\ m.pend = NoState
      BY <1>3, <1>4
    <3>2. main' = Begin("start", "prepare", s)
      BY <1>5 DEF RecvStart, Begin
    <3> QED
      BY <3>1, <3>2
  <2> QED
    BY <1>1, <2>1, <2>2, <2>3, BeginData
<1>6. CASE RecvRestart(s) \/ RecvExit(s)
  <2>1. PICK cmd \in {"restart", "exit"}, state \in States :
          SetState(state, Begin(cmd, "stop", s))
    BY <1>4, <1>6 DEF RecvRestart, RecvExit
  <2>2. /\ main'.pc = "stop" /\ main'.cur = s /\ main'.cmd = cmd
        /\ Known' = Known \cup {s}
    BY <1>1, <1>3, <1>4, <2>1, SetStateKeeps
  <2>3. s \in registered
    BY <1>6 DEF RecvRestart, RecvExit, Addressed
  <2> QED
    BY <1>1, <2>2, <2>3, BeginData
<1>7. CASE RecvInput(s)
  <2>1. LET m == [Begin("input", "write", s) EXCEPT !.tgt = bridge[s]]
        IN  m.pc = "write" /\ m.cur = s /\ m.cmd = "input"
    <3>1. LET m == Begin("input", "write", s)
          IN  m \in Handler /\ m.pc = "write" /\ m.cur = s /\ m.cmd = "input"
      BY <1>3, <1>4
    <3> QED
      BY <3>1, Zenon DEF Handler
  <2>2. main'.pc = "write" /\ main'.cur = s /\ main'.cmd = "input"
    BY <1>7, <2>1 DEF RecvInput
  <2>3. Known' = Known /\ s \in Known
    BY <1>7, <1>1 DEF RecvInput, Known, Addressed, DataInv, KnownInv
  <2> QED
    BY <1>1, <2>2, <2>3, BeginData
<1>8. CASE RecvCommit(s)
  <2>1. sess[s].state \in States /\ s \in Known
    BY <1>8 DEF RecvCommit, Addressed, DataInv, KnownInv, Known
  <2>2. LET m == [Begin("commit", "commit", s) EXCEPT !.prev = sess[s].state]
        IN  /\ m \in Handler /\ m.pc = "commit" /\ m.cur = s
            /\ m.cmd = "commit" /\ m.prev = sess[s].state
    <3>1. LET m == Begin("commit", "commit", s)
          IN  /\ m \in Handler /\ m.pc = "commit" /\ m.cur = s
              /\ m.cmd = "commit"
      BY <1>3, <1>4
    <3> QED
      BY <2>1, <3>1, PrevTyped, Zenon DEF Handler
  <2>3. /\ main'.pc = "commit" /\ main'.cur = s /\ main'.cmd = "commit"
        /\ main'.prev \in States /\ Known' = Known \cup {s}
    BY <1>1, <1>4, <1>8, <2>1, <2>2, SetStateKeeps DEF RecvCommit
  <2> QED
    BY <1>1, <2>3, BeginData
<1> QED
  BY <1>5, <1>6, <1>7, <1>8

(* The main goroutine's steps between handlers keep DataInv.               *)
LEMMA LoopData ==
  ASSUME IInv, DataInv,
         \/ JoinFails \/ ListRows \/ ListFails \/ BootDone
         \/ BeginShutdown \/ Halt
         \/ \E s \in Sessions : RestoreSession(s) \/ ShutdownNext(s)
  PROVE  DataInv'
<1> USE DEF watchVars, rows, containers, durable
<1>1. sess \in SessType /\ row \in SessType
  BY DEF IInv, TypeOK, SessType
<1>2. CASE BootDone \/ BeginShutdown
  BY <1>2, OtherData
     DEF BootDone, BeginShutdown, Ready, At, Known, RestoreInv
<1>3. CASE Halt \/ JoinFails
  BY <1>3, PowerOffData DEF Halt, JoinFails
<1>6. CASE ListRows \/ ListFails
  <2>1. /\ UNCHANGED <<registered, owner, row, disk, main, watch, snap,
                       ctxDone, sess>>
        /\ main.pc = "ready"
    BY <1>6 DEF ListRows, ListFails, Unlisted, IInv, ControlInv, BootInv
  <2>2. RestoreInv'
    BY <1>6, <2>1 DEF ListRows, ListFails, RestoreInv, Present
  <2> QED
    BY <2>1, <2>2, OtherData DEF Known
<1>4. ASSUME NEW s \in Sessions, RestoreSession(s)
      PROVE  DataInv'
  <2>1. /\ main.pc = "ready" /\ main.pend = NoState /\ mode = "boot"
        /\ UNCHANGED <<owner, watch, snap, row, disk, mode, ctxDone>>
        /\ registered' = registered \cup {s} /\ todo' \subseteq todo
    BY <1>4 DEF RestoreSession, Ready, At
  <2>2. Present(s)
    BY <1>4 DEF RestoreSession, Ready, DataInv, RestoreInv
  <2>3. row[s].state \in States
    BY <2>2 DEF DataInv, KnownInv
  <2>4. /\ sess' \in {[sess EXCEPT ![s] = row[s]],
                      [sess EXCEPT ![s] = [row[s] EXCEPT !.state = "restarting"]]}
    BY <1>4 DEF RestoreSession
  <2>5. [row[s] EXCEPT !.state = "restarting"].state = "restarting"
    BY <1>1, SMT DEF SessType, Record
  <2>6. Known \subseteq Known' /\ s \in Known'
    BY <1>1, <2>3, <2>4, <2>5 DEF Known, SessType, States
  <2>7. CASE main' = main
    <3>1. KnownInv' /\ NoLostSession'
      BY <2>1, <2>2, <2>6, <2>7
         DEF DataInv, KnownInv, NoLostSession, Present
    <3>2. /\ PrepareInv' /\ LaunchInv' /\ CommandInv' /\ RemovedInv'
          /\ RestoreInv'
      BY <2>1, <2>7
         DEF DataInv, PrepareInv, LaunchInv, CommandInv, RemovedInv, RestoreInv,
           Present
    <3> QED
      BY <3>1, <3>2 DEF DataInv
  <2>8. CASE main' = [Begin("restart", "stop", s) EXCEPT !.pend = "unread"]
    <3>1. /\ Begin("restart", "stop", s) \in Handler
          /\ Begin("restart", "stop", s).pc = "stop"
          /\ Begin("restart", "stop", s).cur = s
          /\ Begin("restart", "stop", s).cmd = "restart"
      BY BeginTyped, BeginKeeps DEF Commands, Labels
    <3>2. main'.pc = "stop" /\ main'.cur = s /\ main'.cmd = "restart"
      BY <2>8, <3>1, PendTyped, PendKeeps DEF Pending
    <3> QED
      BY <2>1, <2>2, <2>6, <3>2, BeginData
  <2> QED
    BY <1>4, <2>7, <2>8 DEF RestoreSession
<1>5. ASSUME NEW s \in Sessions, ShutdownNext(s)
      PROVE  DataInv'
  <2>1. /\ main.pc = "ready" /\ main.pend = NoState /\ mode = "shutdown"
        /\ UNCHANGED <<registered, owner, watch, snap, row, disk, mode, ctxDone>>
        /\ todo' \subseteq todo
        /\ SetState("stopping", Begin("exit", "stop", s))
    BY <1>5 DEF ShutdownNext, Ready, At
  <2>2. /\ Begin("exit", "stop", s) \in Handler
        /\ Begin("exit", "stop", s).pc = "stop"
        /\ Begin("exit", "stop", s).cur = s
        /\ Begin("exit", "stop", s).cmd = "exit"
    BY BeginTyped, BeginKeeps DEF Commands, Labels
  <2>3. /\ main'.pc = "stop" /\ main'.cur = s /\ main'.cmd = "exit"
        /\ Known' = Known \cup {s}
    BY <1>1, <2>1, <2>2, SetStateKeeps DEF States
  <2> QED
    BY <2>1, <2>3, BeginData
<1> QED
  BY <1>2, <1>3, <1>4, <1>5, <1>6

(* The exit watchers keep DataInv.                                         *)
LEMMA WatchData ==
  ASSUME IInv, DataInv, NEW p \in Procs, WatchStep(p)
  PROVE  DataInv'
<1> USE DEF rows, durable, loop
<1>1. /\ sess \in SessType /\ row \in SessType
      /\ watch \in [Procs -> {"none", "waiting", "received", "checked",
                              "unbridged", "set", "read", "silent", "told"}]
      /\ snap \in [Procs -> States \cup {NoState}]
  BY DEF IInv, TypeOK, SessType
<1>2. watch[p] # "none" => owner[p] \in Sessions /\ owner[p] \in Known
  BY DEF IInv, ControlInv, WatcherInv, DataInv, KnownInv
<1>3. UNCHANGED <<registered, owner, disk, main, mode, todo, ctxDone>>
  BY DEF WatchStep, WatchReceive, WatchCheck, WatchUnbridge, WatchSetState,
         WatchRead, WatchUpsert
<1>4. CASE WatchReceive(p) \/ WatchCheck(p) \/ WatchUnbridge(p)
  <2>1. UNCHANGED <<sess, row, snap>>
    BY <1>4 DEF WatchReceive, WatchCheck, WatchUnbridge
  <2>2. \A q \in Procs : watch'[q] = "read" => watch[q] = "read"
    BY <1>1, <1>4 DEF WatchReceive, WatchCheck, WatchUnbridge
  <2> QED
    BY <1>3, <2>1, <2>2, OtherData DEF Known, DataInv, RestoreInv, Present
<1>5. CASE WatchSetState(p)
  <2>1. UNCHANGED <<row, snap>>
    BY <1>5 DEF WatchSetState
  <2>2. \A q \in Procs : watch'[q] = "read" => watch[q] = "read"
    BY <1>1, <1>5 DEF WatchSetState
  <2>3. Known \subseteq Known'
    <3>1. PICK state \in States : Write(owner[p], state)
      BY <1>5 DEF WatchSetState, States
    <3> QED
      BY <1>1, <1>2, <1>5, <3>1, WriteKnown DEF WatchSetState
  <2> QED
    BY <1>3, <2>1, <2>2, <2>3, OtherData DEF DataInv, RestoreInv, Present
<1>6. CASE WatchRead(p)
  <2>1. UNCHANGED <<sess, row>> /\ snap'[p] = sess[owner[p]].state
    BY <1>1, <1>6 DEF WatchRead
  <2>2. \A q \in Procs \ {p} : watch'[q] = watch[q] /\ snap'[q] = snap[q]
    BY <1>1, <1>6 DEF WatchRead
  <2>3. snap'[p] \in States
    BY <1>2, <1>6, <2>1 DEF WatchRead, Known
  <2>4. KnownInv'
    BY <1>3, <2>1, <2>2, <2>3 DEF DataInv, KnownInv, Known, Present
  <2>5. /\ PrepareInv' /\ LaunchInv' /\ CommandInv' /\ RemovedInv'
        /\ RestoreInv' /\ NoLostSession'
    BY <1>3, <2>1
       DEF DataInv, PrepareInv, LaunchInv, CommandInv, RemovedInv, RestoreInv,
           NoLostSession, Present
  <2> QED
    BY <2>4, <2>5 DEF DataInv
<1>7. CASE WatchUpsert(p)
  <2>1. UNCHANGED sess /\ owner[p] \in Sessions /\ snap[p] \in States
    BY <1>2, <1>7 DEF WatchUpsert, DataInv, KnownInv
  <2>2. /\ row' = row \/ Upsert(owner[p], snap[p])
        /\ \A q \in Procs : watch'[q] = "read" =>
             watch[q] = "read" /\ snap'[q] = snap[q]
    BY <1>1, <1>7 DEF WatchUpsert
  <2>3. /\ \A s \in Sessions \ {owner[p]} : row'[s] = row[s]
        /\ \/ row'[owner[p]] # NoRecord /\ row'[owner[p]].state \in States
           \/ row' = row
    BY <1>1, <2>1, <2>2, UpsertRow
  <2>4. KnownInv'
    BY <1>3, <2>1, <2>2, <2>3 DEF DataInv, KnownInv, Known, Present
  <2>5. \A s \in Sessions : row[s] # NoRecord => row'[s] # NoRecord
    BY <2>3
  <2>6. PrepareInv'
    BY <1>3, <2>3 DEF IInv, ControlInv, HandlerInv, DataInv, PrepareInv, Present
  <2>7. /\ LaunchInv' /\ CommandInv' /\ RemovedInv'
        /\ RestoreInv' /\ NoLostSession'
    BY <1>3, <2>5
       DEF IInv, TypeOK, DataInv, LaunchInv, CommandInv, RemovedInv,
           RestoreInv, NoLostSession, Present
  <2> QED
    BY <2>4, <2>6, <2>7 DEF DataInv
<1> QED
  BY <1>4, <1>5, <1>6, <1>7 DEF WatchStep

(* The operator and the workers keep DataInv.                              *)
LEMMA WorldData ==
  ASSUME IInv, DataInv,
         \/ Operator
         \/ \E p \in Procs : Exit(p) \/ Escalate(p)
         \/ \E s \in Sessions : LeftEnds(s)
  PROVE  DataInv'
<1> USE DEF rows, durable, loop, watchVars
<1>1. CASE Boot
  <2>1. UNCHANGED <<registered, owner, row, disk, main, watch, snap, ctxDone, sess>>
    BY <1>1 DEF Boot
  <2>2. main.pc = "ready"
    BY <1>1 DEF Boot, IInv, ControlInv, BootInv
  <2>3. RestoreInv'
    BY <1>1, <2>1 DEF Boot, RestoreInv, Present
  <2> QED
    BY <2>1, <2>2, <2>3, OtherData DEF Known
<1>2. CASE Sigterm \/ \E p \in Procs : Exit(p) \/ Escalate(p)
  <2>1. /\ UNCHANGED <<registered, owner, row, disk, main, watch, snap, mode,
                       todo, sess>>
        /\ ctxDone => ctxDone'
    BY <1>2 DEF Sigterm, Exit, Escalate
  <2> QED
    BY <2>1, OtherData DEF Known, DataInv, RestoreInv, Present
<1>3. CASE \E s \in Sessions : LeftEnds(s)
  <2>1. UNCHANGED <<registered, owner, row, disk, main, watch, snap, loop, sess>>
    BY <1>3 DEF LeftEnds
  <2> QED
    BY <2>1, OtherData DEF Known, DataInv, RestoreInv, Present
<1>4. CASE Crash
  BY <1>4, PowerOffData DEF Crash
<1> QED
  BY <1>1, <1>2, <1>3, <1>4 DEF Operator

(* Every step keeps DataInv.                                               *)
LEMMA DataStep ==
  ASSUME IInv, DataInv, [Next]_vars
  PROVE  DataInv'
<1>1. CASE UNCHANGED vars
  <2>1. /\ UNCHANGED <<registered, owner, row, disk, main, watch, snap, sess,
                       loop>>
    BY <1>1 DEF vars, watchVars, durable, rows
  <2> QED
    BY <2>1, OtherData DEF Known, DataInv, RestoreInv, Present, loop
<1>2. CASE MainStep
  BY <1>2, UpsertData, QuietData, PlaceData, LoopData DEF MainStep
<1> QED
  BY <1>1, <1>2, QuietData, UserData, WatchData, WorldData DEF Next, User

(* Nothing is known, made or registered before the first start.            *)
LEMMA InitData == Init => DataInv
  BY NoSessionAssumption
     DEF Init, Idle, DataInv, KnownInv, PrepareInv, LaunchInv, CommandInv,
         RestoreInv, RemovedInv, NoLostSession, Known, Present

(* Both parts of the invariant hold in every state of the governor.        *)
THEOREM DataInvariance == Spec => [](IInv /\ DataInv)
<1>1. Init => IInv /\ DataInv
  BY InitIInv, InitData
<1>2. IInv /\ DataInv /\ [Next]_vars => (IInv /\ DataInv)'
  BY TypeStep, ControlStep, DataStep DEF IInv
<1> QED
  BY <1>1, <1>2, PTL DEF Spec

(* A session in the SessionStore has a row whenever no statement on it is  *)
(* under way, unless database errors hit it or the governor was told to    *)
(* end: a crash loses no session.                                          *)
THEOREM NoSessionLost == Spec => []NoLostSession
<1>1. DataInv => NoLostSession
  BY DEF DataInv
<1> QED
  BY DataInvariance, <1>1, PTL

-----------------------------------------------------------------------------
(* Every step of the governor is one of the contract.                      *)

(* Steps that touch neither worktrees, rows nor workers are none.          *)
LEMMA Stutter ==
  ASSUME UNCHANGED <<disk, row, proc, owner, severed>>
  PROVE  UNCHANGED Contract!vars
  BY DEF Contract!vars, Rows, Present, Working, Manned

(* A session that the contract has a worker for owns one that is alive.    *)
LEMMA AtWorkOwner ==
  ASSUME NEW s, Contract!AtWork(s)
  PROVE  \E p \in Manned : owner[p] = s
  BY DEF Contract!AtWork, Working

(* Where the handler's session has no worker to stop, none is at work.     *)
LEMMA GoneNotAtWork ==
  ASSUME IInv, WorkerGone
  PROVE  ~Contract!AtWork(main.cur)
<1>1. SUFFICES ASSUME NEW p \in Manned, owner[p] = main.cur
               PROVE  FALSE
  BY AtWorkOwner
<1> QED
  BY <1>1, NoProcAssumption
     DEF IInv, TypeOK, ControlInv, LiveWorkerReachable, WorkerGone, Manned

(* A worker under control that ends, or is cut off, leaves the others to   *)
(* their sessions.                                                         *)
LEMMA Dismissed ==
  ASSUME NEW p \in Manned, Manned' = Manned \ {p}, UNCHANGED owner
  PROVE  /\ <<owner[p], p>> \in Working
         /\ Working' = Working \ {<<owner[p], p>>}
<1>1. <<owner[p], p>> \in Working
  BY Zenon DEF Working
<1>2. ASSUME NEW x \in Working'
      PROVE  x \in Working \ {<<owner[p], p>>}
  <2>1. PICK q \in Manned \ {p} : x = <<owner[q], q>>
    BY <1>2 DEF Working
  <2> QED
    BY <2>1 DEF Working
<1>3. ASSUME NEW x \in Working \ {<<owner[p], p>>}
      PROVE  x \in Working'
  <2>1. PICK q \in Manned : x = <<owner[q], q>>
    BY <1>3 DEF Working
  <2> QED
    BY <1>3, <2>1 DEF Working
<1> QED
  BY <1>1, <1>2, <1>3, Zenon

(* UpsertSession adds at most one row.                                     *)
LEMMA UpsertIsList ==
  ASSUME sess \in SessType, row \in SessType, NEW s \in Sessions,
         NEW st \in States, Upsert(s, st),
         UNCHANGED <<disk, proc, owner, severed>>
  PROVE  [Contract!Next]_(Contract!vars)
<1>1. Rows' = Rows \cup {s}
  BY UpsertRow
<1>2. Working' = Working
  BY DEF Working, Manned
<1>3. CASE s \in Rows
  BY <1>1, <1>2, <1>3 DEF Contract!vars
<1>4. CASE s \notin Rows
  BY <1>1, <1>2, <1>4 DEF Contract!Next, Contract!List
<1> QED
  BY <1>3, <1>4

(* The end of the governor ends its workers.                               *)
LEMMA PowerOffIsEnd ==
  ASSUME PowerOff
  PROVE  Contract!Next
<1>1. Working' = {} /\ UNCHANGED <<disk, Rows>>
  BY DEF PowerOff, Working, Manned, Rows, Present, rows
<1> QED
  BY <1>1 DEF Contract!Next, Contract!End

(* The steps of a handler that the contract knows.                         *)
LEMMA HandlerRefines ==
  ASSUME IInv, DataInv,
         Prepare \/ LaunchWorker \/ Cleanup \/ DeleteRow \/ MainUpsert
  PROVE  [Contract!Next]_(Contract!vars)
<1> USE DEF rows, procVars, watchVars
<1>1. /\ main.cur \in Sessions
      /\ sess \in SessType /\ row \in SessType
      /\ disk \subseteq Sessions
  BY DEF IInv, TypeOK, SessType, ControlInv, HandlerInv, At, Prepare,
         LaunchWorker, Cleanup, DeleteRow, MainUpsert, States, NoState
<1>2. CASE Prepare
  <2>1. UNCHANGED <<row, proc, owner, severed>> /\ main.pc = "prepare"
    BY <1>2 DEF Prepare, At
  <2>2. Rows' = Rows /\ Working' = Working
    BY <2>1 DEF Rows, Present, Working, Manned
  <2>3. main.cur \notin disk \cup Rows /\ ~Contract!AtWork(main.cur)
    BY <2>1, AtWorkOwner DEF DataInv, PrepareInv, Rows, Manned
  <2>4. disk' \in {disk, disk \cup {main.cur}}
    BY <1>2 DEF Prepare
  <2> QED
    BY <1>1, <2>2, <2>3, <2>4
       DEF Contract!Next, Contract!MakeFiles, Contract!vars
<1>3. CASE LaunchWorker
  <2>1. UNCHANGED <<row, disk>> /\ main.pc = "launch" /\ main.pend = NoState
    BY <1>3 DEF LaunchWorker, At
  <2>2. ~Contract!AtWork(main.cur)
    BY <2>1, GoneNotAtWork DEF IInv, ControlInv, GoneInv
  <2>3. CASE UNCHANGED <<procVars, bridge, watchVars, box>>
    BY <2>1, <2>3, Stutter
  <2>4. CASE /\ ~CtxErr
             /\ \E p \in Procs :
                  /\ Free(p) /\ Launch(p)
                  /\ owner' = [owner EXCEPT ![p] = main.cur]
                  /\ severed' = severed \ {p}
    <3>1. PICK p \in Procs :
            /\ proc[p] # "alive" /\ proc'[p] = "alive"
            /\ owner'[p] = main.cur /\ severed' = severed \ {p}
            /\ \A q \in Procs \ {p} : proc'[q] = proc[q] /\ owner'[q] = owner[q]
      BY <2>4 DEF Free, Launch, IInv, TypeOK, ProcTypeOK
    <3>2. Working' = Working \cup {<<main.cur, p>>}
      <4>1. Manned' = Manned \cup {p} /\ p \notin Manned
        BY <3>1 DEF Manned
      <4>2. \A q \in Manned : owner'[q] = owner[q]
        BY <3>1 DEF Manned
      <4> QED
        BY <3>1, <4>1, <4>2, Zenon DEF Working
    <3>3. Rows' = Rows
      BY <2>1 DEF Rows, Present
    <3>4. ~ctxDone
      BY <2>1, <2>4 DEF CtxErr, DataInv, CommandInv
    <3>5. main.cur \in Rows \cup Faulty
      BY <1>1, <2>1, <3>4
         DEF DataInv, LaunchInv, NoLostSession, Rows
    <3> QED
      BY <1>1, <2>1, <2>2, <3>2, <3>3, <3>5
         DEF Contract!Next, Contract!StartWorker
  <2> QED
    BY <1>3, <2>3, <2>4 DEF LaunchWorker
<1>4. CASE Cleanup
  <2>1. UNCHANGED <<row, proc, owner, severed>> /\ main.pc = "cleanup"
    BY <1>4 DEF Cleanup, At
  <2>2. Rows' = Rows /\ Working' = Working
    BY <2>1 DEF Rows, Present, Working, Manned
  <2>3. ~Contract!AtWork(main.cur)
    BY <2>1, GoneNotAtWork DEF IInv, ControlInv, GoneInv
  <2>4. disk' \in {disk, disk \ {main.cur}}
    BY <1>4 DEF Cleanup
  <2> QED
    BY <1>1, <2>2, <2>3, <2>4
       DEF Contract!Next, Contract!RemoveFiles, Contract!vars
<1>5. CASE DeleteRow
  <2>1. UNCHANGED <<disk, proc, owner, severed>> /\ main.pc = "delete"
    BY <1>5 DEF DeleteRow, At
  <2>2. Working' = Working
    BY <2>1 DEF Working, Manned
  <2>3. ~Contract!AtWork(main.cur)
    BY <2>1, GoneNotAtWork DEF IInv, ControlInv, GoneInv
  <2>4. main.cur \notin disk \/ main.cur \in Faulty
    BY <2>1 DEF DataInv, RemovedInv
  <2>5. Rows' \in {Rows, Rows \ {main.cur}}
    BY <1>1, <1>5 DEF DeleteRow, Rows, Present, SessType
  <2> QED
    BY <1>1, <2>1, <2>2, <2>3, <2>4, <2>5
       DEF Contract!Next, Contract!Unlist, Contract!vars, Rows
<1>6. CASE MainUpsert
  <2>1. UNCHANGED <<disk, proc, owner, severed>> /\ main.pend \in States
    BY <1>6 DEF MainUpsert
  <2>2. CASE Upsert(main.cur, main.pend)
    BY <1>1, <2>1, <2>2, UpsertIsList
  <2>3. CASE UNCHANGED rows
    BY <2>1, <2>3, Stutter
  <2> QED
    BY <1>6, <2>2, <2>3 DEF MainUpsert
<1> QED
  BY <1>2, <1>3, <1>4, <1>5, <1>6

(* The other steps of the main goroutine are none of the contract, or end  *)
(* everything.                                                             *)
LEMMA MainRefines ==
  ASSUME IInv, DataInv, MainStep \/ User \/ InputTaken \/ InputFails
  PROVE  [Contract!Next]_(Contract!vars)
<1> USE DEF rows, procVars, watchVars, durable, OnlyState
<1>1. CASE Halt \/ JoinFails
  BY <1>1, PowerOffIsEnd DEF Halt, JoinFails
<1>2. CASE StopWorker
  <2>1. UNCHANGED <<disk, row, proc, owner, severed>>
    BY <1>2 DEF StopWorker, StopBegin
  <2> QED
    BY <2>1, Stutter
<1>3. CASE AwaitStop
  <2>1. UNCHANGED <<disk, row, proc, owner, severed>>
    BY <1>3 DEF AwaitStop, StopEnd
  <2> QED
    BY <2>1, Stutter
<1>4. CASE User
  <2>1. UNCHANGED <<disk, row, proc, owner, severed>>
    BY <1>4 DEF User, RecvStart, RecvRestart, RecvExit, RecvInput, RecvCommit
  <2> QED
    BY <2>1, Stutter
<1>5. CASE \/ CreateRoom \/ Register \/ Starting \/ ResolveImage \/ Run
           \/ Commit \/ InputTaken \/ InputFails \/ Unbridge \/ Forget
           \/ Archive
  <2>1. UNCHANGED <<disk, row, proc, owner, severed>>
    BY <1>5 DEF CreateRoom, Register, Starting, ResolveImage, Run, Commit,
                InputTaken, InputFails, Unbridge, Forget, Archive
  <2> QED
    BY <2>1, Stutter
<1>6. CASE \/ MainRead \/ ListRows \/ ListFails \/ BootDone
           \/ BeginShutdown
           \/ \E s \in Sessions : RestoreSession(s) \/ ShutdownNext(s)
  <2>1. UNCHANGED <<disk, row, proc, owner, severed>>
    BY <1>6 DEF MainRead, ListRows, ListFails, BootDone, BeginShutdown,
                RestoreSession, ShutdownNext
  <2> QED
    BY <2>1, Stutter
<1> QED
  BY <1>1, <1>2, <1>3, <1>4, <1>5, <1>6, HandlerRefines DEF MainStep

(* The watchers: their UpsertSession, and the worker they may cut off.     *)
LEMMA WatchRefines ==
  ASSUME IInv, DataInv, NEW p \in Procs, WatchStep(p)
  PROVE  [Contract!Next]_(Contract!vars)
<1> USE DEF rows, durable
<1>1. /\ sess \in SessType /\ row \in SessType
      /\ watch[p] # "none" => owner[p] \in Sessions
      /\ bridge \in [Sessions -> Procs \cup {NoProc}]
  BY DEF IInv, TypeOK, SessType, ControlInv, WatcherInv
<1>2. CASE WatchReceive(p) \/ WatchCheck(p) \/ WatchSetState(p) \/ WatchRead(p)
  <2>1. UNCHANGED <<disk, row, proc, owner, severed>>
    BY <1>2 DEF WatchReceive, ReceiveExit, procVars, WatchCheck,
                WatchSetState, WatchRead
  <2> QED
    BY <2>1, Stutter
<1>3. CASE WatchUpsert(p)
  <2>1. /\ UNCHANGED <<disk, proc, owner, severed>>
        /\ snap[p] \in States /\ owner[p] \in Sessions
    BY <1>1, <1>3 DEF WatchUpsert, procVars, DataInv, KnownInv
  <2>2. CASE Upsert(owner[p], snap[p])
    BY <1>1, <2>1, <2>2, UpsertIsList
  <2>3. CASE UNCHANGED rows
    BY <2>1, <2>3, Stutter
  <2> QED
    BY <1>3, <2>2, <2>3 DEF WatchUpsert
<1>4. CASE WatchUnbridge(p)
  <2>1. /\ UNCHANGED <<disk, row, proc, owner>> /\ owner[p] \in Sessions
        /\ severed' = severed \cup ({bridge[owner[p]]} \ {p, NoProc})
    BY <1>1, <1>4 DEF WatchUnbridge, procVars
  <2>2. Rows' = Rows
    BY <2>1 DEF Rows, Present
  <2>3. CASE severed' \cap {q \in Procs : proc[q] = "alive"} \subseteq severed
    <3>1. Manned' = Manned
      BY <2>1, <2>3 DEF Manned
    <3> QED
      BY <2>1, <2>2, <3>1 DEF Working, Contract!vars
  <2>4. CASE ~(severed' \cap {q \in Procs : proc[q] = "alive"} \subseteq severed)
    <3>1. PICK q \in Procs : /\ q = bridge[owner[p]] /\ proc[q] = "alive"
                             /\ q \notin severed
                             /\ severed' = severed \cup {q}
      BY <2>1, <2>4
    <3>2. owner[q] = owner[p]
      BY <2>1, <3>1, NoProcAssumption DEF IInv, ControlInv, BridgeWatched
    <3>3. Manned' = Manned \ {q} /\ q \in Manned
      BY <2>1, <3>1 DEF Manned
    <3>4. /\ Working' = Working \ {<<owner[p], q>>}
          /\ <<owner[p], q>> \in Working
      BY <2>1, <3>2, <3>3, Dismissed
    <3> QED
      BY <2>1, <2>2, <3>1, <3>4 DEF Contract!Next, Contract!EndWorker
  <2> QED
    BY <2>3, <2>4
<1> QED
  BY <1>2, <1>3, <1>4 DEF WatchStep

(* The workers and the operator.                                           *)
LEMMA WorldRefines ==
  ASSUME IInv, DataInv,
         \/ Operator
         \/ \E p \in Procs : Exit(p) \/ Escalate(p)
         \/ \E s \in Sessions : LeftEnds(s)
  PROVE  [Contract!Next]_(Contract!vars)
<1> USE DEF rows, durable, procVars, watchVars
<1>1. CASE Crash
  BY <1>1, PowerOffIsEnd DEF Crash
<1>2. CASE \/ Boot \/ Sigterm \/ \E p \in Procs : Escalate(p)
           \/ \E s \in Sessions : LeftEnds(s)
  <2>1. UNCHANGED <<disk, row, proc, owner, severed>>
    BY <1>2 DEF Boot, Sigterm, Escalate, StopEscalate, LeftEnds
  <2> QED
    BY <2>1, Stutter
<1>3. ASSUME NEW p \in Procs, Exit(p)
      PROVE  [Contract!Next]_(Contract!vars)
  <2>1. /\ proc[p] = "alive" /\ proc'[p] # "alive"
        /\ \A q \in Procs \ {p} : proc'[q] = proc[q]
        /\ UNCHANGED <<disk, row, owner, severed>>
    BY <1>3 DEF Exit, Reap, IInv, TypeOK, ProcTypeOK
  <2>2. Rows' = Rows
    BY <2>1 DEF Rows, Present
  <2>3. CASE p \in severed
    <3>1. Manned' = Manned
      BY <2>1, <2>3 DEF Manned
    <3> QED
      BY <2>1, <2>2, <3>1 DEF Working, Contract!vars
  <2>4. CASE p \notin severed
    <3>1. Manned' = Manned \ {p} /\ p \in Manned
      BY <2>1, <2>4 DEF Manned
    <3>2. /\ Working' = Working \ {<<owner[p], p>>}
          /\ <<owner[p], p>> \in Working
      BY <2>1, <3>1, Dismissed
    <3>3. owner[p] \in Sessions
      BY <2>1 DEF IInv, ControlInv, WatcherInv
    <3> QED
      BY <2>1, <2>2, <3>2, <3>3 DEF Contract!Next, Contract!EndWorker
  <2> QED
    BY <2>3, <2>4
<1> QED
  BY <1>1, <1>2, <1>3 DEF Operator

(* A step of the governor is a step of the contract, or none.              *)
LEMMA ContractStep ==
  ASSUME IInv, DataInv, [Next]_vars
  PROVE  [Contract!Next]_(Contract!vars)
<1>1. CASE UNCHANGED vars
  BY <1>1, Stutter DEF vars, durable, rows, procVars, watchVars
<1> QED
  BY <1>1, MainRefines, WatchRefines, WorldRefines DEF Next

(* The governor begins with what the contract begins with.                 *)
LEMMA ContractInit == Init => Contract!Init
  BY DEF Init, ProcInit, Contract!Init, Rows, Present, Working, Manned

(* The governor keeps the contract through commands, worker exits,         *)
(* watchers, errors, signals and crashes: worktree, row and workers of a   *)
(* session come and go in its order.                                       *)
THEOREM ImplementsContract == Spec => KeepsContract
<1>1. IInv /\ DataInv /\ [Next]_vars => [Contract!Next]_(Contract!vars)
  BY ContractStep
<1> QED
  BY ContractInit, DataInvariance, <1>1, PTL DEF Spec, KeepsContract, Contract!Spec

(* A row goes only after its worktree, unless errors hit the session.      *)
THEOREM RowsOutliveWorktrees == Spec => RowOutlivesWorktree
<1>1. [Contract!Next]_(Contract!vars) =>
        \A s \in Sessions : Present(s) /\ ~Present(s)' => s \notin disk \/ s \in Faulty
  BY DEF Contract!Next, Contract!vars, Contract!MakeFiles, Contract!List,
         Contract!StartWorker, Contract!EndWorker, Contract!RemoveFiles,
         Contract!Unlist, Contract!End, Rows
<1>2. IInv /\ DataInv /\ [Next]_vars =>
        [\A s \in Sessions : Present(s) /\ ~Present(s)' =>
           s \notin disk \/ s \in Faulty]_vars
  BY <1>1, ContractStep
<1> QED
  BY DataInvariance, <1>2, PTL DEF Spec, RowOutlivesWorktree
=============================================================================

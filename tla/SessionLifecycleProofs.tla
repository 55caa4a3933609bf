----------------------- MODULE SessionLifecycleProofs -----------------------
(***************************************************************************)
(* Proofs about SessionLifecycle, for any number of sessions, processes    *)
(* and errors.  IInv is inductive: TypeStep shows that a step keeps the    *)
(* types (which takes ControlInv: that handlers and watchers have a        *)
(* session), ControlStep that it keeps the rest.                           *)
(***************************************************************************)
EXTENDS SessionLifecycle, TLAPS

SessType == [Sessions -> Record]

-----------------------------------------------------------------------------
(* The updates of the handler record and of the sessions keep their types. *)

(* The main goroutine between two handlers has a type of its own.          *)
LEMMA IdleTyped == Idle \in Handler
  BY SMT DEF Idle, Handler, Commands, Labels, Pending

(* Going on within a handler changes nothing but where it is.              *)
LEMMA GotoTyped ==
  ASSUME main \in Handler, NEW pc \in Labels
  PROVE  /\ Goto(pc) \in Handler
         /\ Goto(pc).pc = pc
         /\ Goto(pc).cur = main.cur
         /\ Goto(pc).pend = main.pend
  BY Zenon DEF Goto, Handler

(* Progress in UpsertSession changes nothing else of the handler.          *)
LEMMA PendTyped ==
  ASSUME NEW m \in Handler, NEW pend \in Pending
  PROVE  /\ [m EXCEPT !.pend = pend] \in Handler
         /\ [m EXCEPT !.pend = pend].pc = m.pc
         /\ [m EXCEPT !.pend = pend].cur = m.cur
         /\ [m EXCEPT !.pend = pend].tgt = m.tgt
  BY Zenon DEF Handler

(* The step of Register keeps the type of the handler.                     *)
LEMMA PcPendTyped ==
  ASSUME main \in Handler, NEW pc \in Labels, NEW pend \in Pending
  PROVE  [main EXCEPT !.pc = pc, !.pend = pend] \in Handler
  BY Zenon DEF Handler

(* ResolveImage moves the handler and sets its runtimeImage only.          *)
LEMMA PcImgTyped ==
  ASSUME main \in Handler, NEW pc \in Labels, NEW img \in BOOLEAN
  PROVE  /\ [main EXCEPT !.pc = pc, !.img = img] \in Handler
         /\ [main EXCEPT !.pc = pc, !.img = img].pc = pc
         /\ [main EXCEPT !.pc = pc, !.img = img].cur = main.cur
         /\ [main EXCEPT !.pc = pc, !.img = img].pend = main.pend
  BY Zenon DEF Handler

(* Entering and leaving Stop moves the handler and sets tgt only.          *)
LEMMA PcTgtTyped ==
  ASSUME main \in Handler, NEW pc \in Labels, NEW tgt \in Procs \cup {NoProc}
  PROVE  /\ [main EXCEPT !.pc = pc, !.tgt = tgt] \in Handler
         /\ [main EXCEPT !.pc = pc, !.tgt = tgt].pc = pc
         /\ [main EXCEPT !.pc = pc, !.tgt = tgt].tgt = tgt
         /\ [main EXCEPT !.pc = pc, !.tgt = tgt].cur = main.cur
         /\ [main EXCEPT !.pc = pc, !.tgt = tgt].pend = main.pend
  BY Zenon DEF Handler

(* A handler that begins is on its session, with nothing pending.          *)
LEMMA BeginTyped ==
  ASSUME NEW cmd \in Commands, NEW pc \in Labels, NEW s \in Sessions
  PROVE  /\ Begin(cmd, pc, s) \in Handler
         /\ Begin(cmd, pc, s).pc = pc
         /\ Begin(cmd, pc, s).cur = s
  BY IdleTyped, Zenon DEF Begin, Handler

(* Naming the worker to write to changes nothing else of the handler.      *)
LEMMA TgtTyped ==
  ASSUME NEW m \in Handler, NEW tgt \in Procs \cup {NoProc}
  PROVE  /\ [m EXCEPT !.tgt = tgt] \in Handler
         /\ [m EXCEPT !.tgt = tgt].pc = m.pc
         /\ [m EXCEPT !.tgt = tgt].cur = m.cur
         /\ [m EXCEPT !.tgt = tgt].tgt = tgt
  BY Zenon DEF Handler

(* Remembering previousState changes nothing else of the handler.          *)
LEMMA PrevTyped ==
  ASSUME NEW m \in Handler, NEW state \in States \cup {NoState}
  PROVE  /\ [m EXCEPT !.prev = state] \in Handler
         /\ [m EXCEPT !.prev = state].pc = m.pc
         /\ [m EXCEPT !.prev = state].cur = m.cur
  BY Zenon DEF Handler

(* Writing a State keeps the sessions typed.                               *)
LEMMA WriteTyped ==
  ASSUME sess \in SessType, NEW s \in Sessions,
         NEW state \in States \cup {NoState}, Write(s, state)
  PROVE  sess' \in SessType
  BY SMT DEF Write, SessType, Record

(* So do storing an image and forgetting or restoring a session.           *)
LEMMA RecordTyped ==
  ASSUME NEW f \in SessType, NEW s \in Sessions
  PROVE  /\ [f EXCEPT ![s].image = TRUE] \in SessType
         /\ [f EXCEPT ![s] = NoRecord] \in SessType
         /\ \A r \in Record : [f EXCEPT ![s] = r] \in SessType
         /\ [f[s] EXCEPT !.state = "restarting"] \in Record
  <1>1. f[s] \in Record
    BY DEF SessType
  <1>2. NoRecord \in Record
    BY DEF NoRecord, Record
  <1>3. [f[s] EXCEPT !.image = TRUE] \in Record
    BY <1>1, Zenon DEF Record
  <1>4. [f EXCEPT ![s].image = TRUE] \in SessType
    BY <1>3, SMT DEF SessType
  <1>5. [f[s] EXCEPT !.state = "restarting"] \in Record
    BY <1>1, SMT DEF Record, States
  <1> QED
    BY <1>2, <1>4, <1>5 DEF SessType

(* The statement of UpsertSession keeps the rows typed.                    *)
LEMMA UpsertTyped ==
  ASSUME sess \in SessType, row \in SessType, stale \subseteq Sessions,
         NEW s \in Sessions, NEW st \in States \cup {NoState},
         Upsert(s, st)
  PROVE  row' \in SessType /\ stale' \subseteq Sessions
  <1>1. [state |-> st, image |-> sess[s].image] \in Record
    BY DEF SessType, Record
  <1> QED
    BY <1>1, RecordTyped DEF Upsert

(* setSessionState keeps the sessions and the handler typed.               *)
LEMMA SetStateTyped ==
  ASSUME sess \in SessType, NEW next \in Handler, next.cur \in Sessions,
         NEW state \in States \cup {NoState}, SetState(state, next)
  PROVE  sess' \in SessType /\ main' \in Handler
  <1>1. sess' \in SessType
    BY WriteTyped DEF SetState
  <1>2. "unread" \in Pending
    BY DEF Pending
  <1>3. [next EXCEPT !.pend = "unread"] \in Handler
    BY <1>2, Zenon DEF Handler
  <1> QED
    BY <1>1, <1>3 DEF SetState
-----------------------------------------------------------------------------
(* Types.                                                                  *)

(* The end of the governor keeps every type.                               *)
LEMMA PowerOffTypes ==
  ASSUME IInv, PowerOff
  PROVE  TypeOK'
<1>1. left' \subseteq Sessions
  BY OutlivesAssumption DEF IInv, TypeOK, PowerOff
<1> QED
  BY <1>1, IdleTyped
     DEF IInv, PowerOff, TypeOK, ProcTypeOK, rows, NoRecord, Record, NoState

(* The end of ForwardInput, however it comes, keeps every type.            *)
LEMMA InputTypes ==
  ASSUME IInv, InputTaken \/ InputFails
  PROVE  TypeOK'
<1> USE DEF SessType, OnlyState, procVars, watchVars, rows, containers,
            durable, loop
<1>1. /\ TypeOK /\ main \in Handler /\ sess \in SessType
      /\ main.cur \in Sessions
  BY DEF IInv, TypeOK, ControlInv, HandlerInv, InputTaken, InputFails, At
<1>2. sess' \in SessType /\ main' \in Handler
  <2>1. CASE SetState("failed", [Goto("stop") EXCEPT !.tgt = NoProc])
    <3>1. Goto("stop") \in Handler /\ Goto("stop").cur = main.cur
      BY <1>1, GotoTyped DEF Labels
    <3>2. /\ [Goto("stop") EXCEPT !.tgt = NoProc] \in Handler
          /\ [Goto("stop") EXCEPT !.tgt = NoProc].cur = main.cur
      BY <3>1, Zenon DEF Handler
    <3>3. "failed" \in States \cup {NoState}
      BY DEF States
    <3> QED
      BY <1>1, <2>1, <3>2, <3>3, SetStateTyped
  <2>2. CASE main' = Idle /\ UNCHANGED sess
    BY <1>1, <2>2, IdleTyped
  <2> QED
    BY <2>1, <2>2 DEF InputTaken, InputFails
<1>3. OnlyState
  BY DEF InputTaken, InputFails
<1> QED
  BY <1>1, <1>2, <1>3 DEF TypeOK, ProcTypeOK

(* Every step of the main goroutine keeps every type.                      *)
LEMMA MainTypes ==
  ASSUME IInv, MainStep
  PROVE  TypeOK'
<1> USE DEF TypeOK, ProcTypeOK, SessType, procVars, watchVars, rows,
            containers, durable, loop, OnlyState
<1>1. /\ TypeOK
      /\ main.pc # "ready" \/ main.pend # NoState => main.cur \in Sessions
      /\ main.pc = "await" => main.tgt \in Procs
  BY DEF IInv, ControlInv, HandlerInv
<1>a. ASSUME NEW pc \in Labels
      PROVE  /\ Goto(pc) \in Handler
             /\ Goto(pc).cur = main.cur
  BY <1>1, GotoTyped
<1>b. /\ States \cup {NoState} \subseteq Pending
      /\ Idle \in Handler
  BY IdleTyped DEF Pending
<1>2. CASE MainRead
  <2>1. sess[main.cur].state \in Pending
    BY <1>1, <1>2, <1>b DEF MainRead, Record, NoState
  <2>2. main' \in Handler
    BY <1>1, <1>2, <2>1, PendTyped DEF MainRead
  <2> QED
    BY <1>1, <1>2, <2>2 DEF MainRead
<1>3. CASE MainUpsert
  <2>1. main' \in Handler
    BY <1>1, <1>3, <1>b, PendTyped DEF MainUpsert
  <2>2. main.pend \in States /\ main.cur \in Sessions
    BY <1>1, <1>3 DEF MainUpsert, NoState, States
  <2>3. row' \in SessType /\ stale' \subseteq Sessions
    BY <1>1, <1>3, <2>2, UpsertTyped DEF MainUpsert
  <2> QED
    BY <1>1, <1>3, <2>1, <2>3 DEF MainUpsert
<1>4. CASE Prepare
  <2>1. main.cur \in Sessions /\ "create" \in Labels
    BY <1>1, <1>4 DEF Prepare, At, Labels
  <2>2. main' \in Handler
    BY <1>4, <1>a, <1>b, <2>1 DEF Prepare
  <2>3. sess' \in SessType
    BY <1>1, <1>4, <2>1, WriteTyped DEF Prepare, States
  <2> QED
    BY <1>1, <1>4, <2>1, <2>2, <2>3 DEF Prepare
<1>5. CASE CreateRoom
  <2>1. main.cur \in Sessions /\ "register" \in Labels
    BY <1>1, <1>5 DEF CreateRoom, At, Labels
  <2>2. main' \in Handler
    BY <1>5, <1>a, <1>b, <2>1 DEF CreateRoom
  <2>3. sess' \in SessType
    BY <1>1, <1>5, <2>1, WriteTyped DEF CreateRoom, States
  <2>4. room' \in [Sessions -> {"none", "joined", "left"}]
    BY <1>1, <1>5 DEF CreateRoom
  <2> QED
    BY <1>1, <1>5, <2>2, <2>3, <2>4 DEF CreateRoom
<1>6. CASE Register
  <2>1. main.cur \in Sessions
    BY <1>1, <1>6 DEF Register, At
  <2>2. main' \in Handler
    BY <1>1, <1>6, PcPendTyped DEF Register, Labels, Pending
  <2> QED
    BY <1>1, <1>6, <2>1, <2>2 DEF Register
<1>7. CASE Starting
  <2>1. main.cur \in Sessions /\ "resolve" \in Labels
    BY <1>1, <1>7 DEF Starting, At, Labels
  <2>2. main' \in Handler /\ sess' \in SessType
    BY <1>1, <1>7, <1>a, <2>1, SetStateTyped DEF Starting, Return, States
  <2> QED
    BY <1>1, <1>7, <2>2 DEF Starting
<1>8. CASE ResolveImage
  <2>1. main.cur \in Sessions /\ {"launch", "ready"} \subseteq Labels
    BY <1>1, <1>8 DEF ResolveImage, At, Labels
  <2>2. CASE SetState("failed", Return)
    <3>1. main' \in Handler /\ sess' \in SessType
      BY <1>1, <1>a, <2>1, <2>2, SetStateTyped DEF Return, States
    <3> QED
      BY <1>1, <1>8, <3>1 DEF ResolveImage
  <2>3. CASE ~SetState("failed", Return)
    <3>1. sess' \in SessType
      <4>1. [sess EXCEPT ![main.cur].image = TRUE] \in SessType
        BY <1>1, <2>1, RecordTyped
      <4> QED
        BY <1>8, <2>3, <4>1 DEF ResolveImage
    <3>2. (main.cmd = "start" \/ sess[main.cur].image) \in BOOLEAN
      BY <1>1, <2>1 DEF Record
    <3>3. [main EXCEPT !.pc = "launch",
             !.img = (main.cmd = "start" \/ sess[main.cur].image)] \in Handler
      BY <1>1, <2>1, <3>2, PcImgTyped
    <3>4. main' \in Handler
      BY <1>8, <2>3, <3>3 DEF ResolveImage
    <3> QED
      BY <1>1, <1>8, <3>1, <3>4 DEF ResolveImage
  <2> QED
    BY <2>2, <2>3
<1>9. CASE LaunchWorker
  <2>1. main.cur \in Sessions /\ {"run", "ready"} \subseteq Labels
    BY <1>1, <1>9 DEF LaunchWorker, At, Labels
  <2>2. CASE SetState("failed", Return) /\ UNCHANGED <<procVars, bridge, watchVars, box>>
    <3>1. main' \in Handler /\ sess' \in SessType
      BY <1>1, <1>a, <2>1, <2>2, SetStateTyped DEF Return, States
    <3> QED
      BY <1>1, <1>9, <2>2, <3>1 DEF LaunchWorker
  <2>3. ASSUME NEW p \in Procs, Launch(p),
               bridge' = [bridge EXCEPT ![main.cur] = p],
               owner' = [owner EXCEPT ![p] = main.cur],
               watch' = [watch EXCEPT ![p] = "waiting"],
               snap' = [snap EXCEPT ![p] = NoState],
               severed' = severed \ {p},
               box' = IF Named(main.cur) THEN box ELSE box \cup {p},
               main' = Goto("run"), sess' = sess
        PROVE  TypeOK'
    <3>1. main' \in Handler
      BY <1>a, <2>1, <2>3
    <3>2. ProcTypeOK'
      BY <1>1, <2>3 DEF Launch
    <3> QED
      BY <1>1, <1>9, <2>1, <2>3, <3>1, <3>2 DEF LaunchWorker
  <2> QED
    BY <1>9, <2>2, <2>3 DEF LaunchWorker
<1>10. CASE Run
  <2>1. main.cur \in Sessions /\ "ready" \in Labels
    BY <1>1, <1>10 DEF Run, At, Labels
  <2>2. main' \in Handler /\ sess' \in SessType
    BY <1>1, <1>10, <1>a, <2>1, SetStateTyped DEF Run, Return, States
  <2> QED
    BY <1>1, <1>10, <2>2 DEF Run
<1>11. CASE Commit
  <2>1. main.cur \in Sessions /\ "ready" \in Labels /\ main.prev \in States \cup {NoState}
    BY <1>1, <1>11 DEF Commit, At, Labels, Handler
  <2>2. main' \in Handler /\ sess' \in SessType
    BY <1>1, <1>11, <1>a, <2>1, SetStateTyped DEF Commit, Return
  <2> QED
    BY <1>1, <1>11, <2>2 DEF Commit
<1>24. CASE InputFails
  BY <1>1, <1>24, InputTypes
<1>12. CASE StopWorker
  <2>1. main.cur \in Sessions /\ {"await", "resolve", "unbridge"} \subseteq Labels
    BY <1>1, <1>12 DEF StopWorker, At, Labels
  <2>2. AfterStop \in Labels /\ bridge[main.cur] \in Procs \cup {NoProc}
    BY <1>1, <2>1 DEF AfterStop
  <2>3. main' \in Handler
    <3>1. [main EXCEPT !.pc = "await", !.tgt = bridge[main.cur]] \in Handler
      BY <1>1, <2>1, <2>2, PcTgtTyped
    <3>2. Goto(AfterStop) \in Handler
      BY <1>a, <2>2
    <3> QED
      BY <1>12, <3>1, <3>2 DEF StopWorker
  <2>4. ProcTypeOK'
    BY <1>1, <1>12 DEF StopWorker, StopBegin
  <2> QED
    BY <1>1, <1>12, <2>4, <2>3 DEF StopWorker
<1>13. CASE AwaitStop
  <2>1. AfterStop \in Labels
    BY DEF AfterStop, Labels
  <2>2. main' \in Handler
    BY <1>1, <1>13, <2>1, PcTgtTyped DEF AwaitStop
  <2>3. ProcTypeOK'
    BY <1>1, <1>13 DEF AwaitStop, StopEnd
  <2> QED
    BY <1>1, <1>13, <2>2, <2>3 DEF AwaitStop
<1>14. CASE Unbridge
  <2>1. main.cur \in Sessions /\ "cleanup" \in Labels
    BY <1>1, <1>14 DEF Unbridge, At, Labels
  <2>2. main' \in Handler
    BY <1>14, <1>a, <1>b, <2>1 DEF Unbridge
  <2> QED
    BY <1>1, <1>14, <2>1, <2>2 DEF Unbridge
<1>15. CASE Cleanup
  <2>1. "forget" \in Labels
    BY DEF Labels
  <2>2. main' \in Handler
    BY <1>15, <1>a, <2>1 DEF Cleanup
  <2> QED
    BY <1>1, <1>15, <2>2 DEF Cleanup
<1>16. CASE Forget
  <2>1. main.cur \in Sessions /\ "delete" \in Labels
    BY <1>1, <1>16 DEF Forget, At, Labels
  <2>2. main' \in Handler
    BY <1>16, <1>a, <2>1 DEF Forget
  <2>3. sess' \in SessType
    BY <1>1, <1>16, <2>1, WriteTyped DEF Forget, States
  <2> QED
    BY <1>1, <1>16, <2>2, <2>3 DEF Forget
<1>17. CASE DeleteRow
  <2>1. main.cur \in Sessions /\ "archive" \in Labels
    BY <1>1, <1>17 DEF DeleteRow, At, Labels
  <2>2. main' \in Handler
    BY <1>17, <1>a, <2>1 DEF DeleteRow
  <2>3. /\ row' \in {row, [row EXCEPT ![main.cur] = NoRecord]}
        /\ stale' \subseteq stale
    BY <1>17 DEF DeleteRow
  <2>4. [row EXCEPT ![main.cur] = NoRecord] \in SessType
    BY <1>1, <2>1, RecordTyped
  <2>5. row' \in SessType
    BY <1>1, <2>3, <2>4
  <2> QED
    BY <1>1, <1>17, <2>2, <2>3, <2>5 DEF DeleteRow
<1>18. CASE Archive
  <2>1. room' \in [Sessions -> {"none", "joined", "left"}]
    BY <1>1, <1>18 DEF Archive
  <2> QED
    BY <1>1, <1>18, <1>b, <2>1 DEF Archive
<1>19. CASE ListRows \/ ListFails \/ BootDone
  BY <1>1, <1>19 DEF ListRows, ListFails, BootDone
<1>20. CASE BeginShutdown
  BY <1>1, <1>20 DEF BeginShutdown
<1>21. CASE JoinFails \/ Halt
  BY <1>21, PowerOffTypes DEF JoinFails, Halt
<1>22. CASE \E s \in Sessions : RestoreSession(s)
  <2> SUFFICES ASSUME NEW s \in Sessions, RestoreSession(s)
             PROVE  TypeOK'
    BY <1>22
  <2>1. sess' \in SessType
    <3>1. /\ [row[s] EXCEPT !.state = "restarting"] \in Record
          /\ \A r \in Record : [sess EXCEPT ![s] = r] \in SessType
          /\ row[s] \in Record
      BY <1>1, RecordTyped
    <3>2. sess' \in {[sess EXCEPT ![s] = row[s]],
                     [sess EXCEPT ![s] = [row[s] EXCEPT !.state = "restarting"]]}
      BY DEF RestoreSession
    <3> QED
      BY <3>1, <3>2
  <2>2. Begin("restart", "stop", s) \in Handler
    BY BeginTyped DEF Commands, Labels
  <2>3. [Begin("restart", "stop", s) EXCEPT !.pend = "unread"] \in Handler
    BY <2>2, PendTyped DEF Pending
  <2>4. main' \in Handler
    BY <1>1, <2>3 DEF RestoreSession
  <2> QED
    BY <1>1, <2>1, <2>4 DEF RestoreSession
<1>23. CASE \E s \in Sessions : ShutdownNext(s)
  <2> SUFFICES ASSUME NEW s \in Sessions, ShutdownNext(s)
             PROVE  TypeOK'
    BY <1>23
  <2>1. /\ Begin("exit", "stop", s) \in Handler
        /\ Begin("exit", "stop", s).cur = s
    BY BeginTyped DEF Commands, Labels
  <2>2. sess' \in SessType /\ main' \in Handler
    BY <1>1, <2>1, SetStateTyped DEF ShutdownNext, States
  <2> QED
    BY <1>1, <2>2 DEF ShutdownNext
<1> QED
  BY <1>2, <1>3, <1>4, <1>5, <1>6, <1>7, <1>8, <1>9, <1>10, <1>11, <1>12, <1>13, <1>14, <1>15, <1>16, <1>17, <1>18, <1>19, <1>20, <1>21, <1>22, <1>23, <1>24 DEF MainStep

(* The beginning of every command keeps every type.                        *)
LEMMA UserTypes ==
  ASSUME IInv, NEW s \in Sessions,
         \/ RecvStart(s) \/ RecvRestart(s) \/ RecvExit(s) \/ RecvInput(s)
         \/ RecvCommit(s)
  PROVE  TypeOK'
<1> USE DEF SessType, procVars, watchVars, rows, containers, durable, loop,
            OnlyState
<1>1. /\ TypeOK
      /\ sess \in SessType
      /\ sess[s].state \in States \cup {NoState}
  BY DEF IInv, TypeOK, Record
<1>2. ASSUME NEW cmd \in Commands, NEW pc \in Labels
      PROVE  Begin(cmd, pc, s) \in Handler /\ Begin(cmd, pc, s).cur = s
  BY BeginTyped
<1>3. /\ {"start", "restart", "exit", "input", "commit"} \subseteq Commands
      /\ {"prepare", "stop", "commit", "write"} \subseteq Labels
      /\ {"preparing_workspace", "restarting", "stopping", "failed",
          "committing"} \subseteq States
  BY DEF Commands, Labels, States
<1>4. sess' \in SessType /\ main' \in Handler
  <2>1. CASE RecvStart(s)
    BY <1>1, <1>2, <1>3, <2>1, WriteTyped DEF RecvStart, Begin
  <2>2. CASE RecvRestart(s)
    BY <1>1, <1>2, <1>3, <2>2, SetStateTyped DEF RecvRestart
  <2>3. CASE RecvExit(s)
    BY <1>1, <1>2, <1>3, <2>3, SetStateTyped DEF RecvExit
  <2>4. CASE RecvInput(s)
    <3>1. bridge[s] \in Procs \cup {NoProc}
      BY <1>1 DEF TypeOK
    <3>2. [Begin("input", "write", s) EXCEPT !.tgt = bridge[s]] \in Handler
      BY <1>2, <1>3, <3>1, TgtTyped
    <3> QED
      BY <1>1, <2>4, <3>2 DEF RecvInput
  <2>5. CASE RecvCommit(s)
    <3>1. /\ [Begin("commit", "commit", s)
                EXCEPT !.prev = sess[s].state] \in Handler
          /\ [Begin("commit", "commit", s)
                EXCEPT !.prev = sess[s].state].cur = s
      BY <1>1, <1>2, <1>3, PrevTyped
    <3> QED
      BY <1>1, <1>3, <2>5, <3>1, SetStateTyped DEF RecvCommit
  <2> QED
    BY <2>1, <2>2, <2>3, <2>4, <2>5
<1>5. OnlyState
  BY DEF RecvStart, RecvRestart, RecvExit, RecvInput, RecvCommit
<1> QED
  BY <1>1, <1>4, <1>5 DEF TypeOK, ProcTypeOK

(* Every step of an exit watcher keeps every type.                         *)
LEMMA WatchTypes ==
  ASSUME IInv, NEW p \in Procs, WatchStep(p)
  PROVE  TypeOK'
<1> USE DEF TypeOK, ProcTypeOK, SessType, procVars, rows, containers, durable,
            loop
<1>1. /\ TypeOK
      /\ watch[p] # "none" => owner[p] \in Sessions
  BY DEF IInv, ControlInv, WatcherInv
<1>2. CASE WatchReceive(p)
  BY <1>1, <1>2 DEF WatchReceive, ReceiveExit
<1>3. CASE WatchCheck(p)
  BY <1>1, <1>3 DEF WatchCheck
<1>4. CASE WatchUnbridge(p)
  BY <1>1, <1>4 DEF WatchUnbridge
<1>5. CASE WatchSetState(p)
  <2>1. sess' \in SessType
    BY <1>1, <1>5, WriteTyped DEF WatchSetState, States
  <2> QED
    BY <1>1, <1>5, <2>1 DEF WatchSetState
<1>6. CASE WatchRead(p)
  <2>1. sess[owner[p]].state \in States \cup {NoState}
    BY <1>1, <1>6 DEF WatchRead, Record
  <2> QED
    BY <1>1, <1>6, <2>1 DEF WatchRead
<1>7. CASE WatchUpsert(p)
  <2>1. owner[p] \in Sessions
    BY <1>1, <1>7 DEF WatchUpsert
  <2>2. row' \in SessType /\ stale' \subseteq Sessions
    BY <1>1, <1>7, <2>1, UpsertTyped DEF WatchUpsert
  <2> QED
    BY <1>1, <1>7, <2>2 DEF WatchUpsert
<1> QED
  BY <1>2, <1>3, <1>4, <1>5, <1>6, <1>7 DEF WatchStep

(* So do the start, the signal, the crash, and the workers' ends.          *)
LEMMA WorldTypes ==
  ASSUME IInv,
         \/ Operator \/ \E p \in Procs : Exit(p) \/ Escalate(p)
         \/ \E s \in Sessions : LeftEnds(s)
  PROVE  TypeOK'
<1> USE DEF procVars, watchVars, rows, containers, durable, loop
<1>1. TypeOK /\ \A p \in Procs : watch[p] # "none" => owner[p] \in Sessions
  BY DEF IInv, ControlInv, WatcherInv
<1>2. CASE Boot
  BY <1>1, <1>2 DEF TypeOK, ProcTypeOK, Boot
<1>3. CASE Sigterm
  BY <1>1, <1>3 DEF TypeOK, ProcTypeOK, Sigterm
<1>4. CASE Crash
  BY <1>4, PowerOffTypes DEF Crash
<1>5. CASE \E p \in Procs : Exit(p)
  <2>1. left' \subseteq Sessions
    BY <1>1, <1>5, OutlivesAssumption DEF Exit, TypeOK
  <2> QED
    BY <1>1, <1>5, <2>1 DEF TypeOK, ProcTypeOK, Exit, Reap, ExitStatus
<1>6. CASE \E p \in Procs : Escalate(p)
  BY <1>1, <1>6 DEF TypeOK, ProcTypeOK, Escalate, StopEscalate
<1>7. CASE \E s \in Sessions : LeftEnds(s)
  BY <1>1, <1>7 DEF TypeOK, ProcTypeOK, LeftEnds
<1> QED
  BY <1>2, <1>3, <1>4, <1>5, <1>6, <1>7 DEF Operator

(* Every step keeps every type.                                            *)
LEMMA TypeStep ==
  ASSUME IInv, [Next]_vars
  PROVE  TypeOK'
<1>1. CASE UNCHANGED vars
  BY <1>1 DEF IInv, TypeOK, ProcTypeOK, vars, procVars, watchVars, rows,
              containers, durable, loop
<1> QED
  BY <1>1, MainTypes, InputTypes, UserTypes, WatchTypes, WorldTypes
     DEF Next, User
-----------------------------------------------------------------------------
(* Control.                                                                *)

(* What is said of workers and bridges holds on if these do not change.    *)
LEMMA WorkersKept ==
  ASSUME IInv, UNCHANGED <<proc, owner, watch, severed, bridge>>
  PROVE  WatcherInv' /\ BridgeWatched' /\ LiveWorkerReachable'
  BY DEF IInv, ControlInv, WatcherInv, BridgeWatched, LiveWorkerReachable,
         Dead

(* Setting a State changes no image.                                       *)
LEMMA WriteKeepsImage ==
  ASSUME sess \in SessType, NEW s, NEW state, Write(s, state),
         NEW t \in Sessions
  PROVE  sess'[t].image = sess[t].image
  BY SMT DEF Write, SessType, Record

(* setSessionState takes the handler where it is told, on its session.     *)
LEMMA SetStateMoves ==
  ASSUME sess \in SessType, NEW next \in Handler, NEW state,
         SetState(state, next)
  PROVE  /\ main'.pc = next.pc
         /\ main'.cur = next.cur
         /\ main'.tgt = next.tgt
         /\ \A t \in Sessions : sess'[t].image = sess[t].image
  BY PendTyped, WriteKeepsImage DEF SetState, Pending

(* A step of a handler that leaves the workers and the bridges alone keeps *)
(* ControlInv if it goes where no worker, or an image, is asked for, or    *)
(* where they are already known to be gone, or there.                      *)
LEMMA QuietStep ==
  ASSUME IInv,
         UNCHANGED <<procVars, bridge, owner, watch, severed>>,
         \A t \in Sessions : sess[t].image => sess'[t].image,
         main.pc # "await", main'.pc # "await",
         main'.pc = "write" => main'.tgt \in Procs,
         main'.pc # "ready" \/ main'.pend # NoState => main'.cur \in Sessions,
         GoneInv',
         main'.pc = "launch" => sess'[main'.cur].image,
         BootInv'
  PROVE  ControlInv'
<1>1. WatcherInv' /\ BridgeWatched' /\ LiveWorkerReachable'
  BY WorkersKept DEF procVars
<1>2. HandlerInv' /\ HandleInv' /\ ImageInv'
  BY DEF IInv, ControlInv, HandlerInv, HandleInv, ImageInv, procVars, Dead
<1> QED
  BY <1>1, <1>2 DEF ControlInv

(* The same for the steps within a handler: it keeps its session.          *)
LEMMA HandlerStep ==
  ASSUME IInv,
         UNCHANGED <<procVars, bridge, owner, watch, severed, mode, todo>>,
         \A t \in Sessions : sess[t].image => sess'[t].image,
         main.pc \notin {"ready", "await"}, main'.pc \notin {"await", "write"},
         \/ main'.cur = main.cur
         \/ main'.pc = "ready" /\ main'.pend = NoState,
         main'.pc \in {"prepare", "create", "register", "starting",
                       "resolve", "launch", "unbridge", "cleanup", "forget",
                       "delete"} => WorkerGone,
         main'.pc = "launch" => sess'[main'.cur].image
  PROVE  ControlInv'
<1>1. main.cur \in Sessions
  BY DEF IInv, ControlInv, HandlerInv
<1>2. GoneInv'
  BY DEF GoneInv, WorkerGone, procVars
<1>3. BootInv'
  BY DEF IInv, ControlInv, BootInv
<1> QED
  BY <1>1, <1>2, <1>3, QuietStep

(* A governor that is down satisfies ControlInv.                           *)
LEMMA PowerOffControl ==
  ASSUME IInv, PowerOff
  PROVE  ControlInv'
<1> USE DEF PowerOff, Idle
<1>1. HandlerInv' /\ HandleInv' /\ WatcherInv' /\ GoneInv'
  BY DEF HandlerInv, HandleInv, WatcherInv, GoneInv, Dead, ExitStatus
<1>2. ImageInv' /\ BootInv' /\ BridgeWatched' /\ LiveWorkerReachable'
  BY DEF ImageInv, BootInv, BridgeWatched, LiveWorkerReachable
<1> QED
  BY <1>1, <1>2 DEF ControlInv

(* The end of ForwardInput, however it comes, keeps ControlInv.            *)
LEMMA InputControl ==
  ASSUME IInv, InputTaken \/ InputFails
  PROVE  ControlInv'
<1>1. /\ main \in Handler /\ sess \in SessType /\ main.pc = "write"
      /\ UNCHANGED <<procVars, bridge, watchVars, loop>>
  BY DEF IInv, TypeOK, SessType, InputTaken, InputFails, At, OnlyState
<1>2. \/ main'.pc = "stop" /\ main'.cur = main.cur
      \/ main'.pc = "ready" /\ main'.pend = NoState
  <2>1. CASE SetState("failed", [Goto("stop") EXCEPT !.tgt = NoProc])
    <3>1. Goto("stop").pc = "stop" /\ Goto("stop").cur = main.cur
          /\ Goto("stop") \in Handler
      BY <1>1, GotoTyped DEF Labels
    <3>2. LET m == [Goto("stop") EXCEPT !.tgt = NoProc]
          IN  m \in Handler /\ m.pc = "stop" /\ m.cur = main.cur
      BY <3>1, TgtTyped
    <3> QED
      BY <1>1, <2>1, <3>2, SetStateMoves
  <2> QED
    BY <2>1 DEF InputTaken, InputFails, Idle
<1>3. \A t \in Sessions : sess'[t].image = sess[t].image
  BY <1>1, WriteKeepsImage DEF InputTaken, InputFails, SetState
<1> QED
  BY <1>1, <1>2, <1>3, HandlerStep DEF watchVars, loop

(* Every step of the main goroutine keeps ControlInv.                      *)
LEMMA MainControl ==
  ASSUME IInv, MainStep
  PROVE  ControlInv'
<1> USE DEF OnlyState
<1>1. /\ main \in Handler
      /\ sess \in SessType
      /\ HandlerInv /\ HandleInv /\ WatcherInv /\ GoneInv /\ ImageInv
      /\ BootInv /\ BridgeWatched /\ LiveWorkerReachable
  BY DEF IInv, TypeOK, ControlInv, SessType
<1>g. ASSUME NEW pc \in Labels
      PROVE  /\ Goto(pc).pc = pc
             /\ Goto(pc).cur = main.cur
             /\ Goto(pc) \in Handler
  BY <1>1, GotoTyped
<1>i. Idle.pc = "ready" /\ Idle.pend = NoState
  BY DEF Idle
<1>w. ASSUME NEW s, NEW state, Write(s, state), NEW t \in Sessions
      PROVE  sess'[t].image = sess[t].image
  BY <1>1, <1>w, WriteKeepsImage
<1>s. ASSUME NEW next \in Handler, NEW state, SetState(state, next)
      PROVE  /\ main'.pc = next.pc
             /\ main'.cur = next.cur
             /\ \A t \in Sessions : sess'[t].image = sess[t].image
  BY <1>1, <1>s, SetStateMoves
<1>24. CASE InputFails
  BY <1>24, InputControl
<1>2. CASE MainRead
  BY <1>1, <1>2, NoProcAssumption, SMTT(20)
     DEF MainRead, IInv, ControlInv, TypeOK, HandlerInv, HandleInv,
         WatcherInv, GoneInv, WorkerGone, ImageInv, BootInv, BridgeWatched,
         LiveWorkerReachable, NoState, Dead, Handler, procVars, watchVars,
         loop
<1>3. CASE MainUpsert
  BY <1>1, <1>3, NoProcAssumption, SMTT(20)
     DEF MainUpsert, IInv, ControlInv, TypeOK, HandlerInv, HandleInv,
         WatcherInv, GoneInv, WorkerGone, ImageInv, BootInv, BridgeWatched,
         LiveWorkerReachable, NoState, Idle, Dead, procVars, watchVars, loop
<1>4. CASE Prepare
  BY <1>1, <1>4, <1>g, <1>i, <1>w, HandlerStep
     DEF Prepare, At, GoneInv, Labels, watchVars, loop
<1>5. CASE CreateRoom
  BY <1>1, <1>5, <1>g, <1>i, <1>w, HandlerStep
     DEF CreateRoom, At, GoneInv, Labels, watchVars, loop
<1>6. CASE Register
  <2>1. main'.pc = "starting" /\ main'.cur = main.cur
    BY <1>1, <1>6, Zenon DEF Register, Handler
  <2> QED
    BY <1>1, <1>6, <2>1, HandlerStep DEF Register, At, GoneInv, watchVars, loop
<1>7. CASE Starting
  BY <1>1, <1>7, <1>g, <1>s, HandlerStep
     DEF Starting, At, GoneInv, Labels, watchVars, loop
<1>8. CASE ResolveImage
  <2>1. CASE SetState("failed", Return)
    BY <1>1, <1>8, <1>g, <1>s, <2>1, HandlerStep
       DEF ResolveImage, Return, At, Labels, watchVars, loop
  <2>2. CASE ~SetState("failed", Return)
    <3>1. main'.pc = "launch" /\ main'.cur = main.cur
      <4>1. main' = [main EXCEPT !.pc = "launch",
                       !.img = (main.cmd = "start" \/ sess[main.cur].image)]
        BY <1>8, <2>2 DEF ResolveImage
      <4> QED
        BY <1>1, <4>1, Zenon DEF Handler
    <3>2. sess' = [sess EXCEPT ![main.cur].image = TRUE]
      BY <1>8, <2>2 DEF ResolveImage
    <3>3. main.cur \in Sessions
      BY <1>1, <1>8 DEF HandlerInv, ResolveImage, At
    <3>4. \A t \in Sessions : sess[t].image => sess'[t].image
      BY <1>1, <3>2 DEF SessType, Record
    <3>5. sess'[main.cur].image
      BY <1>1, <3>2, <3>3 DEF SessType, Record
    <3> QED
      BY <1>1, <1>8, <3>1, <3>4, <3>5, HandlerStep
         DEF ResolveImage, At, GoneInv, watchVars, loop
  <2> QED
    BY <2>1, <2>2
<1>9. CASE LaunchWorker
  <2>1. main.cur \in Sessions /\ main.pc = "launch"
    BY <1>1, <1>9 DEF LaunchWorker, At, HandlerInv
  <2>2. CASE SetState("failed", Return) /\ UNCHANGED <<procVars, bridge, watchVars, box>>
    BY <1>1, <1>9, <1>g, <1>s, <2>2, HandlerStep
       DEF LaunchWorker, Return, At, Labels, watchVars, loop
  <2>3. ASSUME NEW p \in Procs, Free(p), Launch(p),
               bridge' = [bridge EXCEPT ![main.cur] = p],
               owner' = [owner EXCEPT ![p] = main.cur],
               watch' = [watch EXCEPT ![p] = "waiting"],
               severed' = severed \ {p},
               main' = Goto("run"), sess' = sess, UNCHANGED <<mode, todo>>
        PROVE  ControlInv'
    <3>1. /\ main'.pc = "run"
          /\ main'.cur = main.cur
      BY <1>g, <2>3 DEF Labels
    <3>2. /\ \A q \in Procs \ {p} : /\ proc'[q] = proc[q]
                                    /\ done'[q] = done[q]
                                    /\ stop'[q] = stop[q]
                                    /\ owner'[q] = owner[q]
                                    /\ watch'[q] = watch[q]
          /\ proc'[p] = "alive" /\ done'[p] = "empty" /\ stop'[p] = "none"
          /\ owner'[p] = main.cur /\ watch'[p] = "waiting"
          /\ bridge'[main.cur] = p
          /\ \A s \in Sessions \ {main.cur} : bridge'[s] = bridge[s]
      BY <2>1, <2>3 DEF Launch, IInv, TypeOK, ProcTypeOK
    <3>3. HandlerInv' /\ GoneInv'
      BY <2>1, <3>1 DEF HandlerInv, GoneInv
    <3>4. HandleInv'
      BY <1>1, <2>1, <3>1, <3>2 DEF HandleInv, Dead, ExitStatus
    <3>5. WatcherInv'
      BY <1>1, <2>1, <3>2 DEF WatcherInv, Dead, ExitStatus
    <3>6. ImageInv' /\ BootInv'
      BY <1>1, <2>1, <2>3, <3>1, <3>2 DEF ImageInv, BootInv
    <3>7. BridgeWatched'
      <4>1. \A s \in Sessions \ {main.cur} : bridge'[s] = bridge[s] /\ bridge[s] # p
        BY <2>3, <3>2 DEF Free
      <4>2. \A s \in Sessions : bridge[s] \in Procs \cup {NoProc}
        BY DEF IInv, TypeOK
      <4>3. SUFFICES ASSUME NEW s \in Sessions, bridge'[s] # NoProc
                     PROVE  /\ owner'[bridge'[s]] = s
                            /\ \/ proc'[bridge'[s]] \in ExitStatus
                               \/ watch'[bridge'[s]] = "waiting"
        BY DEF BridgeWatched, Dead
      <4>4. CASE s = main.cur
        BY <3>2, <4>4
      <4>5. CASE s # main.cur
        BY <1>1, <3>2, <4>1, <4>2, <4>3, <4>5 DEF BridgeWatched, Dead
      <4> QED
        BY <4>4, <4>5
    <3>8. LiveWorkerReachable'
      <4>1. WorkerGone
        BY <1>1, <2>1 DEF GoneInv
      <4>2. SUFFICES ASSUME NEW q \in Procs, q # p, proc'[q] = "alive",
                            q \notin severed'
                     PROVE  bridge'[owner'[q]] = q
        BY <3>2 DEF LiveWorkerReachable
      <4>3. bridge[owner[q]] = q /\ owner[q] \in Sessions
        BY <1>1, <2>3, <3>2, <4>2 DEF LiveWorkerReachable, WatcherInv
      <4>4. owner[q] # main.cur
        BY <3>2, <4>1, <4>2, <4>3, NoProcAssumption DEF WorkerGone
      <4> QED
        BY <3>2, <4>2, <4>3, <4>4
    <3> QED
      BY <3>3, <3>4, <3>5, <3>6, <3>7, <3>8 DEF ControlInv
  <2> QED
    BY <1>9, <2>2, <2>3 DEF LaunchWorker, loop
<1>10. CASE Run
  BY <1>1, <1>10, <1>g, <1>s, HandlerStep
     DEF Run, Return, At, Labels, watchVars, loop
<1>11. CASE Commit
  BY <1>1, <1>11, <1>g, <1>s, HandlerStep
     DEF Commit, Return, At, Labels, watchVars, loop
<1>12. CASE StopWorker
  <2>1. main.cur \in Sessions /\ main.pc = "stop"
    BY <1>1, <1>12 DEF StopWorker, At, HandlerInv
  <2>2. AfterStop \in {"resolve", "unbridge"}
    BY DEF AfterStop
  <2>3. CASE bridge[main.cur] # NoProc /\ stop[bridge[main.cur]] = "none"
    <3>1. PICK p \in Procs : p = bridge[main.cur]
      BY <2>1, <2>3 DEF IInv, TypeOK
    <3>2. /\ main'.pc = "await" /\ main'.tgt = p /\ main'.cur = main.cur
      <4>1. main' = [main EXCEPT !.pc = "await", !.tgt = p]
        BY <1>12, <2>3, <3>1 DEF StopWorker
      <4> QED
        BY <1>1, <4>1, Zenon DEF Handler
    <3>3. /\ StopBegin(p)
          /\ UNCHANGED <<proc, done, sess, bridge, watchVars, loop>>
      BY <1>12, <2>3, <3>1 DEF StopWorker, StopBegin
    <3>4. WatcherInv' /\ BridgeWatched' /\ LiveWorkerReachable'
      BY <3>3, WorkersKept DEF watchVars
    <3>5. HandlerInv' /\ GoneInv' /\ ImageInv' /\ BootInv'
      BY <1>1, <2>1, <3>1, <3>2, <3>3
         DEF HandlerInv, GoneInv, ImageInv, BootInv, loop
    <3>6. HandleInv'
      BY <1>1, <2>1, <3>2, <3>3
         DEF HandleInv, StopBegin, Dead, IInv, TypeOK, ProcTypeOK
    <3> QED
      BY <3>4, <3>5, <3>6 DEF ControlInv
  <2>4. CASE ~(bridge[main.cur] # NoProc /\ stop[bridge[main.cur]] = "none")
    <3>1. main' = Goto(AfterStop) /\ UNCHANGED procVars
      BY <1>12, <2>4 DEF StopWorker
    <3>2. WorkerGone
      BY <1>1, <2>1, <2>4
         DEF WorkerGone, HandleInv, Dead, ExitStatus, IInv, TypeOK, ProcTypeOK
    <3> QED
      BY <1>12, <1>g, <2>1, <2>2, <3>1, <3>2, HandlerStep
         DEF StopWorker, Labels, watchVars, loop
  <2> QED
    BY <2>3, <2>4
<1>13. CASE AwaitStop
  <2>1. PICK p \in Procs : p = main.tgt
    BY <1>1, <1>13 DEF AwaitStop, At, HandlerInv
  <2>2. /\ main.cur \in Sessions /\ main.pc = "await"
        /\ bridge[main.cur] \in {NoProc, p}
    BY <1>1, <1>13, <2>1 DEF AwaitStop, At, HandlerInv
  <2>3. /\ main'.pc \in {"resolve", "unbridge"}
        /\ main'.cur = main.cur
    <3>1. main' = [main EXCEPT !.pc = AfterStop, !.tgt = NoProc]
      BY <1>13 DEF AwaitStop
    <3>2. main'.pc = AfterStop /\ main'.cur = main.cur
      BY <1>1, <3>1, Zenon DEF Handler
    <3> QED
      BY <3>2 DEF AfterStop
  <2>4. /\ StopEnd(p)
        /\ UNCHANGED <<proc, sess, bridge, watchVars, loop>>
    BY <1>13, <2>1 DEF AwaitStop, StopEnd
  <2>5. WatcherInv' /\ BridgeWatched' /\ LiveWorkerReachable'
    BY <2>4, WorkersKept DEF watchVars
  <2>6. HandleInv' /\ Dead(p)
    BY <1>1, <2>1, <2>4
       DEF HandleInv, StopEnd, Dead, IInv, TypeOK, ProcTypeOK
  <2>7. GoneInv'
    BY <2>2, <2>3, <2>4, <2>6 DEF GoneInv, WorkerGone, Dead, ExitStatus
  <2>8. HandlerInv' /\ ImageInv' /\ BootInv'
    BY <1>1, <2>2, <2>3, <2>4 DEF HandlerInv, ImageInv, BootInv, loop
  <2> QED
    BY <2>5, <2>6, <2>7, <2>8 DEF ControlInv
<1>14. CASE Unbridge
  <2>1. main.cur \in Sessions /\ main.pc = "unbridge"
    BY <1>1, <1>14 DEF Unbridge, At, HandlerInv
  <2>2. \/ main'.pc = "cleanup" /\ main'.cur = main.cur
        \/ main'.pc = "ready" /\ main'.pend = NoState
    BY <1>14, <1>g, <1>i DEF Unbridge, Labels
  <2>3. /\ bridge' = [bridge EXCEPT ![main.cur] = NoProc]
        /\ UNCHANGED <<procVars, sess, watchVars, loop>>
    BY <1>14 DEF Unbridge
  <2>4. HandlerInv' /\ HandleInv' /\ WatcherInv' /\ GoneInv'
    BY <1>1, <2>1, <2>2, <2>3
       DEF HandlerInv, HandleInv, WatcherInv, GoneInv, WorkerGone, Dead,
           procVars, watchVars, IInv, TypeOK
  <2>5. ImageInv' /\ BootInv' /\ BridgeWatched'
    BY <1>1, <2>1, <2>2, <2>3
       DEF ImageInv, BootInv, BridgeWatched, Dead, procVars, watchVars, loop,
           IInv, TypeOK
  <2>6. LiveWorkerReachable'
    <3>1. WorkerGone
      BY <1>1, <2>1 DEF GoneInv
    <3> QED
      BY <1>1, <2>1, <2>3, <3>1, NoProcAssumption
         DEF LiveWorkerReachable, WorkerGone, WatcherInv, procVars, watchVars,
             IInv, TypeOK
  <2> QED
    BY <2>4, <2>5, <2>6 DEF ControlInv
<1>15. CASE Cleanup
  BY <1>1, <1>15, <1>g, HandlerStep
     DEF Cleanup, At, GoneInv, Labels, watchVars, loop
<1>16. CASE Forget
  BY <1>1, <1>16, <1>g, <1>w, HandlerStep
     DEF Forget, At, GoneInv, Labels, watchVars, loop
<1>17. CASE DeleteRow
  BY <1>1, <1>17, <1>g, HandlerStep
     DEF DeleteRow, At, GoneInv, Labels, watchVars, loop
<1>18. CASE Archive
  BY <1>1, <1>18, <1>i, HandlerStep DEF Archive, At, watchVars, loop
<1>19. CASE ListRows \/ ListFails \/ BootDone
  BY <1>1, <1>19, QuietStep
     DEF ListRows, ListFails, Unlisted, BootDone, Ready, At, HandlerInv,
         GoneInv, BootInv, watchVars
<1>20. CASE BeginShutdown
  BY <1>1, <1>20, QuietStep
     DEF BeginShutdown, Ready, At, HandlerInv, GoneInv, BootInv, watchVars
<1>21. CASE JoinFails \/ Halt
  BY <1>21, PowerOffControl DEF JoinFails, Halt
<1>22. CASE \E s \in Sessions : RestoreSession(s)
  <2>1. PICK s \in Sessions : RestoreSession(s)
    BY <1>22
  <2>2. /\ mode = "boot" /\ mode' = "boot" /\ main.pc = "ready"
        /\ s \in todo /\ todo' = todo \ {s} /\ main.pend = NoState
        /\ UNCHANGED <<procVars, bridge, owner, watch, severed>>
    BY <2>1 DEF RestoreSession, Ready, At, watchVars
  <2>3. \/ main' = main
        \/ main'.pc = "stop" /\ main'.cur = s
    <3>1. /\ Begin("restart", "stop", s) \in Handler
          /\ Begin("restart", "stop", s).pc = "stop"
          /\ Begin("restart", "stop", s).cur = s
      BY BeginTyped DEF Commands, Labels
    <3>2. LET m == [Begin("restart", "stop", s) EXCEPT !.pend = "unread"]
          IN  m.pc = "stop" /\ m.cur = s
      BY <3>1, PendTyped DEF Pending
    <3> QED
      BY <2>1, <3>2 DEF RestoreSession
  <2>4. bridge[s] = NoProc
    BY <1>1, <2>2 DEF BootInv
  <2>5. \A t \in Sessions \ {s} : sess'[t] = sess[t]
    BY <1>1, <2>1 DEF RestoreSession, SessType
  <2>6. WatcherInv' /\ BridgeWatched' /\ LiveWorkerReachable'
    BY <2>2, WorkersKept DEF procVars
  <2>7. HandlerInv' /\ HandleInv' /\ GoneInv' /\ ImageInv' /\ BootInv'
    BY <1>1, <2>2, <2>3, <2>4, <2>5
       DEF HandlerInv, HandleInv, GoneInv, ImageInv, BootInv, Dead, procVars
  <2> QED
    BY <2>6, <2>7 DEF ControlInv
<1>23. CASE \E s \in Sessions : ShutdownNext(s)
  <2>1. PICK s \in Sessions : ShutdownNext(s)
    BY <1>23
  <2>2. main'.pc = "stop" /\ main'.cur = s
    BY <1>s, <2>1, BeginTyped DEF ShutdownNext, Commands, Labels
  <2>3. \A t \in Sessions : sess'[t].image = sess[t].image
    BY <1>s, <2>1, BeginTyped DEF ShutdownNext, Commands, Labels
  <2> QED
    BY <1>1, <2>1, <2>2, <2>3, QuietStep
       DEF ShutdownNext, Ready, At, GoneInv, BootInv, watchVars
<1> QED
  BY <1>2, <1>3, <1>4, <1>5, <1>6, <1>7, <1>8, <1>9, <1>10, <1>11, <1>12,
     <1>13, <1>14, <1>15, <1>16, <1>17, <1>18, <1>19, <1>20, <1>21, <1>22,
     <1>23, <1>24 DEF MainStep

(* The beginning of every command keeps ControlInv.                        *)
LEMMA UserControl ==
  ASSUME IInv, NEW s \in Sessions,
         \/ RecvStart(s) \/ RecvRestart(s) \/ RecvExit(s) \/ RecvInput(s)
         \/ RecvCommit(s)
  PROVE  ControlInv'
<1>1. /\ sess \in SessType
      /\ ImageInv /\ BootInv
  BY DEF IInv, TypeOK, ControlInv, SessType
<1>2. /\ main.pc = "ready" /\ mode = "serve"
      /\ OnlyState
  BY DEF RecvStart, RecvRestart, RecvExit, RecvInput, RecvCommit, Addressed,
         Serving, Ready, At
<1>3. \A t \in Sessions : sess'[t].image = sess[t].image
  BY <1>1, WriteKeepsImage
     DEF RecvStart, RecvRestart, RecvExit, RecvInput, RecvCommit, SetState
<1>4. ASSUME NEW cmd \in Commands, NEW pc \in Labels
      PROVE  /\ Begin(cmd, pc, s) \in Handler
             /\ Begin(cmd, pc, s).pc = pc
             /\ Begin(cmd, pc, s).cur = s
  BY BeginTyped
<1>5. /\ main'.cur = s
      /\ \/ main'.pc = "prepare" /\ Fresh(s)
         \/ main'.pc \in {"stop", "commit"}
         \/ main'.pc = "write" /\ main'.tgt \in Procs
  <2>1. CASE RecvStart(s)
    BY <1>4, <2>1 DEF RecvStart, Begin, Commands, Labels
  <2>2. CASE RecvRestart(s)
    BY <1>1, <1>4, <2>2, SetStateMoves DEF RecvRestart, Commands, Labels
  <2>3. CASE RecvExit(s)
    BY <1>1, <1>4, <2>3, SetStateMoves DEF RecvExit, Commands, Labels
  <2>4. CASE RecvInput(s)
    <3>1. bridge[s] \in Procs
      BY <2>4 DEF RecvInput, IInv, TypeOK
    <3>2. LET m == [Begin("input", "write", s) EXCEPT !.tgt = bridge[s]]
          IN  m.pc = "write" /\ m.cur = s /\ m.tgt = bridge[s]
      BY <1>4, <3>1, TgtTyped DEF Commands, Labels
    <3> QED
      BY <2>4, <3>1, <3>2 DEF RecvInput
  <2>5. CASE RecvCommit(s)
    <3>1. sess[s].state \in States \cup {NoState}
      BY <1>1 DEF SessType, Record
    <3>2. LET m == [Begin("commit", "commit", s)
                      EXCEPT !.prev = sess[s].state]
          IN  m \in Handler /\ m.pc = "commit" /\ m.cur = s
      <4>1. /\ Begin("commit", "commit", s) \in Handler
            /\ Begin("commit", "commit", s).pc = "commit"
            /\ Begin("commit", "commit", s).cur = s
        BY <1>4 DEF Commands, Labels
      <4> QED
        BY <3>1, <4>1, PrevTyped
    <3> QED
      BY <1>1, <2>5, <3>2, SetStateMoves DEF RecvCommit
  <2> QED
    BY <2>1, <2>2, <2>3, <2>4, <2>5
<1>6. GoneInv'
  <2>1. Fresh(s) => bridge[s] = NoProc
    BY <1>1 DEF Fresh, ImageInv, NoRecord
  <2> QED
    BY <1>2, <1>5, <2>1 DEF GoneInv, WorkerGone, OnlyState
<1>7. BootInv'
  BY <1>1, <1>2 DEF BootInv, OnlyState, loop
<1> QED
  BY <1>2, <1>3, <1>5, <1>6, <1>7, QuietStep DEF OnlyState, watchVars

(* Every step of an exit watcher keeps ControlInv.                         *)
LEMMA WatchControl ==
  ASSUME IInv, NEW p \in Procs, WatchStep(p)
  PROVE  ControlInv'
<1>1. /\ TypeOK /\ ProcTypeOK /\ sess \in SessType
      /\ HandlerInv /\ HandleInv /\ WatcherInv /\ GoneInv /\ ImageInv
      /\ BootInv /\ BridgeWatched /\ LiveWorkerReachable
  BY DEF IInv, TypeOK, ControlInv, SessType
<1>2. UNCHANGED <<main, proc, stop, owner, mode, todo>>
  BY DEF WatchStep, WatchReceive, WatchCheck, WatchUnbridge, WatchSetState,
         WatchRead, WatchUpsert, ReceiveExit, procVars, loop
<1>3. \A t \in Sessions : sess'[t].image = sess[t].image
  BY <1>1, WriteKeepsImage
     DEF WatchStep, WatchReceive, WatchCheck, WatchUnbridge, WatchSetState,
         WatchRead, WatchUpsert
<1>4. Dead(p) /\ watch[p] # "none" /\ owner[p] \in Sessions
  BY <1>1 DEF WatchStep, WatchReceive, WatchCheck, WatchUnbridge,
              WatchSetState, WatchRead, WatchUpsert, ReceiveExit, HandleInv,
              WatcherInv
<1>5. /\ watch'[p] \notin {"none", "waiting"}
      /\ \A q \in Procs \ {p} : watch'[q] = watch[q] /\ done'[q] = done[q]
      /\ done'[p] # "empty"
  BY <1>1, <1>4
     DEF WatchStep, WatchReceive, WatchCheck, WatchUnbridge, WatchSetState,
         WatchRead, WatchUpsert, ReceiveExit, HandleInv, TypeOK, ProcTypeOK,
         procVars
<1>6. /\ \/ bridge' = bridge /\ severed' = severed
         \/ /\ bridge' = [bridge EXCEPT ![owner[p]] = NoProc]
            /\ severed' = severed \cup ({bridge[owner[p]]} \ {p, NoProc})
  BY DEF WatchStep, WatchReceive, WatchCheck, WatchUnbridge, WatchSetState,
         WatchRead, WatchUpsert
<1>7. /\ severed \subseteq severed'
      /\ \A t \in Sessions : bridge'[t] \in {bridge[t], NoProc}
  BY <1>1, <1>6 DEF TypeOK
<1>8. HandleInv' /\ WatcherInv'
  BY <1>1, <1>2, <1>4, <1>5 DEF HandleInv, WatcherInv, Dead
<1>9. HandlerInv' /\ GoneInv' /\ ImageInv' /\ BootInv'
  BY <1>1, <1>2, <1>3, <1>7
     DEF HandlerInv, GoneInv, WorkerGone, ImageInv, BootInv, TypeOK
<1>10. BridgeWatched'
  BY <1>1, <1>2, <1>4, <1>5, <1>7 DEF BridgeWatched, Dead, TypeOK
<1>11. LiveWorkerReachable'
  <2>1. SUFFICES ASSUME NEW q \in Procs, proc'[q] = "alive",
                        q \notin severed'
                 PROVE  bridge'[owner'[q]] = q
    BY DEF LiveWorkerReachable
  <2>2. bridge[owner[q]] = q /\ owner[q] \in Sessions /\ q # p
    BY <1>1, <1>2, <1>4, <1>7, <2>1
       DEF LiveWorkerReachable, WatcherInv, Dead, ExitStatus
  <2>3. bridge'[owner[q]] = q
    BY <1>6, <2>1, <2>2, <1>1, NoProcAssumption DEF TypeOK
  <2> QED
    BY <1>2, <2>3
<1> QED
  BY <1>8, <1>9, <1>10, <1>11 DEF ControlInv

(* So do the start, the signal, the crash, and the workers' ends.          *)
LEMMA WorldControl ==
  ASSUME IInv,
         \/ Operator \/ \E p \in Procs : Exit(p) \/ Escalate(p)
         \/ \E s \in Sessions : LeftEnds(s)
  PROVE  ControlInv'
<1>1. /\ TypeOK /\ ProcTypeOK
      /\ HandlerInv /\ HandleInv /\ WatcherInv /\ GoneInv /\ ImageInv
      /\ BootInv /\ BridgeWatched /\ LiveWorkerReachable
  BY DEF IInv, TypeOK, ControlInv
<1>2. CASE Boot
  <2>1. /\ main.pc = "ready" /\ \A s \in Sessions : bridge[s] = NoProc
        /\ mode' = "start"
    BY <1>1, <1>2 DEF Boot, BootInv, TypeOK
  <2>2. UNCHANGED <<procVars, sess, bridge, watchVars, main>>
    BY <1>2 DEF Boot
  <2> QED
    BY <1>1, <2>1, <2>2, QuietStep
       DEF HandlerInv, GoneInv, BootInv, watchVars
<1>3. CASE Sigterm
  <2>1. WatcherInv' /\ BridgeWatched' /\ LiveWorkerReachable'
    BY <1>3, WorkersKept DEF Sigterm, procVars, watchVars
  <2>2. HandlerInv' /\ HandleInv' /\ GoneInv' /\ ImageInv' /\ BootInv'
    BY <1>1, <1>3
       DEF Sigterm, HandlerInv, HandleInv, GoneInv, WorkerGone, ImageInv,
           BootInv, Dead, procVars
  <2> QED
    BY <2>1, <2>2 DEF ControlInv
<1>4. CASE Crash
  BY <1>4, PowerOffControl DEF Crash
<1>5. CASE \E p \in Procs : Exit(p)
  <2>1. PICK p \in Procs : Exit(p)
    BY <1>5
  <2>2. /\ proc[p] = "alive" /\ proc'[p] \in ExitStatus /\ done'[p] = "full"
        /\ \A q \in Procs \ {p} : proc'[q] = proc[q] /\ done'[q] = done[q]
        /\ UNCHANGED <<stop, sess, bridge, watchVars, main, loop>>
    BY <1>1, <2>1 DEF Exit, Reap, ProcTypeOK, ExitStatus
  <2>3. HandleInv' /\ WatcherInv'
    BY <1>1, <2>2 DEF HandleInv, WatcherInv, Dead, ExitStatus, watchVars
  <2>4. HandlerInv' /\ GoneInv' /\ ImageInv' /\ BootInv'
    BY <1>1, <2>2, NoProcAssumption
       DEF HandlerInv, GoneInv, WorkerGone, ImageInv, BootInv, ExitStatus,
           loop, TypeOK
  <2>5. BridgeWatched' /\ LiveWorkerReachable'
    BY <1>1, <2>2
       DEF BridgeWatched, LiveWorkerReachable, Dead, ExitStatus, watchVars,
           TypeOK
  <2> QED
    BY <2>3, <2>4, <2>5 DEF ControlInv
<1>6. CASE \E p \in Procs : Escalate(p)
  <2>1. UNCHANGED <<proc, done, sess, bridge, watchVars, main, loop>>
    BY <1>6 DEF Escalate, StopEscalate
  <2>2. WatcherInv' /\ BridgeWatched' /\ LiveWorkerReachable'
    BY <2>1, WorkersKept DEF watchVars
  <2>3. HandlerInv' /\ GoneInv' /\ ImageInv' /\ BootInv'
    BY <1>1, <2>1 DEF HandlerInv, GoneInv, WorkerGone, ImageInv, BootInv, loop
  <2>4. HandleInv'
    BY <1>1, <1>6, <2>1
       DEF HandleInv, Escalate, StopEscalate, Dead, ProcTypeOK
  <2> QED
    BY <2>2, <2>3, <2>4 DEF ControlInv
<1>7. CASE \E s \in Sessions : LeftEnds(s)
  <2>1. UNCHANGED <<procVars, sess, bridge, watchVars, main, loop>>
    BY <1>7 DEF LeftEnds
  <2>2. WatcherInv' /\ BridgeWatched' /\ LiveWorkerReachable'
    BY <2>1, WorkersKept DEF procVars, watchVars
  <2>3. HandlerInv' /\ HandleInv' /\ GoneInv' /\ ImageInv' /\ BootInv'
    BY <1>1, <2>1
       DEF HandlerInv, HandleInv, GoneInv, WorkerGone, ImageInv, BootInv,
           Dead, procVars, loop
  <2> QED
    BY <2>2, <2>3 DEF ControlInv
<1> QED
  BY <1>2, <1>3, <1>4, <1>5, <1>6, <1>7 DEF Operator

(* Every step keeps ControlInv.                                            *)
LEMMA ControlStep ==
  ASSUME IInv, [Next]_vars
  PROVE  ControlInv'
<1>1. CASE UNCHANGED vars
  BY <1>1
     DEF IInv, ControlInv, HandlerInv, HandleInv, WatcherInv, GoneInv,
         WorkerGone, ImageInv, BootInv, BridgeWatched, LiveWorkerReachable,
         Dead, vars, procVars, watchVars, loop
<1> QED
  BY <1>1, MainControl, InputControl, UserControl, WatchControl, WorldControl
     DEF Next, User

-----------------------------------------------------------------------------
(* The invariant, and what follows from it.                                *)

(* The invariant holds when the governor was never started.                *)
LEMMA InitIInv == Init => IInv
<1> SUFFICES ASSUME Init
             PROVE  IInv
  OBVIOUS
<1> USE DEF Init, ProcInit, Idle
<1>1. TypeOK
  <2>1. Idle \in Handler /\ NoRecord \in Record /\ NoState \in {NoState}
    BY IdleTyped DEF Record, NoRecord
  <2>2. ProcTypeOK
    BY DEF ProcTypeOK
  <2> QED
    BY <2>1, <2>2 DEF TypeOK
<1>2. HandlerInv /\ HandleInv /\ WatcherInv /\ GoneInv
  BY DEF HandlerInv, HandleInv, WatcherInv, GoneInv, Dead, ExitStatus
<1>3. ImageInv /\ BootInv /\ BridgeWatched /\ LiveWorkerReachable
  BY DEF ImageInv, BootInv, BridgeWatched, LiveWorkerReachable
<1> QED
  BY <1>1, <1>2, <1>3 DEF IInv, ControlInv

(* The inductive invariant holds in every state of the governor.           *)
THEOREM Invariance == Spec => []IInv
<1>1. IInv /\ [Next]_vars => IInv'
  BY TypeStep, ControlStep DEF IInv
<1> QED
  BY InitIInv, <1>1, PTL DEF Spec

(* Type correctness of the whole governor: every variable keeps its type,  *)
(* handlers and watchers never act on a session that is not there.         *)
THEOREM TypeCorrect == Spec => []TypeOK
  BY Invariance, PTL DEF IInv

(* Whatever the order of commands, worker exits, watcher steps, signals    *)
(* and crashes, a live worker that no other worker's watcher cut off is    *)
(* the one its session's bridge leads to.                                  *)
THEOREM WorkersStayReachable == Spec => []LiveWorkerReachable
<1>1. IInv => LiveWorkerReachable
  BY DEF IInv, ControlInv
<1> QED
  BY Invariance, <1>1, PTL

(* A bridge leads to a worker of its own session; while that worker is not *)
(* dead its watcher is still waiting in watchProcessExit.                  *)
THEOREM BridgesAreWatched == Spec => []BridgeWatched
<1>1. IInv => BridgeWatched
  BY DEF IInv, ControlInv
<1> QED
  BY Invariance, <1>1, PTL

(* Two live workers never share the worktree of a session, unless a        *)
(* watcher cut one of them off.                                            *)
THEOREM OneWorker == Spec => []OneWorkerPerWorkspace
<1>1. IInv => OneWorkerPerWorkspace
  BY DEF IInv, ControlInv, LiveWorkerReachable, OneWorkerPerWorkspace
<1> QED
  BY Invariance, <1>1, PTL
=============================================================================

-------------------------- MODULE SessionLifecycle --------------------------
(***************************************************************************)
(* The governor (cmd/governor/app.go): one main goroutine that restores    *)
(* the persisted sessions, runs the commands of the Matrix rooms one at a  *)
(* time and stops every session when it is told to end; beside it one      *)
(* goroutine per worker, started by watchProcessExit, that records the end *)
(* of the worker.  They share the session objects and the bridge table.    *)
(* The rows of the sessions table, the worktrees and the containers may    *)
(* outlive the governor.  What it starts for a worker, and stops, is the   *)
(* runtime's CLI: a container ends with its CLI, unless that is killed.    *)
(*                                                                         *)
(* A handler is cut into steps wherever it blocks, calls another part of   *)
(* the system, or writes what the other goroutines read.  Messages sent to *)
(* the rooms have no effect on the state and are left out.                 *)
(***************************************************************************)
EXTENDS ContainerProcess

CONSTANTS
  Sessions,               \* the identifiers generateSessionID may produce
  NoSession, NoProc,
  Faulty                  \* the sessions whose row and worktree database and
                          \* file-system errors may hit; NoSession is in it
                          \* when they may hit the list of all rows
CONSTANT
  Outlives                \* the sessions whose container goes on, for a
                          \* while, when its CLI is killed

ASSUME NoProcAssumption == NoProc \notin Procs
ASSUME NoSessionAssumption == NoSession \notin Sessions
ASSUME FaultyAssumption == Faulty \subseteq Sessions \cup {NoSession}
ASSUME OutlivesAssumption == Outlives \subseteq Sessions

VARIABLES
  sess,                   \* the session objects: State, RuntimeImage # ""
  registered,             \* the SessionStore
  bridge,                 \* the table app.bridges; a bridge is its process
  owner,                  \* the session a process was started for
  watch,                  \* the exit watcher of a process
  snap,                   \* the State a watcher's UpsertSession has read
  row,                    \* the sessions table
  stale,                  \* history: sessions whose State had changed again
                          \* by the time it was written to their row
  disk,                   \* the sessions that have a worktree
  room,                   \* the session rooms on the homeserver
  box,                    \* the workers that have a container of their own
  left,                   \* sessions with a container that lost its CLI
  mode,                   \* what the main goroutine is doing
  main,                   \* the handler it is in
  todo,                   \* sessions it has yet to restore or to shut down
  ctxDone,                \* SIGTERM was received: the root context is done
  severed                 \* history: workers whose bridge was deleted by the
                          \* watcher of another worker

rows == <<row, stale>>
containers == <<box, left>>
durable == <<rows, disk, room, containers>>
loop == <<mode, todo, ctxDone>>
watchVars == <<owner, watch, snap, severed>>
vars == <<procVars, sess, registered, bridge, watchVars, durable, loop, main>>

States == {"creating", "preparing_workspace", "creating_room",
           "starting_container", "running", "committing", "restarting",
           "stopping", "exited", "failed"}
NoState == "none"

(* shouldAutoRestoreSession                                                *)
Resumable == States \ {"stopping", "exited", "failed"}

NoRecord == [state |-> NoState, image |-> FALSE]
Present(s) == row[s] # NoRecord

(* main.pend is the progress of UpsertSession: NoState outside of it, then *)
(* "unread" until the fields of the session have been read, then the State *)
(* that was read.  cur is the handler's session, tgt the process it waits  *)
(* for in Stop, img whether its runtimeImage is an image, prev the         *)
(* previousState of commitSession.                                         *)
Idle == [cmd |-> "none", pc |-> "ready", cur |-> NoSession, tgt |-> NoProc,
         img |-> FALSE, prev |-> NoState, pend |-> NoState]

At(pc) == main.pc = pc /\ main.pend = NoState
Ready(in) == mode = in /\ At("ready")

Record == [state : States \cup {NoState}, image : BOOLEAN]

Commands == {"none", "start", "restart", "input", "exit", "commit"}
Labels == {"ready", "write", "prepare", "create", "register", "starting", "resolve",
           "launch", "run", "stop", "await", "unbridge", "cleanup", "forget",
           "delete", "archive", "commit"}
Pending == States \cup {NoState, "unread"}

Handler ==
  [cmd : Commands, pc : Labels, cur : Sessions \cup {NoSession},
   tgt : Procs \cup {NoProc}, img : BOOLEAN, prev : States \cup {NoState},
   pend : Pending]

TypeOK ==
  /\ ProcTypeOK
  /\ sess \in [Sessions -> Record]
  /\ registered \subseteq Sessions
  /\ bridge \in [Sessions -> Procs \cup {NoProc}]
  /\ owner \in [Procs -> Sessions \cup {NoSession}]
  /\ watch \in [Procs -> {"none", "waiting", "received", "checked",
                          "unbridged", "set", "read", "silent", "told"}]
  /\ snap \in [Procs -> States \cup {NoState}]
  /\ row \in [Sessions -> Record]
  /\ stale \subseteq Sessions
  /\ box \subseteq Procs
  /\ left \subseteq Sessions
  /\ disk \subseteq Sessions
  /\ room \in [Sessions -> {"none", "joined", "left"}]
  /\ mode \in {"down", "start", "boot", "serve", "shutdown"}
  /\ main \in Handler
  /\ todo \subseteq Sessions
  /\ ctxDone \in BOOLEAN
  /\ severed \subseteq Procs

Init ==
  /\ ProcInit
  /\ sess = [s \in Sessions |-> NoRecord]
  /\ registered = {}
  /\ bridge = [s \in Sessions |-> NoProc]
  /\ owner = [p \in Procs |-> NoSession]
  /\ watch = [p \in Procs |-> "none"]
  /\ snap = [p \in Procs |-> NoState]
  /\ row = [s \in Sessions |-> NoRecord]
  /\ stale = {}
  /\ disk = {}
  /\ room = [s \in Sessions |-> "none"]
  /\ box = {}
  /\ left = {}
  /\ mode = "down"
  /\ main = Idle
  /\ todo = {}
  /\ ctxDone = FALSE
  /\ severed = {}

-----------------------------------------------------------------------------
(* What the main goroutine's steps are built from.                         *)

(* The handlers run under the root context, and during shutdown under one  *)
(* of 30 seconds that all sessions share; stopping one may take five.      *)
CtxErr == ctxDone /\ mode # "shutdown"

(* A statement on the row of the handler's session fails, during shutdown  *)
(* also because that time is over.                                         *)
Fails == main.cur \in Faulty \/ ctxDone

Goto(pc) == [main EXCEPT !.pc = pc]
Return == Goto("ready")

Write(s, state) == sess' = [sess EXCEPT ![s].state = state]

(* setSessionState: the State is written at once, and the row by the two   *)
(* steps of UpsertSession, between which the exit watchers may run.  While *)
(* RoomID is empty persistSession returns early and Write is all there is. *)
SetState(state, next) ==
  /\ Write(next.cur, state)
  /\ main' = [next EXCEPT !.pend = "unread"]

OnlyState == UNCHANGED <<procVars, registered, bridge, watchVars, durable,
                         loop>>

MainRead ==
  /\ main.pend = "unread"
  /\ main' = [main EXCEPT !.pend = sess[main.cur].state]
  /\ UNCHANGED <<sess, procVars, registered, bridge, watchVars, durable, loop>>

(* State st of session s is written to its row.                            *)
Upsert(s, st) ==
  /\ row' = [row EXCEPT ![s] = [state |-> st, image |-> sess[s].image]]
  /\ stale' = IF st = sess[s].state THEN stale \ {s} ELSE stale \cup {s}

(* The statement of UpsertSession, the last thing a handler that has gone  *)
(* to "ready" does; an error is logged.                                    *)
MainUpsert ==
  /\ main.pend \in States
  /\ \/ ~CtxErr /\ Upsert(main.cur, main.pend)
     \/ Fails /\ UNCHANGED rows
  /\ main' = IF main.pc = "ready" THEN Idle ELSE [main EXCEPT !.pend = NoState]
  /\ UNCHANGED <<procVars, sess, registered, bridge, watchVars, disk, room,
                 containers, loop>>

-----------------------------------------------------------------------------
(* /start: startSession                                                    *)

Serving == Ready("serve") /\ ~ctxDone

Fresh(s) == sess[s] = NoRecord /\ row[s] = NoRecord /\ s \notin disk
            /\ room[s] = "none"

RecvStart(s) ==
  /\ Serving
  /\ Fresh(s)
  /\ Write(s, "preparing_workspace")
  /\ main' = [Idle EXCEPT !.cmd = "start", !.pc = "prepare", !.cur = s]
  /\ OnlyState

(* git.Prepare; a `git worktree add` that fails may leave the directory.   *)
Prepare ==
  /\ At("prepare")
  /\ \/ /\ ~CtxErr
        /\ Write(main.cur, "creating_room")
        /\ disk' = disk \cup {main.cur}
        /\ main' = Goto("create")
     \/ /\ Write(main.cur, "failed")
        /\ disk' \in {disk, disk \cup {main.cur}}
        /\ main' = Idle
  /\ UNCHANGED <<procVars, registered, bridge, watchVars, rows, room,
                 containers, loop>>

(* matrix.CreateRoom; a failed call may have created the room.  Nothing    *)
(* removes the worktree then.                                              *)
CreateRoom ==
  /\ At("create")
  /\ \/ /\ ~CtxErr
        /\ room' = [room EXCEPT ![main.cur] = "joined"]
        /\ main' = Goto("register")
        /\ UNCHANGED sess
     \/ /\ Write(main.cur, "failed")
        /\ room' \in {room, [room EXCEPT ![main.cur] = "joined"]}
        /\ main' = Idle
  /\ UNCHANGED <<procVars, registered, bridge, watchVars, rows, disk,
                 containers, loop>>

(* Mutant of Register: the session is not persisted until its next state.  *)
RegisterOnly ==
  /\ At("register")
  /\ registered' = registered \cup {main.cur}
  /\ main' = Goto("starting")
  /\ UNCHANGED <<procVars, sess, bridge, watchVars, durable, loop>>

(* sessions.Add and the first persistSession.                              *)
Register ==
  /\ At("register")
  /\ registered' = registered \cup {main.cur}
  /\ main' = [main EXCEPT !.pc = "starting", !.pend = "unread"]
  /\ UNCHANGED <<procVars, sess, bridge, watchVars, durable, loop>>

Starting ==
  /\ At("starting")
  /\ SetState("starting_container", Goto("resolve"))
  /\ OnlyState

(* agents.Resolve and resolveRuntimeImage, for /start and for /restart.  A *)
(* /restart of a session that has no image yet resolves one and stores it  *)
(* in the session, but in a runtimeImage of the if's own block: the one it *)
(* starts the container with stays empty.                                  *)
ResolveImage ==
  /\ At("resolve")
  /\ \/ /\ sess' = [sess EXCEPT ![main.cur].image = TRUE]
        /\ main' = [main EXCEPT !.pc = "launch",
                      !.img = (main.cmd = "start" \/ sess[main.cur].image)]
     \/ SetState("failed", Return)
  /\ OnlyState

(* No goroutine refers to the handle any more, nor, once the handler has   *)
(* set its own bridge, does any bridge.                                    *)
Free(p) ==
  /\ proc[p] # "alive"
  /\ watch[p] \in {"none", "silent", "told"}
  /\ \A s \in Sessions \ {main.cur} : bridge[s] # p

(* Containers are named after their session (--name), and the runtime      *)
(* gives a name to one container at a time.                                *)
Named(s) == s \in left \/ \E p \in box : owner[p] = s

(* runner.Start and, when it succeeds, bridge.Start, setBridge and         *)
(* watchProcessExit, for /start and for /restart.  A CLI that finds the    *)
(* name taken starts as well, and ends with an error then.                 *)
LaunchWorker ==
  /\ At("launch")
  /\ \/ /\ ~CtxErr
        /\ \E p \in Procs :
             /\ Free(p)
             /\ Launch(p)
             /\ bridge' = [bridge EXCEPT ![main.cur] = p]
             /\ owner' = [owner EXCEPT ![p] = main.cur]
             /\ watch' = [watch EXCEPT ![p] = "waiting"]
             /\ snap' = [snap EXCEPT ![p] = NoState]
             /\ severed' = severed \ {p}
             /\ box' = IF Named(main.cur) THEN box ELSE box \cup {p}
        /\ main' = Goto("run")
        /\ UNCHANGED sess
     \/ /\ SetState("failed", Return)
        /\ UNCHANGED <<procVars, bridge, watchVars, box>>
  /\ UNCHANGED <<registered, rows, disk, room, left, loop>>

Run ==
  /\ At("run")
  /\ SetState("running", Return)
  /\ OnlyState

-----------------------------------------------------------------------------
(* The commands of a session room.                                         *)

Addressed(s) == Serving /\ s \in registered /\ room[s] = "joined"

Begin(cmd, pc, s) == [Idle EXCEPT !.cmd = cmd, !.pc = pc, !.cur = s]

(* restartSession, from /restart or from restoreSessions, begins.          *)
RecvRestart(s) ==
  /\ Addressed(s)
  /\ SetState("restarting", Begin("restart", "stop", s))
  /\ OnlyState

(* Mutant of RecvExit: the State is written and not persisted.             *)
RecvExitQuietly(s) ==
  /\ Addressed(s)
  /\ Write(s, "stopping")
  /\ main' = Begin("exit", "stop", s)
  /\ OnlyState

(* stopSession begins.                                                     *)
RecvExit(s) ==
  /\ Addressed(s)
  /\ SetState("stopping", Begin("exit", "stop", s))
  /\ OnlyState

(* A message, /enter or a command for the agent: ForwardInput begins.      *)
RecvInput(s) ==
  /\ Addressed(s)
  /\ bridge[s] # NoProc
  /\ main' = [Begin("input", "write", s) EXCEPT !.tgt = bridge[s]]
  /\ UNCHANGED sess
  /\ OnlyState

(* The worker takes the input.  Until it does, or ends, the main goroutine *)
(* waits: the buffers of a terminal and of a pipe are bounded.             *)
InputTaken ==
  /\ At("write")
  /\ "ok" \in WriteInput(main.tgt)
  /\ main' = Idle
  /\ UNCHANGED sess
  /\ OnlyState

(* Mutant of InputFails: a write that the worker's end cut short is tried  *)
(* again.                                                                  *)
InputRetried ==
  /\ At("write")
  /\ Dead(main.tgt)
  /\ UNCHANGED vars

(* It does not, because it exited or closed its input: ForwardInput        *)
(* returns, and handleBridgeInputError begins if it knows the error.       *)
InputFails ==
  /\ At("write")
  /\ \/ /\ WriteInput(main.tgt) \cap {"exited", "broken"} # {}
        /\ SetState("failed", [Goto("stop") EXCEPT !.tgt = NoProc])
     \/ /\ "other" \in WriteInput(main.tgt)
        /\ main' = Idle
        /\ UNCHANGED sess
  /\ OnlyState

(* commitSession begins.                                                   *)
RecvCommit(s) ==
  /\ Addressed(s)
  /\ SetState("committing",
       [Begin("commit", "commit", s) EXCEPT !.prev = sess[s].state])
  /\ OnlyState

(* Mutant of Commit: a failed commit returns without restoring the State.  *)
CommitForgets ==
  /\ At("commit")
  /\ \/ SetState(main.prev, Return)
     \/ main' = Idle /\ UNCHANGED sess
  /\ OnlyState

(* Another: it restores the State and does not persist it.                 *)
CommitQuietly ==
  /\ At("commit")
  /\ Write(main.cur, main.prev)
  /\ main' = Idle
  /\ OnlyState

(* git.CommitAll has returned, whatever it returned.                       *)
Commit ==
  /\ At("commit")
  /\ SetState(main.prev, Return)
  /\ OnlyState

(* Mutant of AfterStop: without a bridge /exit skips the cleanup too.      *)
AfterStopEarly ==
  CASE main.cmd = "restart" -> "resolve"
    [] main.cmd = "exit" /\ bridge[main.cur] = NoProc -> "forget"
    [] OTHER -> "unbridge"

AfterStop == IF main.cmd = "restart" THEN "resolve" ELSE "unbridge"

(* Mutant of StopWorker: the old worker is left running.                   *)
StopWorkerSkipped ==
  /\ At("stop")
  /\ main' = Goto(AfterStop)
  /\ UNCHANGED procVars
  /\ UNCHANGED <<sess, registered, bridge, watchVars, durable, loop>>

(* bridge.Stop of the bridge getBridge finds, if any.  A second Stop of a  *)
(* process returns at once.                                                *)
StopWorker ==
  /\ At("stop")
  /\ LET p == bridge[main.cur] IN
       IF p # NoProc /\ stop[p] = "none"
       THEN StopBegin(p) /\ main' = [main EXCEPT !.pc = "await", !.tgt = p]
       ELSE UNCHANGED procVars /\ main' = Goto(AfterStop)
  /\ UNCHANGED <<sess, registered, bridge, watchVars, durable, loop>>

(* Mutant of AwaitStop: it does not wait for the worker's end.             *)
AwaitStopAtOnce ==
  /\ At("await")
  /\ stop' = [stop EXCEPT ![main.tgt] = "over"]
  /\ main' = [main EXCEPT !.pc = AfterStop, !.tgt = NoProc]
  /\ UNCHANGED <<proc, done, sess, registered, bridge, watchVars, durable,
                 loop>>

AwaitStop ==
  /\ At("await")
  /\ StopEnd(main.tgt)
  /\ main' = [main EXCEPT !.pc = AfterStop, !.tgt = NoProc]
  /\ UNCHANGED <<sess, registered, bridge, watchVars, durable, loop>>

(* deleteBridge, in stopSession and in handleBridgeInputError.             *)
Unbridge ==
  /\ At("unbridge")
  /\ bridge' = [bridge EXCEPT ![main.cur] = NoProc]
  /\ main' = IF main.cmd = "exit" THEN Goto("cleanup") ELSE Idle
  /\ UNCHANGED <<procVars, sess, registered, watchVars, durable, loop>>

(* The rest of stopSession: CleanupWorkspace, whose os.RemoveAll heeds no  *)
(* context, sessions.Delete and the last write of the State, which nothing *)
(* persists, deletePersistedSession, applyRoomArchivePolicy.               *)
Cleanup ==
  /\ At("cleanup")
  /\ \/ disk' = disk \ {main.cur}
     \/ main.cur \in Faulty /\ UNCHANGED disk
  /\ main' = Goto("forget")
  /\ UNCHANGED <<procVars, sess, registered, bridge, watchVars, rows, room,
                 containers, loop>>

Forget ==
  /\ At("forget")
  /\ registered' = registered \ {main.cur}
  /\ Write(main.cur, "exited")
  /\ main' = Goto("delete")
  /\ UNCHANGED <<procVars, bridge, watchVars, durable, loop>>

(* Mutant of DeleteRow: the row is marked instead of deleted.              *)
DeleteRowSoftly ==
  /\ At("delete")
  /\ row' = [row EXCEPT ![main.cur].state = "deleted"]
  /\ main' = Goto("archive")
  /\ UNCHANGED <<procVars, sess, registered, bridge, watchVars, stale, disk,
                 room, containers, loop>>

DeleteRow ==
  /\ At("delete")
  /\ \/ /\ ~CtxErr
        /\ row' = [row EXCEPT ![main.cur] = NoRecord]
        /\ stale' = stale \ {main.cur}
     \/ /\ Fails
        /\ UNCHANGED rows
  /\ main' = Goto("archive")
  /\ UNCHANGED <<procVars, sess, registered, bridge, watchVars, disk, room,
                 containers, loop>>

Archive ==
  /\ At("archive")
  /\ room' \in {room, [room EXCEPT ![main.cur] = "left"]}
  /\ main' = Idle
  /\ UNCHANGED <<procVars, sess, registered, bridge, watchVars, rows, disk,
                 containers, loop>>
-----------------------------------------------------------------------------
(* watchProcessExit of process p.                                          *)

(* Mutant of WatchReceive: a receive that does not block.                  *)
WatchPoll(p) ==
  /\ watch[p] = "waiting"
  /\ \/ /\ ReceiveExit(p)
        /\ watch' = [watch EXCEPT ![p] = "received"]
     \/ /\ done[p] # "full"
        /\ watch' = [watch EXCEPT ![p] = "silent"]
        /\ UNCHANGED procVars
  /\ UNCHANGED <<sess, registered, bridge, owner, snap, severed, durable,
                 loop, main>>

(* The receive on proc.Done: the status or, when Stop took it, the closed  *)
(* channel.                                                                *)
WatchReceive(p) ==
  /\ watch[p] = "waiting"
  /\ \/ /\ ReceiveExit(p)
        /\ watch' = [watch EXCEPT ![p] = "received"]
     \/ /\ done[p] = "drained"
        /\ watch' = [watch EXCEPT ![p] = "silent"]
        /\ UNCHANGED procVars
  /\ UNCHANGED <<sess, registered, bridge, owner, snap, severed, durable,
                 loop, main>>

(* Mutant of WatchCheck: it returns early on every error.                  *)
WatchCheckQuiet(p) ==
  /\ watch[p] = "received"
  /\ watch' = [watch EXCEPT ![p] =
       IF \/ sess[owner[p]].state \in {"stopping", "restarting", "exited"}
          \/ proc[p] # "nil"
       THEN "silent" ELSE "checked"]
  /\ UNCHANGED <<procVars, sess, registered, bridge, owner, snap, severed,
                 durable, loop, main>>

(* The early returns on session.State and on context.Canceled.             *)
WatchCheck(p) ==
  /\ watch[p] = "received"
  /\ watch' = [watch EXCEPT ![p] =
       IF \/ sess[owner[p]].state \in {"stopping", "restarting", "exited"}
          \/ proc[p] = "canceled"
       THEN "silent" ELSE "checked"]
  /\ UNCHANGED <<procVars, sess, registered, bridge, owner, snap, severed,
                 durable, loop, main>>

(* deleteBridge: whatever bridge the session has by now.                   *)
WatchUnbridge(p) ==
  /\ watch[p] = "checked"
  /\ watch' = [watch EXCEPT ![p] = "unbridged"]
  /\ bridge' = [bridge EXCEPT ![owner[p]] = NoProc]
  /\ severed' = severed \cup ({bridge[owner[p]]} \ {p, NoProc})
  /\ UNCHANGED <<procVars, sess, registered, owner, snap, durable, loop, main>>

(* setSessionState under context.Background, in its three steps.           *)
WatchSetState(p) ==
  /\ watch[p] = "unbridged"
  /\ watch' = [watch EXCEPT ![p] = "set"]
  /\ Write(owner[p], IF proc[p] = "nil" THEN "exited" ELSE "failed")
  /\ UNCHANGED <<procVars, registered, bridge, owner, snap, severed, durable,
                 loop, main>>

WatchRead(p) ==
  /\ watch[p] = "set"
  /\ watch' = [watch EXCEPT ![p] = "read"]
  /\ snap' = [snap EXCEPT ![p] = sess[owner[p]].state]
  /\ UNCHANGED <<procVars, sess, registered, bridge, owner, severed, durable,
                 loop, main>>

WatchUpsert(p) ==
  /\ watch[p] = "read"
  /\ watch' = [watch EXCEPT ![p] = "told"]
  /\ \/ Upsert(owner[p], snap[p])
     \/ owner[p] \in Faulty /\ UNCHANGED rows
  /\ snap' = [snap EXCEPT ![p] = NoState]
  /\ UNCHANGED <<procVars, sess, registered, bridge, owner, severed, disk,
                 room, containers, loop, main>>

WatchStep(p) == \/ WatchReceive(p) \/ WatchCheck(p) \/ WatchUnbridge(p)
                \/ WatchSetState(p) \/ WatchRead(p) \/ WatchUpsert(p)

-----------------------------------------------------------------------------
(* The start and the end of the governor.                                  *)

(* newApp: run begins, and joins the room of the governor.                 *)
Boot ==
  /\ mode = "down"
  /\ mode' = "start"
  /\ UNCHANGED <<procVars, sess, registered, bridge, watchVars, durable, main,
                 todo, ctxDone>>

(* Mutant of ListRows: only rows of resumable sessions are loaded.         *)
ListResumable ==
  /\ mode = "start"
  /\ ~ctxDone
  /\ mode' = "boot"
  /\ todo' = {s \in Sessions : row[s].state \in Resumable}
  /\ UNCHANGED <<procVars, sess, registered, bridge, watchVars, durable, main,
                 ctxDone>>

(* restoreSessions loads all rows.                                         *)
ListRows ==
  /\ mode = "start"
  /\ ~ctxDone
  /\ mode' = "boot"
  /\ todo' = {s \in Sessions : Present(s)}
  /\ UNCHANGED <<procVars, sess, registered, bridge, watchVars, durable, main,
                 ctxDone>>

(* The rows cannot be read, because of an error or a signal that came      *)
(* after the room was joined: the event loop begins without them.          *)
Unlisted == mode = "start" /\ (ctxDone \/ NoSession \in Faulty)
ListFails ==
  /\ Unlisted
  /\ mode' = "serve"
  /\ UNCHANGED <<procVars, sess, registered, bridge, watchVars, durable, main,
                 todo, ctxDone>>

(* Mutant of RestoreSession: the image is resolved anew.                   *)
RestoreWithoutImage(s) ==
  /\ Ready("boot")
  /\ s \in todo
  /\ todo' = todo \ {s}
  /\ registered' = registered \cup {s}
  /\ IF row[s].state \in Resumable
     THEN /\ sess' = [sess EXCEPT ![s] = [NoRecord EXCEPT
                                            !.state = "restarting"]]
          /\ main' = [Begin("restart", "stop", s) EXCEPT !.pend = "unread"]
     ELSE /\ sess' = [sess EXCEPT ![s] = row[s]]
          /\ UNCHANGED main
  /\ UNCHANGED <<procVars, bridge, watchVars, durable, mode,
                 ctxDone>>

RestoreSession(s) ==
  /\ Ready("boot")
  /\ s \in todo
  /\ todo' = todo \ {s}
  /\ registered' = registered \cup {s}
  /\ IF row[s].state \in Resumable
     THEN /\ sess' = [sess EXCEPT ![s] = [row[s] EXCEPT !.state = "restarting"]]
          /\ main' = [Begin("restart", "stop", s) EXCEPT !.pend = "unread"]
     ELSE /\ sess' = [sess EXCEPT ![s] = row[s]]
          /\ UNCHANGED main
  /\ UNCHANGED <<procVars, bridge, watchVars, durable, mode,
                 ctxDone>>

(* The event loop of run begins.                                           *)
BootDone ==
  /\ Ready("boot")
  /\ todo = {}
  /\ mode' = "serve"
  /\ UNCHANGED <<procVars, sess, registered, bridge, watchVars, durable, main,
                 todo, ctxDone>>

Sigterm ==
  /\ mode # "down"
  /\ ~ctxDone
  /\ ctxDone' = TRUE
  /\ UNCHANGED <<procVars, sess, registered, bridge, watchVars, durable, main,
                 mode, todo>>

(* The loop sees that the context is done: shutdownActiveSessions.         *)
BeginShutdown ==
  /\ Ready("serve")
  /\ ctxDone
  /\ mode' = "shutdown"
  /\ todo' = registered
  /\ UNCHANGED <<procVars, sess, registered, bridge, watchVars, durable, main,
                 ctxDone>>

ShutdownNext(s) ==
  /\ Ready("shutdown")
  /\ s \in todo
  /\ todo' = todo \ {s}
  /\ SetState("stopping", Begin("exit", "stop", s))
  /\ UNCHANGED <<procVars, registered, bridge, watchVars, durable, mode,
                 ctxDone>>

(* All that is left of the governor is what is durable.  The workers it    *)
(* leaves behind have no handle any more, and those that have a container  *)
(* end then or go on without a CLI.                                        *)
PowerOff ==
  /\ proc' = [p \in Procs |-> "unused"]
  /\ done' = [p \in Procs |-> "empty"]
  /\ stop' = [p \in Procs |-> "none"]
  /\ sess' = [s \in Sessions |-> NoRecord]
  /\ registered' = {}
  /\ bridge' = [s \in Sessions |-> NoProc]
  /\ owner' = [p \in Procs |-> NoSession]
  /\ watch' = [p \in Procs |-> "none"]
  /\ snap' = [p \in Procs |-> NoState]
  /\ severed' = {}
  /\ mode' = "down"
  /\ main' = Idle
  /\ todo' = {}
  /\ ctxDone' = FALSE
  /\ box' = {}
  /\ \E on \in SUBSET (Outlives \cap {owner[p] : p \in box}) :
       left' = left \cup on
  /\ UNCHANGED <<rows, disk, room>>

(* Mutant of Halt: the rest of the sessions is left when time is short.    *)
HaltEarly == Ready("shutdown") /\ PowerOff

Halt == Ready("shutdown") /\ todo = {} /\ PowerOff

(* The room of the governor cannot be joined: run returns, and the governor*)
(* ends.                                                                   *)
JoinFails == mode = "start" /\ PowerOff

Crash == mode # "down" /\ PowerOff

-----------------------------------------------------------------------------
(* The workers.                                                            *)

(* The CLI of a worker was told to end by a signal it cannot handle: that   *)
(* of Stop's escalation, or that of the root context.                      *)
Killed(p) == stop[p] = "kill" \/ ctxDone

(* A worker ends by itself, by the signals of Stop, or because it was      *)
(* started under the root context; only then may Wait return its error.    *)
(* One that was refused its container's name does so with an error.  The   *)
(* container of a CLI that is killed may go on without it.                 *)
Exit(p) ==
  /\ \/ Reap(p, "error")
     \/ p \in box /\ Reap(p, "nil")
     \/ ctxDone /\ Reap(p, "canceled")
  /\ box' = box \ {p}
  /\ \/ UNCHANGED left
     \/ /\ Killed(p) /\ p \in box /\ owner[p] \in Outlives
        /\ left' = left \cup {owner[p]}
  /\ UNCHANGED <<sess, registered, bridge, watchVars, rows, disk, room, loop,
                 main>>

(* A container without a CLI comes to its end.                             *)
LeftEnds(s) ==
  /\ s \in left
  /\ left' = left \ {s}
  /\ UNCHANGED <<procVars, sess, registered, bridge, watchVars, rows, disk,
                 room, box, loop, main>>

Escalate(p) ==
  /\ StopEscalate(p)
  /\ UNCHANGED <<sess, registered, bridge, watchVars, durable, loop, main>>

-----------------------------------------------------------------------------
(* One disjunct per point the main goroutine can be at without waiting for *)
(* anything outside of it, and what the rest of the world may do.          *)

MainStep ==
  \/ MainRead \/ MainUpsert
  \/ Prepare \/ CreateRoom \/ Register \/ Starting
  \/ ResolveImage \/ LaunchWorker \/ Run
  \/ Commit
  \/ At("write") /\ Dead(main.tgt) /\ InputFails
  \/ StopWorker \/ AwaitStop \/ Unbridge
  \/ Cleanup \/ Forget \/ DeleteRow \/ Archive
  \/ JoinFails \/ ListRows \/ ListFails \/ BootDone
  \/ BeginShutdown \/ Halt
  \/ \E s \in Sessions : RestoreSession(s) \/ ShutdownNext(s)

User ==
  \E s \in Sessions :
    RecvStart(s) \/ RecvRestart(s) \/ RecvExit(s) \/ RecvInput(s)
    \/ RecvCommit(s)

Operator == Boot \/ Sigterm \/ Crash

Next ==
  \/ MainStep
  \/ User
  \/ Operator
  \/ InputTaken \/ InputFails
  \/ \E p \in Procs : WatchStep(p) \/ Exit(p) \/ Escalate(p)
  \/ \E s \in Sessions : LeftEnds(s)

(* The goroutines run; Stop's timer fires; a worker that was killed, by    *)
(* Stop or through its context, or refused its container's name, ends.     *)
(* Nothing makes another worker end by itself or take its input, a user    *)
(* type, or the operator act.                                              *)
Fairness ==
  /\ WF_vars(MainStep)
  /\ \A p \in Procs :
       /\ WF_vars(WatchStep(p))
       /\ WF_vars(Escalate(p))
       /\ WF_vars((Killed(p) \/ p \notin box) /\ Exit(p))

Spec == Init /\ [][Next]_vars
FairSpec == Spec /\ Fairness
-----------------------------------------------------------------------------
(* What the code keeps.                                                    *)

(* A worker that runs can be reached: the session it was started for still *)
(* forwards input to it and stops it, whatever /restart, /exit, failed     *)
(* launches, broken inputs and exit watchers do in between -- except for a *)
(* worker whose bridge the watcher of an earlier worker deleted.           *)
LiveWorkerReachable ==
  \A p \in Procs : proc[p] = "alive" /\ p \notin severed => bridge[owner[p]] = p

(* Two live workers never share a worktree, with the same exception.       *)
OneWorkerPerWorkspace ==
  \A p, q \in Procs \ severed :
    proc[p] = "alive" /\ proc[q] = "alive" /\ owner[p] = owner[q] => p = q

(* A bridge leads to a worker of its own session, and the end of a worker  *)
(* that is still running will be seen by its watcher.                      *)
BridgeWatched ==
  \A s \in Sessions : bridge[s] # NoProc =>
    /\ owner[bridge[s]] = s
    /\ ~Dead(bridge[s]) => watch[bridge[s]] = "waiting"

(* A session the governor has in memory is also in the database once the   *)
(* statement under way is done, so that a crash at any point does not lose *)
(* it; unless errors hit this very session, or the governor was told to  *)
(* end.                                                                    *)
NoLostSession ==
  \A s \in registered :
    Present(s) \/ (main.cur = s /\ main.pend # NoState)
    \/ s \in Faulty \/ ctxDone

(* When the event loop waits for the next event, every handler has brought *)
(* its session to a state it can stay in; "stopping" is only that of a     *)
(* session whose /exit a crash cut short.                                  *)
Settled == {"running", "exited", "failed", "stopping"}
SettledBetweenCommands ==
  Ready("serve") => \A s \in registered : sess[s].state \in Settled

(* The row of a session tells its State whenever neither a command nor a   *)
(* watcher is under way with it -- except after a write of the row that    *)
(* one of the two goroutines began and the other overtook.                 *)
RowIsState ==
  Ready("serve") /\ ~ctxDone =>
    \A s \in registered \ (Faulty \cup stale) :
      \/ row[s].state = sess[s].state
      \/ \E p \in Procs : owner[p] = s /\ watch[p] \in {"set", "read"}

(* A row goes only after its worktree: no crash leaves a worktree behind   *)
(* that no row tells of, unless removing this very worktree failed.        *)
RowOutlivesWorktree ==
  [][\A s \in Sessions : Present(s) /\ ~Present(s)' =>
       s \notin disk \/ s \in Faulty]_vars

(* A worktree goes only once its row says that the session is not to be    *)
(* restored: a crash in the middle of /exit leaves no session that boots   *)
(* without its files.  Excepted are sessions that database errors hit, an  *)
(* overtaken write, and a governor that was told to end.                   *)
WorktreeOutlivesSession ==
  [][\A s \in disk \ disk' :
       row[s].state \in Resumable => s \in Faulty \cup stale \/ ctxDone]_vars

(* An image that was stored for a session stays stored, across restores    *)
(* and failed launches, and its next worker is started in it.              *)
ImageSurvives ==
  [][\A s \in Sessions : Present(s) /\ row[s].image =>
       /\ Present(s)' => row'[s].image
       /\ main.cur = s /\ main.pc = "launch" => main.img]_vars

(* The event loop begins with every row a session in memory, unless the    *)
(* list of rows could not be read, whatever errors and signals the restore *)
(* of each session meets.                                                  *)
BootRestoresEveryRow ==
  [][mode # "serve" /\ mode' = "serve" =>
       Unlisted \/ \A s \in Sessions : Present(s) => s \in registered]_vars

(* A governor that was told to end and ends in order leaves no worker      *)
(* behind, with the exception of LiveWorkerReachable.                      *)
ShutdownStopsWorkers ==
  [][Halt => \A p \in Procs : proc[p] = "alive" => p \in severed]_vars

(* Every handler comes to its end, the ones that wait for a worker that    *)
(* ignores SIGTERM too -- except for one that writes to a worker that      *)
(* neither takes its input nor ends.                                       *)
HandlerReturns == main.pc \notin {"ready", "write"} ~> main.pc = "ready"

(* The end of a worker that no command asked for shows in the State of the *)
(* session, unless the next command or the end of the governor is first.   *)
UnexpectedEndNoticed ==
  \A p \in Procs, s \in Sessions :
    /\ Ready("serve") /\ owner[p] = s
    /\ Dead(p) /\ watch[p] = "waiting" /\ stop[p] = "none"
    ~> sess[s].state \in {"exited", "failed"} \/ ~Ready("serve") \/ ctxDone

(* A governor told to end does.                                            *)
ShutdownCompletes == ctxDone ~> mode = "down"

-----------------------------------------------------------------------------
(* The promise of SessionContract: its workers are the live ones that no   *)
(* watcher of an earlier worker cut off.                                   *)
Rows == {s \in Sessions : Present(s)}
Manned == {p \in Procs \ severed : proc[p] = "alive"}
Working == {<<owner[p], p>> : p \in Manned}

Contract == INSTANCE SessionContract
              WITH Workers <- Procs, files <- disk, listed <- Rows,
                   workers <- Working

(* Whatever happens between its steps, the governor keeps the contract: no *)
(* worktree is removed under a worker, no session gets a second worker     *)
(* before the first has ended, and no row goes before its worktree.        *)
KeepsContract == Contract!Spec

-----------------------------------------------------------------------------
(* What the code does not keep.                                            *)

(* /exit, once it has taken the session out of the SessionStore, has       *)
(* stopped the session's worker.                                           *)
ExitStopsWorker ==
  \A p \in Procs : proc[p] = "alive" /\ ~ctxDone => owner[p] \in registered

-----------------------------------------------------------------------------
(* The inductive invariant behind LiveWorkerReachable and BridgeWatched.   *)

(* A handler has a session, and waits in Stop for the process that the     *)
(* session's bridge leads to, if its watcher has left the bridge.          *)
HandlerInv ==
  /\ main.pc # "ready" \/ main.pend # NoState => main.cur \in Sessions
  /\ main.pc = "write" => main.tgt \in Procs
  /\ main.pc = "await" =>
       main.tgt \in Procs /\ bridge[main.cur] \in {NoProc, main.tgt}

(* The handle: its channel holds something only of a process that ended,   *)
(* and Stop is under way only where the main goroutine waits for it.       *)
HandleInv ==
  \A p \in Procs :
    /\ done[p] # "empty" <=> Dead(p)
    /\ stop[p] = "over" => Dead(p)
    /\ stop[p] \in {"term", "kill"} => main.pc = "await" /\ main.tgt = p

(* A process that was started has a session and a watcher, which gets past *)
(* its receive only when the process has ended.                            *)
WatcherInv ==
  \A p \in Procs :
    /\ watch[p] = "none" <=> proc[p] = "unused"
    /\ watch[p] # "none" => owner[p] \in Sessions
    /\ watch[p] \notin {"none", "waiting"} => Dead(p)

(* From the point where a handler no longer has a worker to stop until it  *)
(* starts one or removes the bridge, the bridge leads to no live worker.   *)
WorkerGone == bridge[main.cur] # NoProc => proc[bridge[main.cur]] # "alive"
GoneInv ==
  main.pc \in {"prepare", "create", "register", "starting", "resolve",
               "launch", "unbridge", "cleanup", "forget", "delete"} =>
    WorkerGone

(* Only a session with an image has a bridge, so a new one has none.       *)
ImageInv ==
  /\ \A s \in Sessions : bridge[s] # NoProc => sess[s].image
  /\ main.pc = "launch" => sess[main.cur].image

(* No handler runs before the start; sessions yet to be restored have no   *)
(* bridge.                                                                 *)
BootInv ==
  /\ mode \in {"down", "start"} =>
       main.pc = "ready" /\ \A s \in Sessions : bridge[s] = NoProc
  /\ mode = "boot" =>
       /\ \A s \in todo : bridge[s] = NoProc
       /\ main.pc # "ready" => main.cur \notin todo

ControlInv ==
  /\ HandlerInv
  /\ HandleInv
  /\ WatcherInv
  /\ GoneInv
  /\ ImageInv
  /\ BootInv
  /\ BridgeWatched
  /\ LiveWorkerReachable

IInv == TypeOK /\ ControlInv

-----------------------------------------------------------------------------
(* The inductive invariant behind KeepsContract, on top of IInv.           *)

(* The sessions that have been given a State.                              *)
Known == {s \in Sessions : sess[s].state \in States}

(* Only those are registered, handled and watched; what is on its way to   *)
(* their rows, or is there, is a State.                                    *)
KnownInv ==
  /\ registered \subseteq Known
  /\ \A p \in Procs : owner[p] \in Sessions => owner[p] \in Known
  /\ main.pc # "ready" \/ main.pend # NoState => main.cur \in Known
  /\ main.pc = "commit" => main.prev \in States
  /\ \A p \in Procs : watch[p] = "read" => snap[p] \in States
  /\ \A s \in Sessions : Present(s) => row[s].state \in States

(* A worktree is only made for a session that has nothing yet.             *)
PrepareInv ==
  main.pc = "prepare" =>
    /\ main.pend = NoState
    /\ main.cur \notin disk /\ ~Present(main.cur)
    /\ \A p \in Procs : owner[p] # main.cur

(* A handler on its way to start a worker has its session registered.      *)
LaunchInv ==
  \/ main.pc \in {"starting", "resolve", "launch"}
  \/ main.pc \in {"stop", "await"} /\ main.cmd = "restart"
  => main.cur \in registered

(* Which commands there are in a mode, and where a command never is.       *)
CommandInv ==
  /\ main.pc # "ready" =>
       /\ mode = "boot" => main.cmd = "restart"
       /\ mode = "shutdown" => main.cmd = "exit"
  /\ main.pc = "write" => main.cmd = "input"
  /\ main.pc \in {"cleanup", "forget", "delete"} => main.cmd = "exit"
  /\ main.cmd = "exit" =>
       main.pc \notin {"prepare", "create", "register", "starting", "resolve",
                       "launch"}

(* Sessions yet to be restored have a row.                                 *)
RestoreInv == mode = "boot" => \A s \in todo : Present(s)

(* The row is deleted when the worktree is gone, and the session is out of *)
(* the SessionStore.                                                       *)
RemovedInv ==
  /\ main.pc \in {"forget", "delete"} => main.cur \notin disk \ Faulty
  /\ main.pc = "delete" => main.cur \notin registered

DataInv ==
  /\ KnownInv
  /\ PrepareInv
  /\ LaunchInv
  /\ CommandInv
  /\ RestoreInv
  /\ RemovedInv
  /\ NoLostSession
=============================================================================

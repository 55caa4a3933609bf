# RelayShell in TLA+

RelayShell turns Matrix rooms into terminal sessions: a governor process reads
the messages of its rooms, starts a container with a coding agent for each
session on a git worktree of its own, and bridges the agent's terminal to the
session's room. This directory holds TLA+ modules that model the program, TLC
configurations that check them on small instances, and proofs that TLAPS checks
for every value of the constants. Paths below are those of the repository.

## 1. The system

| Part | Source | State | Operations |
|---|---|---|---|
| Event loop | `cmd/governor/app.go` (`run`, `handleEvent`) | sync token, retry delay | sync, back off, dispatch one message at a time, mark it processed, end on a signal |
| Session lifecycle | `cmd/governor/app.go` (`startSession` … `restoreSessions`) | session objects, bridge table | /start, /restart, /commit, /exit, input, exit watchers, restore, shutdown |
| Session store | `internal/sessions`, `internal/store/session_store.go` | sessions in memory | add, look up, delete |
| Tables | `internal/store/processed_event_store.go` | `processed_events`, `sessions` (SQLite, durable) | upsert, delete, list, mark, look up, retention, migrations |
| Worker handle | `internal/container/runner.go` | the container process, its exit status, the channel `done` | start on a PTY or on pipes, write input, stop with escalation |
| Bridge | `internal/bridge/bridge.go` | per stream: batch, two timers, last payload; shared typing count | read, batch, flush, typing, stop |
| ANSI screen | `internal/bridge/ansi_renderer.go` | rows, cursor | apply a batch, list the lines |
| Git workspaces | `internal/gitops/workspace.go` | one bare mirror per repository, one worktree per session (durable) | prepare, commit, push, clean up; tree and diff read only |
| Matrix client | `internal/matrixbot/client.go` | none | sync, send, typing, create/leave/forget rooms |
| Command parser | `internal/sessions/command.go` | none | parse |
| Derived images | `internal/devimage` | images of the container runtime | detect the stack, build |
| Backends, configuration | `internal/agents`, `cmd/governor/config.go`, `main.go` | read once | resolve, validate |

How they interact. The *main goroutine* runs the event loop and, inside it, one
handler at a time; a handler calls git, the container runtime, the homeserver
and the database and blocks on each. For every worker there are more
goroutines: one that reaps it, one exit *watcher* that records its end in the
session, and per stream a *reader* and a *pump*. The watcher shares the session
object and the bridge table with the main goroutine; only the table has a lock.
The reaping goroutine passes the exit status on through a channel with one
place from which both `Process.Stop` and the watcher receive. The two pumps of
a bridge share the typing count, and call the homeserver after they have
released its lock. A signal cancels the root context under which handlers,
containers and database statements run.

What is hard. Watchers act on sessions that a handler is changing; states are
read, blocked upon and written back; a crash can fall between any two durable
steps (worktree, row, room); a restart begins without a sync token, so that
only `processed_events` stands between a message and its replay; a timer may
have fired when it is stopped; a stream may end with chunks still queued; and
all worktrees of a repository stand on the refs of one mirror.

What makes the parts correct:

- *Worker handle*: Stop returns, exactly when the worker was reaped.
- *Lifecycle*: a live worker can be reached through its session's bridge, two
  never share a worktree; what is durable stays consistent over crashes and with
  what is in memory; handlers return, an unexpected end of a worker is noticed, a
  governor that is told to end ends with no worker left.
- *Event loop*: in order, no message passed over, none handled twice.
- *Bridge*: a text that waits is timed; the room is shown what was read; no
  goroutine outlives the worker and the bridge.
- *Screen*: what is shown does not depend on how the output is cut into batches.
- *Git*: a session starts from the branch as it is, a commit holds the edits
  made before it and stays, a clean-up leaves nothing.

## 2. Modules

| Module | Models | Extends |
|---|---|---|
| `ContainerProcess` | the worker handle: reaping, Stop and its escalation, who receives the status | — |
| `SessionLifecycle` | the main goroutine's handlers, the watchers, boot, signal, crash, the durable state | `ContainerProcess` |
| `SessionLifecycleProofs` | theorems about it | `SessionLifecycle`, `TLAPS` |
| `SessionContract` | what the governor promises of worktrees, rows and workers | — |
| `SessionContractProofs` | that `SessionLifecycle` implements it | `SessionLifecycleProofs` |
| `SessionSafetyProofs` | theorems about what it keeps beyond the contract | `SessionContractProofs` |
| `EventLoop` | `run` and the tables it reads and writes, the homeserver's timelines | — |
| `EventLoopProofs` | theorems about it | `EventLoop`, `TLAPS` |
| `BridgePump` | readers, pumps, timers, answers to queries, typing indicator | — |
| `BridgePumpProofs` | theorems about it | `BridgePump`, `TLAPS` |
| `AnsiScreen` | the parser of the output and the screen it is drawn on, batch by batch | — |
| `AnsiCells` | lemmas about its operators, cell by cell | `AnsiScreen`, `TLAPS` |
| `AnsiScreenProofs` | theorems about it | `AnsiCells` |
| `GitMirror` | the mirror, its refs, the worktrees, as the commands change them call by call | — |
| `GitMirrorProofs` | theorems about it | `GitMirror`, `TLAPS` |
| `MCSessionLifecycle`, `MCEventLoop` | symmetry and view for TLC | the module of that name |

`PROJECT.json` maps each definition to the lines it is translated from.
Operators called a *mutant* in their comment are not part of a specification:
each is a plausible bug in the definition below it, and shows that a property
can tell the difference.

### ContainerProcess and SessionLifecycle

A handler is cut into steps wherever it blocks, calls another part or writes
what the watchers read; `main` holds the command, the step and the local
variables (`previousState`, `runtimeImage`, the process awaited). `UpsertSession`
reads the session's fields and then writes the row, so `setSessionState` is
three steps, between which watchers run. A watcher is received → checked →
unbridged → set → read → told. The governor is in mode "start" while it joins the
management room and prunes old events, "boot" while it restores the rows it has
listed, "serve" in its loop. Joining may fail (`JoinFails`), and a signal may
come before the list is read: the statement then fails and the loop begins with
no session restored (`ListFails`). Database and file-system errors may hit the
sessions in `Faulty` at any statement, and the list of all rows if `NoSession`
is in it; what is promised of a session is promised when it is not in `Faulty`,
whatever hits the others. The homeserver, git and the container runtime fail
freely, since the code treats their errors alike.

A message for the worker is two steps, `RecvInput` and then `InputTaken` or
`InputFails`: the write blocks the main goroutine until the worker reads or ends.
The handlers run under the root context, which a signal cancels: from then on
each of their calls may fail (`CtxErr`, `Fails`). So may each call of an orderly
shutdown, whose sessions share 30 seconds.

`box` holds the workers whose container exists: one that is started while another
container has the session's name never gets one, and ends (`Named`). `left` holds
the sessions with a container whose CLI was killed or died with the governor
(`Outlives` says which sessions' containers go on then); it ends by itself, later
(`LeftEnds`). `PowerOff` is what the end of the governor, orderly or by a crash,
leaves to the next start.

Abstractions: session ids are fresh; messages to rooms are left out, for nothing
depends on them; `setExit`, the send on `done` and its close are one step, since
no reader can act in between on what is not there yet; `runner.Start`,
`bridge.Start`, `setBridge` and `go watchProcessExit` are one step
(`LaunchWorker`), because the new worker is reachable by nobody else until the
last. History variables: `severed`, the workers whose bridge was deleted by the
watcher of another worker, and `stale`, the sessions whose row was last written
by the one of two goroutines that had read the State first.

### SessionContract

The abstract specification has the set of sessions with a worktree, the set of
those with a row, and the set of pairs of a session and a worker that is at work
on its worktree and under control. A worktree is made for a session that has
nothing; a worker is started only for a session that has none, so that the pairs
of one session are never two, and that a later governor would find by its row; a
worktree is removed only when no worker is at work on it, and the row only when
the worktree is gone. `SessionLifecycle` instantiates it as `Contract`, with
`files <- disk`, `listed <- Rows`, `Workers <- Procs` and `workers <- Working`,
the pairs of the live workers that are not severed; `KeepsContract` says that it
is implemented. Sessions that database and file-system errors hit (`Faulty`) are
excepted from the two promises that concern the row.

### EventLoop

A message is its room and its position in it. `handleEvent` is a step that
begins and one that ends (`Mark`), so that signals and crashes fall in between
and a handler may also never end. Each sync may begin with any room, and go on
with any other when one is done: the code ranges over a map.
`since` is how much of each room the token covers. `rows` is the durable table;
"old" rows are past the retention. `handled`, `lost`, `top` and `fails` are
history variables that saturate; `lost` holds why a message may be handled
again (`RowCauses`) or was passed over (`PassCauses`).

### BridgePump

Chunks are texts, clears or queries, which move about in the picture and ask the
terminal for an answer. A payload is the set of its lines, each with its number
and its text, so that two pictures are equal when they read alike: the picture of
stdout is the one of all its output, that of stderr begins with the batch. The
pump stops at its `select`, at each call to the homeserver and at each answer,
when it has taken the chunk already, and which waits until the worker reads it or
ends. `room` is a history variable, the last message the homeserver took. A timer
that runs may fire at any time.
Timers have the semantics of the Go version in `go.mod`: the tick of a timer that
has fired stays in its channel until it is received or drained. The 1 MiB bound
on a batch that shows nothing is `MaxKept` chunks. Left out: that the indicator
expires.

### AnsiScreen

What `BridgePump` leaves of a batch to the imagination: the worker writes units,
texts and control sequences, the pump reads them byte by byte, and a flush draws
the batch with the code's parser and screen. A byte is a token, a whole parameter
is one token. Beside it, `ref` takes each unit once and as a whole, as a set of
cells without rows, padding or trimming; the property compares what the two
show. `Step` is `applyANSIToScreen` and `consumeANSIEscape` as an automaton: a
sequence that has no end in the input ends with it, and has no effect.

### GitMirror

One repository. A branch is the set of its commits, the files of a worktree the
number of edits made; each call of git is a step that may fail or be killed, and
then leave a part of what it does: a mirror without its configuration, some of
the refs, a branch or a locked worktree that no session has, a commit whose id
is not reported. A `show-ref` that fails, for whatever reason, is a branch that is
not there (`Resolve`; `unsure` remembers it).
What git itself does is external and modelled from how it is called here:
`clone --mirror` fetches every ref and sets `remote.origin.mirror`; `fetch
--prune` makes the mirror's refs those of the repository, refuses to touch a
branch that is checked out, and deletes the others without a look at worktrees;
a clone that is killed leaves a directory without `remote.origin.fetch`. These
were compared with git 2.39. The repository may itself be a clone, with
remote-tracking branches that a mirror copies.

## 3. Runs

Constants are given as *name*=*value* where they matter. All runs end in
two or three minutes at most on two cores.

Passing runs:

| Run | Bounds | What it shows |
|---|---|---|
| `overlap` | 1 session, 2 workers, containers that outlive their CLI, errors in the list of rows | an old and a new worker of a session at once: reachability, one worker per worktree, watched bridges, Stop returns only when the worker was reaped, states settled between commands, the row tells the State, no worktree goes while its row asks for a restore, no worker left after shutdown; and that all this implements `SessionContract` |
| `durable` | 2 sessions, 1 worker, no errors | what is durable over signals and crashes, during the start of the governor too, while another session is started, restored or shut down: no session lost, a row outlives its worktree, a stored image is kept and used, boot restores every row that was listed |
| `live` | 1 session, 1 worker, errors at any statement, containers that outlive their CLI, fairness | types; handlers return, a signalled governor ends |
| `noticed` | 1 session, 2 workers, a governor that is not told to end, fairness (`CalmSpec`) | the end of a worker that no Stop asked for is noticed, whatever the watcher and the worker before it do |
| `loop` | 2 rooms of 2 messages, `MaxDelay`=3, 1 error | replays and messages passed over are explained; order, whichever room comes first; delays |
| `handled` | 1 room of 2 messages, timelines of 1, 1 error, fairness | each message is handled, or its loss explained |
| `pump` | stdout on pipes, 3 chunks, 1 text, messages of 2 lines, fairness | timers, stale ticks, what the room has been shown, no indicator left behind; texts are delivered, goroutines end |
| `screen` | 3 units of 25, cut anywhere, `MaxBatch`=3 | what a flush shows is what the worker has drawn, wherever the batches end |
| `mirror` | 2 sessions, 3 commits, 1 failure | what a worktree starts from, when a branch is said not to be there, what a commit holds, what a clean-up leaves |

Why these bounds are enough for the cases at hand: a stale watcher needs two
workers of one session, never three; two sessions are enough for one to be shut
down while the other is waiting; two rooms for the random order of a batch; a
limit of 3 seconds cuts a doubled delay as the code's 30 do; three chunks make a
batch that is kept, one that completes it and one that waits while it is sent,
or a picture, a clear and the same picture again, or three lines, which no
message holds, so that a call fails without a bound on failures; one stream is
enough for all that the pumps do not share, and what they share, the count
behind the indicator, is proved for both (`TypingGoesOff`); three units are a
text of two lines, a movement and an operation, or a kept batch, its completion
and a text, and a `MaxBatch` of three bytes is reached by the sequences with a
parameter; with capacity one `chunkCh` fills as it does with 32; the effect of
one session on the mirror of another needs two. Three workers, or two sessions
with errors, go beyond what TLC finishes in minutes; the theorems of section 5
hold for these too.

Runs that end in a violation each check one statement of the documentation or
the code that the code does not keep; section 6 lists them.

Deadlock is not checked: the governor may stay down, the worker and its streams
may have ended, and the bounds on messages, chunks and commits run out. Symmetry
is used for invariants and action properties only, never for liveness. So are the
views, but for `noticed`: `Narrow` hides from it what no action and no part of the
property reads, namely what is left in the handle of a worker that nothing refers
to, how a worker ended once its watcher has set the State, whether a dead one was
severed, and the history `stale`. Two states that it takes for one have the same
futures, so that a cycle it finds or misses is one of the specification.

## 4. Fairness

- `SessionLifecycle`: weak fairness of the main goroutine, of each watcher, of
  the escalation of Stop (its timer fires), and of a worker's end once it was
  killed, its context is done (`exec.CommandContext` kills it) or it found the
  name of its container taken: `(Killed(p) \/ p \notin box) /\ Exit(p)`. None
  for users, signals or crashes, nor for a worker that was only asked to end: it
  may ignore that; nor for a worker to read its input.
  `CalmSpec` (in `MCSessionLifecycle`) has the same fairness and leaves out the
  signal and the end of the governor, after which nobody is left to notice.
- `EventLoop`: weak fairness of the loop, but not of `Mark`: a handler may write
  to a worker that never reads, and not return (`app.go:294`). `MessageHandled`
  names that case. Strong fairness of a successful sync, which assumes of the
  homeserver that it does not refuse for ever.
- `BridgePump`: weak fairness of each reader and each pump, and of the idle timer
  while the worker has paused and all it wrote was taken, `IdleTick(s) /\ took[s] =
  Len(out[s])`: each chunk sets it anew (`bridge.go:253`), so that while output
  goes on it need not fire. `TextDelivered` speaks of a pause. The hard cap is not
  assumed to fire, so that delivery does not rest on it, nor the worker to read
  the answers to its queries (`Answered`).

## 5. Proofs

TLAPS proves, for any sets of sessions, workers, rooms and streams and any bounds:

| Theorem | Says |
|---|---|
| `SessionLifecycleProofs!Invariance` | `IInv` is inductive |
| `TypeCorrect` | `TypeOK` |
| `WorkersStayReachable` | `LiveWorkerReachable`: a live worker that no other worker's watcher cut off is the one its session's bridge leads to |
| `BridgesAreWatched` | `BridgeWatched`: the watcher of a bridge's worker has yet to see its end |
| `OneWorker` | `OneWorkerPerWorkspace`, which follows from the two |
| `SessionContractProofs!DataInvariance` | `IInv /\ DataInv` is inductive |
| `NoSessionLost` | `NoLostSession`: a session in memory has a row, or is being written |
| `ImplementsContract` | `KeepsContract`: `SessionLifecycle` implements `SessionContract`, worker by worker |
| `RowsOutliveWorktrees` | `RowOutlivesWorktree`, an action property, from the contract |
| `SessionSafetyProofs!SafeInvariance` | `IInv /\ DataInv /\ SafeInv` is inductive |
| `StopWaitsForTheEnd` | `StopMeansDead`: when Stop has returned, its worker is dead |
| `SessionsSettle` | `SettledBetweenCommands` |
| `RowsTellState` | `RowIsState` |
| `WorktreesOutliveSessions` | `WorktreeOutlivesSession`, an action property |
| `ImagesSurvive` | `ImageSurvives`, an action property |
| `EveryRowRestored` | `BootRestoresEveryRow`, an action property: unless they could not be listed |
| `ShutdownLeavesNone` | `ShutdownStopsWorkers`, an action property |
| `EventLoopProofs!LoopInvariance` | `LoopInv` is inductive |
| `LoopTypes` | `TypeOK` |
| `ReplaysAreExplained` | `ReplayOnlyAfterLoss` |
| `InOrder` | `HandledInOrder`, an action property |
| `NothingPassedOver` | `NoMessagePassedOver` |
| `DelaysDouble` | `DelayDoubles` |
| `BridgePumpProofs!PumpInvariance` | `PumpInv` is inductive |
| `PumpTypes` | `TypeOK`, with it the capacity of `chunkCh` |
| `NoTickIsStale` | `NoStaleTick` |
| `WaitingIsTimed` | `TextIsTimed` |
| `ShownIsFlushed` | `RoomShowsPicture`: what was suppressed or refused hides nothing |
| `TypingGoesOff` | `TypingEnds`, in any order of the calls after the unlock |
| `AnsiScreenProofs!ScreenTypes` | `TypeOK` |
| `PictureKept` | `PictureIsTheStream` |
| `GitMirrorProofs!MirrorInvariance` | `MirrorIInv` is inductive |
| `MirrorTypes` | `TypeOK` |
| `StartsFresh` | `FreshBase` |
| `NotFoundMeansGone` | `NotFoundIsTrue` |
| `CommitHoldsAll` | `CommitTakesAll` |
| `CleanUpIsWhole` | `CleanedUp` |

*IInv* is `TypeOK /\ ControlInv`. Reachability is not inductive by itself: that
a handler starts a worker only when the old one is dead depends on where in the
handler it is (`HandlerInv`), on what Stop has waited for (`GoneInv`), on which
watcher is in which step (`WatcherInv`), on which handles exist (`HandleInv`), on
the image (`ImageInv`) and on boot beginning with empty tables (`BootInv`). The
proof takes one step per action and under it one per conjunct the action can
disturb.

*DataInv* is what the refinement needs on top of `IInv`. That a worktree is made
for a session that has nothing is `PrepareInv`; that a worker is started for one
that has a row is `NoLostSession` with `LaunchInv` (the session is registered by
then) and, at boot, `RestoreInv` (what is restored has a row); that a worktree is
removed, and a row deleted, with no worker at work follows from `GoneInv` and
`CommandInv`; that the row is deleted after the worktree is `RemovedInv`.
`KnownInv` says that what is written into a row is a State, so that a row that is
written is one that is there. The proof that each step maps to a step of the
contract or a stutter has one step per action: the end of a worker that is not
severed, by itself or because its container's name was taken, is `EndWorker` of
its pair, and so is what severs one, the deletion of its bridge by the watcher of
another (`Dismissed`); `LaunchWorker` is `StartWorker`, whose guard, that no
worker of the session is at work, is what Stop and the bridges have to guarantee
(`GoneNotAtWork`). The contract then gives `RowOutlivesWorktree` without another
look at the governor.

*SafeInv* is what the rest needs on top of these. `ShutdownInv`: the session of
a worker that a bridge leads to is registered, and an orderly shutdown has it on
its list until it has stopped it; so none is left at the end. `StateInv` is five
parts that hold each other up. `PathInv` says which command leads where and
`PlaceInv` when its session is registered; with them `SettledInv` can name the
one session that is not settled, that of the handler, and what a /commit or a
failed input returns to. `RowInv` says of each registered session that its row
tells its State or that somebody has yet to write it, the handler or a watcher,
and `stale` is what becomes of a session where the first to read is the last to
write. `ExitInv` is that /exit never takes back the State it wrote first, so
that the row says so before the worktree goes. `MemoryInv` counts the sessions:
none is in memory before the rows are listed, and during boot one with a row is
still to be restored or is registered, whatever the launches of the others have
met. `ImagesInv`: a session in memory has the image of its row, one that ever
had a worker has one, and a launch without an image is of a session that has
none stored and no worker whose watcher might store it. The last is what was
missing at first: an image that is written by a watcher of the old worker while
the new one is launched would break `ImageSurvives`, and the proof has to show
that nobody can.

*LoopInv* adds to the types that a message which was handled is recorded, has
lost its row, or is in its handler (`HandledIsRecorded`), and how the token, the
rest of the batch and what was handled are ordered (`OrderInv`). The second is
also what keeps `next` in its range, so the types are not inductive alone.
`NoMessagePassedOver` needs of the rows that they hold only what was handled
(`PassInv`): the loop moves on over a message it finds there. `DelayDoubles`
needs that the delay starts anew with a batch and that a wait follows a failure
(`DelayInv`), and about `Doubled`, a recursive function, that it exists and grows
beyond any bound, so that the count of failures may saturate at `MaxDelay`. That
is an induction over numbers, which the provers do here with a set in place of a
predicate: `NatSetInduction`, from the least element of its complement.

*PumpInv* is the types, the indicator and, for each stream, four parts.
`IndicatorInv`: the count is the number of pumps that hold output back, and an
indicator that shows has somebody who will take it back, a pump that is counted
or one that calls `SetTyping(false)`, unless a call failed; a `SetTyping(true)`
that comes late is of a pump that is counted still, which is why `TypingEnds`
holds in any order of the calls. `PlaceInv`: a reader that sends has read
something new, a pump that is to return no longer gathers, a call of `SetTyping`
is the one its pump is counted for, and a pump that has returned is not counted.
`TickInv` is the stale ticks. `TimedInv` extends `TextIsTimed` over the places
where the pump does not wait: a batch shows something only while the pump
gathers, so that after a flush there is nothing left to time. `ShownInv` extends
`RoomShowsPicture` in the same way and by the last payload: the room of a pump
that will go on has taken the last payload, which is why one that equals it need
not be sent. Payloads are compared by their text, so that this is where the
picture of stdout must be the whole one; of stderr, where it is not, nothing is
claimed, and `stderr_repeats` shows why. That a flush keeps the last two is one
lemma for its four callers (`FlushInv`), which splits what the picture shows
into what it showed before the batch and what the batch added (`VisibleSplit`).
A step of one stream leaves the invariant of the other alone (`Framed`).

*Followed* relates the bytes of the batch to the unit that is being read. The
lemmas in `AnsiCells` are of two kinds. The parser is a recursive function over
the batch: that reading one more byte is one more step (`EndAppend`), and that
where it is in a sequence does not depend on the screen (`EndAlone`), are
inductions over the length, again by `NatSetInduction`. The operations work on
ragged and missing lines; each is described there by the cells it changes, and so
is its counterpart on the reference, so that `ObeyShows` can say that both change
the same (`Shows`). The invariant then says: while no flush has cut the unit that
is being read, the parser is inside of that very unit (`InUnit`) and has changed
nothing for it before its last byte; if one has, and something was sent, `bad` is
set (`CutIsBad`); and unless `bad` or `Again` holds, the screen shows the
reference (`ReaderShows`). A flush that keeps its batch applies it once more to
the screen it has already changed: this ends in the same screen, or `Again` holds
and makes it `bad`. A clear that is read whole makes both empty, whatever went
before. What is left, that the same cells give the same trimmed lines, is
`SameLines`, by the greatest column of a row. The attempt changed the model in
two places: `Obey` had two arms that both applied to a clear, and the erase below
was an exception for every mode of the sequence, where only that of mode 0 meets a
row that is missing.

*MirrorIInv* is the types, four parts about the command under way and the four
properties. `OpInv`: a command that runs has not been answered. `MirrorInv`: a
mirror that is not ready has no refs and no worktrees, so that only a ready one
is ever worked on. `AskedInv`: what the branch had when it was asked for, and
still has, is in the mirror from the fetch on, or the mirror is one that a
killed clone left; that it is found there is then a matter of `show-ref`
(`unsure`). `EditsInv`: the edits made before a /commit are in the index once
they are staged. `TreeInv`: where no call failed, worktrees are whole and what
git removed is gone. The properties are part of the invariant because an answer
stays until the next command, while the repository and the worktrees move on.

The assumptions are those the modules name: the bounds are natural numbers, the
limits are positive, `NoProc` and `NoSession` are no worker and no session, and
`Faulty` holds sessions or `NoSession`, the streams are among "stdout" and
"stderr", and `NoBranch` is no branch.

Checked by TLC only: everything under fairness, liveness being out of the
prover's reach here. Every invariant and every action property that a passing run
checks is also a theorem; those of `AnsiScreen` speak of any number of units, of
the 25 kinds that `Units` lists.

## 6. Where the code and what is said of it differ

Each is a run that ends with the scenario, and an entry in `PROJECT.json` that
quotes the statement.

| Run | What happens |
|---|---|
| `exit_stops` | a late watcher removes the new worker's bridge; /exit then stops nothing |
| `last_output` | the last output of a worker is dropped |
| `commits_kept` | the /start of one session deletes the branches of the others |

The modules show more of the kind, which the properties name as exceptions or
leave out, and for which there is no run:

- `SessionLifecycle`: a session that crashed before its image was stored is
  started with an empty one, since `runtimeImage, detectedStack, _, _ :=` at
  `app.go:602` declares a new variable (`ResolveImage`, `main.img`); "running",
  or the State that /commit found before, may be written over the end the
  watcher has just recorded (`Run`, `Commit`); a State and its row may be
  written by the handler and a watcher that overtake one another, and the row
  keeps the older one (`stale`); a watcher may re-insert the row of a session
  that was deleted (`WatchUpsert` after `DeleteRow`); /exit may remove the
  worktree under a container that goes on when its CLI is killed (`left`); an
  orderly end of the governor deletes the rows and worktrees that a restart
  would restore (`ShutdownNext`); a signal during the start leaves the rows as
  they are, for the start after it (`ListFails`); after a crash in /exit a
  session without files is restored and can be restarted; a container that
  outlived its CLI keeps the next one of its session from starting (`Named`); a
  worker that does not read its input holds up all sessions (`RecvInput`,
  `app.go:294`), for which `HandlerReturns` and `MessageHandled` make an
  exception; the end of a worker that is not yet noticed when the next command
  comes may be lost in it (`UnexpectedEndNoticed`); a /start that fails after
  `Prepare` leaves the worktree (`CreateRoom`).
- `EventLoop`: a message is handled again after a signal in its handler or after
  the retention (`RowCauses`), and is never handled after a failed lookup or
  when its timeline was cut (`PassCauses`).
- `BridgePump`: one message that is not taken, or is too long, silences a
  session (`Sent`); a batch of stderr that reads like the one before is taken
  for a repetition and dropped (`Flush`); the hard cap stays off after it fired
  on a batch that shows nothing (`OnHard`); of two calls of `SetTyping` that
  overtake one another the one that begins the indicator may be lost
  (`TypingSet`); in pipe mode output that was not read in time is lost
  (`WaitCloses`).
- `AnsiScreen`, each until the screen is cleared: a batch that was kept is drawn
  twice, so that a text after a tab comes out indented twice (`Again`); a
  sequence that is cut by a flush that shows something is lost, and its rest
  printed as text (`Cut`); erasing below stops at the first row nothing was
  written to (`Gap`).
- `GitMirror`: metadata may stay where `worktree remove` and `prune` fail
  (`CleanedUp`); /push to origin is refused by git, and a push to a URL makes
  every other /start fail as long as the session lives (`Push`, `CheckedOut`); a
  `show-ref` that was interrupted is reported as a branch that is not there
  (`Resolve`); a `worktree add` that was killed leaves a branch, metadata or a
  directory of a session that does not exist (`AddWorktree`), and a commit whose
  `rev-parse` fails is made and reported as failed (`Record`); a clone that was
  killed makes a repository unusable (`mirror` is "bare"); a clone's tracking
  branch is preferred to its branch (`BranchRef`).

## 7. Plan

Done: the modules above, in the order worker handle, lifecycle, event loop,
bridge, git, contract, screen. What could come next, most important first:

1. `Governor`: `EventLoop` and `SessionLifecycle` composed, with a command that
   is replayed after a restart.
2. `CommandParser` as an operator checked against the grammar; `Migrations`
   with a crash between two of them.

Not modelled: configuration, backends and derived images (read or built once;
a build's outcome is a choice in `ResolveImage`), the parser of commands (a pure
function of one message), /status, /tree and /diff (they change nothing), HTML,
JSON and logging, and the scripts that set up a homeserver. Worktrees and rooms
that a failed or interrupted /start leaves behind are modelled, but nothing
promises to remove them: no property is about them.

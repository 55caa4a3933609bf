----------------------------- MODULE EventLoop -----------------------------
(***************************************************************************)
(* The event loop of the governor (run in cmd/governor/app.go): it syncs   *)
(* with the homeserver, hands the messages of the rooms to handleEvent one *)
(* by one and records each in the table processed_events, which is all it  *)
(* remembers across a restart: the sync token starts empty every time.     *)
(*                                                                         *)
(* Here handleEvent is one step that begins and one that ends; what it     *)
(* does is SessionLifecycle.  Events that are no m.room.message never      *)
(* reach the loop.  A message is its room and its position there.          *)
(***************************************************************************)
EXTENDS Naturals, Sequences

CONSTANTS
  Rooms,
  Limit,                  \* the homeserver's limit on a room's timeline
  MaxDelay,               \* maxRetryDelay, in seconds
  MaxEvents,              \* bound: messages in a room
  MaxFaults               \* bound: database errors in a run

ASSUME LimitAssumption == Limit \in Nat \ {0}
ASSUME MaxDelayAssumption == MaxDelay \in Nat \ {0}
ASSUME BoundsAssumption == MaxEvents \in Nat /\ MaxFaults \in Nat

VARIABLES
  timeline,               \* timeline[r]: the senders, "bot" is the governor
  rows,                   \* durable: processed_events, "old" is past the
                          \* retention
  mode,                   \* where run is
  since,                  \* the sync token: how much of a room it covers
  next,                   \* next[r]: the message of the batch that is next
  at,                     \* the room whose messages are being handled
  delay,                  \* retryDelay, in seconds
  ctxDone,                \* SIGTERM was received
  faults,                 \* database errors so far
  handled,                \* history: how often handleEvent got a message, up
                          \* to 2
  lost,                   \* history: why its row is not there or not for
                          \* long, and why the message was passed over
  top,                    \* history: the last message handled in this run
  fails                   \* history: failed syncs in a row, up to MaxDelay

vars == <<timeline, rows, mode, since, next, at, delay, ctxDone, faults,
          handled, lost, top, fails>>

Messages == Rooms \X (1 .. MaxEvents)
RowCauses == {"crash", "signal", "fault", "retention"}
PassCauses == {"lookup", "limited"}
Causes == RowCauses \cup PassCauses
RowLost(e) == lost[e] \cap RowCauses # {}
Missed(e) == lost[e] \cap PassCauses # {}
Start == [r \in Rooms |-> 0]

TypeOK ==
  /\ timeline \in [Rooms -> Seq({"user", "bot"})]
  /\ \A r \in Rooms : Len(timeline[r]) <= MaxEvents
  /\ rows \in [Messages -> {"none", "recent", "old"}]
  /\ mode \in {"down", "loop", "backoff", "batch", "handle"}
  /\ since \in [Rooms -> 0 .. MaxEvents]
  /\ next \in [Rooms -> 1 .. MaxEvents + 1]
  /\ at \in Rooms
  /\ delay \in 1 .. MaxDelay
  /\ ctxDone \in BOOLEAN
  /\ faults \in 0 .. MaxFaults
  /\ handled \in [Messages -> 0 .. 2]
  /\ lost \in [Messages -> SUBSET Causes]
  /\ top \in [Rooms -> 0 .. MaxEvents]
  /\ fails \in 0 .. MaxDelay

Init ==
  /\ timeline = [r \in Rooms |-> <<>>]
  /\ rows = [e \in Messages |-> "none"]
  /\ mode = "down"
  /\ since = Start
  /\ next = [r \in Rooms |-> 1]
  /\ at \in Rooms
  /\ delay = 1
  /\ ctxDone = FALSE
  /\ faults = 0
  /\ handled = [e \in Messages |-> 0]
  /\ lost = [e \in Messages |-> {}]
  /\ top = Start
  /\ fails = 0

-----------------------------------------------------------------------------
Fault == faults < MaxFaults /\ faults' = faults + 1
Fails == Fault \/ (ctxDone /\ UNCHANGED faults)

Pending(r) == next[r] <= since[r]
Current == <<at, next[at]>>
Lose(es, why) == lost' = [e \in Messages |->
                            IF e \in es THEN lost[e] \cup {why} ELSE lost[e]]

Min2(a, b) == IF a < b THEN a ELSE b
Max2(a, b) == IF a > b THEN a ELSE b

(* newApp and the head of run: DeleteProcessedBefore, then the loop, which *)
(* starts without a token.                                                 *)
Boot ==
  /\ mode = "down"
  /\ mode' = "loop"
  /\ LET old == {e \in Messages : rows[e] = "old"} IN
       \/ /\ rows' = [e \in Messages |-> IF e \in old THEN "none" ELSE rows[e]]
          /\ Lose(old, "retention")
          /\ UNCHANGED faults
       \/ Fault /\ UNCHANGED <<rows, lost>>
  /\ since' = Start
  /\ top' = Start
  /\ delay' = 1
  /\ fails' = 0
  /\ UNCHANGED <<timeline, next, at, ctxDone, handled>>

(* SyncOnce succeeds: from each room the messages that came after the      *)
(* token, but only the last Limit of them, whichever room comes first.     *)
(* The token moves before any of them has been handled.                    *)
SyncOk ==
  /\ mode = "loop"
  /\ ~ctxDone
  /\ mode' = "batch"
  /\ since' = [r \in Rooms |-> Len(timeline[r])]
  /\ next' = [r \in Rooms |->
                Max2(since[r], Max2(Len(timeline[r]), Limit) - Limit) + 1]
  /\ at' \in Rooms
  /\ LET cut == {e \in Messages : since[e[1]] < e[2] /\ e[2] < next'[e[1]]} IN
       Lose(cut, "limited")
  /\ delay' = 1
  /\ fails' = 0
  /\ UNCHANGED <<timeline, rows, ctxDone, faults, handled, top>>

(* Mutants of SyncFail: the failed call resets the token, or moves it.     *)
SyncFailForgets ==
  /\ mode = "loop"
  /\ ~ctxDone
  /\ mode' = "backoff"
  /\ since' = Start
  /\ fails' = Min2(fails + 1, MaxDelay)
  /\ UNCHANGED <<timeline, rows, next, at, delay, ctxDone, faults, handled,
                 lost, top>>

SyncFailMoves ==
  /\ mode = "loop"
  /\ ~ctxDone
  /\ mode' = "backoff"
  /\ since' = [r \in Rooms |-> Len(timeline[r])]
  /\ fails' = Min2(fails + 1, MaxDelay)
  /\ UNCHANGED <<timeline, rows, next, at, delay, ctxDone, faults, handled,
                 lost, top>>

(* SyncOnce fails and returns the token it was given.  (When it is the     *)
(* signal that interrupts it, all that comes of it is Stop.)               *)
SyncFail ==
  /\ mode = "loop"
  /\ ~ctxDone
  /\ mode' = "backoff"
  /\ fails' = Min2(fails + 1, MaxDelay)
  /\ UNCHANGED <<timeline, rows, since, next, at, delay, ctxDone, faults,
                 handled, lost, top>>

(* Mutant of Retry: the limit is checked before the delay is doubled.      *)
RetryLate ==
  /\ mode = "backoff"
  /\ mode' = "loop"
  /\ delay' = IF delay > MaxDelay THEN MaxDelay ELSE 2 * delay
  /\ UNCHANGED <<timeline, rows, since, next, at, ctxDone, faults, handled,
                 lost, top, fails>>

Retry ==
  /\ mode = "backoff"
  /\ mode' = "loop"
  /\ delay' = Min2(2 * delay, MaxDelay)
  /\ UNCHANGED <<timeline, rows, since, next, at, ctxDone, faults, handled,
                 lost, top, fails>>

(* The next message of the batch: the rooms come in any order, a new one   *)
(* each time, and the messages of a room together.                         *)
Turn(r) == mode = "batch" /\ Pending(r) /\ (r = at \/ ~Pending(at))

Known(e) == timeline[e[1]][e[2]] = "bot" \/ rows[e] # "none"

(* Mutant of Skip: a message that was processed ends the batch.            *)
SkipRest(r) ==
  /\ Turn(r)
  /\ Known(<<r, next[r]>>)
  /\ next' = [next EXCEPT ![r] = since[r] + 1]
  /\ at' = r
  /\ UNCHANGED <<timeline, rows, mode, since, delay, ctxDone, faults, handled,
                 lost, top, fails>>

(* The governor's own message, one that IsProcessed finds, or one that     *)
(* IsProcessed fails on, is passed over.                                   *)
Skip(r) ==
  /\ Turn(r)
  /\ \/ Known(<<r, next[r]>>) /\ UNCHANGED <<faults, lost>>
     \/ /\ timeline[r][next[r]] # "bot"
        /\ Fails
        /\ Lose({<<r, next[r]>>}, "lookup")
  /\ next' = [next EXCEPT ![r] = @ + 1]
  /\ at' = r
  /\ UNCHANGED <<timeline, rows, mode, since, delay, ctxDone, handled, top,
                 fails>>

(* handleEvent begins.                                                     *)
Handle(r) ==
  /\ Turn(r)
  /\ ~Known(<<r, next[r]>>)
  /\ ~ctxDone
  /\ mode' = "handle"
  /\ at' = r
  /\ handled' = [handled EXCEPT ![<<r, next[r]>>] = Min2(@ + 1, 2)]
  /\ top' = [top EXCEPT ![r] = next[r]]
  /\ UNCHANGED <<timeline, rows, since, next, delay, ctxDone, faults, lost,
                 fails>>

(* Mutant of Mark: its error is taken for success.                         *)
MarkNothing ==
  /\ mode = "handle"
  /\ UNCHANGED <<rows, lost, faults>>
  /\ mode' = "batch"
  /\ next' = [next EXCEPT ![at] = @ + 1]
  /\ UNCHANGED <<timeline, since, at, delay, ctxDone, handled, top, fails>>

(* handleEvent has returned, and MarkProcessed is called under the root    *)
(* context.                                                                *)
Mark ==
  /\ mode = "handle"
  /\ \/ /\ ~ctxDone
        /\ rows' = [rows EXCEPT ![Current] = "recent"]
        /\ UNCHANGED <<lost, faults>>
     \/ Fault /\ Lose({Current}, "fault") /\ UNCHANGED rows
     \/ ctxDone /\ Lose({Current}, "signal") /\ UNCHANGED <<rows, faults>>
  /\ mode' = "batch"
  /\ next' = [next EXCEPT ![at] = @ + 1]
  /\ UNCHANGED <<timeline, since, at, delay, ctxDone, handled, top, fails>>

BatchDone ==
  /\ mode = "batch"
  /\ \A r \in Rooms : ~Pending(r)
  /\ mode' = "loop"
  /\ UNCHANGED <<timeline, rows, since, next, at, delay, ctxDone, faults,
                 handled, lost, top, fails>>

(* The context is done, which run notices between two batches and while it *)
(* waits to retry: shutdownActiveSessions, and the program ends.           *)
Stop ==
  /\ mode \in {"loop", "backoff"}
  /\ ctxDone
  /\ mode' = "down"
  /\ ctxDone' = FALSE
  /\ UNCHANGED <<timeline, rows, since, next, at, delay, faults, handled, lost,
                 top, fails>>

-----------------------------------------------------------------------------
(* The world: a message is sent, the retention passes, a signal, a crash.  *)

Post(r, sender) ==
  /\ Len(timeline[r]) < MaxEvents
  /\ timeline' = [timeline EXCEPT ![r] = Append(@, sender)]
  /\ UNCHANGED <<rows, mode, since, next, at, delay, ctxDone, faults, handled,
                 lost, top, fails>>

Age ==
  /\ \E e \in Messages : rows[e] = "recent"
  /\ rows' = [e \in Messages |-> IF rows[e] = "none" THEN "none" ELSE "old"]
  /\ UNCHANGED <<timeline, mode, since, next, at, delay, ctxDone, faults,
                 handled, lost, top, fails>>

Sigterm ==
  /\ mode # "down"
  /\ ~ctxDone
  /\ ctxDone' = TRUE
  /\ UNCHANGED <<timeline, rows, mode, since, next, at, delay, faults, handled,
                 lost, top, fails>>

Crash ==
  /\ mode # "down"
  /\ mode' = "down"
  /\ ctxDone' = FALSE
  /\ Lose(IF mode = "handle" THEN {Current} ELSE {}, "crash")
  /\ UNCHANGED <<timeline, rows, since, next, at, delay, faults, handled, top,
                 fails>>

Run == \/ SyncFail \/ Retry \/ BatchDone \/ Stop
       \/ \E r \in Rooms : Skip(r) \/ Handle(r)

World == \/ Boot \/ Age \/ Sigterm \/ Crash
         \/ \E r \in Rooms, sender \in {"user", "bot"} : Post(r, sender)

Next == SyncOk \/ Run \/ Mark \/ World

(* The loop runs, and the homeserver does not refuse every sync for ever.  *)
(* Nothing makes a handler return: it may block on a worker that does not  *)
(* read what is written to it.                                             *)
Fairness == WF_vars(Run) /\ SF_vars(SyncOk)

Spec == Init /\ [][Next]_vars
FairSpec == Spec /\ Fairness

-----------------------------------------------------------------------------
(* What the code keeps.                                                    *)

(* The messages of a room are handled in the order they were sent in, and  *)
(* none twice, from one start of the governor to its end.                  *)
HandledInOrder ==
  [][\A r \in Rooms : mode # "handle" /\ mode' = "handle" /\ at' = r =>
       next[r] > top[r]]_vars

(* Across restarts a message is handled again only when its row was never  *)
(* written -- the governor crashed or was told to end in the middle of the *)
(* handler, or the database failed -- or has outlived the retention.       *)
ReplayOnlyAfterLoss == \A e \in Messages : handled[e] > 1 => RowLost(e)

(* The wait before the k-th retry in a row is 1 second, doubled k - 1      *)
(* times, or MaxDelay if that is less, and starts anew after a success.    *)
Doubled[k \in Nat] == IF k = 0 THEN 1 ELSE 2 * Doubled[k - 1]
DelayDoubles ==
  mode \in {"loop", "backoff"} =>
    delay = Min2(Doubled[IF mode = "backoff" THEN fails - 1 ELSE fails], MaxDelay)

(* A message the sync token has left behind was handled, unless looking it *)
(* up failed or the homeserver cut it from the timeline.                   *)
Passed(e) ==
  /\ e[2] <= since[e[1]]
  /\ mode \in {"batch", "handle"} => e[2] < next[e[1]]

NoMessagePassedOver ==
  \A e \in Messages :
    mode # "down" /\ Passed(e) /\ timeline[e[1]][e[2]] = "user"
      => handled[e] > 0 \/ Missed(e)

(* A message is handled, unless the governor is stopped before or the      *)
(* handler of another message never returns, with the same two exceptions. *)
MessageHandled ==
  \A e \in Messages :
    Len(timeline[e[1]]) >= e[2] /\ timeline[e[1]][e[2]] = "user"
      ~> handled[e] > 0 \/ mode = "down" \/ Missed(e) \/ [](mode = "handle")
=============================================================================

------------------------- MODULE MCSessionLifecycle -------------------------
(***************************************************************************)
(* SessionLifecycle for TLC: sessions and processes are model values, and  *)
(* the safety runs may exchange them.                                      *)
(***************************************************************************)
EXTENDS SessionLifecycle, TLC

Symmetric == Permutations(Procs) \cup Permutations(Sessions)

(* What is left in the handle of a worker that nothing refers to is read   *)
(* by no action and no property: the next launch overwrites it.  How a     *)
(* worker ended is read by its watcher only, and before it sets the State; *)
(* whether a worker is severed matters while it is alive.                  *)
Ended(p) ==
  IF watch[p] \in {"set", "read", "silent", "told"} THEN "ended" ELSE proc[p]

Handle(p) ==
  IF Free(p) /\ \A s \in Sessions : bridge[s] # p THEN <<"free">>
  ELSE <<Ended(p), done[p], stop[p], owner[p], watch[p], snap[p],
         proc[p] = "alive" /\ p \in severed, p \in box>>

View == <<[p \in Procs |-> Handle(p)], sess, registered, bridge, durable,
          loop, main>>

(* Without the history of overtaken writes, which no action reads, for     *)
(* runs none of whose properties reads it either.                          *)
Narrow == <<[p \in Procs |-> Handle(p)], sess, registered, bridge, row, disk,
            room, left, loop, main>>

(* Without the end of the governor, so that two workers of a session can   *)
(* be followed under fairness: of a worker whose governor ends there is    *)
(* nothing to be noticed.                                                  *)
CalmNext == Next /\ mode' # "down" /\ UNCHANGED ctxDone
CalmSpec == Init /\ [][CalmNext]_vars /\ Fairness
=============================================================================

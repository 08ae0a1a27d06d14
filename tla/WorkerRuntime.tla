----------------------------- MODULE WorkerRuntime -----------------------------
(***************************************************************************)
(* The life of a worker process (apps/worker/src/runtime.ts and main.ts):  *)
(* starting, polling on a timer, answering health requests, and stopping   *)
(* on a signal.  What a poll does is in Outbox; the callbacks of one event *)
(* loop are steps, and each await lets the others in.  What a health       *)
(* request is answered is left out.                                        *)
(***************************************************************************)
VARIABLES
  starting,   \* where start() is
  running,    \* the fields of the runtime
  polling,
  timer,      \* whether the interval is set
  server,     \* the health server: not there yet, listening, closed
  stopping,   \* what stop() still waits for; Off before a signal
  asked,      \* whether a health request is being answered
  up,         \* external: which dependencies answer
  signalled   \* history: where start() was when the signal came

workerVars == <<starting, running, polling, timer, server, stopping, asked, up, signalled>>

Dependencies == {"database", "redis"}
Off == {"off"}
Exited == {"exited"}

Alive == stopping # Exited
Stopped == stopping # Off
Quit == Stopped /\ Alive

-----------------------------------------------------------------------------
(* Starting *)

(* A dependency that does not answer, one that stop() has closed, or a port in use ends  *)
(* the process.                                                                          *)
StartupFails ==
  /\ Alive /\ starting \in Dependencies \cup {"listen"}
  /\ starting \in up => Quit
  /\ stopping' = Exited
  /\ UNCHANGED <<starting, running, polling, timer, server, asked, up, signalled>>

DatabaseProbed ==
  /\ Alive /\ starting = "database" /\ "database" \in up
  /\ starting' = "redis"
  /\ UNCHANGED <<running, polling, timer, server, stopping, asked, up, signalled>>

(* A ping that was sent before redis.quit is answered. *)
RedisProbed ==
  /\ Alive /\ starting = "redis" /\ "redis" \in up
  /\ Quit => signalled = "redis"
  /\ starting' = "listen"
  /\ UNCHANGED <<running, polling, timer, server, stopping, asked, up, signalled>>

(* startHealthServer, and the first poll. *)
Listening ==
  /\ Alive /\ starting = "listen"
  /\ starting' = "polling"
  /\ server' = "open"
  /\ running' = TRUE /\ polling' = TRUE
  /\ UNCHANGED <<timer, stopping, asked, up, signalled>>

-----------------------------------------------------------------------------
(* Polling *)

(* Mutant: a poll does not ask whether the worker is running. *)
TickAnyway ==
  /\ Alive /\ timer
  /\ ~polling
  /\ polling' = TRUE
  /\ UNCHANGED <<starting, running, timer, server, stopping, asked, up, signalled>>

(* The interval fires; a poll that is not due does nothing. *)
Tick ==
  /\ Alive /\ timer
  /\ running /\ ~polling
  /\ polling' = TRUE
  /\ UNCHANGED <<starting, running, timer, server, stopping, asked, up, signalled>>

(* Whether it failed or not.  The first poll goes on to set the interval. *)
PollEnds ==
  /\ Alive /\ polling
  /\ polling' = FALSE
  /\ starting' = "done"
  /\ timer' = (timer \/ starting = "polling")
  /\ UNCHANGED <<running, server, stopping, asked, up, signalled>>

-----------------------------------------------------------------------------
(* Health *)

(* Liveness, readiness or metrics: a listening server takes it. *)
AskHealth ==
  /\ Alive /\ server = "open" /\ ~asked
  /\ asked' = TRUE
  /\ UNCHANGED <<starting, running, polling, timer, server, stopping, up, signalled>>

(* The probes and the queue's snapshot settle, well or not: 200, 503 or 404. *)
AnswerHealth ==
  /\ Alive /\ asked
  /\ asked' = FALSE
  /\ UNCHANGED <<starting, running, polling, timer, server, stopping, up, signalled>>

-----------------------------------------------------------------------------
(* Stopping *)

Stop ==
  /\ stopping = Off
  /\ running' = FALSE
  /\ timer' = FALSE
  /\ server' = IF server = "open" THEN "closed" ELSE server
  /\ stopping' = (IF server = "open" THEN {"server"} ELSE {}) \cup Dependencies
  /\ signalled' = starting
  /\ UNCHANGED <<starting, polling, asked, up>>

(* server.close waits for the request it is answering. *)
Closed(x) ==
  /\ Quit /\ x \in stopping
  /\ x = "server" => ~asked
  /\ stopping' = stopping \ {x}
  /\ UNCHANGED <<starting, running, polling, timer, server, asked, up, signalled>>

(* process.exit, although a poll may be under way. *)
Exit ==
  /\ stopping = {}
  /\ stopping' = Exited
  /\ UNCHANGED <<starting, running, polling, timer, server, asked, up, signalled>>

(* External: a dependency comes and goes. *)
Turn(d) ==
  /\ Alive
  /\ up' = IF d \in up THEN up \ {d} ELSE up \cup {d}
  /\ UNCHANGED <<starting, running, polling, timer, server, stopping, asked, signalled>>

WorkerInit ==
  /\ starting = "database"
  /\ running = FALSE /\ polling = FALSE /\ timer = FALSE
  /\ server = "none"
  /\ stopping = Off
  /\ asked = FALSE
  /\ up \in SUBSET Dependencies
  /\ signalled = "none"

WorkerNext ==
  \/ StartupFails \/ DatabaseProbed \/ RedisProbed \/ Listening
  \/ Tick \/ PollEnds
  \/ AskHealth \/ AnswerHealth \/ Stop \/ Exit
  \/ \E d \in Dependencies : Turn(d)
  \/ \E x \in {"server"} \cup Dependencies : Closed(x)

WorkerSpec == WorkerInit /\ [][WorkerNext]_workerVars

-----------------------------------------------------------------------------
(* Properties *)

(* "On SIGINT or SIGTERM, stop new polls": once stop() was called no poll begins, not    *)
(* even from the interval that start() sets when the signal came during its first poll.  *)
(* The exception is a signal while start() awaits the answer of Redis or the listener,   *)
(* as it sets running, and polls, whatever came in between.                              *)
NoPollAfterStop ==
  [][~polling /\ polling' /\ Stopped => signalled \in {"redis", "listen"}]_workerVars

=============================================================================

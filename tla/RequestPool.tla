----------------------------- MODULE RequestPool -----------------------------
(***************************************************************************)
(* The threads that serve requests.  FastAPI runs the endpoints in a       *)
(* thread pool, a session per request; the SQLite engine is built with     *)
(* isolation_level None and nothing emits BEGIN (db.py), so every          *)
(* statement commits by itself, a rollback undoes nothing, and what a      *)
(* request has read may be stale when it writes.                           *)
(*                                                                         *)
(* The modules that extend this one take requests apart: a step is one     *)
(* query, one HTTP call or the statements of one flush; a session keeps    *)
(* what it loaded (the fields of job[w]) until its next commit.            *)
(***************************************************************************)
CONSTANT Workers  \* threads of the server's pool

VARIABLES
  job,     \* the rest of the request each worker is serving
  alone    \* history: the worker's request has overlapped no other

Idle == [step |-> "idle"]

At(w, step) == job[w].step = step

(* A request arrives, goes on with what is left of it, or is answered. *)
Serve(w, rest) ==
  /\ job' = [job EXCEPT ![w] = rest]
  /\ alone' = [v \in Workers |-> v = w /\ \A u \in Workers \ {w} : At(u, "idle")]

Continue(w, rest) == job' = [job EXCEPT ![w] = rest] /\ UNCHANGED alone
Advance(w, step) == Continue(w, [job[w] EXCEPT !.step = step])
Answer(w) == Continue(w, Idle)

(* A request that is one step overlaps those in progress. *)
Overtakes == alone' = [w \in Workers |-> FALSE] /\ UNCHANGED job

(* The process is killed: the requests are gone. *)
DropRequests ==
  /\ job' = [w \in Workers |-> Idle]
  /\ UNCHANGED alone

InitRequests ==
  /\ job = [w \in Workers |-> Idle]
  /\ alone = [w \in Workers |-> FALSE]

(* The worker takes a step of the request it is serving. *)
Writes(w) == ~At(w, "idle") /\ job'[w] # job[w]
=============================================================================

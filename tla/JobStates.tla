----------------------------- MODULE JobStates -----------------------------
(***************************************************************************)
(* The job statuses and the transition table of internal/jobs/state.go.    *)
(* NoRow stands for "the jobs table holds no row with this id".            *)
(***************************************************************************)
NoRow == "norow"

AllStatuses == {"queued", "running", "paused", "done", "failed", "cancelled", "interrupted"}

transitions ==
    [ queued      |-> {"running", "cancelled", "failed"},
      running     |-> {"done", "failed", "cancelled", "interrupted", "paused"},
      paused      |-> {"queued", "running", "cancelled"},
      interrupted |-> {"queued", "running", "cancelled", "failed"},
      done        |-> {},
      failed      |-> {},
      cancelled   |-> {} ]

CanTransition(from, to) == from \in AllStatuses /\ to \in transitions[from]

Terminal(s) == s \in AllStatuses /\ transitions[s] = {}

(* Seeded bug: rows in running are handed out again. *)
RunnableAgain(s) == s \in {"queued", "interrupted", "running"}

(* Seeded bug: interrupted jobs are forgotten. *)
RunnableQueued(s) == s = "queued"

(* The WHERE clause of db.RunnableJobs. *)
Runnable(s) == s \in {"queued", "interrupted"}
=============================================================================

------------------------------- MODULE Queue -------------------------------
(***************************************************************************)
(* A task of the Asynq queues (internal/jobs): what the library does with  *)
(* it between the enqueue and the archive.  A handler that returns an      *)
(* error, and a worker that dies (its lease expires and the recoverer      *)
(* finds the task), both cost the task one of its retries; one that has    *)
(* none left is archived and never runs again.                             *)
(***************************************************************************)
EXTENDS Naturals

NoTask == [state |-> "none", tries |-> 0]
Enqueued == [state |-> "queued", tries |-> 0]
Started(task) == [task EXCEPT !.state = "running"]
Finished(task) == [state |-> "done", tries |-> 0]

\* Fault: a retry too many.
FailedAtLast(task, maxRetry) ==
    IF task.tries <= maxRetry
    THEN [state |-> "queued", tries |-> task.tries + 1]
    ELSE [task EXCEPT !.state = "archived"]

Failed(task, maxRetry) ==
    IF task.tries < maxRetry
    THEN [state |-> "queued", tries |-> task.tries + 1]
    ELSE [task EXCEPT !.state = "archived"]

Tasks(maxRetry) ==
    [state : {"none", "queued", "running", "done", "archived"}, tries : 0 .. maxRetry]

=============================================================================

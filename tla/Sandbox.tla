------------------------------ MODULE Sandbox ------------------------------
(***************************************************************************)
(* The sandbox service (apps/sandbox): a loop that fetches submissions, a  *)
(* semaphore of MaxConcurrent slots, a worker for each submission that     *)
(* pulls the binary, spawns the container, publishes run.started and       *)
(* commits, and a timer for each container that terminates it when its run *)
(* is over.                                                                *)
(*                                                                         *)
(* Submissions are the messages 1, 2, ... of one partition.  The reader    *)
(* has no CommitInterval, so that a commit takes effect at once; the       *)
(* broker keeps the last offset it was sent, whatever the order in which   *)
(* the workers finish.  A container is named after its submission, and     *)
(* survives the process.  The durations (30 s of health checks, the run    *)
(* and its 30 s of grace) are left out: a timer fires at any time.  The    *)
(* download from MinIO and the calls to Docker are given no deadline, and  *)
(* may never return.                                                       *)
(***************************************************************************)
EXTENDS Integers, FiniteSets

CONSTANTS
    Last,            \* the submissions are 1..Last
    MaxConcurrent,   \* SANDBOX_MAX_CONCURRENT
    MaxRestarts      \* bound: restarts of the service in a behaviour

ASSUME ConstantsAssumption ==
    /\ Last \in Nat
    /\ MaxConcurrent \in Nat \ {0}
    /\ MaxRestarts \in Nat

Submissions == 1..Last

VARIABLES
    position,     \* the last submission fetched by this process
    waiting,      \* the one the loop is at, blocked on the semaphore, or 0
    worker,       \* the call each submission's worker makes next
    hung,         \* the workers whose call never returns
    containers,   \* the submissions that have a container
    timers,       \* those whose container a timer of this process terminates
    started,      \* submissions with a run.started message
    offset,       \* the committed offset: the last submission not to be fetched again
    handled,      \* submissions a worker has finished with, in any process (history)
    leftBehind,   \* containers no worker or timer will come back to (history)
    restarts

vars == <<position, waiting, worker, hung, containers, timers, started, offset,
          handled, leftBehind, restarts>>

\* The workers that hold a slot of the semaphore.
Working == {s \in Submissions : worker[s] # "none"}

Steps == {"none", "pull", "create", "boot", "teardown", "publish", "report", "commit"}

Init ==
    /\ position = 0 /\ waiting = 0
    /\ worker = [s \in Submissions |-> "none"] /\ hung = {}
    /\ containers = {} /\ timers = {}
    /\ started = {}
    /\ offset = 0
    /\ handled = {} /\ leftBehind = {}
    /\ restarts = 0

---------------------------------------------------------------------------
(* The loop *)

\* Mutant: the loop commits a submission when it fetches it.
Fetch_Commit ==
    /\ waiting = 0 /\ position < Last
    /\ position' = position + 1
    /\ waiting' = position + 1
    /\ offset' = position + 1
    /\ UNCHANGED <<worker, hung, containers, timers, started, handled,
                   leftBehind, restarts>>

Fetch ==
    /\ waiting = 0 /\ position < Last
    /\ position' = position + 1
    /\ waiting' = position + 1
    /\ UNCHANGED <<worker, hung, containers, timers, started, offset, handled,
                   leftBehind, restarts>>

\* A slot is free: the worker is started.
Dispatch ==
    /\ waiting # 0
    /\ Cardinality(Working) < MaxConcurrent
    /\ worker' = [worker EXCEPT ![waiting] = "pull"]
    /\ waiting' = 0
    /\ UNCHANGED <<position, hung, containers, timers, started, offset, handled,
                   leftBehind, restarts>>

---------------------------------------------------------------------------
(* A worker.  On an error process returns, and the worker reports it. *)

Goto(s, step) == worker' = [worker EXCEPT ![s] = step]

Pull(s, ok) ==
    /\ worker[s] = "pull"
    /\ Goto(s, IF ok THEN "create" ELSE "report")
    /\ UNCHANGED <<position, waiting, hung, containers, timers, started, offset,
                   handled, leftBehind, restarts>>

\* createContainer: an error, always when a container has that name already.
CreateContainer(s, ok) ==
    /\ worker[s] = "create"
    /\ ok => s \notin containers
    /\ containers' = IF ok THEN containers \cup {s} ELSE containers
    /\ Goto(s, IF ok THEN "boot" ELSE "report")
    /\ UNCHANGED <<position, waiting, hung, timers, started, offset, handled,
                   leftBehind, restarts>>

\* Mutant: an error after the creation is returned without a teardown.
BootContainer_NoTeardown(s, ok) ==
    /\ worker[s] = "boot"
    /\ Goto(s, IF ok THEN "publish" ELSE "report")
    /\ UNCHANGED <<position, waiting, hung, containers, timers, started, offset,
                   handled, leftBehind, restarts>>

\* Copy of the binary, start, inspection and health check: an error of any of them
\* goes to the teardown.
BootContainer(s, ok) ==
    /\ worker[s] = "boot"
    /\ Goto(s, IF ok THEN "publish" ELSE "teardown")
    /\ UNCHANGED <<position, waiting, hung, containers, timers, started, offset,
                   handled, leftBehind, restarts>>

\* TerminateSandbox, whose error no caller looks at.
TerminateSandbox(s, ok) ==
    /\ containers' = IF ok THEN containers \ {s} ELSE containers
    /\ leftBehind' = IF ok THEN leftBehind ELSE leftBehind \cup {s}

Teardown(s, ok) ==
    /\ worker[s] = "teardown"
    /\ TerminateSandbox(s, ok)
    /\ Goto(s, "report")
    /\ UNCHANGED <<position, waiting, hung, timers, started, offset, handled,
                   restarts>>

\* Mutant: the timer is started before the publish, whose error goes to the teardown.
PublishStarted_TimerFirst(s, ok) ==
    /\ worker[s] = "publish"
    /\ started' = IF ok THEN started \cup {s} ELSE started
    /\ timers' = timers \cup {s}
    /\ Goto(s, IF ok THEN "commit" ELSE "teardown")
    /\ UNCHANGED <<position, waiting, hung, containers, offset, handled,
                   leftBehind, restarts>>

\* Publish of run.started, and the start of the timer.  On an error process returns
\* before there is one: the container is left behind.
PublishStarted(s, ok) ==
    /\ worker[s] = "publish"
    /\ started' = IF ok THEN started \cup {s} ELSE started
    /\ timers' = IF ok THEN timers \cup {s} ELSE timers
    /\ leftBehind' = IF ok THEN leftBehind ELSE leftBehind \cup {s}
    /\ Goto(s, IF ok THEN "commit" ELSE "report")
    /\ UNCHANGED <<position, waiting, hung, containers, offset, handled, restarts>>

\* Mutant: the worker returns on the error, without a commit.
PublishFailed_Return(s) ==
    /\ worker[s] = "report"
    /\ Goto(s, "none")
    /\ UNCHANGED <<position, waiting, hung, containers, timers, started, offset,
                   handled, leftBehind, restarts>>

\* PublishFailed: the writer has a topic of its own and the message names another one,
\* which WriteMessages refuses.  The error is logged.
PublishFailed(s) ==
    /\ worker[s] = "report"
    /\ Goto(s, "commit")
    /\ UNCHANGED <<position, waiting, hung, containers, timers, started, offset,
                   handled, leftBehind, restarts>>

\* Mutant: the offset is one too far.
CommitAndRelease_Next(s, ok) ==
    /\ worker[s] = "commit"
    /\ offset' = IF ok THEN s + 1 ELSE offset
    /\ handled' = handled \cup {s}
    /\ Goto(s, "none")
    /\ UNCHANGED <<position, waiting, hung, containers, timers, started,
                   leftBehind, restarts>>

\* CommitMessages, whose error is logged, and the release of the slot.
CommitAndRelease(s, ok) ==
    /\ worker[s] = "commit"
    /\ offset' = IF ok THEN s ELSE offset
    /\ handled' = handled \cup {s}
    /\ Goto(s, "none")
    /\ UNCHANGED <<position, waiting, hung, containers, timers, started,
                   leftBehind, restarts>>

\* The call that a worker makes never returns: the download, or one of those to Docker.  A
\* create that hangs when the container is there is, to everyone else, a boot that hangs, and
\* a teardown that hangs when it is gone a pull that does.
Hang(s) ==
    /\ worker[s] \in {"pull", "create", "boot", "teardown"}
    /\ hung' = hung \cup {s}
    /\ UNCHANGED <<position, waiting, worker, containers, timers, started, offset, handled,
                   leftBehind, restarts>>

---------------------------------------------------------------------------
\* The timer of a container fires.
Expire(s, ok) ==
    /\ s \in timers
    /\ timers' = timers \ {s}
    /\ TerminateSandbox(s, ok)
    /\ UNCHANGED <<position, waiting, worker, hung, started, offset, handled,
                   restarts>>

\* The process dies: workers and timers are gone, the containers stay.
Restart ==
    /\ restarts < MaxRestarts
    /\ restarts' = restarts + 1
    /\ position' = offset /\ waiting' = 0
    /\ worker' = [s \in Submissions |-> "none"] /\ hung' = {}
    /\ timers' = {}
    /\ leftBehind' = leftBehind \cup containers
    /\ UNCHANGED <<containers, started, offset, handled>>

\* A step of a worker whose call returns.
Work(s) ==
  /\ s \notin hung
  /\ \/ \E ok \in BOOLEAN : \/ Pull(s, ok)
                              \/ CreateContainer(s, ok)
                              \/ BootContainer(s, ok)
                              \/ Teardown(s, ok)
                              \/ PublishStarted(s, ok)
                              \/ CommitAndRelease(s, ok)
     \/ PublishFailed(s)

Next ==
    \/ Fetch
    \/ Dispatch
    \/ \E s \in Submissions : Work(s) \/ Hang(s)
    \/ \E s \in Submissions, ok \in BOOLEAN : Expire(s, ok)
    \/ Restart

\* A worker whose call returns goes on, and the loop takes a slot that stays free.  Nothing
\* makes a submission arrive, and nothing makes a call return that hangs.
Fairness ==
    /\ WF_vars(Dispatch)
    /\ \A s \in Submissions : WF_vars(Work(s))

Safety == Init /\ [][Next]_vars
Spec == Safety /\ Fairness

---------------------------------------------------------------------------
(* Properties *)

TypeOK ==
    /\ position \in 0..Last /\ waiting \in 0..Last
    /\ worker \in [Submissions -> Steps] /\ hung \subseteq Working
    /\ containers \subseteq Submissions /\ timers \subseteq Submissions
    /\ started \subseteq Submissions
    /\ offset \in 0..Last
    /\ handled \subseteq Submissions
    /\ leftBehind \subseteq Submissions
    /\ restarts \in 0..MaxRestarts

\* Every container has someone to terminate it: the worker that has yet to boot or to
\* announce it, or a timer.  The exceptions are a failed Publish, a failed removal and
\* a crash, and no other error path (docker.go:36-69, consumer/kafka.go:121-152).
ContainersAreOwned ==
    \A s \in containers \ leftBehind :
        worker[s] \in {"boot", "teardown", "publish"} \/ s \in timers

\* No timer terminates what is not there, and no run is announced without a container
\* that is up: the teardown of one attempt never takes the container of another
\* (docker.go:39-44, consumer/kafka.go:139-150).
TimersHaveContainers ==
    /\ timers \subseteq containers
    /\ \A s \in Submissions : worker[s] \in {"boot", "teardown", "publish"} =>
           s \in containers /\ s \notin timers

\* The submissions that no process will come back to although none has handled them:
\* a later one was committed first, and a crash came before their worker was done.
Skipped == {s \in 1..offset : s \notin handled /\ worker[s] = "none"}

\* Workers commit out of order (consumer/kafka.go:89-109), and what that costs is bounded
\* by the semaphore: a crash skips fewer submissions than there are slots, and with one
\* slot none.
CrashesSkipFew == Cardinality(Skipped) <= restarts * (MaxConcurrent - 1)

\* What a call without a deadline costs (consumer/kafka.go:89-109, puller/minio.go:42-61):
\* the submission that waits for it, and its slot, until the process restarts.  Every other
\* submission that was fetched is handled in the end, whatever fails, as long as one slot is
\* left; when as many calls hang as there are slots, the loop is stopped for good.
FetchedIsHandled ==
    \A s \in Submissions :
        (position >= s /\ s \notin handled) ~>
            \/ s \in handled \cup hung
            \/ Cardinality(hung) = MaxConcurrent
            \/ restarts > 0

=============================================================================

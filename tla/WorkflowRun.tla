----------------------------- MODULE WorkflowRun ------------------------------
(***************************************************************************)
(* ONE run of a workflow: a graph of draft-only steps, stored as rows, put *)
(* on a pg-boss queue by an API request and executed by the worker.        *)
(*                                                                         *)
(* An execution (executeWorkflowRun, services/workflows/executor.ts) works *)
(* through the graph in waves of concurrent steps.  It may throw while     *)
(* steps of its wave are still under way: they go on as orphans, while     *)
(* pg-boss hands the job to a new execution that starts from the first     *)
(* step.  A job may expire under an execution that is merely slow.         *)
(* Operators cancel the run and retry steps at any time; nothing fences    *)
(* any of these writers.                                                   *)
(*                                                                         *)
(* What is abstracted:                                                     *)
(*  - a step's input and output are left out: a step is the output it has; *)
(*  - a workflow whose action names or step ids are refused (unknown,      *)
(*    forbidden, duplicate) is never stored; the dependency graph is any;  *)
(*  - an action that outlives its timeout goes on without any effect here: *)
(*    the registered actions only read and draft;                          *)
(*  - one worker process, batch size one;                                  *)
(*  - an audit write is a statement that may fail, its row is left out.    *)
(***************************************************************************)
EXTENDS Integers, FiniteSets, FiniteSetsExt

CONSTANTS
    Steps,        \* step ids of the workflow
    Unknown,      \* ids a dependency may name that no step has
    NoExec,       \* a null execution
    MaxAttempts,  \* retry.maxAttempts of the steps
    RetryLimit,   \* retryLimit of the queue: a job is tried once more than this
    MaxJobs,      \* BOUND: jobs enqueued for the run
    MaxCalls,     \* BOUND: cancel and retry requests
    MaxOverlaps   \* BOUND: jobs that expire under an execution still in flight

Jobs  == 1..MaxJobs
Execs == Jobs \X (0..RetryLimit)     \* an execution is one try of one job

ASSUME ConstantsAssumption ==
    /\ MaxAttempts \in Nat \ {0}
    /\ RetryLimit \in Nat /\ MaxJobs \in Nat /\ MaxCalls \in Nat /\ MaxOverlaps \in Nat
    /\ Steps # {} /\ IsFiniteSet(Steps) /\ Steps \cap Unknown = {}
    /\ NoExec \notin Execs

VARIABLES
    deps,      \* dependsOn of the stored specification
    run,       \* the workflow_runs row: status ("none": not inserted) and output
    row,       \* the status of each workflow_step_runs row ("absent": not inserted)
    job,       \* the pg-boss jobs of the run
    slotTaken, \* a job of the current 24 hours has the run's singleton key
    exec,      \* executions: where each stands, and the steps it completed
    task,      \* runStep of each execution and step
    handling,  \* the execution the worker waits for
    request,   \* the API request under way
    calls,     \* cancel and retry requests so far
    owner,     \* history: the execution that alone has written since it began
    unsent,    \* history: a request ended without its job on the queue
    overlaps   \* history: jobs that expired under an execution still in flight

vars == <<deps, run, row, job, slotTaken, exec, task, handling, request, calls, owner,
          unsent, overlaps>>

api     == <<slotTaken, request, calls, unsent>>
history == <<unsent, overlaps>>

-----------------------------------------------------------------------------
(* validateWorkflowSpec                                                    *)

Graphs == [Steps -> SUBSET (Steps \cup Unknown)]

\* Mutant: only a step that depends on itself is refused.
FindsSelfDependency(d) == \E s \in Steps : s \in d[s]

Ids  == Steps \cup Unknown
Seen == [visited : SUBSET Ids, cycle : BOOLEAN]

Below(d, s) == IF s \in Steps THEN d[s] ELSE {}

\* A loop that calls visit on one step after the other.
VisitEach(visit, path, S, seen) ==
    FoldSet(LAMBDA t, acc : visit[<<path, t, acc>>], seen, S)

\* visit: depth first, with the steps on the path and those done.
VisitStep(visit, d, path, s, seen) ==
    IF s \in seen.visited THEN seen
    ELSE IF s \in path THEN [seen EXCEPT !.cycle = TRUE]
    ELSE [VisitEach(visit, path \cup {s}, Below(d, s), seen) EXCEPT !.visited = @ \cup {s}]

Visit(d) ==
    LET visit[p \in (SUBSET Ids) \X Ids \X Seen] == VisitStep(visit, d, p[1], p[2], p[3])
    IN  visit

FindsCycle(d) == VisitEach(Visit(d), {}, Steps, [visited |-> {}, cycle |-> FALSE]).cycle

\* Mutant: a dependency on a step that does not exist is let through.
AcceptsUnknown(d) == ~FindsCycle(d)

Accepted(d) ==
    /\ \A s \in Steps : d[s] \subseteq Steps \ {s}
    /\ ~FindsCycle(d)

-----------------------------------------------------------------------------
(* Types                                                                   *)

RunStatuses  == {"none", "queued", "running", "succeeded", "failed", "cancelled"}
StepStatuses == {"absent", "pending", "running", "succeeded", "failed", "blocked",
                 "cancelled"}
JobStates    == {"none", "created", "active", "retry", "completed", "failed"}
Phases       == {"none", "read", "begin", "loop", "block", "fail", "succeed", "audit",
                 "ended"}
TaskSteps    == {"idle", "start", "acting", "stored", "giveUp", "ok", "failed", "dead"}
Requests     == {"idle", "insertRows", "requeue", "enqueue", "cancelRows"}

TypeOK ==
    /\ deps \in Graphs
    /\ run \in [status : RunStatuses, output : SUBSET Steps]
    /\ row \in [Steps -> StepStatuses]
    /\ job \in [Jobs -> [state : JobStates, tries : 0..RetryLimit]]
    /\ slotTaken \in BOOLEAN
    /\ exec \in [Execs -> [phase : Phases, done : SUBSET Steps]]
    /\ task \in [Execs -> [Steps -> [pc : TaskSteps, attempt : 0..MaxAttempts]]]
    /\ handling \in Execs \cup {NoExec}
    /\ request \in Requests
    /\ calls \in 0..MaxCalls
    /\ owner \in Execs \cup {NoExec}
    /\ unsent \in BOOLEAN /\ overlaps \in 0..MaxOverlaps

\* A stored workflow, never run.
Init ==
    /\ deps \in Graphs
    /\ run = [status |-> "none", output |-> {}]
    /\ row = [s \in Steps |-> "absent"]
    /\ job = [j \in Jobs |-> [state |-> "none", tries |-> 0]]
    /\ slotTaken = FALSE
    /\ exec = [e \in Execs |-> [phase |-> "none", done |-> {}]]
    /\ task = [e \in Execs |-> [s \in Steps |-> [pc |-> "idle", attempt |-> 0]]]
    /\ handling = NoExec
    /\ request = "idle"
    /\ calls = 0
    /\ owner = NoExec
    /\ unsent = FALSE /\ overlaps = 0

-----------------------------------------------------------------------------
(* API requests: each a sequence of separate statements                    *)

\* createWorkflowRun: the run, then its step rows.
CreateRun ==
    /\ request = "idle" /\ run.status = "none"
    /\ Accepted(deps)
    /\ run' = [run EXCEPT !.status = "queued"]
    /\ request' = "insertRows"
    /\ owner' = NoExec
    /\ UNCHANGED <<deps, row, job, slotTaken, exec, task, handling, calls, history>>

InsertRows ==
    /\ request = "insertRows"
    /\ row' = [s \in Steps |-> "pending"]
    /\ request' = "enqueue"
    /\ owner' = NoExec
    /\ UNCHANGED <<deps, run, job, slotTaken, exec, task, handling, calls, history>>

\* markFailedStepForRetry: any step, whatever its status, then the run.
RetryStep ==
    /\ request = "idle" /\ calls < MaxCalls
    /\ \E s \in Steps : row[s] # "absent" /\ row' = [row EXCEPT ![s] = "pending"]
    /\ request' = "requeue"
    /\ calls' = calls + 1
    /\ owner' = NoExec
    /\ UNCHANGED <<deps, run, job, slotTaken, exec, task, handling, history>>

Requeue ==
    /\ request = "requeue"
    /\ run' = [run EXCEPT !.status = "queued"]
    /\ request' = "enqueue"
    /\ owner' = NoExec
    /\ UNCHANGED <<deps, row, job, slotTaken, exec, task, handling, calls, history>>

\* enqueueWorkflowRun: the singleton key admits one job in 24 hours, finished or not;
\* a send that finds the slot taken answers null, and nobody looks at the answer.
Enqueue ==
    /\ request = "enqueue"
    /\ request' = "idle"
    /\ \/ /\ ~slotTaken
          /\ \E j \in Jobs :
                /\ job[j].state = "none" /\ \A i \in 1..(j - 1) : job[i].state # "none"
                /\ job' = [job EXCEPT ![j].state = "created"]
          /\ slotTaken' = TRUE
          /\ UNCHANGED unsent
       \/ slotTaken /\ unsent' = TRUE /\ UNCHANGED <<job, slotTaken>>
    /\ UNCHANGED <<deps, run, row, exec, task, handling, calls, owner, overlaps>>

\* cancelWorkflowRun: the run whatever its status, then its pending steps.
CancelRun ==
    /\ request = "idle" /\ calls < MaxCalls
    /\ run.status # "none"
    /\ run' = [run EXCEPT !.status = "cancelled"]
    /\ request' = "cancelRows"
    /\ calls' = calls + 1
    /\ owner' = NoExec
    /\ UNCHANGED <<deps, row, job, slotTaken, exec, task, handling, history>>

CancelRows ==
    /\ request = "cancelRows"
    /\ row' = [s \in Steps |-> IF row[s] = "pending" THEN "cancelled" ELSE row[s]]
    /\ request' = "idle"
    /\ owner' = NoExec
    /\ UNCHANGED <<deps, run, job, slotTaken, exec, task, handling, calls, history>>

\* A request fails or its process dies between two statements.
RequestDies ==
    /\ request # "idle"
    /\ request' = "idle"
    /\ unsent' = (unsent \/ request # "cancelRows")
    /\ UNCHANGED <<deps, run, row, job, slotTaken, exec, task, handling, calls, owner,
                   overlaps>>

\* The 24 hours of the singleton slot are over.
SlotPasses ==
    /\ slotTaken
    /\ \E j \in Jobs : job[j].state = "none"
    /\ slotTaken' = FALSE
    /\ UNCHANGED <<deps, run, row, job, exec, task, handling, request, calls, owner, history>>

-----------------------------------------------------------------------------
(* The queue and the worker, batch size one                                *)

InFlight(e, s) == task[e][s].pc \in {"start", "acting", "stored", "giveUp"}

\* What stays of an execution that ended: the steps it left under way.
Left(e) == [s \in Steps |-> IF InFlight(e, s) THEN task[e][s]
                                              ELSE [pc |-> "dead", attempt |-> 0]]

\* Mutants: one try too many; an execution that throws counts as completed.
RetriedOnceMore(j) ==
    IF job[j].tries <= RetryLimit THEN [state |-> "retry", tries |-> job[j].tries + 1]
                                  ELSE [job[j] EXCEPT !.state = "failed"]
FailureSwallowed(j) == [job[j] EXCEPT !.state = "completed"]

\* A job that failed or expired is tried again while tries are left.
Retried(j) ==
    IF job[j].tries < RetryLimit THEN [state |-> "retry", tries |-> job[j].tries + 1]
                                 ELSE [job[j] EXCEPT !.state = "failed"]

Fetchable == {j \in Jobs : job[j].state \in {"created", "retry"}}

Fetch ==
    /\ handling = NoExec
    /\ \E j \in Fetchable :
        LET e == <<j, job[j].tries>> IN
        /\ job' = [job EXCEPT ![j].state = "active"]
        /\ exec' = [exec EXCEPT ![e].phase = "read"]
        /\ handling' = e
    /\ UNCHANGED <<deps, run, row, task, api, owner, overlaps>>

\* The execution answers or throws.  The worker settles the job it waits for; an
\* execution whose job expired has nobody waiting.
Ends(e, settled) ==
    /\ exec' = [exec EXCEPT ![e] = [phase |-> "ended", done |-> {}]]
    /\ IF handling = e
       THEN handling' = NoExec /\ job' = [job EXCEPT ![e[1]] = settled]
       ELSE UNCHANGED <<handling, job>>

Handles(j) == handling # NoExec /\ handling[1] = j

\* Mutant: the expiry is a timer of the worker, and dies with it.
ExpireWhileHandled(j) ==
    /\ job[j].state = "active" /\ Handles(j) /\ overlaps < MaxOverlaps
    /\ overlaps' = overlaps + 1
    /\ job' = [job EXCEPT ![j] = Retried(j)]
    /\ handling' = NoExec
    /\ UNCHANGED <<deps, run, row, exec, task, api, owner>>

\* After 60 minutes an active job expires, whether its execution is slow or dead.
Expire(j) ==
    /\ job[j].state = "active"
    /\ job' = [job EXCEPT ![j] = Retried(j)]
    /\ \/ /\ Handles(j)
          /\ overlaps < MaxOverlaps
          /\ overlaps' = overlaps + 1
          /\ handling' = NoExec
       \/ /\ ~Handles(j)
          /\ UNCHANGED <<handling, overlaps>>
    /\ UNCHANGED <<deps, run, row, exec, task, api, owner>>

\* The worker process dies, with every execution and every orphan in it.
WorkerDies ==
    /\ \E e \in Execs : exec[e].phase \notin {"none", "ended"} \/ \E s \in Steps : InFlight(e, s)
    /\ exec' = [e \in Execs |-> IF exec[e].phase = "none" THEN exec[e]
                                ELSE [phase |-> "ended", done |-> {}]]
    /\ task' = [e \in Execs |-> IF exec[e].phase = "none" THEN task[e]
                                ELSE [s \in Steps |-> [pc |-> "dead", attempt |-> 0]]]
    /\ handling' = NoExec
    /\ UNCHANGED <<deps, run, row, job, api, owner, overlaps>>

-----------------------------------------------------------------------------
(* executeWorkflowRun                                                      *)

\* A write to the run or its rows: by the owner, or by somebody else.
Writes(e) == owner' = IF owner = e THEN owner ELSE NoExec

\* A run read as cancelled is left alone.
ReadRun(e) ==
    /\ exec[e].phase = "read"
    /\ \/ run.status = "cancelled" /\ Ends(e, [job[e[1]] EXCEPT !.state = "completed"])
          /\ task' = [task EXCEPT ![e] = Left(e)]
       \/ run.status # "cancelled" /\ exec' = [exec EXCEPT ![e].phase = "begin"]
          /\ UNCHANGED <<handling, job, task>>
    /\ UNCHANGED <<deps, run, row, api, owner, overlaps>>

\* Validated again, then running, whatever the status has become since.
Begin(e) ==
    /\ exec[e].phase = "begin"
    /\ Accepted(deps)
    /\ run' = [run EXCEPT !.status = "running"]
    /\ exec' = [exec EXCEPT ![e].phase = "loop"]
    /\ owner' = e
    /\ UNCHANGED <<deps, row, job, task, handling, api, overlaps>>

\* Mutants: one completed dependency is enough; a failure leaves the rest pending.
ReadyAnyDependency(e, done) ==
    {s \in Steps : task[e][s].pc = "idle" /\ (deps[s] = {} \/ deps[s] \cap done # {})}
PhaseSkippingBlock(failed, ready) ==
    IF failed # {} THEN "fail" ELSE IF ready = {} THEN "succeed" ELSE "loop"

\* getReadySteps
Ready(e, done) == {s \in Steps : task[e][s].pc = "idle" /\ deps[s] \subseteq done}

PhaseAfterWave(failed, ready) ==
    IF failed # {} THEN "block" ELSE IF ready = {} THEN "succeed" ELSE "loop"

\* The loop between two waves: every step of the last one has answered.
Advance(e) ==
    LET done   == {s \in Steps : task[e][s].pc = "ok"}
        failed == {s \in Steps : task[e][s].pc = "failed"}
        ready  == Ready(e, done)
        phase  == PhaseAfterWave(failed, ready)
    IN
    /\ exec[e].phase = "loop"
    /\ \A s \in Steps : task[e][s].pc \in {"idle", "ok", "failed"}
    /\ exec' = [exec EXCEPT ![e] = [phase |-> phase, done |-> done]]
    /\ task' = IF phase # "loop" THEN task
               ELSE [task EXCEPT ![e] = [s \in Steps |->
                        IF s \in ready THEN [pc |-> "start", attempt |-> 0] ELSE task[e][s]]]
    /\ UNCHANGED <<deps, run, row, job, handling, api, owner, overlaps>>

\* Steps never attempted are blocked, then the run has failed.
Block(e) ==
    /\ exec[e].phase = "block"
    /\ row' = [s \in Steps |-> IF row[s] = "pending" THEN "blocked" ELSE row[s]]
    /\ exec' = [exec EXCEPT ![e].phase = "fail"]
    /\ Writes(e)
    /\ UNCHANGED <<deps, run, job, task, handling, api, overlaps>>

Fail(e) ==
    /\ exec[e].phase = "fail"
    /\ run' = [status |-> "failed", output |-> exec[e].done]
    /\ exec' = [exec EXCEPT ![e].phase = "audit"]
    /\ Writes(e)
    /\ UNCHANGED <<deps, row, job, task, handling, api, overlaps>>

Succeed(e) ==
    /\ exec[e].phase = "succeed"
    /\ run' = [status |-> "succeeded", output |-> exec[e].done]
    /\ exec' = [exec EXCEPT ![e].phase = "audit"]
    /\ Writes(e)
    /\ UNCHANGED <<deps, row, job, task, handling, api, overlaps>>

Finish(e) ==
    /\ exec[e].phase = "audit"
    /\ Ends(e, [job[e[1]] EXCEPT !.state = "completed"])
    /\ task' = [task EXCEPT ![e] = Left(e)]
    /\ UNCHANGED <<deps, run, row, api, owner, overlaps>>

\* A statement outside the steps fails.
Throws(e) ==
    /\ exec[e].phase \in {"read", "begin", "block", "fail", "succeed", "audit"}
    /\ Ends(e, Retried(e[1]))
    /\ task' = [task EXCEPT ![e] = Left(e)]
    /\ UNCHANGED <<deps, run, row, api, owner, overlaps>>

-----------------------------------------------------------------------------
(* runStep                                                                 *)

Moves(e, s, pc) == task' = [task EXCEPT ![e][s].pc = pc]

\* The row runs under a new attempt; an unknown action or a refused input fails the
\* step before its first attempt and leaves its row alone.
Attempt(e, s) ==
    /\ task[e][s].pc = "start"
    /\ \/ /\ task' = [task EXCEPT ![e][s] = [pc |-> "acting", attempt |-> @.attempt + 1]]
          /\ row' = [row EXCEPT ![s] = "running"]
          /\ Writes(e)
       \/ task[e][s].attempt = 0 /\ Moves(e, s, "failed") /\ UNCHANGED <<row, owner>>
    /\ UNCHANGED <<deps, run, job, exec, handling, api, overlaps>>

\* A failed attempt is audited, then tried again or given up.
NextAttempt(e, s) == Moves(e, s, IF task[e][s].attempt < MaxAttempts THEN "start" ELSE "giveUp")

\* The action answers what the schema accepts, and its output is stored; or it fails,
\* the timeout is first, or the statement fails, which is caught like the rest.
Answer(e, s) ==
    /\ task[e][s].pc = "acting"
    /\ \/ row' = [row EXCEPT ![s] = "succeeded"] /\ Writes(e) /\ Moves(e, s, "stored")
       \/ NextAttempt(e, s) /\ UNCHANGED <<row, owner>>
    /\ UNCHANGED <<deps, run, job, exec, handling, api, overlaps>>

\* Audited, or the audit fails and with it an attempt whose output is stored.
AuditStored(e, s) ==
    /\ task[e][s].pc = "stored"
    /\ Moves(e, s, "ok") \/ NextAttempt(e, s)
    /\ UNCHANGED <<deps, run, row, job, exec, handling, api, owner, overlaps>>

GiveUp(e, s) ==
    /\ task[e][s].pc = "giveUp"
    /\ row' = [row EXCEPT ![s] = "failed"]
    /\ Writes(e)
    /\ Moves(e, s, "failed")
    /\ UNCHANGED <<deps, run, job, exec, handling, api, overlaps>>

\* A statement outside the try fails, the audit of a failed attempt included: the first
\* to throw ends the execution, which leaves the other steps of its wave behind.
StepThrows(e, s) ==
    /\ InFlight(e, s)
    /\ IF exec[e].phase = "loop"
       THEN /\ Ends(e, Retried(e[1]))
            /\ task' = [task EXCEPT ![e] = [Left(e) EXCEPT ![s].pc = "dead"]]
       ELSE Moves(e, s, "dead") /\ UNCHANGED <<exec, handling, job>>
    /\ UNCHANGED <<deps, run, row, api, owner, overlaps>>

-----------------------------------------------------------------------------

RequestStep == InsertRows \/ Requeue \/ Enqueue \/ CancelRows

ExecStep(e) ==
    \/ ReadRun(e) \/ Begin(e) \/ Advance(e) \/ Block(e) \/ Fail(e) \/ Succeed(e)
    \/ Finish(e) \/ Throws(e)

TaskStep(e, s) ==
    \/ Attempt(e, s) \/ Answer(e, s) \/ AuditStored(e, s)
    \/ GiveUp(e, s) \/ StepThrows(e, s)

Next ==
    \/ CreateRun \/ RetryStep \/ CancelRun \/ RequestStep \/ RequestDies \/ SlotPasses
    \/ Fetch \/ WorkerDies
    \/ \E j \in Jobs : Expire(j)
    \/ \E e \in Execs : ExecStep(e) \/ \E s \in Steps : TaskStep(e, s)

\* The worker polls; a statement answers or fails; an action answers or is timed out;
\* pg-boss expires what nobody finished.
Fairness ==
    /\ WF_vars(RequestStep) /\ WF_vars(Fetch)
    /\ \A j \in Jobs : WF_vars(Expire(j))
    /\ \A e \in Execs : WF_vars(ExecStep(e))
    /\ \A e \in Execs : \A s \in Steps : WF_vars(TaskStep(e, s))

Spec     == Init /\ [][Next]_vars
FairSpec == Spec /\ Fairness

-----------------------------------------------------------------------------
(* What a run promises                                                     *)

Closed(S) == \A s \in S : deps[s] \subseteq S

\* Every group of steps has one that waits for none of the group.
Acyclic(d) == \A R \in (SUBSET Steps) \ {{}} : \E s \in R : d[s] \cap R = {}

\* The depth-first search of validateWorkflowSpec accepts exactly the graphs whose
\* dependencies are steps and that have no cycle, in whatever order it meets them.
ValidationIsExact ==
    Accepted(deps) <=> (\A s \in Steps : deps[s] \subseteq Steps) /\ Acyclic(deps)

\* A run reads succeeded only with the output of every step: no wave loop ever stops
\* early on a graph that was accepted, whichever execution wrote the status last.
SucceededIsComplete == run.status = "succeeded" => run.output = Steps

\* An action only ever works on finished inputs: whoever runs it, orphans included, its
\* execution had completed every dependency; and a reported output is reported with
\* all it was computed from.
OutputsHaveInputs ==
    /\ Closed(run.output)
    /\ \A e \in Execs : \A s \in Steps : InFlight(e, s) /\ exec[e].phase = "loop" =>
            deps[s] \subseteq exec[e].done

\* When no operator, earlier execution or orphan has written since an execution began,
\* the rows it leaves agree with the status it gives the run: all done, or none still
\* waiting.  (A row an earlier execution left running may stay so: only pending rows
\* are blocked.)
RowsAgree ==
    owner # NoExec =>
        /\ run.status = "succeeded" => \A s \in Steps : row[s] = "succeeded"
        /\ run.status = "failed" => \A s \in Steps : row[s] # "pending"

Quiescent ==
    /\ handling = NoExec /\ request = "idle"
    /\ \A j \in Jobs : job[j].state \notin {"created", "active", "retry"}
    /\ \A e \in Execs : exec[e].phase \in {"none", "ended"} /\ \A s \in Steps : ~InFlight(e, s)

\* A run that is left queued or running with nobody at work on it has a reason on
\* record: a job out of tries, a request that never got its job onto the queue, or a
\* job that expired under a live execution.  There is no fourth way to strand a run.
StrandedRunExplained ==
    Quiescent /\ run.status \in {"queued", "running"} =>
        unsent \/ overlaps > 0 \/ \E j \in Jobs : job[j].state = "failed"

\* Whatever dies, throws or hangs, every job is eventually finished or out of tries.
JobsSettle ==
    \A j \in Jobs : job[j].state \in {"created", "active", "retry"} ~>
                         job[j].state \in {"completed", "failed"}
=============================================================================

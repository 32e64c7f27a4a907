-------------------------- MODULE WorkflowRunProofs ---------------------------
(* WorkflowInv is inductive, for every number of steps, attempts, tries,     *)
(* jobs, requests and expiries; the safety properties of WorkflowRun follow. *)
EXTENDS WorkflowRunInductive, FiniteSetTheorems, TLAPS

JobRec  == [state : JobStates, tries : 0..RetryLimit]
ExecRec == [phase : Phases, done : SUBSET Steps]
TaskRec == [pc : TaskSteps, attempt : 0..MaxAttempts]

Ended == [phase |-> "ended", done |-> {}]

-----------------------------------------------------------------------------
(* What the helpers return                                                  *)

LEMMA ExecParts ==
    ASSUME NEW e \in Execs
    PROVE  e[1] \in Jobs /\ e[2] \in 0..RetryLimit /\ e = <<e[1], e[2]>>
BY DEF Execs

LEMMA JobTyped ==
    ASSUME TypeOK, NEW j \in Jobs
    PROVE  /\ job[j] \in JobRec
           /\ \A st \in JobStates : [job[j] EXCEPT !.state = st] \in JobRec
           /\ \A st \in JobStates : /\ [job[j] EXCEPT !.state = st].state = st
                                    /\ [job[j] EXCEPT !.state = st].tries = job[j].tries
BY DEF TypeOK, JobRec

LEMMA RetriedEffect ==
    ASSUME TypeOK, NEW j \in Jobs
    PROVE  /\ Retried(j) \in JobRec
           /\ \/ Retried(j).state = "retry" /\ Retried(j).tries = job[j].tries + 1
              \/ Retried(j).state = "failed" /\ Retried(j).tries = job[j].tries
<1>1. job[j] \in JobRec /\ RetryLimit \in Nat
  BY JobTyped, ConstantsAssumption
<1>2. CASE job[j].tries < RetryLimit
  <2>1. job[j].tries + 1 \in 0..RetryLimit
    BY <1>1, <1>2 DEF JobRec
  <2>2. QED
    BY <1>2, <2>1 DEF Retried, JobRec, JobStates
<1>3. CASE ~(job[j].tries < RetryLimit)
  BY <1>1, <1>3, JobTyped DEF Retried, JobRec, JobStates
<1>4. QED
  BY <1>2, <1>3

LEMMA TaskTyped ==
    ASSUME TypeOK, NEW e \in Execs
    PROVE  task[e] \in [Steps -> TaskRec]
BY DEF TypeOK, TaskRec

LEMMA LeftEffect ==
    ASSUME TypeOK, NEW e \in Execs
    PROVE  /\ Left(e) \in [Steps -> TaskRec]
           /\ \A s \in Steps : \/ InFlight(e, s) /\ Left(e)[s] = task[e][s]
                               \/ ~InFlight(e, s) /\ Left(e)[s].pc = "dead"
<1>1. MaxAttempts \in Nat /\ task[e] \in [Steps -> TaskRec]
  BY TaskTyped, ConstantsAssumption
<1>2. [pc |-> "dead", attempt |-> 0] \in TaskRec
  BY <1>1 DEF TaskRec, TaskSteps
<1>3. QED
  BY <1>1, <1>2 DEF Left

\* The end of an execution: it, and the job the worker waits for.
LEMMA EndsEffect ==
    ASSUME TypeOK, NEW e \in Execs, NEW settled \in JobRec, Ends(e, settled)
    PROVE  /\ exec' \in [Execs -> ExecRec]
           /\ exec'[e] = Ended
           /\ \A f \in Execs \ {e} : exec'[f] = exec[f]
           /\ job' \in [Jobs -> JobRec]
           /\ \A j \in Jobs \ {e[1]} : job'[j] = job[j]
           /\ \/ handling = e /\ handling' = NoExec /\ job'[e[1]] = settled
              \/ handling # e /\ UNCHANGED <<handling, job>>
<1>1. Ended \in ExecRec
  BY DEF Ended, ExecRec, Phases
<1>2. e[1] \in Jobs /\ exec \in [Execs -> ExecRec] /\ job \in [Jobs -> JobRec]
  BY ExecParts DEF TypeOK, ExecRec, JobRec
<1>3. exec' = [exec EXCEPT ![e] = Ended]
  BY DEF Ends, Ended
<1>4. CASE handling = e
  BY <1>1, <1>2, <1>3, <1>4 DEF Ends
<1>5. CASE handling # e
  BY <1>1, <1>2, <1>3, <1>5 DEF Ends
<1>6. QED
  BY <1>4, <1>5

-----------------------------------------------------------------------------
(* Types                                                                    *)

LEMMA RequestTypes ==
    ASSUME TypeOK,
           \/ CreateRun \/ InsertRows \/ RetryStep \/ Requeue \/ CancelRun \/ CancelRows
           \/ RequestDies \/ SlotPasses \/ Enqueue
    PROVE  TypeOK'
<1>0. MaxCalls \in Nat
  BY ConstantsAssumption
<1>1. CASE CreateRun
  BY <1>1 DEF TypeOK, CreateRun, history, RunStatuses, Requests
<1>2. CASE InsertRows
  BY <1>2 DEF TypeOK, InsertRows, history, StepStatuses, Requests
<1>3. CASE RetryStep
  BY <1>0, <1>3 DEF TypeOK, RetryStep, history, StepStatuses, Requests
<1>4. CASE Requeue
  BY <1>4 DEF TypeOK, Requeue, history, RunStatuses, Requests
<1>5. CASE CancelRun
  <2>1. calls' \in 0..MaxCalls
    BY <1>0, <1>5 DEF TypeOK, CancelRun
  <2>2. run' \in [status : RunStatuses, output : SUBSET Steps]
    BY <1>5 DEF TypeOK, CancelRun, RunStatuses
  <2>3. request' \in Requests /\ owner' \in Execs \cup {NoExec}
    BY <1>5 DEF CancelRun, Requests
  <2>4. UNCHANGED <<deps, row, job, slotTaken, exec, task, handling, unsent, overlaps>>
    BY <1>5 DEF CancelRun, history
  <2>5. QED
    BY <2>1, <2>2, <2>3, <2>4 DEF TypeOK
<1>6. CASE CancelRows
  BY <1>6 DEF TypeOK, CancelRows, history, StepStatuses, Requests
<1>7. CASE RequestDies
  BY <1>7 DEF TypeOK, RequestDies, Requests
<1>8. CASE SlotPasses
  BY <1>8 DEF TypeOK, SlotPasses, history
<1>9. CASE Enqueue
  BY <1>9 DEF TypeOK, Enqueue, JobStates, Requests
<1>10. QED
  BY <1>1, <1>2, <1>3, <1>4, <1>5, <1>6, <1>7, <1>8, <1>9

LEMMA QueueTypes ==
    ASSUME TypeOK, Fetch \/ WorkerDies \/ \E j \in Jobs : Expire(j)
    PROVE  TypeOK'
<1>0. MaxOverlaps \in Nat /\ MaxAttempts \in Nat
  BY ConstantsAssumption
<1>1. CASE Fetch
  <2>1. PICK j \in Fetchable : /\ job' = [job EXCEPT ![j].state = "active"]
                               /\ exec' = [exec EXCEPT ![<<j, job[j].tries>>].phase = "read"]
                               /\ handling' = <<j, job[j].tries>>
    BY <1>1 DEF Fetch
  <2>2. j \in Jobs /\ <<j, job[j].tries>> \in Execs
    BY <2>1 DEF Fetchable, Execs, TypeOK
  <2>3. UNCHANGED <<deps, run, row, task, api, owner, overlaps>>
    BY <1>1 DEF Fetch
  <2>4. QED
    BY <2>1, <2>2, <2>3 DEF TypeOK, api, JobStates, Phases
<1>2. CASE WorkerDies
  <2>1. exec' \in [Execs -> ExecRec]
    BY <1>2 DEF WorkerDies, TypeOK, ExecRec, Phases
  <2>2. task' \in [Execs -> [Steps -> TaskRec]]
    BY <1>0, <1>2, TaskTyped DEF WorkerDies, TaskRec, TaskSteps
  <2>3. QED
    BY <1>2, <2>1, <2>2 DEF WorkerDies, TypeOK, api, ExecRec, TaskRec
<1>3. ASSUME NEW j \in Jobs, Expire(j) PROVE TypeOK'
  <2>1. job' \in [Jobs -> JobRec]
    BY <1>3, RetriedEffect DEF Expire, TypeOK, JobRec
  <2>2. handling' \in Execs \cup {NoExec} /\ overlaps' \in 0..MaxOverlaps
    BY <1>0, <1>3 DEF Expire, TypeOK
  <2>3. QED
    BY <1>3, <2>1, <2>2 DEF Expire, TypeOK, api, JobRec
<1>4. QED
  BY <1>1, <1>2, <1>3

\* A step of an execution writes to its own record, its own tasks and its own job.
LEMMA ExecStepTypes ==
    ASSUME TypeOK, NEW e \in Execs, ExecStep(e)
    PROVE  /\ TypeOK'
           /\ \A f \in Execs \ {e} : exec'[f] = exec[f] /\ task'[f] = task[f]
           /\ \A j \in Jobs \ {e[1]} : job'[j] = job[j]
           /\ deps' = deps /\ row' \in [Steps -> StepStatuses]
<1>0. /\ e[1] \in Jobs /\ MaxAttempts \in Nat \ {0}
      /\ [job[e[1]] EXCEPT !.state = "completed"] \in JobRec
      /\ Retried(e[1]) \in JobRec
      /\ Left(e) \in [Steps -> TaskRec]
  BY ExecParts, JobTyped, RetriedEffect, LeftEffect, ConstantsAssumption DEF JobStates
<1>1. ASSUME NEW settled \in JobRec, Ends(e, settled), task' = [task EXCEPT ![e] = Left(e)],
             UNCHANGED <<deps, run, row, api, owner, overlaps>>
      PROVE  /\ TypeOK'
             /\ \A f \in Execs \ {e} : exec'[f] = exec[f] /\ task'[f] = task[f]
             /\ \A j \in Jobs \ {e[1]} : job'[j] = job[j]
             /\ deps' = deps /\ row' \in [Steps -> StepStatuses]
  <2>1. handling' \in Execs \cup {NoExec}
    BY <1>1, EndsEffect DEF TypeOK
  <2>2. task' \in [Execs -> [Steps -> TaskRec]]
    BY <1>0, <1>1 DEF TypeOK, TaskRec
  <2>3. exec' \in [Execs -> ExecRec] /\ job' \in [Jobs -> JobRec]
    BY <1>1, EndsEffect
  <2>4. TypeOK'
    BY <1>1, <2>1, <2>2, <2>3 DEF TypeOK, api, ExecRec, JobRec, TaskRec
  <2>5. \A f \in Execs \ {e} : exec'[f] = exec[f] /\ task'[f] = task[f]
    BY <1>1, EndsEffect DEF TypeOK
  <2>6. \A j \in Jobs \ {e[1]} : job'[j] = job[j]
    BY <1>1, EndsEffect
  <2>7. QED
    BY <1>1, <2>4, <2>5, <2>6 DEF TypeOK
<1>2. CASE ReadRun(e)
  <2>1. CASE run.status = "cancelled"
    BY <1>0, <1>1, <1>2, <2>1 DEF ReadRun
  <2>2. CASE run.status # "cancelled"
    <3>1. /\ exec' = [exec EXCEPT ![e].phase = "begin"]
          /\ UNCHANGED <<deps, run, row, job, task, handling, slotTaken, request, calls, owner,
                         unsent, overlaps>>
      BY <1>2, <2>2 DEF ReadRun, api
    <3>2. exec' \in [Execs -> [phase : Phases, done : SUBSET Steps]]
      BY <3>1 DEF TypeOK, Phases
    <3>3. TypeOK'
      BY <3>1, <3>2 DEF TypeOK
    <3>4. QED
      BY <3>1, <3>3 DEF TypeOK
  <2>3. QED
    BY <2>1, <2>2
<1>3. CASE Begin(e)
  BY <1>3 DEF Begin, TypeOK, api, Phases, RunStatuses
<1>4. CASE Advance(e)
  <2>. DEFINE done   == {s \in Steps : task[e][s].pc = "ok"}
              failed == {s \in Steps : task[e][s].pc = "failed"}
              phase  == PhaseAfterWave(failed, Ready(e, done))
              next   == [s \in Steps |-> IF s \in Ready(e, done)
                                         THEN [pc |-> "start", attempt |-> 0]
                                         ELSE task[e][s]]
  <2>1. /\ exec' = [exec EXCEPT ![e] = [phase |-> phase, done |-> done]]
        /\ task' = IF phase # "loop" THEN task ELSE [task EXCEPT ![e] = next]
        /\ UNCHANGED <<deps, run, row, job, handling, api, owner, overlaps>>
    BY <1>4 DEF Advance
  <2>2. phase \in Phases /\ done \in SUBSET Steps
    BY DEF PhaseAfterWave, Phases
  <2>3. next \in [Steps -> TaskRec]
    BY <1>0, TaskTyped DEF TaskRec, TaskSteps
  <2>. HIDE DEF done, phase, next
  <2>4. exec' \in [Execs -> ExecRec]
    BY <2>1, <2>2 DEF TypeOK, ExecRec
  <2>5. task' \in [Execs -> [Steps -> TaskRec]]
    BY <2>1, <2>3 DEF TypeOK, TaskRec
  <2>6. TypeOK'
    BY <2>1, <2>4, <2>5 DEF TypeOK, api, ExecRec, TaskRec
  <2>7. QED
    BY <2>1, <2>6 DEF TypeOK
<1>5. CASE Block(e)
  BY <1>5 DEF Block, Writes, TypeOK, api, Phases, StepStatuses
<1>6. CASE Fail(e)
  BY <1>6 DEF Fail, Writes, TypeOK, api, Phases, RunStatuses
<1>7. CASE Succeed(e)
  BY <1>7 DEF Succeed, Writes, TypeOK, api, Phases, RunStatuses
<1>8. CASE Finish(e)
  BY <1>0, <1>1, <1>8 DEF Finish
<1>9. CASE Throws(e)
  BY <1>0, <1>1, <1>9 DEF Throws
<1>10. QED
  BY <1>2, <1>3, <1>4, <1>5, <1>6, <1>7, <1>8, <1>9 DEF ExecStep
LEMMA MovesEffect ==
    ASSUME TypeOK, NEW e \in Execs, NEW s \in Steps, NEW c \in TaskSteps, Moves(e, s, c)
    PROVE  /\ task' \in [Execs -> [Steps -> TaskRec]]
           /\ \A f \in Execs \ {e} : task'[f] = task[f]
           /\ \A t \in Steps \ {s} : task'[e][t] = task[e][t]
           /\ task'[e][s].pc = c /\ task'[e][s].attempt = task[e][s].attempt
<1>1. task[e] \in [Steps -> TaskRec] /\ task \in [Execs -> [Steps -> TaskRec]]
  BY TaskTyped DEF TypeOK, TaskRec
<1>2. task' = [task EXCEPT ![e] = [task[e] EXCEPT ![s] = [task[e][s] EXCEPT !.pc = c]]]
  BY DEF Moves
<1>3. [task[e][s] EXCEPT !.pc = c] \in TaskRec
  BY <1>1 DEF TaskRec
<1>4. [task[e] EXCEPT ![s] = [task[e][s] EXCEPT !.pc = c]] \in [Steps -> TaskRec]
  BY <1>1, <1>3
<1>5. /\ [task[e][s] EXCEPT !.pc = c].pc = c
      /\ [task[e][s] EXCEPT !.pc = c].attempt = task[e][s].attempt
  BY <1>1 DEF TaskRec
<1>6. QED
  BY <1>1, <1>2, <1>4, <1>5

LEMMA NextAttemptEffect ==
    ASSUME TypeOK, NEW e \in Execs, NEW s \in Steps, NextAttempt(e, s)
    PROVE  \E c \in {"start", "giveUp"} :
              Moves(e, s, c) /\ (c = "start" => task[e][s].attempt < MaxAttempts)
BY DEF NextAttempt

\* What a step's task does: it moves, it begins an attempt, or it ends its execution.
LEMMA TaskStepKinds ==
    ASSUME TypeOK, NEW e \in Execs, NEW s \in Steps, TaskStep(e, s)
    PROVE  /\ InFlight(e, s)
           /\ UNCHANGED <<deps, run, api, overlaps>>
           /\ \/ /\ UNCHANGED <<job, exec, handling>>
                 /\ \/ /\ \E c \in {"start", "stored", "giveUp", "ok", "failed", "dead"} :
                              /\ Moves(e, s, c)
                              /\ c = "start" => task[e][s].attempt < MaxAttempts
                              /\ c = "stored" => row'[s] = "succeeded"
                              /\ c = "ok" => task[e][s].pc = "stored" /\ row'[s] = row[s]
                              /\ c = "dead" => exec[e].phase # "loop"
                    \/ /\ task[e][s].pc = "start"
                       /\ task' = [task EXCEPT ![e][s] = [pc |-> "acting",
                                                          attempt |-> @.attempt + 1]]
              \/ /\ exec[e].phase = "loop" /\ Ends(e, Retried(e[1]))
                 /\ task' = [task EXCEPT ![e] = [Left(e) EXCEPT ![s].pc = "dead"]]
                 /\ row' = row
           /\ \/ UNCHANGED <<row, owner>>
              \/ Writes(e) /\ \E st \in StepStatuses : row' = [row EXCEPT ![s] = st]
<1>1. CASE Attempt(e, s)
  <2>1. CASE Moves(e, s, "failed") /\ UNCHANGED <<row, owner>>
    BY <1>1, <2>1 DEF Attempt, InFlight, TypeOK
  <2>2. CASE ~(Moves(e, s, "failed") /\ UNCHANGED <<row, owner>>)
    BY <1>1, <2>2 DEF Attempt, InFlight, TypeOK, StepStatuses
  <2>3. QED
    BY <2>1, <2>2
<1>2. CASE Answer(e, s)
  <2>1. CASE row' = [row EXCEPT ![s] = "succeeded"] /\ Writes(e) /\ Moves(e, s, "stored")
    BY <1>2, <2>1 DEF Answer, InFlight, TypeOK, StepStatuses
  <2>2. CASE NextAttempt(e, s) /\ UNCHANGED <<row, owner>>
    BY <1>2, <2>2, NextAttemptEffect DEF Answer, InFlight
  <2>3. QED
    BY <1>2, <2>1, <2>2 DEF Answer
<1>3. CASE AuditStored(e, s)
  <2>1. CASE Moves(e, s, "ok")
    BY <1>3, <2>1 DEF AuditStored, InFlight
  <2>2. CASE NextAttempt(e, s)
    BY <1>3, <2>2, NextAttemptEffect DEF AuditStored, InFlight
  <2>3. QED
    BY <1>3, <2>1, <2>2 DEF AuditStored
<1>4. CASE GiveUp(e, s)
  BY <1>4 DEF GiveUp, InFlight, TypeOK, StepStatuses
<1>5. CASE StepThrows(e, s)
  <2>1. CASE exec[e].phase = "loop"
    BY <1>5, <2>1 DEF StepThrows
  <2>2. CASE exec[e].phase # "loop"
    BY <1>5, <2>2 DEF StepThrows
  <2>3. QED
    BY <2>1, <2>2
<1>6. QED
  BY <1>1, <1>2, <1>3, <1>4, <1>5 DEF TaskStep

LEMMA BeginsAttempt ==
    ASSUME TypeOK, NEW e \in Execs, NEW s \in Steps, task[e][s].attempt < MaxAttempts,
           task' = [task EXCEPT ![e][s] = [pc |-> "acting", attempt |-> @.attempt + 1]]
    PROVE  /\ task' \in [Execs -> [Steps -> TaskRec]]
           /\ \A f \in Execs \ {e} : task'[f] = task[f]
           /\ \A t \in Steps \ {s} : task'[e][t] = task[e][t]
           /\ task'[e][s].pc = "acting"
<1>. DEFINE new == [pc |-> "acting", attempt |-> task[e][s].attempt + 1]
<1>1. task[e] \in [Steps -> TaskRec] /\ task \in [Execs -> [Steps -> TaskRec]]
  BY TaskTyped DEF TypeOK, TaskRec
<1>2. task[e][s].attempt + 1 \in 0..MaxAttempts
  BY <1>1, ConstantsAssumption DEF TaskRec
<1>3. new \in TaskRec /\ new.pc = "acting"
  BY <1>2 DEF TaskRec, TaskSteps
<1>4. task' = [task EXCEPT ![e] = [task[e] EXCEPT ![s] = new]]
  OBVIOUS
<1>. HIDE DEF new
<1>5. [task[e] EXCEPT ![s] = new] \in [Steps -> TaskRec]
  BY <1>1, <1>3
<1>6. QED
  BY <1>1, <1>3, <1>4, <1>5

LEMMA ThrowLeft ==
    ASSUME TypeOK, NEW e \in Execs, NEW s \in Steps,
           task' = [task EXCEPT ![e] = [Left(e) EXCEPT ![s].pc = "dead"]]
    PROVE  /\ task' \in [Execs -> [Steps -> TaskRec]]
           /\ \A f \in Execs \ {e} : task'[f] = task[f]
           /\ \A t \in Steps : \/ task'[e][t].pc = "dead"
                               \/ InFlight(e, t) /\ task'[e][t] = task[e][t]
<1>. DEFINE left == [Left(e) EXCEPT ![s] = [Left(e)[s] EXCEPT !.pc = "dead"]]
<1>1. Left(e) \in [Steps -> TaskRec] /\ task \in [Execs -> [Steps -> TaskRec]]
  BY LeftEffect DEF TypeOK, TaskRec
<1>2. [Left(e)[s] EXCEPT !.pc = "dead"] \in TaskRec /\ [Left(e)[s] EXCEPT !.pc = "dead"].pc = "dead"
  BY <1>1 DEF TaskRec, TaskSteps
<1>3. left \in [Steps -> TaskRec] /\ left[s].pc = "dead"
  BY <1>1, <1>2
<1>4. \A t \in Steps \ {s} : left[t] = Left(e)[t]
  BY <1>1
<1>5. task' = [task EXCEPT ![e] = left]
  OBVIOUS
<1>. HIDE DEF left
<1>6. task' \in [Execs -> [Steps -> TaskRec]] /\ task'[e] = left
      /\ \A f \in Execs \ {e} : task'[f] = task[f]
  BY <1>1, <1>3, <1>5
<1>7. \A t \in Steps : left[t].pc = "dead" \/ (InFlight(e, t) /\ left[t] = task[e][t])
  BY <1>3, <1>4, LeftEffect
<1>8. QED
  BY <1>6, <1>7
LEMMA TaskStepTypes ==
    ASSUME TypeOK, NEW e \in Execs, NEW s \in Steps, ExecOrder(e), TaskStep(e, s)
    PROVE  /\ TypeOK'
           /\ \A f \in Execs \ {e} : exec'[f] = exec[f] /\ task'[f] = task[f]
           /\ \A j \in Jobs \ {e[1]} : job'[j] = job[j]
<1>1. row' \in [Steps -> StepStatuses] /\ owner' \in Execs \cup {NoExec}
  <2>1. \/ UNCHANGED <<row, owner>>
        \/ Writes(e) /\ \E st \in StepStatuses : row' = [row EXCEPT ![s] = st]
    BY TaskStepKinds
  <2>2. QED
    BY <2>1 DEF TypeOK, Writes
<1>2. task[e][s].pc = "start" => task[e][s].attempt < MaxAttempts
  BY DEF ExecOrder
<1>3. UNCHANGED <<deps, run, api, overlaps>>
  BY TaskStepKinds
<1>4. CASE UNCHANGED <<job, exec, handling>>
  <2>1. /\ task' \in [Execs -> [Steps -> TaskRec]]
        /\ \A f \in Execs \ {e} : task'[f] = task[f]
    <3>1. CASE \E c \in TaskSteps : Moves(e, s, c)
      BY <3>1, MovesEffect
    <3>2. CASE /\ task[e][s].pc = "start"
               /\ task' = [task EXCEPT ![e][s] = [pc |-> "acting", attempt |-> @.attempt + 1]]
      BY <1>2, <3>2, BeginsAttempt
    <3>3. CASE task' = [task EXCEPT ![e] = [Left(e) EXCEPT ![s].pc = "dead"]]
      BY <3>3, ThrowLeft
    <3>4. QED
      BY <3>1, <3>2, <3>3, TaskStepKinds DEF TaskSteps
  <2>2. QED
    BY <1>1, <1>3, <1>4, <2>1 DEF TypeOK, api, TaskRec
<1>5. CASE /\ Ends(e, Retried(e[1]))
           /\ task' = [task EXCEPT ![e] = [Left(e) EXCEPT ![s].pc = "dead"]]
  <2>1. e[1] \in Jobs /\ Retried(e[1]) \in JobRec
    BY ExecParts, RetriedEffect
  <2>2. /\ exec' \in [Execs -> ExecRec] /\ job' \in [Jobs -> JobRec]
        /\ \A f \in Execs \ {e} : exec'[f] = exec[f]
        /\ \A j \in Jobs \ {e[1]} : job'[j] = job[j]
        /\ handling' \in Execs \cup {NoExec}
    BY <1>5, <2>1, EndsEffect DEF TypeOK
  <2>3. /\ task' \in [Execs -> [Steps -> TaskRec]]
        /\ \A f \in Execs \ {e} : task'[f] = task[f]
    BY <1>5, ThrowLeft
  <2>4. TypeOK'
    BY <1>1, <1>3, <2>2, <2>3 DEF TypeOK, api, ExecRec, JobRec, TaskRec
  <2>5. QED
    BY <2>2, <2>3, <2>4
<1>6. QED
  BY <1>4, <1>5, TaskStepKinds

-----------------------------------------------------------------------------
(* Order: inputs before outputs                                             *)

\* Nothing of an execution changes.
LEMMA OrderKept ==
    ASSUME NEW e \in Execs, ExecOrder(e), deps' = deps, exec'[e] = exec[e], task'[e] = task[e]
    PROVE  ExecOrder(e)'
BY DEF ExecOrder, Closed

\* An execution ends and leaves tasks behind.
LEMMA OrderEnds ==
    ASSUME NEW e \in Execs, ExecOrder(e), exec'[e] = Ended,
           \A s \in Steps : task'[e][s].pc = "dead" \/ task'[e][s] = task[e][s]
    PROVE  ExecOrder(e)'
BY DEF ExecOrder, Closed, Ended, AtRest, AfterLoop

LEMMA ExecOrderStep ==
    ASSUME TypeOK, NEW e \in Execs, ExecOrder(e), ExecStep(e)
    PROVE  ExecOrder(e)'
<1>0. /\ e[1] \in Jobs
      /\ [job[e[1]] EXCEPT !.state = "completed"] \in JobRec
      /\ Retried(e[1]) \in JobRec
      /\ task[e] \in [Steps -> TaskRec] /\ task \in [Execs -> [Steps -> TaskRec]]
      /\ exec \in [Execs -> ExecRec] /\ exec[e] \in ExecRec
  BY ExecParts, JobTyped, RetriedEffect, TaskTyped DEF JobStates, TypeOK, ExecRec, TaskRec
<1>1. ASSUME NEW settled \in JobRec, Ends(e, settled), task' = [task EXCEPT ![e] = Left(e)]
      PROVE  ExecOrder(e)'
  <2>1. exec'[e] = Ended
    BY <1>1, EndsEffect
  <2>2. task'[e] = Left(e)
    BY <1>0, <1>1
  <2>3. \A s \in Steps : task'[e][s].pc = "dead" \/ task'[e][s] = task[e][s]
    BY <2>2, LeftEffect
  <2>4. QED
    BY <2>1, <2>3, OrderEnds
<1>2. CASE ReadRun(e)
  <2>1. CASE run.status = "cancelled"
    BY <1>0, <1>1, <1>2, <2>1 DEF ReadRun
  <2>2. CASE run.status # "cancelled"
    <3>1. task' = task /\ deps' = deps /\ exec'[e] = [exec[e] EXCEPT !.phase = "begin"]
      BY <1>0, <1>2, <2>2 DEF ReadRun
    <3>2. exec'[e].phase = "begin" /\ exec'[e].done = exec[e].done /\ exec[e].phase = "read"
      BY <1>0, <1>2, <3>1 DEF ReadRun, ExecRec
    <3>3. QED
      BY <3>1, <3>2 DEF ExecOrder, Closed, AtRest, AfterLoop
  <2>3. QED
    BY <2>1, <2>2
<1>3. CASE Begin(e)
  <2>1. task' = task /\ deps' = deps /\ exec'[e] = [exec[e] EXCEPT !.phase = "loop"]
        /\ Accepted(deps) /\ exec[e].phase = "begin"
    BY <1>0, <1>3 DEF Begin
  <2>2. exec'[e].phase = "loop" /\ exec'[e].done = exec[e].done
    BY <1>0, <2>1 DEF ExecRec
  <2>3. QED
    BY <2>1, <2>2 DEF ExecOrder, Closed, AtRest, AfterLoop<1>4. CASE Advance(e)
  <2>. DEFINE done   == {s \in Steps : task[e][s].pc = "ok"}
              failed == {s \in Steps : task[e][s].pc = "failed"}
              ready  == Ready(e, done)
              phase  == PhaseAfterWave(failed, ready)
              new    == [pc |-> "start", attempt |-> 0]
              next   == [s \in Steps |-> IF s \in ready THEN new ELSE task[e][s]]
  <2>1. /\ exec[e].phase = "loop"
        /\ \A s \in Steps : task[e][s].pc \in {"idle", "ok", "failed"}
        /\ exec' = [exec EXCEPT ![e] = [phase |-> phase, done |-> done]]
        /\ task' = IF phase # "loop" THEN task ELSE [task EXCEPT ![e] = next]
        /\ deps' = deps
    BY <1>4 DEF Advance
  <2>2. phase \in {"block", "succeed", "loop"}
    BY DEF PhaseAfterWave
  <2>3. \A s \in Steps : s \in ready => task[e][s].pc = "idle" /\ deps[s] \subseteq done
    BY DEF Ready
  <2>4. \A s \in Steps : task[e][s].pc # "idle" => deps[s] \subseteq done
    <3>1. exec[e].done \subseteq Steps
      BY <1>0 DEF ExecRec
    <3>2. QED
      BY <2>1, <3>1 DEF ExecOrder
  <2>5. \A s \in Steps : s \in done <=> task[e][s].pc = "ok"
    OBVIOUS
  <2>6. \A s \in Steps : next[s] = IF s \in ready THEN new ELSE task[e][s]
    OBVIOUS
  <2>7. new.pc = "start" /\ new.attempt = 0 /\ 0 < MaxAttempts
    BY ConstantsAssumption
  <2>8. done \subseteq Steps
    OBVIOUS
  <2>. HIDE DEF done, failed, ready, phase, next, new
  <2>9. exec'[e].phase = phase /\ exec'[e].done = done
    BY <1>0, <2>1
  <2>10. CASE phase # "loop"
    <3>1. task'[e] = task[e]
      BY <2>1, <2>10
    <3>2. QED
      BY <2>1, <2>2, <2>4, <2>5, <2>8, <2>9, <2>10, <3>1
         DEF ExecOrder, Closed, AtRest, AfterLoop
  <2>11. CASE phase = "loop"
    <3>1. \A s \in Steps : task'[e][s] = IF s \in ready THEN new ELSE task[e][s]
      BY <1>0, <2>1, <2>6, <2>11
    <3>2. \A s \in Steps : task'[e][s].pc = "start" => task'[e][s].attempt < MaxAttempts
      BY <2>1, <2>7, <3>1
    <3>3. \A s \in Steps : /\ task'[e][s].pc # "idle" => deps[s] \subseteq done
                           /\ s \in done => task'[e][s].pc = "ok"
      BY <2>3, <2>4, <2>5, <3>1
    <3>4. Closed(done) /\ Accepted(deps)
      BY <2>1, <2>4, <2>5, <2>8 DEF Closed, ExecOrder
    <3>5. QED
      BY <2>1, <2>9, <2>11, <3>2, <3>3, <3>4 DEF ExecOrder, Closed, AtRest, AfterLoop
  <2>12. QED
    BY <2>10, <2>11
<1>5. ASSUME NEW p \in {"fail", "audit"}, exec[e].phase \in AfterLoop,
             exec' = [exec EXCEPT ![e].phase = p], UNCHANGED <<deps, task>>
      PROVE  ExecOrder(e)'
  <2>1. exec'[e].phase = p /\ exec'[e].done = exec[e].done
    BY <1>0, <1>5 DEF ExecRec
  <2>2. QED
    BY <1>5, <2>1 DEF ExecOrder, Closed, AtRest, AfterLoop
<1>6. CASE Block(e)
  BY <1>5, <1>6 DEF Block, AfterLoop
<1>7. CASE Fail(e)
  BY <1>5, <1>7 DEF Fail, AfterLoop
<1>8. CASE Succeed(e)
  BY <1>5, <1>8 DEF Succeed, AfterLoop
<1>9. CASE Finish(e)
  BY <1>0, <1>1, <1>9 DEF Finish
<1>10. CASE Throws(e)
  BY <1>0, <1>1, <1>10 DEF Throws
<1>11. QED
  BY <1>2, <1>3, <1>4, <1>6, <1>7, <1>8, <1>9, <1>10 DEF ExecStep

LEMMA TaskOrderStep ==
    ASSUME TypeOK, NEW e \in Execs, NEW s \in Steps, ExecOrder(e), TaskStep(e, s)
    PROVE  ExecOrder(e)'
<1>1. InFlight(e, s) /\ deps' = deps
  BY TaskStepKinds
<1>2. CASE exec' = exec
  <2>1. ASSUME \A t \in Steps \ {s} : task'[e][t] = task[e][t],
               task'[e][s].pc # "idle",
               task'[e][s].pc = "start" => task'[e][s].attempt < MaxAttempts
        PROVE  ExecOrder(e)'
    <3>1. exec[e].phase \notin AtRest /\ exec[e].phase \notin AfterLoop
      BY <1>1 DEF ExecOrder, InFlight
    <3>2. exec[e].phase = "loop" => s \notin exec[e].done
      BY <1>1 DEF ExecOrder, InFlight
    <3>3. exec[e].phase = "loop" => deps[s] \subseteq exec[e].done
      BY <1>1 DEF ExecOrder, InFlight
    <3>4. \A t \in Steps : task'[e][t].pc = "start" => task'[e][t].attempt < MaxAttempts
      BY <2>1 DEF ExecOrder
    <3>5. exec[e].phase = "loop" =>
            /\ Accepted(deps)
            /\ \A t \in Steps : /\ task'[e][t].pc # "idle" => deps[t] \subseteq exec[e].done
                                /\ t \in exec[e].done => task'[e][t].pc = "ok"
      BY <2>1, <3>2, <3>3 DEF ExecOrder
    <3>6. QED
      BY <1>1, <1>2, <3>1, <3>4, <3>5 DEF ExecOrder, Closed
  <2>2. CASE \E c \in TaskSteps \ {"idle"} :
                Moves(e, s, c) /\ (c = "start" => task[e][s].attempt < MaxAttempts)
    BY <2>1, <2>2, MovesEffect
  <2>3. CASE /\ task[e][s].pc = "start"
             /\ task' = [task EXCEPT ![e][s] = [pc |-> "acting", attempt |-> @.attempt + 1]]
    BY <2>1, <2>3, BeginsAttempt DEF ExecOrder
  <2>4. CASE exec[e].phase = "loop" /\ Ends(e, Retried(e[1]))
    <3>1. Retried(e[1]) \in JobRec
      BY ExecParts, RetriedEffect
    <3>2. exec'[e] = Ended
      BY <2>4, <3>1, EndsEffect
    <3>3. QED
      BY <1>2, <2>4, <3>2 DEF Ended
  <2>5. QED
    BY <2>2, <2>3, <2>4, TaskStepKinds DEF TaskSteps
<1>3. CASE /\ Ends(e, Retried(e[1]))
           /\ task' = [task EXCEPT ![e] = [Left(e) EXCEPT ![s].pc = "dead"]]
  <2>1. Retried(e[1]) \in JobRec
    BY ExecParts, RetriedEffect
  <2>2. exec'[e] = Ended
    BY <1>3, <2>1, EndsEffect
  <2>3. \A t \in Steps : task'[e][t].pc = "dead" \/ task'[e][t] = task[e][t]
    BY <1>3, ThrowLeft
  <2>4. QED
    BY <2>2, <2>3, OrderEnds
<1>4. QED
  BY <1>2, <1>3, TaskStepKinds
-----------------------------------------------------------------------------
(* Every try is an execution of its own                                     *)

\* How a job moves.
JobMoves(j) ==
    \/ job'[j] = job[j]
    \/ job[j].state = "none" /\ job'[j].state = "created"
    \/ job'[j].tries = job[j].tries /\ job'[j].state \in {"active", "completed", "failed"}
    \/ job'[j].tries = job[j].tries + 1 /\ job'[j].state = "retry"

LEMMA UnusedShrinks ==
    ASSUME TypeOK, NEW j \in Jobs, JobMoves(j)
    PROVE  Unused(j)' \subseteq Unused(j)
<1>1. job[j].tries \in 0..RetryLimit /\ RetryLimit \in Nat
  BY ConstantsAssumption DEF TypeOK
<1>2. QED
  BY <1>1 DEF Unused, JobMoves

LEMMA FreshKept ==
    ASSUME TypeOK, TriesFresh, \A j \in Jobs : JobMoves(j),
           \A e \in Execs : exec[e].phase = "none" => exec'[e].phase = "none"
    PROVE  TriesFresh'
<1>1. ASSUME NEW j \in Jobs, NEW t \in Unused(j)' PROVE exec'[<<j, t>>].phase = "none"
  <2>1. t \in Unused(j) /\ <<j, t>> \in Execs
    BY UnusedShrinks DEF Unused, Execs
  <2>2. QED
    BY <2>1 DEF TriesFresh
<1>2. QED
  BY <1>1 DEF TriesFresh

\* The end of an execution moves its job.
LEMMA EndsMoves ==
    ASSUME TypeOK, NEW e \in Execs, NEW settled \in JobRec, Ends(e, settled),
           \/ settled = Retried(e[1])
           \/ settled = [job[e[1]] EXCEPT !.state = "completed"]
    PROVE  \A j \in Jobs : JobMoves(j)
<1>1. e[1] \in Jobs
  BY ExecParts
<1>2. \/ settled.tries = job[e[1]].tries /\ settled.state \in {"completed", "failed"}
      \/ settled.tries = job[e[1]].tries + 1 /\ settled.state = "retry"
  <2>1. CASE settled = Retried(e[1])
    BY <1>1, <2>1, RetriedEffect
  <2>2. CASE settled = [job[e[1]] EXCEPT !.state = "completed"]
    BY <1>1, <2>2, JobTyped DEF JobStates
  <2>3. QED
    BY <2>1, <2>2
<1>3. JobMoves(e[1])
  BY <1>2, EndsEffect DEF JobMoves
<1>4. \A j \in Jobs \ {e[1]} : JobMoves(j)
  BY EndsEffect DEF JobMoves
<1>5. QED
  BY <1>3, <1>4

LEMMA EnqueueMoves ==
    ASSUME TypeOK, Enqueue
    PROVE  \A j \in Jobs : JobMoves(j)
BY DEF Enqueue, JobMoves, TypeOK

LEMMA FetchEffect ==
    ASSUME TypeOK, TriesFresh, Fetch
    PROVE  \E j \in Jobs :
              LET e == <<j, job[j].tries>> IN
              /\ e \in Execs /\ e[1] = j /\ exec[e].phase = "none" /\ handling = NoExec
              /\ exec'[e].phase = "read" /\ exec'[e].done = exec[e].done
              /\ \A f \in Execs \ {e} : exec'[f] = exec[f]
              /\ job'[j].state = "active" /\ job'[j].tries = job[j].tries
              /\ \A i \in Jobs \ {j} : job'[i] = job[i]
              /\ handling' = e
              /\ job[j].state \in {"created", "retry"}
              /\ UNCHANGED <<deps, run, row, task, api, owner, overlaps>>
<1>1. PICK j \in Fetchable : /\ job' = [job EXCEPT ![j].state = "active"]
                             /\ exec' = [exec EXCEPT ![<<j, job[j].tries>>].phase = "read"]
                             /\ handling' = <<j, job[j].tries>>
  BY DEF Fetch
<1>. DEFINE e == <<j, job[j].tries>>
<1>2. j \in Jobs /\ e \in Execs /\ e[1] = j /\ job[j].state \in {"created", "retry"}
  BY DEF Fetchable, Execs, TypeOK
<1>3. exec[e].phase = "none"
  <2>1. job[j].tries \in Unused(j)
    BY <1>2 DEF Unused, TypeOK
  <2>2. QED
    BY <1>2, <2>1 DEF TriesFresh
<1>4. job'[j].state = "active" /\ job'[j].tries = job[j].tries
      /\ \A i \in Jobs \ {j} : job'[i] = job[i]
  BY <1>1, <1>2 DEF TypeOK
<1>5. exec'[e].phase = "read" /\ exec'[e].done = exec[e].done
      /\ \A f \in Execs \ {e} : exec'[f] = exec[f]
  BY <1>1, <1>2 DEF TypeOK
<1>6. handling = NoExec /\ UNCHANGED <<deps, run, row, task, api, owner, overlaps>>
  BY DEF Fetch
<1>7. QED
  BY <1>1, <1>2, <1>3, <1>4, <1>5, <1>6

LEMMA FreshStep ==
    ASSUME TypeOK, TriesFresh, \A e \in Execs : ExecOrder(e), [Next]_vars
    PROVE  TriesFresh'
<1>1. CASE \E e \in Execs : ExecStep(e)
  <2>1. PICK e \in Execs : ExecStep(e)
    BY <1>1
  <2>2. /\ e[1] \in Jobs /\ Retried(e[1]) \in JobRec
        /\ [job[e[1]] EXCEPT !.state = "completed"] \in JobRec
    BY ExecParts, RetriedEffect, JobTyped DEF JobStates
  <2>3. exec[e].phase # "none"
    BY <2>1 DEF ExecStep, ReadRun, Begin, Advance, Block, Fail, Succeed, Finish, Throws
  <2>4. \A f \in Execs : exec[f].phase = "none" => exec'[f].phase = "none"
    BY <2>1, <2>3, ExecStepTypes
  <2>5. \/ job' = job
        \/ \E settled \in {Retried(e[1]), [job[e[1]] EXCEPT !.state = "completed"]} :
              Ends(e, settled)
    BY <2>1 DEF ExecStep, ReadRun, Begin, Advance, Block, Fail, Succeed, Finish, Throws
  <2>6. \A j \in Jobs : JobMoves(j)
    BY <2>2, <2>5, EndsMoves DEF JobMoves
  <2>7. QED
    BY <2>4, <2>6, FreshKept
<1>2. CASE \E e \in Execs : \E s \in Steps : TaskStep(e, s)
  <2>1. PICK e \in Execs, s \in Steps : TaskStep(e, s)
    BY <1>2
  <2>2. e[1] \in Jobs /\ Retried(e[1]) \in JobRec /\ ExecOrder(e)
    BY ExecParts, RetriedEffect
  <2>3. InFlight(e, s)
    BY <2>1, TaskStepKinds
  <2>4. exec[e].phase # "none"
    BY <2>2, <2>3 DEF InFlight, ExecOrder, AtRest
  <2>5. \A f \in Execs : exec[f].phase = "none" => exec'[f].phase = "none"
    BY <2>1, <2>2, <2>4, TaskStepTypes
  <2>6. job' = job \/ Ends(e, Retried(e[1]))
    BY <2>1, TaskStepKinds
  <2>7. \A j \in Jobs : JobMoves(j)
    BY <2>2, <2>6, EndsMoves DEF JobMoves
  <2>8. QED
    BY <2>5, <2>7, FreshKept
<1>3. CASE Fetch
  <2>1. PICK j \in Jobs :
           /\ job'[j].state = "active" /\ job'[j].tries = job[j].tries
           /\ \A i \in Jobs \ {j} : job'[i] = job[i]
           /\ \A f \in Execs \ {<<j, job[j].tries>>} : exec'[f] = exec[f]
    BY <1>3, FetchEffect, Zenon
  <2>2. ASSUME NEW i \in Jobs, NEW t \in Unused(i)' PROVE exec'[<<i, t>>].phase = "none"
    <3>1. t \in Unused(i) /\ <<i, t>> \in Execs
      BY <2>1, UnusedShrinks DEF JobMoves, Unused, Execs
    <3>2. <<i, t>> # <<j, job[j].tries>>
      BY <2>1, ConstantsAssumption DEF Unused, TypeOK
    <3>3. QED
      BY <2>1, <3>1, <3>2 DEF TriesFresh
  <2>3. QED
    BY <2>2 DEF TriesFresh
<1>4. CASE WorkerDies
  BY <1>4, FreshKept DEF WorkerDies, JobMoves
<1>5. CASE \E j \in Jobs : Expire(j)
  <2>1. PICK j \in Jobs : Expire(j)
    BY <1>5
  <2>2. job' = [job EXCEPT ![j] = Retried(j)] /\ exec' = exec
    BY <2>1 DEF Expire
  <2>3. \A i \in Jobs : JobMoves(i)
    BY <2>2, RetriedEffect DEF JobMoves, TypeOK
  <2>4. QED
    BY <2>2, <2>3, FreshKept
<1>6. CASE Enqueue
  BY <1>6, EnqueueMoves, FreshKept DEF Enqueue
<1>7. CASE job' = job /\ exec' = exec
  BY <1>7, FreshKept DEF JobMoves
<1>8. QED
  BY <1>1, <1>2, <1>3, <1>4, <1>5, <1>6, <1>7
     DEF Next, RequestStep, CreateRun, RetryStep, CancelRun, InsertRows, Requeue, CancelRows,
         RequestDies, SlotPasses, vars

-----------------------------------------------------------------------------
(* Order: assembled                                                         *)

LEMMA OrderStep ==
    ASSUME OrderInv, [Next]_vars
    PROVE  OrderInv'
<1>0. TypeOK /\ TriesFresh /\ Closed(run.output) /\ \A e \in Execs : ExecOrder(e)
  BY DEF OrderInv
<1>1. TriesFresh'
  BY <1>0, FreshStep
<1>2. CASE \E e \in Execs : ExecStep(e)
  <2>1. PICK e \in Execs : ExecStep(e)
    BY <1>2
  <2>2. TypeOK' /\ deps' = deps
        /\ \A f \in Execs \ {e} : exec'[f] = exec[f] /\ task'[f] = task[f]
    BY <1>0, <2>1, ExecStepTypes
  <2>3. ASSUME NEW f \in Execs PROVE ExecOrder(f)'
    BY <1>0, <2>1, <2>2, ExecOrderStep, OrderKept
  <2>4. run'.output = run.output \/ run'.output = exec[e].done
    BY <1>0, <2>1 DEF ExecStep, ReadRun, Begin, Advance, Block, Fail, Succeed, Finish, Throws,
                      TypeOK
  <2>5. Closed(run.output)'
    BY <1>0, <2>2, <2>4 DEF ExecOrder, Closed
  <2>6. QED
    BY <1>1, <2>2, <2>3, <2>5 DEF OrderInv
<1>3. CASE \E e \in Execs : \E s \in Steps : TaskStep(e, s)
  <2>1. PICK e \in Execs, s \in Steps : TaskStep(e, s)
    BY <1>3
  <2>2. TypeOK' /\ UNCHANGED <<deps, run>>
        /\ \A f \in Execs \ {e} : exec'[f] = exec[f] /\ task'[f] = task[f]
    BY <1>0, <2>1, TaskStepTypes, TaskStepKinds
  <2>3. ASSUME NEW f \in Execs PROVE ExecOrder(f)'
    BY <1>0, <2>1, <2>2, TaskOrderStep, OrderKept
  <2>4. Closed(run.output)'
    BY <1>0, <2>2 DEF Closed
  <2>5. QED
    BY <1>1, <2>2, <2>3, <2>4 DEF OrderInv
<1>4. CASE Fetch
  <2>1. TypeOK'
    BY <1>0, <1>4, QueueTypes
  <2>2. PICK e \in Execs :
           /\ exec[e].phase = "none"
           /\ exec'[e].phase = "read" /\ exec'[e].done = exec[e].done
           /\ \A f \in Execs \ {e} : exec'[f] = exec[f]
           /\ UNCHANGED <<deps, run, row, task, api, owner, overlaps>>
    BY <1>0, <1>4, FetchEffect, Zenon
  <2>3. ExecOrder(e)'
    BY <1>0, <2>2 DEF ExecOrder, Closed, AtRest, AfterLoop
  <2>4. ASSUME NEW f \in Execs PROVE ExecOrder(f)'
    BY <1>0, <2>2, <2>3, OrderKept
  <2>5. Closed(run.output)'
    BY <1>0, <2>2 DEF Closed
  <2>6. QED
    BY <1>1, <2>1, <2>4, <2>5 DEF OrderInv
<1>5. CASE WorkerDies
  <2>1. TypeOK' /\ UNCHANGED <<deps, run>>
    BY <1>0, <1>5, QueueTypes DEF WorkerDies
  <2>2. ASSUME NEW e \in Execs PROVE ExecOrder(e)'
    <3>1. CASE exec[e].phase = "none"
      BY <1>0, <1>5, <2>1, <3>1, OrderKept DEF WorkerDies
    <3>2. CASE exec[e].phase # "none"
      BY <1>0, <1>5, <3>2, OrderEnds DEF WorkerDies, Ended
    <3>3. QED
      BY <3>1, <3>2
  <2>3. Closed(run.output)'
    BY <1>0, <2>1 DEF Closed
  <2>4. QED
    BY <1>1, <2>1, <2>2, <2>3 DEF OrderInv
<1>6. ASSUME TypeOK', UNCHANGED <<deps, exec, task>>, run'.output = run.output
      PROVE  OrderInv'
  <2>1. ASSUME NEW e \in Execs PROVE ExecOrder(e)'
    BY <1>0, <1>6, OrderKept
  <2>2. Closed(run.output)'
    BY <1>0, <1>6 DEF Closed
  <2>3. QED
    BY <1>1, <1>6, <2>1, <2>2 DEF OrderInv
<1>7. CASE \E j \in Jobs : Expire(j)
  BY <1>0, <1>6, <1>7, QueueTypes DEF Expire
<1>8. CASE \/ CreateRun \/ InsertRows \/ RetryStep \/ Requeue \/ CancelRun \/ CancelRows
           \/ RequestDies \/ SlotPasses \/ Enqueue
  <2>1. TypeOK'
    BY <1>0, <1>8, RequestTypes
  <2>2. UNCHANGED <<deps, exec, task>> /\ run'.output = run.output
    BY <1>0, <1>8 DEF CreateRun, InsertRows, RetryStep, Requeue, CancelRun, CancelRows,
                      RequestDies, SlotPasses, Enqueue, TypeOK
  <2>3. QED
    BY <1>6, <2>1, <2>2
<1>9. CASE UNCHANGED vars
  BY <1>0, <1>6, <1>9 DEF vars, TypeOK
<1>10. QED
  BY <1>2, <1>3, <1>4, <1>5, <1>7, <1>8, <1>9 DEF Next, RequestStep
LEMMA OrderInit ==
    ASSUME Init
    PROVE  OrderInv
<1>1. TypeOK
  <2>1. MaxAttempts \in Nat /\ RetryLimit \in Nat /\ MaxCalls \in Nat /\ MaxOverlaps \in Nat
    BY ConstantsAssumption
  <2>2. deps \in Graphs /\ run \in [status : RunStatuses, output : SUBSET Steps]
        /\ row \in [Steps -> StepStatuses]
    BY DEF Init, RunStatuses, StepStatuses
  <2>3. job \in [Jobs -> [state : JobStates, tries : 0..RetryLimit]]
    BY <2>1 DEF Init, JobStates
  <2>4. exec \in [Execs -> [phase : Phases, done : SUBSET Steps]]
    BY DEF Init, Phases
  <2>5. task \in [Execs -> [Steps -> [pc : TaskSteps, attempt : 0..MaxAttempts]]]
    BY <2>1 DEF Init, TaskSteps
  <2>6. slotTaken \in BOOLEAN /\ unsent \in BOOLEAN
    BY DEF Init
  <2>7. handling \in Execs \cup {NoExec} /\ owner \in Execs \cup {NoExec} /\ request \in Requests
    BY DEF Init, Requests
  <2>8. calls \in 0..MaxCalls /\ overlaps \in 0..MaxOverlaps
    BY <2>1 DEF Init
  <2>9. QED
    BY <2>2, <2>3, <2>4, <2>5, <2>6, <2>7, <2>8 DEF TypeOK
<1>2. TriesFresh
  BY DEF Init, TriesFresh, Unused, Execs
<1>3. Closed(run.output) /\ \A e \in Execs : ExecOrder(e)
  BY DEF Init, ExecOrder, Closed, AtRest, AfterLoop
<1>4. QED
  BY <1>1, <1>2, <1>3 DEF OrderInv

THEOREM OrderInductive == Spec => []OrderInv
BY OrderInit, OrderStep, PTL DEF Spec

\* Every variable keeps its type: no job is tried more often than the queue allows, no
\* step attempted more often than its retry policy allows.
THEOREM TypeCorrect == Spec => []TypeOK
<1>1. OrderInv => TypeOK
  BY DEF OrderInv
<1>2. QED
  BY <1>1, OrderInductive, PTL

\* runStep only ever works on finished inputs, whichever executions overlap, and an output
\* is reported with all it was computed from.
THEOREM InputsBeforeOutputs == Spec => []OutputsHaveInputs
<1>1. OrderInv => OutputsHaveInputs
  BY DEF OrderInv, ExecOrder, OutputsHaveInputs, InFlight
<1>2. QED
  BY <1>1, OrderInductive, PTL
-----------------------------------------------------------------------------
(* The search of validateWorkflowSpec: its loops and its recursion          *)

\* Induction here is by least counterexample: a nonempty set of numbers has a least
\* element, a nonempty family of subsets of a finite set a minimal one.
LEMMA LeastNat ==
    ASSUME NEW X \in SUBSET Nat, X # {}
    PROVE  \E n \in X : \A m \in X : n <= m
<1>1. PICK n \in X : \A m \in X : ~(<<m, n>> \in OpToRel(<, Nat))
  BY NatLessThanWellFounded, WFMin
<1>2. \A m \in X : ~(m < n)
  BY <1>1 DEF OpToRel
<1>3. QED
  BY <1>2

LEMMA MinimalSubset ==
    ASSUME NEW S, IsFiniteSet(S), NEW X \in SUBSET (SUBSET S), X # {}
    PROVE  \E T \in X : \A U \in X : U \subseteq T => U = T
<1>1. IsWellFoundedOn(StrictSubsetOrdering(S), SUBSET S)
  BY FS_StrictSubsetOrderingWellFounded, FS_FiniteSubsetsOfFinite
<1>2. PICK T \in X : \A U \in X : ~(<<U, T>> \in StrictSubsetOrdering(S))
  BY <1>1, WFMin
<1>3. QED
  BY <1>2 DEF StrictSubsetOrdering

\* One turn of the loop VisitEach, as a step of the function the fold defines.
Pick(T) == CHOOSE x \in T : TRUE

EachStep(visit, path, seen, it, T) ==
    IF T = {} THEN seen ELSE visit[<<path, Pick(T), it[T \ {Pick(T)}]>>]

LEMMA EachDef ==
    ASSUME NEW visit, NEW path, NEW S, NEW seen
    PROVE  VisitEach(visit, path, S, seen) =
             (CHOOSE it : it = [T \in SUBSET S |-> EachStep(visit, path, seen, it, T)])[S]
BY Zenon DEF VisitEach, FoldSet, MapThenFoldSet, EachStep, Pick

\* H makes f[x] from the values of f at arguments of smaller rank; ranks are bounded.
IsRecursion(D, V, N, rank, H) ==
    /\ V # {} /\ N \in Nat /\ rank \in [D -> 0..N]
    /\ H \in [D -> [[D -> V] -> V]]
    /\ \A x \in D : \A f, g \in [D -> V] :
          (\A y \in D : rank[y] < rank[x] => f[y] = g[y]) => H[x][f] = H[x][g]

\* Such an H has a function that satisfies its equation everywhere.
LEMMA Recursion ==
    ASSUME NEW D, NEW V, NEW N, NEW rank, NEW H, IsRecursion(D, V, N, rank, H)
    PROVE  \E f \in [D -> V] : \A x \in D : f[x] = H[x][f]
<1>. USE DEF IsRecursion
<1>0. PICK v \in V : TRUE
  OBVIOUS
<1>. DEFINE Right(g, n) == \A x \in D : rank[x] < n => g[x] = H[x][g]
            Wrong == {n \in Nat : \A g \in [D -> V] : ~Right(g, n)}
<1>1. Wrong = {}
  <2>1. SUFFICES ASSUME Wrong # {} PROVE FALSE
    OBVIOUS
  <2>2. PICK n \in Wrong : \A m \in Wrong : n <= m
    <3>. HIDE DEF Wrong
    <3>1. Wrong \in SUBSET Nat
      BY DEF Wrong
    <3>2. QED
      BY <2>1, <3>1, LeastNat
  <2>3. n # 0
    <3>1. [x \in D |-> v] \in [D -> V] /\ Right([x \in D |-> v], 0)
      BY <1>0
    <3>2. QED
      BY <3>1, <2>2
  <2>4. n \in Nat /\ n - 1 \in Nat /\ ~(n <= n - 1)
    <3>1. n \in Nat
      BY <2>2
    <3>. HIDE DEF Wrong
    <3>2. QED
      BY <2>3, <3>1
  <2>a. n - 1 \notin Wrong
    <3>. HIDE DEF Wrong
    <3>1. QED
      BY <2>2, <2>4
  <2>5. PICK g \in [D -> V] : Right(g, n - 1)
    <3>. HIDE DEF Right
    <3>1. QED
      BY <2>4, <2>a
  <2>6. DEFINE h == [x \in D |-> H[x][g]]
  <2>7. h \in [D -> V]
    OBVIOUS
  <2>8. ASSUME NEW x \in D, rank[x] < n PROVE h[x] = H[x][h]
    <3>1. ASSUME NEW y \in D, rank[y] < rank[x] PROVE g[y] = h[y]
      <4>1. rank[y] < n - 1
        BY <2>2, <2>8, <3>1
      <4>2. g[y] = H[y][g]
        BY <2>5, <4>1
      <4>3. QED
        BY <4>2
    <3>2. H[x][g] = H[x][h]
      BY <2>7, <3>1
    <3>3. QED
      BY <3>2
  <2>9. Right(h, n)
    BY <2>8
  <2>10. QED
    BY <2>2, <2>7, <2>9
<1>2. PICK g \in [D -> V] : Right(g, N + 1)
  <2>1. N + 1 \in Nat /\ N + 1 \notin Wrong
    <3>. HIDE DEF Wrong
    <3>1. QED
      BY <1>1
  <2>. HIDE DEF Right
  <2>2. QED
    BY <2>1
<1>3. \A x \in D : rank[x] < N + 1
  OBVIOUS
<1>4. QED
  BY <1>2, <1>3

\* it[T] is what the loop has seen after the steps of T.
IsEach(visit, path, seen, S, it) ==
    /\ it \in [SUBSET S -> Seen]
    /\ \A T \in SUBSET S : it[T] = EachStep(visit, path, seen, it, T)

LEMMA Picked ==
    ASSUME NEW S, IsFiniteSet(S), NEW T \in SUBSET S, T # {}
    PROVE  /\ Pick(T) \in T
           /\ T \ {Pick(T)} \in SUBSET S /\ T \ {Pick(T)} # T
           /\ Cardinality(T) \in 0..Cardinality(S)
           /\ Cardinality(T \ {Pick(T)}) \in Nat
           /\ Cardinality(T \ {Pick(T)}) < Cardinality(T)
<1>1. Pick(T) \in T
  BY DEF Pick
<1>2. IsFiniteSet(T) /\ Cardinality(T) <= Cardinality(S)
  BY FS_Subset
<1>3. Cardinality(T) \in Nat /\ Cardinality(S) \in Nat
  BY <1>2, FS_CardinalityType
<1>4. /\ IsFiniteSet(T \ {Pick(T)})
      /\ Cardinality(T \ {Pick(T)}) = Cardinality(T) - 1
  BY <1>1, <1>2, FS_RemoveElement
<1>5. Cardinality(T \ {Pick(T)}) \in Nat
  BY <1>4, FS_CardinalityType
<1>6. QED
  BY <1>1, <1>2, <1>3, <1>4, <1>5

LEMMA EachExists ==
    ASSUME NEW visit, NEW path, NEW S, IsFiniteSet(S), NEW seen \in Seen,
           \A t \in S : \A acc \in Seen : visit[<<path, t, acc>>] \in Seen
    PROVE  \E it : IsEach(visit, path, seen, S, it)
<1>. DEFINE D == SUBSET S
            N == Cardinality(S)
            rank == [T \in D |-> Cardinality(T)]
            H == [T \in D |-> [it \in [D -> Seen] |-> EachStep(visit, path, seen, it, T)]]
<1>1. N \in Nat
  BY FS_CardinalityType
<1>2. rank \in [D -> 0..N]
  <2>1. ASSUME NEW T \in D PROVE Cardinality(T) \in 0..N
    <3>1. IsFiniteSet(T) /\ Cardinality(T) <= N
      BY FS_Subset
    <3>2. QED
      BY <1>1, <3>1, FS_CardinalityType
  <2>2. QED
    BY <2>1
<1>3. H \in [D -> [[D -> Seen] -> Seen]]
  <2>1. ASSUME NEW T \in D, NEW it \in [D -> Seen] PROVE EachStep(visit, path, seen, it, T) \in Seen
    <3>1. CASE T = {}
      BY <3>1 DEF EachStep
    <3>2. CASE T # {}
      <4>1. Pick(T) \in S /\ it[T \ {Pick(T)}] \in Seen
        BY <3>2, Picked
      <4>2. QED
        BY <3>2, <4>1 DEF EachStep
    <3>3. QED
      BY <3>1, <3>2
  <2>2. QED
    BY <2>1
<1>4. ASSUME NEW T \in D, NEW f \in [D -> Seen], NEW g \in [D -> Seen],
             \A U \in D : rank[U] < rank[T] => f[U] = g[U]
      PROVE  H[T][f] = H[T][g]
  <2>1. CASE T = {}
    BY <2>1 DEF EachStep
  <2>2. CASE T # {}
    <3>1. f[T \ {Pick(T)}] = g[T \ {Pick(T)}]
      BY <1>4, <2>2, Picked
    <3>2. EachStep(visit, path, seen, f, T) = EachStep(visit, path, seen, g, T)
      BY <3>1 DEF EachStep
    <3>3. QED
      BY <3>2
  <2>3. QED
    BY <2>1, <2>2
<1>5. \E it \in [D -> Seen] : \A T \in D : it[T] = H[T][it]
  <2>1. \A T \in D : \A f, g \in [D -> Seen] :
           (\A U \in D : rank[U] < rank[T] => f[U] = g[U]) => H[T][f] = H[T][g]
    <3>. HIDE DEF D, N, rank, H
    <3>1. QED
      BY <1>4
  <2>. HIDE DEF D, N, rank, H
  <2>2. IsRecursion(D, Seen, N, rank, H)
    BY <1>1, <1>2, <1>3, <2>1 DEF IsRecursion
  <2>3. QED
    BY <2>2, Recursion
<1>6. QED
  BY <1>5 DEF IsEach

LEMMA EachIs ==
    ASSUME NEW visit, NEW path, NEW S, IsFiniteSet(S), NEW seen, NEW it,
           IsEach(visit, path, seen, S, it)
    PROVE  VisitEach(visit, path, S, seen) = it[S]
<1>. DEFINE Is(f) == f = [T \in SUBSET S |-> EachStep(visit, path, seen, f, T)]
            c == CHOOSE f : Is(f)
            D == {T \in SUBSET S : c[T] # it[T]}
<1>1. Is(it)
  BY DEF IsEach
<1>2. Is(c)
  BY <1>1
<1>3. ASSUME NEW T \in SUBSET S PROVE c[T] = EachStep(visit, path, seen, c, T)
  <2>. HIDE DEF c
  <2>1. QED
    BY <1>2
<1>4. SUFFICES ASSUME D # {} PROVE FALSE
  BY EachDef
<1>5. PICK T \in D : \A U \in D : U \subseteq T => U = T
  <2>1. D \in SUBSET (SUBSET S)
    OBVIOUS
  <2>. HIDE DEF D
  <2>2. QED
    BY <1>4, <2>1, MinimalSubset
<1>6. CASE T = {}
  BY <1>3, <1>5, <1>6 DEF IsEach, EachStep
<1>7. CASE T # {}
  <2>1. T \in SUBSET S /\ c[T] # it[T]
    BY <1>5
  <2>2. T \ {Pick(T)} \in SUBSET S /\ T \ {Pick(T)} # T
    BY <1>7, <2>1, Picked
  <2>3. T \ {Pick(T)} \notin D
    <3>. HIDE DEF D
    <3>1. QED
      BY <1>5, <2>2
  <2>4. c[T \ {Pick(T)}] = it[T \ {Pick(T)}]
    <3>. HIDE DEF c
    <3>1. QED
      BY <2>2, <2>3
  <2>5. EachStep(visit, path, seen, c, T) = EachStep(visit, path, seen, it, T)
    <3>. HIDE DEF c
    <3>1. QED
      BY <2>4 DEF EachStep
  <2>6. QED
    <3>. HIDE DEF c
    <3>1. QED
      BY <1>3, <2>1, <2>5 DEF IsEach
<1>8. QED
  BY <1>6, <1>7

\* What a loop returns: something seen, and the same for two visits that agree on its steps.
LEMMA EachTyped ==
    ASSUME NEW visit, NEW path, NEW S, IsFiniteSet(S), NEW seen \in Seen,
           \A t \in S : \A acc \in Seen : visit[<<path, t, acc>>] \in Seen
    PROVE  VisitEach(visit, path, S, seen) \in Seen
<1>1. PICK it : IsEach(visit, path, seen, S, it)
  BY EachExists
<1>2. VisitEach(visit, path, S, seen) = it[S]
  BY <1>1, EachIs
<1>3. QED
  BY <1>1, <1>2 DEF IsEach

LEMMA EachAgrees ==
    ASSUME NEW f, NEW g, NEW path, NEW S, IsFiniteSet(S), NEW seen \in Seen,
           \A t \in S : \A acc \in Seen : /\ f[<<path, t, acc>>] \in Seen
                                          /\ g[<<path, t, acc>>] = f[<<path, t, acc>>]
    PROVE  VisitEach(g, path, S, seen) = VisitEach(f, path, S, seen)
<1>1. PICK it : IsEach(f, path, seen, S, it)
  BY EachExists
<1>2. ASSUME NEW T \in SUBSET S PROVE it[T] = EachStep(g, path, seen, it, T)
  <2>1. it[T] = EachStep(f, path, seen, it, T)
    BY <1>1 DEF IsEach
  <2>2. CASE T = {}
    BY <2>1, <2>2 DEF EachStep
  <2>3. CASE T # {}
    <3>1. Pick(T) \in S /\ it[T \ {Pick(T)}] \in Seen
      BY <1>1, <2>3, Picked DEF IsEach
    <3>2. QED
      BY <2>1, <2>3, <3>1 DEF EachStep
  <2>4. QED
    BY <2>2, <2>3
<1>3. IsEach(g, path, seen, S, it)
  BY <1>1, <1>2 DEF IsEach
<1>4. QED
  BY <1>1, <1>3, EachIs
-----------------------------------------------------------------------------
(* visit terminates: a deeper call has fewer steps left off its path        *)

Visits == (SUBSET Ids) \X Ids \X Seen
Room(path) == Cardinality(Steps \ path)
KnownDeps(d) == d \in Graphs /\ \A s \in Steps : d[s] \subseteq Steps

LEMMA RoomShrinks ==
    ASSUME NEW path
    PROVE  /\ Room(path) \in 0..Cardinality(Steps) /\ Cardinality(Steps) \in Nat
           /\ \A s \in Steps \ path : Room(path \cup {s}) < Room(path)
<1>1. IsFiniteSet(Steps) /\ Cardinality(Steps) \in Nat
  BY ConstantsAssumption, FS_CardinalityType
<1>2. /\ IsFiniteSet(Steps \ path) /\ Room(path) \in Nat
      /\ Room(path) <= Cardinality(Steps)
  BY <1>1, FS_Subset, FS_CardinalityType DEF Room
<1>3. ASSUME NEW s \in Steps \ path PROVE Room(path \cup {s}) < Room(path)
  <2>1. Steps \ (path \cup {s}) = (Steps \ path) \ {s}
    OBVIOUS
  <2>2. Room(path \cup {s}) = Room(path) - 1
    BY <1>2, <1>3, <2>1, FS_RemoveElement DEF Room
  <2>3. QED
    BY <1>2, <2>2
<1>4. QED
  BY <1>1, <1>2, <1>3

LEMMA BelowKnown ==
    ASSUME NEW d, KnownDeps(d), NEW s
    PROVE  Below(d, s) \subseteq Steps /\ IsFiniteSet(Below(d, s))
<1>1. Below(d, s) \subseteq Steps
  BY DEF Below, KnownDeps
<1>2. QED
  BY <1>1, ConstantsAssumption, FS_Subset

LEMMA DeeperVisit ==
    ASSUME NEW d, KnownDeps(d), NEW path \in SUBSET Ids, NEW s \in Ids,
           NEW t \in Below(d, s), NEW acc \in Seen
    PROVE  <<path \cup {s}, t, acc>> \in Visits /\ t \in Steps /\ s \in Steps
<1>1. t \in Steps
  BY BelowKnown
<1>2. QED
  BY <1>1 DEF Visits, Ids, Below

LEMMA VisitStepTyped ==
    ASSUME NEW d, KnownDeps(d), NEW f \in [Visits -> Seen],
           NEW path \in SUBSET Ids, NEW s \in Ids, NEW seen \in Seen
    PROVE  VisitStep(f, d, path, s, seen) \in Seen
<1>. DEFINE deeper == VisitEach(f, path \cup {s}, Below(d, s), seen)
<1>1. deeper \in Seen
  <2>1. \A t \in Below(d, s) : \A acc \in Seen : f[<<path \cup {s}, t, acc>>] \in Seen
    BY DeeperVisit
  <2>2. QED
    BY <2>1, BelowKnown, EachTyped
<1>2. [deeper EXCEPT !.visited = @ \cup {s}] \in Seen
  <2>. HIDE DEF deeper
  <2>1. QED
    BY <1>1 DEF Seen
<1>3. [seen EXCEPT !.cycle = TRUE] \in Seen
  BY DEF Seen
<1>4. QED
  BY <1>2, <1>3 DEF VisitStep

LEMMA VisitStepAgrees ==
    ASSUME NEW d, KnownDeps(d), NEW f \in [Visits -> Seen], NEW g,
           NEW path \in SUBSET Ids, NEW s \in Ids, NEW seen \in Seen,
           \A q \in Visits : Room(q[1]) < Room(path) => g[q] = f[q]
    PROVE  VisitStep(g, d, path, s, seen) = VisitStep(f, d, path, s, seen)
<1>1. CASE s \in path
  BY <1>1 DEF VisitStep
<1>2. CASE s \notin path
  <2>1. ASSUME NEW t \in Below(d, s), NEW acc \in Seen
        PROVE  /\ f[<<path \cup {s}, t, acc>>] \in Seen
               /\ g[<<path \cup {s}, t, acc>>] = f[<<path \cup {s}, t, acc>>]
    <3>1. <<path \cup {s}, t, acc>> \in Visits /\ s \in Steps
      BY DeeperVisit
    <3>2. Room(path \cup {s}) < Room(path)
      BY <1>2, <3>1, RoomShrinks
    <3>3. QED
      BY <3>1, <3>2
  <2>2. VisitEach(g, path \cup {s}, Below(d, s), seen)
            = VisitEach(f, path \cup {s}, Below(d, s), seen)
    BY <2>1, BelowKnown, EachAgrees
  <2>3. QED
    BY <2>2 DEF VisitStep
<1>3. QED
  BY <1>1, <1>2

LEMMA LeastRoom ==
    ASSUME NEW X \in SUBSET Visits, X # {}
    PROVE  \E p \in X : \A q \in Visits : Room(q[1]) < Room(p[1]) => q \notin X
<1>. DEFINE rooms == {Room(p[1]) : p \in X}
<1>1. rooms \in SUBSET Nat
  BY RoomShrinks
<1>2. PICK n \in rooms : \A m \in rooms : n <= m
  <2>1. rooms # {}
    OBVIOUS
  <2>. HIDE DEF rooms
  <2>2. QED
    BY <1>1, <2>1, LeastNat
<1>3. PICK p \in X : n = Room(p[1])
  BY <1>2
<1>4. ASSUME NEW q \in X PROVE ~(Room(q[1]) < Room(p[1]))
  <2>1. Room(q[1]) \in rooms
    OBVIOUS
  <2>2. Room(q[1]) \in Nat /\ Room(p[1]) \in Nat
    BY RoomShrinks
  <2>3. QED
    BY <1>2, <1>3, <2>1, <2>2
<1>5. QED
  BY <1>4

\* The recursive definition of visit has a solution, and Visit(d) is one.
LEMMA VisitExists ==
    ASSUME NEW d, KnownDeps(d)
    PROVE  \E f \in [Visits -> Seen] :
              \A p \in Visits : f[p] = VisitStep(f, d, p[1], p[2], p[3])
<1>. DEFINE N == Cardinality(Steps)
            rank == [p \in Visits |-> Room(p[1])]
            H == [p \in Visits |-> [f \in [Visits -> Seen] |->
                     VisitStep(f, d, p[1], p[2], p[3])]]
<1>1. ASSUME NEW p \in Visits
      PROVE  p[1] \in SUBSET Ids /\ p[2] \in Ids /\ p[3] \in Seen
  BY DEF Visits
<1>2. N \in Nat /\ rank \in [Visits -> 0..N]
  BY RoomShrinks
<1>3. H \in [Visits -> [[Visits -> Seen] -> Seen]]
  BY <1>1, VisitStepTyped
<1>4. \A p \in Visits : \A f, g \in [Visits -> Seen] :
         (\A q \in Visits : rank[q] < rank[p] => f[q] = g[q]) => H[p][f] = H[p][g]
  <2>1. ASSUME NEW p \in Visits, NEW f \in [Visits -> Seen], NEW g \in [Visits -> Seen],
               \A q \in Visits : rank[q] < rank[p] => f[q] = g[q]
        PROVE  H[p][f] = H[p][g]
    <3>1. \A q \in Visits : Room(q[1]) < Room(p[1]) => f[q] = g[q]
      BY <2>1
    <3>2. VisitStep(f, d, p[1], p[2], p[3]) = VisitStep(g, d, p[1], p[2], p[3])
      BY <1>1, <3>1, VisitStepAgrees
    <3>3. QED
      BY <3>2
  <2>2. QED
    BY <2>1
<1>5. Seen # {}
  <2>1. [visited |-> {}, cycle |-> FALSE] \in Seen
    BY DEF Seen
  <2>2. QED
    BY <2>1
<1>6. \E f \in [Visits -> Seen] : \A p \in Visits : f[p] = H[p][f]
  <2>. HIDE DEF N, rank, H
  <2>1. IsRecursion(Visits, Seen, N, rank, H)
    BY <1>2, <1>3, <1>4, <1>5 DEF IsRecursion
  <2>2. QED
    BY <2>1, Recursion
<1>7. QED
  BY <1>6

LEMMA VisitDefined ==
    ASSUME NEW d, KnownDeps(d)
    PROVE  /\ Visit(d) \in [Visits -> Seen]
           /\ \A p \in Visits : Visit(d)[p] = VisitStep(Visit(d), d, p[1], p[2], p[3])
<1>. DEFINE Is(f) == f = [p \in Visits |-> VisitStep(f, d, p[1], p[2], p[3])]
            c == CHOOSE f : Is(f)
<1>1. PICK f \in [Visits -> Seen] : \A p \in Visits : f[p] = VisitStep(f, d, p[1], p[2], p[3])
  BY VisitExists
<1>2. Visit(d) = c
  BY Zenon DEF Visit, Visits
<1>3. Is(f)
  BY <1>1
<1>4. Is(c)
  BY <1>3
<1>. HIDE DEF c
<1>5. \A p \in Visits : c[p] = VisitStep(c, d, p[1], p[2], p[3])
  BY <1>4
<1>. DEFINE X == {p \in Visits : c[p] # f[p]}
<1>6. X = {}
  <2>1. SUFFICES ASSUME X # {} PROVE FALSE
    OBVIOUS
  <2>2. PICK p \in X : \A q \in Visits : Room(q[1]) < Room(p[1]) => q \notin X
    <3>1. X \in SUBSET Visits
      OBVIOUS
    <3>. HIDE DEF X
    <3>2. QED
      BY <2>1, <3>1, LeastRoom
  <2>3. \A q \in Visits : Room(q[1]) < Room(p[1]) => c[q] = f[q]
    BY <2>2
  <2>4. p[1] \in SUBSET Ids /\ p[2] \in Ids /\ p[3] \in Seen
    BY <2>2 DEF Visits
  <2>5. VisitStep(c, d, p[1], p[2], p[3]) = VisitStep(f, d, p[1], p[2], p[3])
    BY <2>3, <2>4, VisitStepAgrees
  <2>6. QED
    BY <1>1, <1>5, <2>2, <2>5
<1>7. \A p \in Visits : c[p] \in Seen
  BY <1>1, <1>6
<1>8. QED
  BY <1>2, <1>4, <1>5, <1>7
-----------------------------------------------------------------------------
(* What visit finds                                                         *)

\* A set of steps that can be done in some order: nothing in it waits for a step outside,
\* and every part of it has a step that waits for none of the part.
Orderly(d, V) ==
    /\ V \subseteq Steps
    /\ \A s \in V : d[s] \subseteq V
    /\ \A R \in (SUBSET V) \ {{}} : \E s \in R : d[s] \cap R = {}

\* What a visit of the steps of S promises if it finds no cycle.
Sound(d, S, seen, out) ==
    ~out.cycle => /\ ~seen.cycle
                  /\ Orderly(d, seen.visited) => /\ Orderly(d, out.visited)
                                                 /\ S \cup seen.visited \subseteq out.visited

LEMMA OrderlyGrows ==
    ASSUME NEW d, NEW V, Orderly(d, V), NEW s \in Steps, d[s] \subseteq V
    PROVE  Orderly(d, V \cup {s})
<1>1. ASSUME NEW R \in (SUBSET (V \cup {s})) \ {{}} PROVE \E t \in R : d[t] \cap R = {}
  <2>1. CASE R \in SUBSET V
    BY <1>1, <2>1 DEF Orderly
  <2>2. CASE R \notin SUBSET V /\ R \in SUBSET {s}
    <3>1. s \notin V /\ s \in R /\ R = {s}
      BY <1>1, <2>2
    <3>2. d[s] \cap R = {}
      BY <3>1
    <3>3. QED
      BY <3>1, <3>2
  <2>3. CASE R \notin SUBSET V /\ R \notin SUBSET {s}
    <3>1. s \notin V /\ R \ {s} \in (SUBSET V) \ {{}}
      BY <1>1, <2>3
    <3>2. PICK t \in R \ {s} : d[t] \cap (R \ {s}) = {}
      BY <3>1 DEF Orderly
    <3>3. t \in V /\ d[t] \subseteq V
      BY <3>1, <3>2 DEF Orderly
    <3>4. d[t] \cap R = {}
      BY <3>1, <3>2, <3>3
    <3>5. QED
      BY <3>2, <3>4
  <2>4. QED
    BY <2>1, <2>2, <2>3
<1>2. QED
  BY <1>1 DEF Orderly

LEMMA EachSound ==
    ASSUME NEW d, NEW visit, NEW path, NEW S, IsFiniteSet(S), NEW seen \in Seen,
           \A t \in S : \A acc \in Seen : /\ visit[<<path, t, acc>>] \in Seen
                                          /\ Sound(d, {t}, acc, visit[<<path, t, acc>>])
    PROVE  Sound(d, S, seen, VisitEach(visit, path, S, seen))
<1>1. PICK it : IsEach(visit, path, seen, S, it)
  BY EachExists
<1>. DEFINE X == {T \in SUBSET S : ~Sound(d, T, seen, it[T])}
<1>2. SUFFICES ASSUME X # {} PROVE FALSE
  <2>1. VisitEach(visit, path, S, seen) = it[S]
    BY <1>1, EachIs
  <2>2. QED
    BY <2>1
<1>3. PICK T \in X : \A U \in X : U \subseteq T => U = T
  <2>1. X \in SUBSET (SUBSET S)
    OBVIOUS
  <2>. HIDE DEF X
  <2>2. QED
    BY <1>2, <2>1, MinimalSubset
<1>4. it[T] = EachStep(visit, path, seen, it, T)
  BY <1>1, <1>3 DEF IsEach
<1>5. CASE T = {}
  BY <1>3, <1>4, <1>5 DEF EachStep, Sound
<1>6. CASE T # {}
  <2>. DEFINE t == Pick(T)
              U == T \ {t}
  <2>1. T \in SUBSET S /\ t \in T /\ U \in SUBSET S /\ U # T
    BY <1>3, <1>6, Picked
  <2>. HIDE DEF t
  <2>2. Sound(d, U, seen, it[U])
    BY <1>3, <2>1
  <2>3. it[U] \in Seen /\ it[T] = visit[<<path, t, it[U]>>]
    BY <1>1, <1>4, <1>6, <2>1 DEF IsEach, EachStep, t
  <2>4. Sound(d, {t}, it[U], it[T])
    BY <2>1, <2>3
  <2>5. T = {t} \cup U
    BY <2>1
  <2>6. Sound(d, T, seen, it[T])
    BY <2>2, <2>4, <2>5 DEF Sound
  <2>7. QED
    BY <1>3, <2>6
<1>7. QED
  BY <1>5, <1>6

LEMMA VisitSound ==
    ASSUME NEW d, KnownDeps(d), NEW path \in SUBSET Ids, NEW s \in Steps, NEW seen \in Seen
    PROVE  Sound(d, {s}, seen, Visit(d)[<<path, s, seen>>])
<1>. DEFINE X == {p \in Visits : p[2] \in Steps /\ ~Sound(d, {p[2]}, p[3], Visit(d)[p])}
<1>1. SUFFICES ASSUME X # {} PROVE FALSE
  BY DEF Visits, Ids
<1>2. PICK p \in X : \A q \in Visits : Room(q[1]) < Room(p[1]) => q \notin X
  <2>1. X \in SUBSET Visits
    OBVIOUS
  <2>. HIDE DEF X
  <2>2. QED
    BY <1>1, <2>1, LeastRoom
<1>. DEFINE P == p[1]  r == p[2]  from == p[3]
            out == Visit(d)[p]
            deeper == VisitEach(Visit(d), P \cup {r}, Below(d, r), from)
<1>3. p \in Visits /\ P \in SUBSET Ids /\ r \in Ids /\ r \in Steps /\ from \in Seen
  BY <1>2 DEF Visits
<1>4. out = VisitStep(Visit(d), d, P, r, from)
  BY <1>3, VisitDefined
<1>5. CASE r \in from.visited
  <2>1. out = from
    BY <1>4, <1>5 DEF VisitStep
  <2>2. Sound(d, {r}, from, out)
    BY <1>5, <2>1 DEF Sound
  <2>3. QED
    BY <1>2, <2>2
<1>6. CASE r \notin from.visited /\ r \in P
  <2>1. out.cycle
    BY <1>3, <1>4, <1>6 DEF VisitStep, Seen
  <2>2. Sound(d, {r}, from, out)
    BY <2>1 DEF Sound
  <2>3. QED
    BY <1>2, <2>2
<1>7. CASE r \notin from.visited /\ r \notin P
  <2>1. ASSUME NEW t \in Below(d, r), NEW acc \in Seen
        PROVE  /\ Visit(d)[<<P \cup {r}, t, acc>>] \in Seen
               /\ Sound(d, {t}, acc, Visit(d)[<<P \cup {r}, t, acc>>])
    <3>1. <<P \cup {r}, t, acc>> \in Visits /\ t \in Steps
      BY <1>3, DeeperVisit
    <3>2. Room(P \cup {r}) < Room(P)
      BY <1>3, <1>7, RoomShrinks
    <3>3. <<P \cup {r}, t, acc>> \notin X
      BY <1>2, <3>1, <3>2
    <3>4. QED
      BY <3>1, <3>3, VisitDefined
  <2>2. deeper \in Seen /\ Sound(d, Below(d, r), from, deeper)
    BY <1>3, <2>1, BelowKnown, EachTyped, EachSound
  <2>3. out = [deeper EXCEPT !.visited = @ \cup {r}]
    BY <1>4, <1>7 DEF VisitStep
  <2>4. out.cycle = deeper.cycle /\ out.visited = deeper.visited \cup {r}
    <3>. HIDE DEF deeper, out
    <3>1. QED
      BY <2>2, <2>3 DEF Seen
  <2>5. Below(d, r) = d[r]
    BY <1>3 DEF Below
  <2>6. Sound(d, {r}, from, out)
    <3>. HIDE DEF deeper, out
    <3>1. SUFFICES ASSUME ~out.cycle, Orderly(d, from.visited)
                   PROVE  /\ Orderly(d, out.visited)
                          /\ {r} \cup from.visited \subseteq out.visited
      BY <2>2, <2>4 DEF Sound
    <3>2. Orderly(d, deeper.visited) /\ d[r] \cup from.visited \subseteq deeper.visited
      BY <2>2, <2>4, <2>5, <3>1 DEF Sound
    <3>3. QED
      BY <1>3, <2>4, <3>2, OrderlyGrows
  <2>7. QED
    BY <1>2, <2>6
<1>8. QED
  BY <1>5, <1>6, <1>7

\* A path of the search: each step on it waits for another one of it, or for the next.
Chain(d, path, s) == path \subseteq Steps /\ \A r \in path : d[r] \cap (path \cup {s}) # {}

LEMMA EachQuiet ==
    ASSUME NEW visit, NEW path, NEW S, IsFiniteSet(S), NEW seen \in Seen, ~seen.cycle,
           \A t \in S : \A acc \in Seen :
                /\ visit[<<path, t, acc>>] \in Seen
                /\ ~acc.cycle => ~visit[<<path, t, acc>>].cycle
    PROVE  ~VisitEach(visit, path, S, seen).cycle
<1>1. PICK it : IsEach(visit, path, seen, S, it)
  BY EachExists
<1>. DEFINE X == {T \in SUBSET S : it[T].cycle}
<1>2. SUFFICES ASSUME X # {} PROVE FALSE
  <2>1. VisitEach(visit, path, S, seen) = it[S]
    BY <1>1, EachIs
  <2>2. QED
    BY <2>1
<1>3. PICK T \in X : \A U \in X : U \subseteq T => U = T
  <2>1. X \in SUBSET (SUBSET S)
    OBVIOUS
  <2>. HIDE DEF X
  <2>2. QED
    BY <1>2, <2>1, MinimalSubset
<1>4. it[T] = EachStep(visit, path, seen, it, T)
  BY <1>1, <1>3 DEF IsEach
<1>5. CASE T = {}
  BY <1>3, <1>4, <1>5 DEF EachStep
<1>6. CASE T # {}
  <2>. DEFINE t == Pick(T)
              U == T \ {t}
  <2>1. T \in SUBSET S /\ t \in T /\ U \in SUBSET S /\ U # T
    BY <1>3, <1>6, Picked
  <2>. HIDE DEF t
  <2>2. ~it[U].cycle
    BY <1>3, <2>1
  <2>3. it[U] \in Seen /\ it[T] = visit[<<path, t, it[U]>>]
    BY <1>1, <1>4, <1>6, <2>1 DEF IsEach, EachStep, t
  <2>4. QED
    BY <1>3, <2>1, <2>2, <2>3
<1>7. QED
  BY <1>5, <1>6

LEMMA VisitQuiet ==
    ASSUME NEW d, KnownDeps(d), Acyclic(d),
           NEW path \in SUBSET Ids, NEW s \in Steps, Chain(d, path, s),
           NEW seen \in Seen, ~seen.cycle
    PROVE  ~Visit(d)[<<path, s, seen>>].cycle
<1>. DEFINE Quiet(p) == p[2] \in Steps /\ Chain(d, p[1], p[2]) /\ ~p[3].cycle
            X == {p \in Visits : Quiet(p) /\ Visit(d)[p].cycle}
<1>1. SUFFICES ASSUME X # {} PROVE FALSE
  BY DEF Visits, Ids
<1>2. PICK p \in X : \A q \in Visits : Room(q[1]) < Room(p[1]) => q \notin X
  <2>1. X \in SUBSET Visits
    OBVIOUS
  <2>. HIDE DEF X
  <2>2. QED
    BY <1>1, <2>1, LeastRoom
<1>. DEFINE P == p[1]  r == p[2]  from == p[3]
            out == Visit(d)[p]
            deeper == VisitEach(Visit(d), P \cup {r}, Below(d, r), from)
<1>3. /\ p \in Visits /\ P \in SUBSET Ids /\ r \in Ids /\ r \in Steps /\ from \in Seen
      /\ Chain(d, P, r) /\ ~from.cycle /\ out.cycle
  BY <1>2 DEF Visits
<1>4. out = VisitStep(Visit(d), d, P, r, from)
  BY <1>3, VisitDefined
<1>5. CASE r \in from.visited
  BY <1>3, <1>4, <1>5 DEF VisitStep
<1>6. CASE r \in P
  <2>1. P \in (SUBSET Steps) \ {{}} /\ P \cup {r} = P
    BY <1>3, <1>6 DEF Chain
  <2>2. \A t \in P : d[t] \cap P # {}
    BY <1>3, <2>1 DEF Chain
  <2>3. QED
    BY <2>1, <2>2 DEF Acyclic
<1>7. CASE r \notin from.visited /\ r \notin P
  <2>1. ASSUME NEW t \in Below(d, r), NEW acc \in Seen
        PROVE  /\ Visit(d)[<<P \cup {r}, t, acc>>] \in Seen
               /\ ~acc.cycle => ~Visit(d)[<<P \cup {r}, t, acc>>].cycle
    <3>1. <<P \cup {r}, t, acc>> \in Visits /\ t \in Steps
      BY <1>3, DeeperVisit
    <3>2. Room(P \cup {r}) < Room(P)
      BY <1>3, <1>7, RoomShrinks
    <3>3. <<P \cup {r}, t, acc>> \notin X
      BY <1>2, <3>1, <3>2
    <3>4. Chain(d, P \cup {r}, t)
      BY <1>3, <2>1 DEF Chain, Below
    <3>5. QED
      BY <3>1, <3>3, <3>4, VisitDefined
  <2>2. deeper \in Seen /\ ~deeper.cycle
    BY <1>3, <2>1, BelowKnown, EachTyped, EachQuiet
  <2>3. out = [deeper EXCEPT !.visited = @ \cup {r}]
    BY <1>4, <1>7 DEF VisitStep
  <2>4. out.cycle = deeper.cycle
    <3>. HIDE DEF deeper, out
    <3>1. QED
      BY <2>2, <2>3 DEF Seen
  <2>5. QED
    BY <1>3, <2>2, <2>4
<1>8. QED
  BY <1>5, <1>6, <1>7

\* The search of validateWorkflowSpec is exact, whatever the number of steps, the graph
\* and the order it meets the steps in: an accepted graph has only dependencies on steps
\* and no cycle, and every such graph is accepted.
THEOREM SearchIsExact ==
    ASSUME NEW d \in Graphs
    PROVE  Accepted(d) <=> (\A s \in Steps : d[s] \subseteq Steps) /\ Acyclic(d)
<1>. DEFINE none == [visited |-> {}, cycle |-> FALSE]
            found == VisitEach(Visit(d), {}, Steps, none)
<1>1. SUFFICES ASSUME KnownDeps(d) PROVE Accepted(d) <=> Acyclic(d)
  BY DEF KnownDeps, Accepted
<1>2. none \in Seen /\ IsFiniteSet(Steps)
  BY ConstantsAssumption DEF Seen
<1>3. ASSUME NEW t \in Steps, NEW acc \in Seen
      PROVE  /\ Visit(d)[<<{}, t, acc>>] \in Seen
             /\ Sound(d, {t}, acc, Visit(d)[<<{}, t, acc>>])
  <2>1. <<{}, t, acc>> \in Visits
    BY DEF Visits, Ids
  <2>2. QED
    BY <1>1, <2>1, VisitDefined, VisitSound
<1>4. FindsCycle(d) = found.cycle
  BY DEF FindsCycle
<1>5. ASSUME Accepted(d) PROVE Acyclic(d)
  <2>1. Sound(d, Steps, none, found)
    BY <1>2, <1>3, EachSound
  <2>2. ~found.cycle
    BY <1>4, <1>5 DEF Accepted
  <2>3. Orderly(d, none.visited)
    BY DEF Orderly
  <2>4. Orderly(d, found.visited) /\ Steps \subseteq found.visited
    <3>. HIDE DEF found
    <3>1. QED
      BY <2>1, <2>2, <2>3 DEF Sound
  <2>5. QED
    <3>. HIDE DEF found
    <3>1. QED
      BY <2>4 DEF Orderly, Acyclic
<1>6. ASSUME Acyclic(d) PROVE Accepted(d)
  <2>1. ASSUME NEW t \in Steps, NEW acc \in Seen, ~acc.cycle
        PROVE  ~Visit(d)[<<{}, t, acc>>].cycle
    BY <1>1, <1>6, <2>1, VisitQuiet DEF Chain
  <2>2. ~found.cycle
    BY <1>2, <1>3, <2>1, EachQuiet
  <2>3. ASSUME NEW t \in Steps PROVE t \notin d[t]
    <3>1. {t} \in (SUBSET Steps) \ {{}}
      OBVIOUS
    <3>2. QED
      BY <1>6, <3>1 DEF Acyclic
  <2>4. QED
    BY <1>1, <1>4, <2>2, <2>3 DEF Accepted, KnownDeps
<1>7. QED
  BY <1>5, <1>6
\* What validateWorkflowSpec answers about the stored workflow is exact, at any time.
THEOREM ValidationExact == Spec => []ValidationIsExact
<1>1. TypeOK => ValidationIsExact
  BY SearchIsExact DEF TypeOK, ValidationIsExact
<1>2. QED
  BY <1>1, TypeCorrect, PTL
-----------------------------------------------------------------------------
(* Success is complete                                                      *)

\* The argument for the end of the loop: among the steps that never ran, one waits for
\* none of the others, so all it waits for is done, and it was ready.
LEMMA NothingReadyMeansDone ==
    ASSUME TypeOK, NEW e \in Execs, Accepted(deps),
           \A s \in Steps : task[e][s].pc \in {"idle", "ok"},
           Ready(e, {s \in Steps : task[e][s].pc = "ok"}) = {}
    PROVE  \A s \in Steps : task[e][s].pc = "ok"
<1>. DEFINE rest == {s \in Steps : task[e][s].pc = "idle"}
            done == {s \in Steps : task[e][s].pc = "ok"}
<1>1. SUFFICES ASSUME rest # {} PROVE FALSE
  OBVIOUS
<1>2. Acyclic(deps) /\ deps \in Graphs
  BY SearchIsExact DEF TypeOK
<1>3. PICK s \in rest : deps[s] \cap rest = {}
  BY <1>1, <1>2 DEF Acyclic
<1>4. deps[s] \subseteq Steps
  BY <1>3 DEF Accepted
<1>5. deps[s] \subseteq done
  BY <1>3, <1>4
<1>6. s \in Ready(e, done)
  BY <1>3, <1>5 DEF Ready
<1>7. QED
  BY <1>6

LEMMA CompleteStep ==
    ASSUME OrderInv, CompleteInv, [Next]_vars
    PROVE  CompleteInv'
<1>0. TypeOK /\ (\A e \in Execs : ExecOrder(e)) /\ TriesFresh
      /\ SucceededIsComplete /\ \A e \in Execs : ExecComplete(e)
  BY DEF OrderInv, CompleteInv
<1>1. ASSUME NEW e \in Execs, exec'[e] = exec[e], task'[e] = task[e]
      PROVE  ExecComplete(e)'
  BY <1>0, <1>1 DEF ExecComplete
<1>2. ASSUME NEW e \in Execs, exec'[e].phase # "succeed"
      PROVE  ExecComplete(e)'
  BY <1>2 DEF ExecComplete
<1>3. ASSUME run' = run \/ run'.status # "succeeded"
      PROVE  SucceededIsComplete'
  BY <1>0, <1>3 DEF SucceededIsComplete
<1>4. CASE \E e \in Execs : ExecStep(e)
  <2>1. PICK e \in Execs : ExecStep(e)
    BY <1>4
  <2>2. /\ e[1] \in Jobs /\ Retried(e[1]) \in JobRec /\ exec \in [Execs -> ExecRec]
        /\ [job[e[1]] EXCEPT !.state = "completed"] \in JobRec
        /\ exec[e] \in ExecRec
    BY <1>0, ExecParts, RetriedEffect, JobTyped DEF JobStates, TypeOK, ExecRec
  <2>3. ASSUME NEW settled \in JobRec, Ends(e, settled) PROVE exec'[e].phase # "succeed"
    BY <1>0, <2>3, EndsEffect DEF Ended
  <2>4. ASSUME ~Advance(e) PROVE ExecComplete(e)'
    <3>1. exec'[e].phase # "succeed"
      BY <2>1, <2>2, <2>3, <2>4
         DEF ExecStep, ReadRun, Begin, Block, Fail, Succeed, Finish, Throws, ExecRec
    <3>2. QED
      BY <1>2, <3>1
  <2>5. ASSUME Advance(e) PROVE ExecComplete(e)'
    <3>. DEFINE done   == {s \in Steps : task[e][s].pc = "ok"}
                failed == {s \in Steps : task[e][s].pc = "failed"}
                phase  == PhaseAfterWave(failed, Ready(e, done))
    <3>1. /\ exec[e].phase = "loop"
          /\ \A s \in Steps : task[e][s].pc \in {"idle", "ok", "failed"}
          /\ exec' = [exec EXCEPT ![e] = [phase |-> phase, done |-> done]]
          /\ phase # "loop" => task' = task
      BY <2>5 DEF Advance
    <3>2. CASE phase = "succeed"
      <4>1. failed = {} /\ Ready(e, done) = {}
        BY <3>2 DEF PhaseAfterWave
      <4>2. \A s \in Steps : task[e][s].pc \in {"idle", "ok"}
        BY <3>1, <4>1
      <4>3. Accepted(deps)
        BY <1>0, <3>1 DEF ExecOrder
      <4>4. \A s \in Steps : task[e][s].pc = "ok"
        BY <1>0, <4>1, <4>2, <4>3, NothingReadyMeansDone
      <4>5. done = Steps /\ task' = task
        BY <3>1, <3>2, <4>4
      <4>6. exec'[e].done = done
        BY <2>2, <3>1
      <4>7. QED
        BY <4>4, <4>5, <4>6 DEF ExecComplete
    <3>3. CASE phase # "succeed"
      <4>1. exec'[e].phase # "succeed"
        BY <2>2, <3>1, <3>3
      <4>2. QED
        BY <1>2, <4>1
    <3>4. QED
      BY <3>2, <3>3
  <2>6. \A f \in Execs : ExecComplete(f)'
    BY <1>0, <1>1, <2>1, <2>4, <2>5, ExecStepTypes
  <2>7. ASSUME Succeed(e) PROVE SucceededIsComplete'
    BY <1>0, <2>7 DEF Succeed, ExecComplete, SucceededIsComplete
  <2>8. ASSUME ~Succeed(e) PROVE SucceededIsComplete'
    BY <1>0, <1>3, <2>1, <2>8 DEF ExecStep, ReadRun, Begin, Advance, Block, Fail, Finish, Throws,
                                  TypeOK
  <2>9. QED
    BY <2>6, <2>7, <2>8 DEF CompleteInv
<1>5. CASE \E e \in Execs : \E s \in Steps : TaskStep(e, s)
  <2>1. PICK e \in Execs, s \in Steps : TaskStep(e, s)
    BY <1>5
  <2>2. run' = run /\ InFlight(e, s) /\ (exec' = exec \/ Ends(e, Retried(e[1])))
    BY <1>0, <2>1, TaskStepKinds
  <2>3. Retried(e[1]) \in JobRec
    BY <1>0, ExecParts, RetriedEffect
  <2>4. exec[e].phase # "succeed"
    BY <1>0, <2>2 DEF ExecOrder, InFlight, AfterLoop
  <2>5. exec'[e].phase # "succeed"
    BY <1>0, <2>2, <2>3, <2>4, EndsEffect DEF Ended
  <2>6. \A f \in Execs : ExecComplete(f)'
    BY <1>0, <1>1, <1>2, <2>1, <2>5, TaskStepTypes
  <2>7. QED
    BY <1>3, <2>2, <2>6 DEF CompleteInv
<1>6. CASE Fetch
  <2>1. PICK e \in Execs :
           /\ exec'[e].phase = "read"
           /\ \A f \in Execs \ {e} : exec'[f] = exec[f]
           /\ UNCHANGED <<deps, run, row, task, api, owner, overlaps>>
    BY <1>0, <1>6, FetchEffect, Zenon
  <2>2. \A f \in Execs : ExecComplete(f)'
    BY <1>1, <1>2, <2>1
  <2>3. QED
    BY <1>3, <2>1, <2>2 DEF CompleteInv
<1>7. CASE WorkerDies
  <2>1. \A e \in Execs : ExecComplete(e)'
    BY <1>7 DEF WorkerDies, ExecComplete
  <2>2. QED
    BY <1>3, <1>7, <2>1 DEF CompleteInv, WorkerDies
<1>8. CASE UNCHANGED <<exec, task>> /\ (run' = run \/ run'.status # "succeeded")
  BY <1>1, <1>3, <1>8 DEF CompleteInv
<1>9. CASE \/ CreateRun \/ InsertRows \/ RetryStep \/ Requeue \/ CancelRun \/ CancelRows
           \/ RequestDies \/ SlotPasses \/ Enqueue \/ \E j \in Jobs : Expire(j)
  BY <1>0, <1>8, <1>9 DEF CreateRun, InsertRows, RetryStep, Requeue, CancelRun, CancelRows,
                          RequestDies, SlotPasses, Enqueue, Expire, TypeOK
<1>10. QED
  BY <1>4, <1>5, <1>6, <1>7, <1>8, <1>9 DEF Next, RequestStep, vars

\* A run reads succeeded only with the output of every step: the loop of
\* executeWorkflowRun never stops early, since the validation lets no cycle through.
THEOREM SuccessIsComplete == Spec => []SucceededIsComplete
<1>1. Init => CompleteInv
  BY DEF Init, CompleteInv, SucceededIsComplete, ExecComplete
<1>2. OrderInv /\ CompleteInv /\ [Next]_vars => CompleteInv'
  BY CompleteStep
<1>3. CompleteInv => SucceededIsComplete
  BY DEF CompleteInv
<1>4. QED
  BY <1>1, <1>2, <1>3, OrderInductive, PTL DEF Spec
-----------------------------------------------------------------------------
(* Rows and status                                                          *)

LEMMA OwnerKept ==
    ASSUME NEW e \in Execs, OwnerRows(e), exec'[e] = exec[e], task'[e] = task[e],
           UNCHANGED <<run, row>>
    PROVE  OwnerRows(e)'
BY DEF OwnerRows, InFlight

\* An execution that ended has no more to answer for than its orphans.
LEMMA OwnerEnds ==
    ASSUME NEW e \in Execs, OwnerRows(e), exec'[e].phase = "ended", UNCHANGED <<run, row>>,
           \A s \in Steps : task'[e][s].pc = "dead" \/ task'[e][s] = task[e][s]
    PROVE  OwnerRows(e)'
BY DEF OwnerRows, InFlight, AtRest

\* Whoever is not the owner ends the ownership with a write.
LEMMA NonOwners ==
    ASSUME TypeOK, NEW f \in Execs, ExecStep(f) \/ \E s \in Steps : TaskStep(f, s)
    PROVE  UNCHANGED <<run, row, owner>> \/ owner' \in {f, NoExec}
<1>1. ASSUME NEW s \in Steps, TaskStep(f, s)
      PROVE  UNCHANGED <<run, row, owner>> \/ owner' \in {f, NoExec}
  BY <1>1, TaskStepKinds DEF Writes
<1>2. CASE ExecStep(f)
  BY <1>2 DEF ExecStep, ReadRun, Begin, Advance, Block, Fail, Succeed, Finish, Throws, Writes
<1>3. QED
  BY <1>1, <1>2

LEMMA OwnerExecStep ==
    ASSUME TypeOK, NEW e \in Execs, ExecOrder(e), ExecComplete(e), ExecStep(e),
           owner' = e, owner = e => OwnerRows(e)
    PROVE  OwnerRows(e)'
<1>0. /\ e[1] \in Jobs /\ Retried(e[1]) \in JobRec
      /\ [job[e[1]] EXCEPT !.state = "completed"] \in JobRec
      /\ task[e] \in [Steps -> TaskRec] /\ task \in [Execs -> [Steps -> TaskRec]]
      /\ exec \in [Execs -> ExecRec] /\ exec[e] \in ExecRec
      /\ NoExec # e
  BY ExecParts, RetriedEffect, JobTyped, TaskTyped, ConstantsAssumption
     DEF JobStates, TypeOK, ExecRec, TaskRec
<1>1. CASE Begin(e)
  <2>1. exec[e].phase = "begin" /\ exec'[e].phase = "loop" /\ run'.status = "running" /\ task' = task
    BY <1>0, <1>1 DEF Begin, TypeOK, ExecRec
  <2>2. \A s \in Steps : task[e][s].pc = "idle"
    BY <2>1 DEF ExecOrder, AtRest
  <2>3. QED
    BY <2>1, <2>2 DEF OwnerRows, AtRest
<1>2. CASE ~Begin(e)
  <2>1. owner = e
    BY <1>0, <1>2 DEF ExecStep, ReadRun, Advance, Block, Fail, Succeed, Finish, Throws, Writes
  <2>2. OwnerRows(e)
    BY <2>1
  <2>3. ASSUME NEW settled \in JobRec, Ends(e, settled), task' = [task EXCEPT ![e] = Left(e)],
               UNCHANGED <<run, row>>
        PROVE  OwnerRows(e)'
    <3>1. exec'[e].phase = "ended"
      BY <2>3, EndsEffect DEF Ended
    <3>2. task'[e] = Left(e)
      BY <1>0, <2>3
    <3>3. \A s \in Steps : task'[e][s].pc = "dead" \/ task'[e][s] = task[e][s]
      BY <3>2, LeftEffect
    <3>4. QED
      BY <2>2, <2>3, <3>1, <3>3, OwnerEnds
  <2>4. ~ReadRun(e)
    BY <2>2 DEF ReadRun, OwnerRows, AtRest
  <2>5. CASE Advance(e)
    <3>. DEFINE done   == {s \in Steps : task[e][s].pc = "ok"}
                failed == {s \in Steps : task[e][s].pc = "failed"}
                ready  == Ready(e, done)
                phase  == PhaseAfterWave(failed, ready)
                new    == [pc |-> "start", attempt |-> 0]
                next   == [s \in Steps |-> IF s \in ready THEN new ELSE task[e][s]]
    <3>1. /\ exec[e].phase = "loop"
          /\ exec' = [exec EXCEPT ![e] = [phase |-> phase, done |-> done]]
          /\ task' = IF phase # "loop" THEN task ELSE [task EXCEPT ![e] = next]
          /\ UNCHANGED <<run, row>>
      BY <2>5 DEF Advance
    <3>2. phase \in {"block", "succeed", "loop"} /\ new.pc = "start"
      BY DEF PhaseAfterWave
    <3>3. \A s \in Steps : next[s] = new \/ next[s] = task[e][s]
      OBVIOUS
    <3>. HIDE DEF done, failed, ready, phase, new, next
    <3>4. exec'[e].phase = phase
      BY <1>0, <3>1
    <3>5. task'[e] = task[e] \/ task'[e] = next
      BY <1>0, <3>1
    <3>6. run.status = "running" /\ \A s \in Steps : task[e][s].pc \in {"stored", "ok"} => row[s] = "succeeded"
      BY <2>2, <3>1 DEF OwnerRows
    <3>7. \A s \in Steps : task'[e][s].pc \in {"stored", "ok"} => row[s] = "succeeded"
      BY <3>2, <3>3, <3>5, <3>6
    <3>8. QED
      BY <3>1, <3>2, <3>4, <3>6, <3>7 DEF OwnerRows, AtRest
  <2>6. CASE Block(e)
    <3>1. exec'[e].phase = "fail" /\ exec[e].phase = "block" /\ run' = run
      BY <1>0, <2>6 DEF Block, ExecRec
    <3>2. \A s \in Steps : row'[s] # "pending"
      BY <2>6 DEF Block
    <3>3. QED
      BY <2>2, <3>1, <3>2 DEF OwnerRows, AtRest
  <2>7. CASE Fail(e)
    <3>1. exec'[e].phase = "audit" /\ exec[e].phase = "fail" /\ run'.status = "failed"
          /\ UNCHANGED <<row, task>>
      BY <1>0, <2>7 DEF Fail, ExecRec
    <3>2. \A s \in Steps : ~InFlight(e, s) /\ row[s] # "pending"
      BY <2>2, <3>1 DEF OwnerRows, ExecOrder, InFlight, AfterLoop
    <3>3. QED
      BY <3>1, <3>2 DEF OwnerRows, AtRest, InFlight
  <2>8. CASE Succeed(e)
    <3>1. exec'[e].phase = "audit" /\ exec[e].phase = "succeed" /\ run'.status = "succeeded"
          /\ UNCHANGED <<row, task>>
      BY <1>0, <2>8 DEF Succeed, ExecRec
    <3>2. \A s \in Steps : ~InFlight(e, s) /\ row[s] = "succeeded"
      BY <2>2, <3>1 DEF OwnerRows, ExecComplete, InFlight
    <3>3. QED
      BY <3>1, <3>2 DEF OwnerRows, AtRest, InFlight
  <2>9. CASE Finish(e)
    BY <1>0, <2>3, <2>9 DEF Finish
  <2>10. CASE Throws(e)
    BY <1>0, <2>3, <2>10 DEF Throws
  <2>11. QED
    BY <1>2, <2>4, <2>5, <2>6, <2>7, <2>8, <2>9, <2>10 DEF ExecStep
<1>3. QED
  BY <1>1, <1>2

LEMMA OwnerTaskStep ==
    ASSUME TypeOK, NEW e \in Execs, NEW s \in Steps, ExecOrder(e), TaskStep(e, s),
           owner' = e, OwnerRows(e)
    PROVE  OwnerRows(e)'
<1>0. InFlight(e, s) /\ run' = run
  BY TaskStepKinds
<1>1. run.status = "running" /\ exec[e].phase \notin AtRest /\ exec[e].phase \notin AfterLoop
  BY <1>0 DEF OwnerRows, ExecOrder, InFlight, AtRest
<1>2. \A t \in Steps \ {s} : row'[t] = row[t]
  <2>1. row' = row \/ \E st \in StepStatuses : row' = [row EXCEPT ![s] = st]
    BY TaskStepKinds
  <2>2. QED
    BY <2>1 DEF TypeOK
<1>3. CASE exec' = exec
  <2>1. ASSUME \A t \in Steps \ {s} : task'[e][t] = task[e][t],
               task'[e][s].pc \in {"stored", "ok"} => row'[s] = "succeeded"
        PROVE  OwnerRows(e)'
    <3>1. exec[e].phase = "loop" =>
             \A t \in Steps : task'[e][t].pc \in {"stored", "ok"} => row'[t] = "succeeded"
      BY <1>2, <2>1 DEF OwnerRows
    <3>2. QED
      BY <1>0, <1>1, <1>3, <3>1 DEF OwnerRows, AfterLoop
  <2>2. CASE \E c \in {"start", "giveUp", "failed", "dead"} : Moves(e, s, c)
    BY <2>1, <2>2, MovesEffect DEF TaskSteps
  <2>3. CASE Moves(e, s, "stored") /\ row'[s] = "succeeded"
    BY <2>1, <2>3, MovesEffect DEF TaskSteps
  <2>4. CASE Moves(e, s, "ok") /\ task[e][s].pc = "stored" /\ row'[s] = row[s]
    <3>1. exec[e].phase = "loop" \/ exec[e].phase = "ended"
      BY <1>1 DEF AtRest, AfterLoop, TypeOK, Phases
    <3>2. CASE exec[e].phase = "loop"
      <4>1. row[s] = "succeeded"
        BY <2>4, <3>2 DEF OwnerRows
      <4>2. QED
        BY <2>1, <2>4, <4>1, MovesEffect DEF TaskSteps
    <3>3. CASE exec[e].phase = "ended"
      BY <1>0, <1>1, <1>3, <3>3 DEF OwnerRows, AtRest
    <3>4. QED
      BY <3>1, <3>2, <3>3
  <2>5. CASE task' = [task EXCEPT ![e][s] = [pc |-> "acting", attempt |-> @.attempt + 1]]
             /\ task[e][s].pc = "start"
    BY <2>1, <2>5, BeginsAttempt DEF ExecOrder
  <2>6. CASE exec[e].phase = "loop" /\ Ends(e, Retried(e[1]))
    <3>1. Retried(e[1]) \in JobRec
      BY ExecParts, RetriedEffect
    <3>2. QED
      BY <1>3, <2>6, <3>1, EndsEffect DEF Ended
  <2>7. QED
    BY <2>2, <2>3, <2>4, <2>5, <2>6, TaskStepKinds
<1>4. CASE /\ Ends(e, Retried(e[1])) /\ row' = row
           /\ task' = [task EXCEPT ![e] = [Left(e) EXCEPT ![s].pc = "dead"]]
  <2>1. Retried(e[1]) \in JobRec
    BY ExecParts, RetriedEffect
  <2>2. exec'[e].phase = "ended"
    BY <1>4, <2>1, EndsEffect DEF Ended
  <2>3. \A t \in Steps : task'[e][t].pc = "dead" \/ task'[e][t] = task[e][t]
    BY <1>4, ThrowLeft
  <2>4. QED
    BY <1>0, <1>4, <2>2, <2>3, OwnerEnds
<1>5. QED
  BY <1>3, <1>4, TaskStepKinds

LEMMA RowsStep ==
    ASSUME OrderInv, CompleteInv, RowsInv, [Next]_vars
    PROVE  RowsInv'
<1>0. TypeOK /\ (\A e \in Execs : ExecOrder(e)) /\ TriesFresh
      /\ (\A e \in Execs : ExecComplete(e)) /\ NoExec \notin Execs
  BY ConstantsAssumption DEF OrderInv, CompleteInv
<1>1. SUFFICES ASSUME NEW e \in Execs, owner' = e PROVE OwnerRows(e)'
  BY DEF RowsInv
<1>2. owner = e => OwnerRows(e)
  BY DEF RowsInv
<1>3. CASE ExecStep(e)
  BY <1>0, <1>1, <1>2, <1>3, OwnerExecStep
<1>4. CASE \E s \in Steps : TaskStep(e, s)
  <2>1. PICK s \in Steps : TaskStep(e, s)
    BY <1>4
  <2>2. owner = e
    BY <1>0, <1>1, <2>1, TaskStepKinds DEF Writes
  <2>3. QED
    BY <1>0, <1>1, <1>2, <2>1, <2>2, OwnerTaskStep
<1>5. ASSUME NEW f \in Execs \ {e}, ExecStep(f) \/ \E s \in Steps : TaskStep(f, s)
      PROVE  OwnerRows(e)'
  <2>1. exec'[e] = exec[e] /\ task'[e] = task[e]
    BY <1>0, <1>5, ExecStepTypes, TaskStepTypes
  <2>2. UNCHANGED <<run, row, owner>>
    BY <1>0, <1>1, <1>5, NonOwners
  <2>3. QED
    BY <1>1, <1>2, <2>1, <2>2, OwnerKept
<1>6. CASE Fetch
  <2>1. PICK f \in Execs :
           /\ exec[f].phase = "none"
           /\ \A g \in Execs \ {f} : exec'[g] = exec[g]
           /\ UNCHANGED <<deps, run, row, task, api, owner, overlaps>>
    BY <1>0, <1>6, FetchEffect, Zenon
  <2>2. OwnerRows(e)
    BY <1>1, <1>2, <2>1
  <2>3. f # e
    BY <2>1, <2>2 DEF OwnerRows, AtRest
  <2>4. QED
    BY <2>1, <2>2, <2>3, OwnerKept
<1>7. CASE WorkerDies
  <2>1. OwnerRows(e) /\ UNCHANGED <<run, row>> /\ exec[e].phase # "none"
    BY <1>1, <1>2, <1>7 DEF WorkerDies, OwnerRows, AtRest
  <2>2. exec'[e].phase = "ended" /\ \A s \in Steps : task'[e][s].pc = "dead"
    BY <1>7, <2>1 DEF WorkerDies
  <2>3. QED
    BY <2>1, <2>2, OwnerEnds
<1>8. CASE UNCHANGED <<exec, task, run, row, owner>>
  BY <1>1, <1>2, <1>8, OwnerKept
<1>9. CASE owner' = NoExec
  BY <1>0, <1>1, <1>9
<1>10. CASE \/ CreateRun \/ RetryStep \/ CancelRun \/ RequestStep \/ RequestDies \/ SlotPasses
            \/ UNCHANGED vars \/ \E j \in Jobs : Expire(j)
  BY <1>8, <1>9, <1>10
     DEF CreateRun, RetryStep, CancelRun, RequestStep, InsertRows, Requeue, Enqueue, CancelRows,
         RequestDies, SlotPasses, vars, Expire
<1>11. QED
  BY <1>3, <1>4, <1>5, <1>6, <1>7, <1>10 DEF Next

\* When nobody else has written since an execution began, the rows it leaves agree with
\* the status it gave the run: all done, or none still waiting.
THEOREM RowsAgreeWithStatus == Spec => []RowsAgree
<1>1. Init => CompleteInv /\ RowsInv
  BY ConstantsAssumption DEF Init, CompleteInv, SucceededIsComplete, ExecComplete, RowsInv
<1>2. OrderInv /\ CompleteInv /\ RowsInv /\ [Next]_vars => CompleteInv' /\ RowsInv'
  BY CompleteStep, RowsStep
<1>3. OrderInv /\ RowsInv => RowsAgree
  BY DEF OrderInv, TypeOK, RowsInv, RowsAgree, OwnerRows
<1>4. QED
  BY <1>1, <1>2, <1>3, OrderInductive, PTL DEF Spec
-----------------------------------------------------------------------------
(* Stranded runs                                                            *)

\* An execution's step as the queue sees it: it goes on, or it ends with its job retried
\* or completed.
LEMMA ExecStepJobs ==
    ASSUME TypeOK, NEW e \in Execs, ExecOrder(e),
           ExecStep(e) \/ \E s \in Steps : TaskStep(e, s)
    PROVE  /\ exec[e].phase \notin {"none", "ended"} \/ UNCHANGED <<exec, job, handling>>
           /\ UNCHANGED <<overlaps, unsent, request>>
           /\ \A f \in Execs \ {e} : exec'[f] = exec[f]
           /\ \A j \in Jobs \ {e[1]} : job'[j] = job[j]
           /\ \/ UNCHANGED <<job, handling>>
              \/ /\ handling = e /\ handling' = NoExec /\ exec'[e].phase = "ended"
                 /\ job'[e[1]].state \in {"retry", "failed", "completed"}
           /\ job' # job /\ job'[e[1]].state = "completed" =>
                 run.status = "cancelled" \/ exec[e].phase = "audit"
           /\ exec[e].phase = "audit" => exec'[e].phase \in {"audit", "ended"}
           /\ exec'[e].phase = "audit" /\ exec[e].phase # "audit" =>
                 run'.status \in {"succeeded", "failed"}
           /\ \/ run' = run
              \/ run'.status = "running" /\ exec[e].phase = "begin" /\ UNCHANGED <<job, handling>>
              \/ run'.status \in {"succeeded", "failed"}
<1>0. /\ e[1] \in Jobs /\ Retried(e[1]) \in JobRec
      /\ [job[e[1]] EXCEPT !.state = "completed"] \in JobRec
      /\ [job[e[1]] EXCEPT !.state = "completed"].state = "completed"
      /\ exec \in [Execs -> ExecRec] /\ exec[e] \in ExecRec
  BY ExecParts, RetriedEffect, JobTyped DEF JobStates, TypeOK, ExecRec
<1>1. Retried(e[1]).state \in {"retry", "failed"}
  BY <1>0, RetriedEffect
<1>2. ASSUME Ends(e, Retried(e[1]))
      PROVE  /\ exec'[e].phase = "ended"
             /\ \/ UNCHANGED <<job, handling>>
                \/ /\ handling = e /\ handling' = NoExec
                   /\ job'[e[1]].state \in {"retry", "failed"}
  BY <1>0, <1>1, <1>2, EndsEffect DEF Ended
<1>3. ASSUME Ends(e, [job[e[1]] EXCEPT !.state = "completed"])
      PROVE  /\ exec'[e].phase = "ended"
             /\ \/ UNCHANGED <<job, handling>>
                \/ /\ handling = e /\ handling' = NoExec
                   /\ job'[e[1]].state = "completed"
  <2>. DEFINE settled == [job[e[1]] EXCEPT !.state = "completed"]
  <2>1. settled \in JobRec /\ settled.state = "completed" /\ Ends(e, settled)
    BY <1>0, <1>3
  <2>. HIDE DEF settled
  <2>2. QED
    BY <2>1, EndsEffect DEF Ended
<1>4. \A f \in Execs \ {e} : exec'[f] = exec[f]
  BY ExecStepTypes, TaskStepTypes
<1>5. \A j \in Jobs \ {e[1]} : job'[j] = job[j]
  BY ExecStepTypes, TaskStepTypes
<1>6. ASSUME NEW s \in Steps, TaskStep(e, s)
      PROVE  /\ InFlight(e, s) /\ run' = run /\ UNCHANGED <<overlaps, unsent, request>>
             /\ UNCHANGED <<job, exec, handling>> \/ (exec[e].phase = "loop" /\ Ends(e, Retried(e[1])))
  BY <1>6, TaskStepKinds DEF api
<1>7. CASE \E s \in Steps : TaskStep(e, s)
  <2>1. CASE UNCHANGED <<job, exec, handling>>
    BY <1>4, <1>5, <1>6, <1>7, <2>1
  <2>2. CASE exec[e].phase = "loop" /\ Ends(e, Retried(e[1]))
    BY <1>2, <1>4, <1>5, <1>6, <1>7, <2>2
  <2>3. QED
    BY <1>6, <1>7, <2>1, <2>2
<1>8. CASE ReadRun(e)
  <2>1. UNCHANGED <<run, overlaps, unsent, request>> /\ exec[e].phase = "read"
    BY <1>8 DEF ReadRun, api
  <2>2. CASE run.status = "cancelled"
    BY <1>3, <1>4, <1>5, <1>8, <2>1, <2>2 DEF ReadRun
  <2>3. CASE run.status # "cancelled"
    <3>1. exec'[e].phase = "begin" /\ UNCHANGED <<job, handling>>
      BY <1>0, <1>8, <2>3 DEF ReadRun, ExecRec
    <3>2. QED
      BY <1>4, <1>5, <2>1, <3>1
  <2>4. QED
    BY <2>2, <2>3
<1>9. CASE Begin(e)
  <2>1. /\ exec'[e].phase = "loop" /\ exec[e].phase = "begin" /\ run'.status = "running"
        /\ UNCHANGED <<job, handling, overlaps, unsent, request>>
    BY <1>0, <1>9 DEF Begin, ExecRec, TypeOK, api
  <2>2. QED
    BY <1>4, <1>5, <2>1
<1>10. CASE Advance(e)
  <2>1. /\ exec'[e].phase \in {"block", "succeed", "loop"} /\ exec[e].phase = "loop" /\ run' = run
        /\ UNCHANGED <<job, handling, overlaps, unsent, request>>
    BY <1>0, <1>10 DEF Advance, PhaseAfterWave, api
  <2>2. QED
    BY <1>4, <1>5, <2>1
<1>11. CASE Block(e)
  <2>1. /\ exec'[e].phase = "fail" /\ exec[e].phase = "block" /\ run' = run
        /\ UNCHANGED <<job, handling, overlaps, unsent, request>>
    BY <1>0, <1>11 DEF Block, ExecRec, api
  <2>2. QED
    BY <1>4, <1>5, <2>1
<1>12. CASE Fail(e) \/ Succeed(e)
  <2>1. /\ exec'[e].phase = "audit" /\ exec[e].phase \in {"fail", "succeed"}
        /\ run'.status \in {"failed", "succeeded"}
        /\ UNCHANGED <<job, handling, overlaps, unsent, request>>
    BY <1>0, <1>12 DEF Fail, Succeed, ExecRec, api
  <2>2. QED
    BY <1>4, <1>5, <2>1
<1>13. CASE Finish(e)
  <2>1. exec[e].phase = "audit" /\ UNCHANGED <<run, overlaps, unsent, request>>
    BY <1>13 DEF Finish, api
  <2>2. QED
    BY <1>3, <1>4, <1>5, <1>13, <2>1 DEF Finish
<1>14. CASE Throws(e)
  <2>1. /\ exec[e].phase \notin {"none", "ended"}
        /\ UNCHANGED <<run, overlaps, unsent, request>>
    BY <1>14 DEF Throws, api
  <2>2. QED
    BY <1>2, <1>4, <1>5, <1>14, <2>1 DEF Throws
<1>15. QED
  BY <1>7, <1>8, <1>9, <1>10, <1>11, <1>12, <1>13, <1>14 DEF ExecStep

LEMMA HandledStep ==
    ASSUME OrderInv, HandledInv, [Next]_vars
    PROVE  HandledInv'
<1>0. TypeOK /\ TriesFresh /\ (\A e \in Execs : ExecOrder(e)) /\ NoExec \notin Execs
  BY ConstantsAssumption DEF OrderInv
<1>1. CASE \E e \in Execs : ExecStep(e) \/ \E s \in Steps : TaskStep(e, s)
  <2>1. PICK e \in Execs : ExecStep(e) \/ \E s \in Steps : TaskStep(e, s)
    BY <1>1
  <2>2. /\ exec[e].phase \notin {"none", "ended"} \/ UNCHANGED <<exec, job, handling>>
        /\ overlaps' = overlaps
        /\ \A f \in Execs \ {e} : exec'[f] = exec[f]
        /\ \/ UNCHANGED <<job, handling>>
           \/ handling = e /\ handling' = NoExec /\ exec'[e].phase = "ended"
    BY <1>0, <2>1, ExecStepJobs
  <2>3. QED
    BY <2>2 DEF HandledInv
<1>2. CASE Fetch
  <2>1. PICK j \in Jobs :
           /\ handling = NoExec /\ handling' = <<j, job[j].tries>>
           /\ job'[j].state = "active"
           /\ \A f \in Execs \ {<<j, job[j].tries>>} : exec'[f] = exec[f]
           /\ UNCHANGED <<deps, run, row, task, api, owner, overlaps>>
    BY <1>0, <1>2, FetchEffect, Zenon
  <2>2. QED
    BY <1>0, <2>1 DEF HandledInv
<1>3. CASE WorkerDies
  BY <1>3 DEF WorkerDies, HandledInv
<1>4. CASE \E j \in Jobs : Expire(j)
  <2>1. PICK j \in Jobs : Expire(j)
    BY <1>4
  <2>2. job' = [job EXCEPT ![j] = Retried(j)] /\ exec' = exec
    BY <2>1 DEF Expire
  <2>3. CASE Handles(j) /\ overlaps' = overlaps + 1 /\ handling' = NoExec
    <3>1. overlaps' # 0
      BY <1>0, <2>3 DEF TypeOK
    <3>2. QED
      BY <2>3, <3>1 DEF HandledInv
  <2>4. CASE ~Handles(j) /\ UNCHANGED <<handling, overlaps>>
    BY <1>0, <2>2, <2>4 DEF HandledInv, Handles, TypeOK
  <2>5. QED
    BY <2>1, <2>3, <2>4 DEF Expire
<1>5. CASE Enqueue
  <2>1. UNCHANGED <<exec, handling, overlaps>>
    BY <1>5 DEF Enqueue
  <2>2. \A j \in Jobs : job[j].state = "active" => job'[j].state = "active"
    BY <1>0, <1>5 DEF Enqueue, TypeOK
  <2>3. handling # NoExec => handling[1] \in Jobs
    BY <1>0, ExecParts DEF TypeOK
  <2>4. QED
    BY <2>1, <2>2, <2>3 DEF HandledInv
<1>6. CASE UNCHANGED <<exec, job, handling, overlaps>>
  BY <1>6 DEF HandledInv
<1>7. QED
  BY <1>1, <1>2, <1>3, <1>4, <1>5, <1>6
     DEF Next, RequestStep, CreateRun, RetryStep, CancelRun, InsertRows, Requeue, CancelRows,
         RequestDies, SlotPasses, vars, history

LEMMA StrandedStep ==
    ASSUME OrderInv, HandledInv, StrandedInv, [Next]_vars
    PROVE  StrandedInv'
<1>0. TypeOK /\ TriesFresh /\ (\A e \in Execs : ExecOrder(e)) /\ NoExec \notin Execs
  BY ConstantsAssumption DEF OrderInv
<1>1. CASE \E e \in Execs : ExecStep(e) \/ \E s \in Steps : TaskStep(e, s)
  <2>1. PICK e \in Execs : ExecStep(e) \/ \E s \in Steps : TaskStep(e, s)
    BY <1>1
  <2>2. /\ exec[e].phase \notin {"none", "ended"} \/ UNCHANGED <<exec, job, handling>>
        /\ UNCHANGED <<overlaps, unsent, request>>
        /\ \A f \in Execs \ {e} : exec'[f] = exec[f]
        /\ \A j \in Jobs \ {e[1]} : job'[j] = job[j]
        /\ \/ UNCHANGED <<job, handling>>
           \/ /\ handling = e /\ handling' = NoExec /\ exec'[e].phase = "ended"
              /\ job'[e[1]].state \in {"retry", "failed", "completed"}
        /\ job' # job /\ job'[e[1]].state = "completed" =>
              run.status = "cancelled" \/ exec[e].phase = "audit"
        /\ exec[e].phase = "audit" => exec'[e].phase \in {"audit", "ended"}
        /\ exec'[e].phase = "audit" /\ exec[e].phase # "audit" =>
              run'.status \in {"succeeded", "failed"}
        /\ \/ run' = run
           \/ run'.status = "running" /\ exec[e].phase = "begin" /\ UNCHANGED <<job, handling>>
           \/ run'.status \in {"succeeded", "failed"}
    BY <1>0, <2>1, ExecStepJobs
  <2>3. e[1] \in Jobs
    BY ExecParts
  <2>4. CASE run'.status \in {"succeeded", "failed"}
    BY <2>4 DEF StrandedInv, Unsettled
  <2>5. CASE overlaps # 0 \/ unsent
    BY <1>0, <2>2, <2>5 DEF StrandedInv, Excused, TypeOK
  <2>6. CASE overlaps = 0 /\ ~unsent /\ run'.status = "running" /\ exec[e].phase = "begin"
             /\ UNCHANGED <<job, handling>>
    <3>1. handling = e
      BY <2>6 DEF HandledInv
    <3>2. job[e[1]].state = "active"
      BY <1>0, <3>1 DEF HandledInv
    <3>3. \A f \in Execs \ {e} : exec[f].phase # "audit"
      BY <2>6, <3>1 DEF HandledInv
    <3>4. exec'[e].phase # "audit"
      BY <2>2, <2>6
    <3>5. QED
      BY <2>2, <2>3, <2>6, <3>2, <3>3, <3>4 DEF StrandedInv, Live
  <2>7. CASE run' = run /\ overlaps = 0 /\ ~unsent /\ run'.status \notin {"succeeded", "failed"}
    <3>1. CASE UNCHANGED <<job, handling>>
      <4>1. \A f \in Execs : exec'[f].phase = "audit" => exec[f].phase = "audit"
        BY <2>2, <2>7
      <4>2. QED
        BY <2>2, <2>7, <3>1, <4>1 DEF StrandedInv, Unsettled, Excused, Enqueuing, Live
    <3>2. CASE handling = e /\ exec'[e].phase = "ended"
               /\ job'[e[1]].state \in {"retry", "failed"}
      <4>1. \A f \in Execs \ {e} : exec'[f].phase # "audit"
        BY <1>0, <2>2, <2>7, <3>2 DEF HandledInv
      <4>2. Live(e[1])' \/ job'[e[1]].state = "failed"
        BY <3>2 DEF Live
      <4>3. QED
        BY <2>3, <3>2, <4>1, <4>2 DEF StrandedInv, Excused
    <3>3. CASE handling = e /\ exec'[e].phase = "ended" /\ job'[e[1]].state = "completed"
      <4>0. job' # job
        BY <1>0, <3>3 DEF HandledInv
      <4>1. \A f \in Execs \ {e} : exec'[f].phase # "audit"
        BY <1>0, <2>2, <2>7, <3>3 DEF HandledInv
      <4>2. CASE run.status = "cancelled"
        BY <2>7, <4>2 DEF StrandedInv, Unsettled
      <4>3. CASE exec[e].phase = "audit"
        <5>1. Unsettled => Enqueuing \/ Excused \/ \E j \in Jobs \ {e[1]} : Live(j)
          BY <4>3 DEF StrandedInv
        <5>2. \A j \in Jobs \ {e[1]} : Live(j) => Live(j)'
          BY <2>2 DEF Live
        <5>3. job[e[1]].state = "active"
          BY <1>0, <3>3 DEF HandledInv
        <5>4. Excused => Excused'
          BY <2>2, <2>7, <5>3 DEF Excused
        <5>5. QED
          BY <2>2, <2>7, <3>3, <4>1, <5>1, <5>2, <5>4 DEF StrandedInv, Unsettled, Enqueuing
      <4>4. QED
        BY <2>2, <3>3, <4>0, <4>2, <4>3
    <3>4. QED
      BY <2>2, <3>1, <3>2, <3>3
  <2>8. QED
    BY <1>0, <2>2, <2>4, <2>5, <2>6, <2>7
<1>2. CASE Fetch
  <2>1. PICK j \in Jobs :
           LET e == <<j, job[j].tries>> IN
           /\ exec'[e].phase = "read"
           /\ \A f \in Execs \ {e} : exec'[f] = exec[f]
           /\ job'[j].state = "active"
           /\ \A i \in Jobs \ {j} : job'[i] = job[i]
           /\ job[j].state \in {"created", "retry"}
           /\ UNCHANGED <<deps, run, row, task, api, owner, overlaps>>
    BY <1>0, <1>2, FetchEffect, Zenon
  <2>2. UNCHANGED <<run, request, unsent, overlaps>>
    BY <2>1 DEF api
  <2>3. \A i \in Jobs : /\ Live(i) => Live(i)'
                        /\ job[i].state = "failed" => job'[i].state = "failed"
    BY <2>1 DEF Live
  <2>4. \A f \in Execs : exec'[f].phase = "audit" => exec[f].phase = "audit"
    BY <2>1
  <2>5. QED
    BY <2>2, <2>3, <2>4 DEF StrandedInv, Unsettled, Excused, Enqueuing, Execs
<1>3. CASE WorkerDies
  <2>1. UNCHANGED <<run, job, request, unsent, overlaps>>
        /\ \A e \in Execs : exec'[e].phase # "audit"
    BY <1>3 DEF WorkerDies, api
  <2>2. QED
    BY <2>1 DEF StrandedInv, Unsettled, Excused, Enqueuing, Live
<1>4. CASE \E j \in Jobs : Expire(j)
  <2>1. PICK j \in Jobs : Expire(j)
    BY <1>4
  <2>2. job' = [job EXCEPT ![j] = Retried(j)] /\ UNCHANGED <<run, exec, request, unsent>>
    BY <2>1 DEF Expire, api
  <2>3. Retried(j).state \in {"retry", "failed"} /\ job[j].state = "active"
    BY <1>0, <2>1, RetriedEffect DEF Expire
  <2>4. job'[j].state \in {"retry", "failed"} /\ \A i \in Jobs \ {j} : job'[i] = job[i]
    BY <1>0, <2>2, <2>3 DEF TypeOK
  <2>5. overlaps > 0 => overlaps' > 0
    BY <1>0, <2>1 DEF Expire, TypeOK
  <2>6. CASE job'[j].state = "failed"
    BY <2>6 DEF StrandedInv, Excused
  <2>7. CASE job'[j].state = "retry"
    <3>1. \A i \in Jobs : /\ Live(i) => Live(i)'
                          /\ job[i].state = "failed" => job'[i].state = "failed"
      BY <2>3, <2>4, <2>7 DEF Live
    <3>2. QED
      BY <2>2, <2>5, <3>1 DEF StrandedInv, Unsettled, Excused, Enqueuing, Execs
  <2>8. QED
    BY <2>4, <2>6, <2>7
<1>5. CASE Enqueue
  <2>1. UNCHANGED <<run, exec, overlaps>> /\ request = "enqueue"
    BY <1>5 DEF Enqueue
  <2>2. CASE unsent' = TRUE
    BY <2>2 DEF StrandedInv, Excused
  <2>3. CASE unsent' # TRUE
    <3>1. PICK j \in Jobs : job[j].state = "none" /\ job' = [job EXCEPT ![j].state = "created"]
      BY <1>5, <2>3 DEF Enqueue
    <3>2. job'[j].state = "created"
      BY <1>0, <3>1 DEF TypeOK
    <3>3. ASSUME NEW e \in Execs, exec[e].phase = "audit" PROVE j # e[1]
      <4>1. e[2] \in Unused(e[1]) => exec[e].phase = "none"
        BY <1>0, ExecParts DEF TriesFresh
      <4>2. QED
        BY <3>1, <3>3, <4>1, ExecParts DEF Unused
    <3>4. QED
      BY <2>1, <3>2, <3>3 DEF StrandedInv, Live
  <2>4. QED
    BY <2>2, <2>3
<1>6. CASE request' \in {"insertRows", "enqueue"}
  BY <1>6 DEF StrandedInv, Enqueuing
<1>7. CASE run'.status = "cancelled"
  BY <1>7 DEF StrandedInv, Unsettled
<1>8. CASE unsent' = TRUE
  BY <1>8 DEF StrandedInv, Excused
<1>9. CASE /\ request \notin {"insertRows", "enqueue"}
           /\ UNCHANGED <<run, exec, job, unsent, overlaps>>
  BY <1>9 DEF StrandedInv, Unsettled, Excused, Enqueuing, Live
<1>10. CASE UNCHANGED <<run, exec, job, request, unsent, overlaps>>
  BY <1>10 DEF StrandedInv, Unsettled, Excused, Enqueuing, Live
<1>11. CASE CreateRun \/ RetryStep \/ CancelRun \/ InsertRows \/ Requeue \/ CancelRows \/ SlotPasses
  BY <1>0, <1>6, <1>7, <1>9, <1>10, <1>11
     DEF CreateRun, RetryStep, CancelRun, InsertRows, Requeue, CancelRows, SlotPasses, history,
         TypeOK
<1>12. CASE RequestDies
  <2>1. UNCHANGED <<run, exec, job, overlaps>> /\ unsent' = (unsent \/ request # "cancelRows")
    BY <1>12 DEF RequestDies
  <2>2. CASE request = "cancelRows"
    BY <1>0, <1>9, <2>1, <2>2 DEF TypeOK
  <2>3. CASE request # "cancelRows"
    BY <1>8, <2>1, <2>3
  <2>4. QED
    BY <2>2, <2>3
<1>13. CASE UNCHANGED vars
  BY <1>10, <1>13 DEF vars
<1>14. QED
  BY <1>1, <1>2, <1>3, <1>4, <1>5, <1>11, <1>12, <1>13 DEF Next, RequestStep

\* There are three ways to strand a run, and no fourth: a job out of tries, a request that
\* never got its job onto the queue, a job that expired under a live execution.
THEOREM StrandedRunsExplained == Spec => []StrandedRunExplained
<1>1. Init => HandledInv /\ StrandedInv
  BY DEF Init, HandledInv, StrandedInv, Unsettled
<1>2. OrderInv /\ HandledInv /\ StrandedInv /\ [Next]_vars => HandledInv' /\ StrandedInv'
  BY HandledStep, StrandedStep
<1>3. OrderInv /\ StrandedInv => StrandedRunExplained
  BY DEF StrandedInv, StrandedRunExplained, Quiescent, Unsettled, Enqueuing, Excused, Live
<1>4. QED
  BY <1>1, <1>2, <1>3, OrderInductive, PTL DEF Spec
=============================================================================

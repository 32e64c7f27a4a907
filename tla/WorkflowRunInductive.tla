------------------------ MODULE WorkflowRunInductive -------------------------
(* The inductive invariants behind WorkflowRun's properties, proved inductive  *)
(* in WorkflowRunProofs.                                                       *)
EXTENDS WorkflowRun

AtRest    == {"none", "read", "begin"}
AfterLoop == {"block", "fail", "succeed", "audit"}

\* Nobody has used the try a job is about to be fetched for, nor a later one.
Unused(j) ==
    {t \in 0..RetryLimit :
        \/ job[j].state = "none"
        \/ t > job[j].tries
        \/ t = job[j].tries /\ job[j].state \in {"created", "retry"}}

TriesFresh == \A j \in Jobs : \A t \in Unused(j) : exec[<<j, t>>].phase = "none"

\* An execution that has not begun has done nothing; one in its loop works on a graph
\* that was accepted, on steps whose dependencies are done; what is done is closed
\* under dependencies; and nobody starts an attempt beyond the last.
ExecOrder(e) ==
    /\ \A s \in Steps : task[e][s].pc = "start" => task[e][s].attempt < MaxAttempts
    /\ Closed(exec[e].done)
    /\ exec[e].phase \in AtRest =>
          exec[e].done = {} /\ \A s \in Steps : task[e][s].pc = "idle"
    /\ exec[e].phase = "loop" =>
          /\ Accepted(deps)
          /\ \A s \in Steps : /\ task[e][s].pc # "idle" => deps[s] \subseteq exec[e].done
                              /\ s \in exec[e].done => task[e][s].pc = "ok"
    /\ exec[e].phase \in AfterLoop =>
          \A s \in Steps : task[e][s].pc \in {"idle", "ok", "failed"}

OrderInv == TypeOK /\ TriesFresh /\ Closed(run.output) /\ \A e \in Execs : ExecOrder(e)

\* An execution that is about to succeed has completed every step.
ExecComplete(e) ==
    exec[e].phase = "succeed" =>
        exec[e].done = Steps /\ \A s \in Steps : task[e][s].pc = "ok"

CompleteInv == SucceededIsComplete /\ \A e \in Execs : ExecComplete(e)

\* What the sole writer since its beginning has made of the rows.
OwnerRows(e) ==
    /\ exec[e].phase \notin AtRest
    /\ exec[e].phase \in {"loop", "block", "fail", "succeed"} => run.status = "running"
    /\ run.status # "running" => \A s \in Steps : ~InFlight(e, s)
    /\ exec[e].phase \in {"loop", "succeed"} =>
          \A s \in Steps : task[e][s].pc \in {"stored", "ok"} => row[s] = "succeeded"
    /\ exec[e].phase = "fail" => \A s \in Steps : row[s] # "pending"
    /\ run.status = "succeeded" => \A s \in Steps : row[s] = "succeeded"
    /\ run.status = "failed" => \A s \in Steps : row[s] # "pending"

RowsInv == \A e \in Execs : owner = e => OwnerRows(e)

Live(j)   == job[j].state \in {"created", "active", "retry"}
Unsettled == run.status \in {"queued", "running"}
Excused   == unsent \/ overlaps > 0 \/ \E j \in Jobs : job[j].state = "failed"
Enqueuing == request \in {"insertRows", "enqueue"}

\* While no job has expired under it, an execution in flight is the one the worker waits
\* for, under an active job.
HandledInv ==
    /\ handling # NoExec => job[handling[1]].state = "active"
    /\ overlaps = 0 => \A e \in Execs : exec[e].phase \notin {"none", "ended"} => handling = e

\* An unsettled run has a job, or is about to get one; and so even without the job of an
\* execution that has nothing left to write.
StrandedInv ==
    /\ Unsettled => Enqueuing \/ Excused \/ \E j \in Jobs : Live(j)
    /\ \A e \in Execs : exec[e].phase = "audit" /\ Unsettled =>
          Enqueuing \/ Excused \/ \E j \in Jobs \ {e[1]} : Live(j)

WorkflowInv == OrderInv /\ CompleteInv /\ RowsInv /\ HandledInv /\ StrandedInv
=============================================================================

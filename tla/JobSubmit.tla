----------------------------- MODULE JobSubmit -----------------------------
(***************************************************************************)
(* sporectl submit against a cluster: clients that submit documents of one  *)
(* run ID, with --replace, --buildkite or --wait=false, the ConfigMap and   *)
(* the coordinator Job of that run, and the coordinator pods.               *)
(*                                                                          *)
(* The objects are named after the run ID, so submissions meet in them: the *)
(* ConfigMap is applied before the Job, a Job that exists is left as it is, *)
(* and a deleted Job leaves its pod to the garbage collector, which stops   *)
(* it later.  The Job controller, the kubelet and kubectl are external.     *)
(* What a coordinator does is in SourceRun and BatchRun; here it reads its  *)
(* document, prepares on the agent, executes, releases, reports and exits.  *)
(*                                                                          *)
(* The context of a submission ends 30 seconds after waitForJob's deadline; *)
(* a kubectl command it kills is a kubectl command that fails.              *)
(***************************************************************************)
EXTENDS Integers, FiniteSets

CONSTANTS
    Client,     \* submissions, each with a document of its own
    Options,    \* Options[c]: the flags submission c may use
    None,
    Faults      \* what may go wrong

FaultKinds == {"kubectl", "annotate", "run", "release", "kill", "ttl"}

\* --buildkite requires --wait.
Flags == {f \in [replace : BOOLEAN, wait : BOOLEAN, buildkite : BOOLEAN] : f.buildkite => f.wait}

ASSUME SubmitAssumption ==
    /\ IsFiniteSet(Client) /\ Client # {} /\ None \notin Client
    /\ Options \in [Client -> SUBSET Flags]
    /\ Faults \subseteq FaultKinds

\* Job UIDs: a submission creates one Job at most.
Uid == 1 .. Cardinality(Client)

VARIABLES
    \* Cluster
    configMap,  \* whose document it holds
    job,        \* UID of the Job object, 0 without one
    created,    \* Jobs created so far
    cond,       \* cond[u]: "active", "complete", "failed"
    pod,        \* pod[u]: "none", "pending", "running", "executing", "releasing", "succeeded",
                \* "failed", "gone"
    ran,        \* ran[u]: whose document the coordinator read
    verdict,    \* verdict[u]: state of its report before it is printed: "none", "succeeded", "failed"
    report,     \* report[u]: the report in the pod's log: "none", "succeeded", "failed"
    prepared,   \* whose prepared state is on the agent, 0 without one
    \* Clients
    pc,         \* "new", "apply", "applyJob", "wait", "logs", "annotate", "done"
    opts,       \* opts[c]: its flags
    mem,        \* mem[c]: what a submission has learned
    exit,       \* exit[c]: "none", "zero", "nonzero"
    \* History
    alone,      \* alone[c]: "yes" unless another submission acted while this one was under way
    cut         \* "yes" once a Job was deleted before its pod had ended

clusterVars == <<configMap, job, created, cond, pod, ran, verdict, report, prepared>>
vars == <<clusterVars, pc, opts, mem, exit, alone, cut>>

Outcome == {"none", "error"}
Verdict == {"none", "succeeded", "failed"}

\* late: waitForJob's deadline has passed; waitErr, logsErr: results of waitForJob and
\* kubectl logs; found: the report in the logs.  Of the Job that waitForJob saw complete,
\* document and result are what its coordinator read and reported, and left tells whether
\* what it prepared was still on the agent (history).
Memory == [late : {"yes", "no"}, waitErr : Outcome, logsErr : Outcome, found : Verdict,
           document : Client \cup {None}, result : Verdict, left : {"yes", "no"}]
Blank == [late |-> "no", waitErr |-> "none", logsErr |-> "none", found |-> "none",
          document |-> None, result |-> "none", left |-> "no"]

May(fault) == fault \in Faults

Init ==
    /\ configMap = None /\ job = 0 /\ created = 0
    /\ cond = [u \in Uid |-> "active"]
    /\ pod = [u \in Uid |-> "none"]
    /\ ran = [u \in Uid |-> None]
    /\ verdict = [u \in Uid |-> "none"]
    /\ report = [u \in Uid |-> "none"]
    /\ prepared = 0
    /\ pc = [c \in Client |-> "new"]
    /\ opts \in {f \in [Client -> Flags] : \A c \in Client : f[c] \in Options[c]}
    /\ mem = [c \in Client |-> Blank]
    /\ exit = [c \in Client |-> "none"]
    /\ alone = [c \in Client |-> "yes"]
    /\ cut = "no"

-----------------------------------------------------------------------------
(* sporectl submit                                                          *)

Go(c, place) == pc' = [pc EXCEPT ![c] = place]

\* Places of a coordinator that is alive.
Alive == {"running", "executing", "releasing"}

Under(c) == pc[c] \notin {"new", "done"}

\* A submission changes the cluster: those under way notice each other.
Acts(c) ==
    LET others == {d \in Client \ {c} : Under(d)}
        met == IF others = {} THEN {} ELSE others \cup {c}
    IN  alone' = [d \in Client |-> IF d \in met THEN "no" ELSE alone[d]]

\* The process ends and with it what it knew.
Exit(c, code) ==
    /\ Go(c, "done")
    /\ exit' = [exit EXCEPT ![c] = code]
    /\ mem' = [mem EXCEPT ![c] = Blank]
    /\ alone' = [alone EXCEPT ![c] = "yes"]

\* A kubectl command before the wait fails.
SubmitError(c) ==
    /\ pc[c] \in {"new", "apply", "applyJob"}
    /\ pc[c] = "new" => opts[c].replace
    /\ May("kubectl")
    /\ Exit(c, "nonzero")
    /\ UNCHANGED <<clusterVars, opts, cut>>

\* Mutant: --replace is read as "apply anew".
DeleteSkipped(c) ==
    /\ pc[c] = "new"
    /\ opts[c].replace
    /\ Acts(c)
    /\ Go(c, "apply")
    /\ UNCHANGED <<clusterVars, opts, mem, exit, cut>>

\* --replace: kubectl delete job returns when the object is gone, while the pod
\* may live on.
DeleteJob(c) ==
    /\ pc[c] = "new"
    /\ opts[c].replace
    /\ job' = 0
    /\ cut' = IF \E u \in Uid : u = job /\ pod[u] \in Alive \cup {"pending"} THEN "yes" ELSE cut
    /\ Acts(c)
    /\ Go(c, "apply")
    /\ UNCHANGED <<configMap, created, cond, pod, ran, verdict, report, prepared, opts, mem, exit>>

\* kubectl apply takes the ConfigMap first ...
ApplyConfigMap(c) ==
    /\ \/ pc[c] = "apply"
       \/ pc[c] = "new" /\ ~opts[c].replace
    /\ configMap' = c
    /\ Acts(c)
    /\ Go(c, "applyJob")
    /\ UNCHANGED <<job, created, cond, pod, ran, verdict, report, prepared, opts, mem, exit, cut>>

\* Mutant: the name of the Job is not the run's alone.
NewJobAlways(u) ==
    /\ created' = u
    /\ job' = u
    /\ pod' = [pod EXCEPT ![u] = "pending"]
    /\ UNCHANGED <<configMap, cond, ran, verdict, report, prepared>>

\* ... and then creates the Job, unless there is one: that is left unchanged.
NewJob(u) ==
    IF job = 0
    THEN /\ created' = u
         /\ job' = u
         /\ pod' = [pod EXCEPT ![u] = "pending"]
         /\ UNCHANGED <<configMap, cond, ran, verdict, report, prepared>>
    ELSE UNCHANGED clusterVars

ApplyJob(c) ==
    /\ pc[c] = "applyJob"
    /\ opts[c].wait
    /\ NewJob(created + 1)
    /\ Acts(c)
    /\ Go(c, "wait")
    /\ UNCHANGED <<opts, mem, exit, cut>>

\* Without --wait the submission is over.
ApplyJobOnly(c) ==
    /\ pc[c] = "applyJob"
    /\ ~opts[c].wait
    /\ NewJob(created + 1)
    /\ Acts(c)
    /\ Go(c, "done")
    /\ exit' = [exit EXCEPT ![c] = "zero"]
    /\ UNCHANGED <<opts, mem, cut>>

\* Timeout passes.
DeadlinePasses(c) ==
    /\ pc[c] = "wait" /\ mem[c].late = "no"
    /\ mem' = [mem EXCEPT ![c].late = "yes"]
    /\ UNCHANGED <<clusterVars, pc, opts, exit, alone, cut>>

Waited(c, memory) ==
    /\ Go(c, "logs")
    /\ mem' = [mem EXCEPT ![c] = memory]
    /\ UNCHANGED <<clusterVars, opts, exit, alone, cut>>

WaitFails(c) == Waited(c, [Blank EXCEPT !.waitErr = "error"])

\* The Job is gone, ...
PollGone(c) ==
    /\ pc[c] = "wait"
    /\ job = 0
    /\ WaitFails(c)

\* ... or kubectl get job fails.
PollError(c) ==
    /\ pc[c] = "wait"
    /\ May("kubectl")
    /\ WaitFails(c)

\* Mutant: the condition is handed on as it is.
JobErrorRaw(u) == cond[u]

\* jobTerminalState, as waitForJob reads it.
JobError(u) ==
    CASE cond[u] = "complete" -> "none"
      [] cond[u] = "failed" -> "error"
      [] OTHER -> "active"

Seen(u) ==
    IF JobError(u) = "none"
    THEN [Blank EXCEPT !.document = ran[u], !.result = report[u],
                       !.left = IF prepared = u THEN "yes" ELSE "no"]
    ELSE [Blank EXCEPT !.waitErr = JobError(u)]

\* The Job has ended, well or badly; that comes before the deadline.
PollEnded(c) ==
    /\ pc[c] = "wait"
    /\ job # 0
    /\ JobError(job) # "active"
    /\ Waited(c, Seen(job))

\* Mutant: the wait goes on for as long as the Job runs.
PollLateNever(c) == FALSE /\ WaitFails(c)

\* The Job is active and the deadline has passed; before it, waitForJob sleeps
\* for two seconds and looks again, which changes nothing.
PollLate(c) ==
    /\ pc[c] = "wait"
    /\ job # 0
    /\ JobError(job) = "active"
    /\ mem[c].late = "yes"
    /\ WaitFails(c)

\* The pod of the Job has a log.
HasLog == job # 0 /\ pod[job] \notin {"none", "pending", "gone"}

\* kubectl logs job/..., of whichever Job has the name now.
LogsResult(err) ==
    \/ err = "none" /\ HasLog
    \/ err = "error" /\ (~HasLog \/ May("kubectl"))

\* The exit code: the wait comes first, then the logs, then the annotation.
Code(errs) == IF errs = {"none"} THEN "zero" ELSE "nonzero"

Logs(c, err) ==
    /\ pc[c] = "logs"
    /\ ~opts[c].buildkite
    /\ LogsResult(err)
    /\ Exit(c, Code({mem[c].waitErr, err}))
    /\ UNCHANGED <<clusterVars, opts, cut>>

\* With --buildkite the logs are searched for the runtime report.
LogsForReport(c, err) ==
    /\ pc[c] = "logs"
    /\ opts[c].buildkite
    /\ LogsResult(err)
    /\ mem' = [mem EXCEPT ![c].logsErr = err,
                          ![c].found = IF err = "none" THEN report[job] ELSE "none"]
    /\ Go(c, "annotate")
    /\ UNCHANGED <<clusterVars, opts, exit, alone, cut>>

\* The style of the annotation.
Style(c) == IF mem[c].waitErr = "none" /\ mem[c].found = "succeeded" THEN "success" ELSE "error"

\* Mutant: a report that is missing is no error.
ReportErrorNever(c) == "none"

\* The report is missing although the Job completed.
ReportError(c) == IF mem[c].found = "none" /\ mem[c].waitErr = "none" THEN "error" ELSE "none"

\* buildkite-agent annotate --style Style(c).
Annotate(c) ==
    /\ pc[c] = "annotate"
    /\ Exit(c, Code({mem[c].waitErr, mem[c].logsErr, ReportError(c)}))
    /\ UNCHANGED <<clusterVars, opts, cut>>

AnnotateError(c) ==
    /\ pc[c] = "annotate"
    /\ May("annotate")
    /\ Exit(c, "nonzero")
    /\ UNCHANGED <<clusterVars, opts, cut>>

-----------------------------------------------------------------------------
(* The coordinator Job and its pod                                          *)

otherVars == <<configMap, job, created, pc, opts, mem, exit, alone, cut>>

PodGo(u, place) == pod' = [pod EXCEPT ![u] = place]

\* The kubelet mounts the ConfigMap as it is now and the coordinator reads it.
StartCoordinator(u) ==
    /\ pod[u] = "pending"
    /\ ran' = [ran EXCEPT ![u] = configMap]
    /\ PodGo(u, "running")
    /\ UNCHANGED <<otherVars, cond, verdict, report, prepared>>

\* No agent can be discovered or selected: there is nothing to release.
CoordinatorError(u) ==
    /\ pod[u] = "running"
    /\ May("run")
    /\ PodGo(u, "failed")
    /\ UNCHANGED <<otherVars, cond, ran, verdict, report, prepared>>

\* The agent releases what is left of the run ID and prepares it.
Prepare(u) ==
    /\ pod[u] = "running"
    /\ prepared' = u
    /\ PodGo(u, "executing")
    /\ UNCHANGED <<otherVars, cond, ran, verdict, report>>

\* The children run from what is prepared, whoever prepared it.
Execute(u, v) ==
    /\ pod[u] = "executing"
    /\ \/ v = "succeeded" /\ prepared # 0
       \/ v = "failed" /\ (May("run") \/ prepared # u)
    /\ verdict' = [verdict EXCEPT ![u] = v]
    /\ PodGo(u, "releasing")
    /\ UNCHANGED <<otherVars, cond, ran, report, prepared>>

\* An error, the timeout, or SIGTERM after the Job was deleted.
Abort(u) ==
    /\ pod[u] \in {"running", "executing"}
    /\ May("run") \/ job # u
    /\ PodGo(u, "releasing")
    /\ UNCHANGED <<otherVars, cond, ran, verdict, report, prepared>>

\* The deferred ReleasePrepared removes the prepared state of the run ID, then
\* the report is printed and its state decides the exit code.
ReleasePrepared(u) ==
    /\ pod[u] = "releasing"
    /\ prepared' = 0
    /\ report' = [report EXCEPT ![u] = verdict[u]]
    /\ verdict' = [verdict EXCEPT ![u] = "none"]
    /\ PodGo(u, IF verdict[u] = "succeeded" THEN "succeeded" ELSE "failed")
    /\ UNCHANGED <<otherVars, cond, ran>>

\* Mutant: the error of the release is dropped, and the report decides.
ReleaseErrorDropped(u) ==
    /\ pod[u] = "releasing"
    /\ May("release")
    /\ report' = [report EXCEPT ![u] = verdict[u]]
    /\ verdict' = [verdict EXCEPT ![u] = "none"]
    /\ PodGo(u, IF verdict[u] = "succeeded" THEN "succeeded" ELSE "failed")
    /\ UNCHANGED <<otherVars, cond, ran, prepared>>

\* The release fails: the report is printed all the same, and the coordinator
\* exits with the error.
ReleaseError(u) ==
    /\ pod[u] = "releasing"
    /\ May("release")
    /\ report' = [report EXCEPT ![u] = verdict[u]]
    /\ verdict' = [verdict EXCEPT ![u] = "none"]
    /\ PodGo(u, "failed")
    /\ UNCHANGED <<otherVars, cond, ran, prepared>>

\* The pod is killed: its node is gone, or its grace period is over.
KillPod(u) ==
    /\ pod[u] \in Alive
    /\ May("kill")
    /\ verdict' = [verdict EXCEPT ![u] = "none"]
    /\ PodGo(u, "failed")
    /\ UNCHANGED <<otherVars, cond, ran, report, prepared>>

\* The Job controller; backoffLimit is 0.
JobEnds(u) ==
    /\ job = u
    /\ cond[u] = "active"
    /\ pod[u] \in {"succeeded", "failed"}
    /\ cond' = [cond EXCEPT ![u] = IF pod[u] = "succeeded" THEN "complete" ELSE "failed"]
    /\ UNCHANGED <<otherVars, pod, ran, verdict, report, prepared>>

\* The pod of a Job that no longer exists goes, with its log.
CollectPod(u) ==
    /\ job # u
    /\ pod[u] \in {"pending", "succeeded", "failed"}
    /\ PodGo(u, "gone")
    /\ cond' = [cond EXCEPT ![u] = "active"]
    /\ ran' = [ran EXCEPT ![u] = None]
    /\ report' = [report EXCEPT ![u] = "none"]
    /\ UNCHANGED <<otherVars, verdict, prepared>>

\* ttlSecondsAfterFinished.
ExpireJob(u) ==
    /\ May("ttl")
    /\ job = u
    /\ cond[u] # "active"
    /\ job' = 0
    /\ UNCHANGED <<configMap, created, cond, pod, ran, verdict, report, prepared, pc, opts, mem,
                   exit, alone, cut>>

-----------------------------------------------------------------------------
\* What a client does when nothing fails, and what may fail.
ClientStep(c) ==
    \/ DeleteJob(c) \/ ApplyConfigMap(c) \/ ApplyJob(c) \/ ApplyJobOnly(c)
    \/ PollGone(c) \/ PollEnded(c) \/ PollLate(c)
    \/ \E err \in Outcome : Logs(c, err) \/ LogsForReport(c, err)
    \/ Annotate(c)

ClientError(c) == SubmitError(c) \/ PollError(c) \/ AnnotateError(c)

ClusterStep(u) ==
    \/ StartCoordinator(u) \/ CoordinatorError(u) \/ Prepare(u)
    \/ \E v \in {"succeeded", "failed"} : Execute(u, v)
    \/ Abort(u) \/ ReleasePrepared(u) \/ ReleaseError(u) \/ KillPod(u)
    \/ JobEnds(u) \/ CollectPod(u) \/ ExpireJob(u)

Over == (\A c \in Client : pc[c] = "done") /\ UNCHANGED vars

Next ==
    \/ \E c \in Client : ClientStep(c) \/ ClientError(c) \/ DeadlinePasses(c)
    \/ \E u \in Uid : ClusterStep(u)
    \/ Over

Spec == Init /\ [][Next]_vars

\* kubectl commands end with the context at the latest, and time passes.  The
\* cluster may be as slow as it likes: a Job may never end.
FairSpec == Spec /\ \A c \in Client : WF_vars(ClientStep(c)) /\ WF_vars(DeadlinePasses(c))

-----------------------------------------------------------------------------
(* Properties                                                               *)

TypeOK ==
    /\ configMap \in Client \cup {None}
    /\ created \in {0} \cup Uid /\ job \in 0 .. created /\ prepared \in 0 .. created
    /\ cond \in [Uid -> {"active", "complete", "failed"}]
    /\ pod \in [Uid -> {"none", "pending", "succeeded", "failed", "gone"} \cup Alive]
    /\ ran \in [Uid -> Client \cup {None}]
    /\ verdict \in [Uid -> Verdict] /\ report \in [Uid -> Verdict]
    /\ pc \in [Client -> {"new", "apply", "applyJob", "wait", "logs", "annotate", "done"}]
    /\ opts \in [Client -> Flags] /\ mem \in [Client -> Memory]
    /\ exit \in [Client -> {"none", "zero", "nonzero"}]
    /\ alone \in [Client -> {"yes", "no"}] /\ cut \in {"yes", "no"}

\* A submission that has waited exits with 0.
Passes(c) == pc[c] \in {"logs", "annotate"} /\ exit[c] = "none" /\ exit'[c] = "zero"

\* docs/ci.md: submit "exits with the aggregate result".  A client that waited
\* exits with 0 only if a coordinator has reported that every child succeeded
\* and nothing it prepared was left on the agent, whichever Job has the name by
\* then.  The report alone does not tell: it says "succeeded" after a release
\* that failed, too.
ExitZeroIsSuccess ==
    [][\A c \in Client : Passes(c) =>
         mem[c].result = "succeeded" /\ mem[c].left = "no"]_vars

\* With --replace the result is that of the submitted document, although the
\* Job and the pod of an earlier one may still be there; only a submission that
\* acts at the same time can put its document or its Job in between.
OwnRunReported ==
    [][\A c \in Client :
         Passes(c) /\ opts[c].replace /\ alone[c] = "yes" => mem[c].document = c]_vars

\* --buildkite: a step that passes has shown a report, and unless another
\* submission replaced the Job between the wait and the logs, a green one.
AnnotationAgrees ==
    [][\A c \in Client : Passes(c) /\ opts[c].buildkite =>
         /\ mem[c].found # "none"
         /\ alone[c] = "yes" => Style(c) = "success"]_vars

\* One run ID has one Job: unless a Job is replaced under a live coordinator, a
\* coordinator executes from what it has prepared itself, and nobody releases
\* it meanwhile.
PreparedIsOwn == cut = "no" => \A u \in Uid : pod[u] = "executing" => prepared = u

\* waitForJob gives up on a Job that never ends, and every client returns.
ClientReturns == \A c \in Client : Under(c) ~> pc[c] = "done"
=============================================================================

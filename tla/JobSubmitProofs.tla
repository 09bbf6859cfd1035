-------------------------- MODULE JobSubmitProofs --------------------------
(* Proofs about JobSubmit, for any number of submissions and any flags.     *)
EXTENDS JobSubmit, FiniteSetTheorems, TLAPS

-----------------------------------------------------------------------------
(* The inductive invariant                                                  *)

\* Submissions that have created their Job, found one or given up: each has
\* created one Job at most.
Past == {c \in Client : pc[c] \in {"wait", "logs", "annotate", "done"}}
Counted == created =< Cardinality(Past)

\* A Job that was never created has no pod; one that has ended has a pod that
\* ended likewise, and a coordinator that succeeded has said so and left nothing.
JobInv(u) ==
    /\ u > created => pod[u] = "none" /\ cond[u] = "active"
    /\ cond[u] = "complete" => pod[u] = "succeeded"
    /\ cond[u] = "failed" => pod[u] = "failed"
    /\ pod[u] = "succeeded" => report[u] = "succeeded" /\ prepared # u

\* Unless a Job was replaced under its pod, only its own pod is alive.
OneLive == cut = "no" => \A u \in Uid : pod[u] \in Alive \cup {"pending"} => u = job

\* A wait that ended well saw a coordinator that succeeded.
SawSuccess(c) ==
    pc[c] \in {"logs", "annotate"} /\ mem[c].waitErr = "none" =>
        mem[c].result = "succeeded" /\ mem[c].left = "no"

\* A submission with --replace that met no other: the name is free until it
\* creates its Job, and that Job reads its document.
OwnJob(c) ==
    opts[c].replace /\ alone[c] = "yes" =>
        /\ pc[c] \in {"apply", "applyJob"} => job = 0
        /\ pc[c] \in {"applyJob", "wait"} => configMap = c
        /\ pc[c] = "wait" /\ job # 0 => pod[job] = "pending" \/ ran[job] = c
        /\ pc[c] \in {"logs", "annotate"} /\ mem[c].waitErr = "none" => mem[c].document = c

\* A submission that met no other and saw its Job complete: the name is that
\* Job's until it expires, and the report found is the one of that Job.
SameJob(c) ==
    alone[c] = "yes" /\ mem[c].waitErr = "none" =>
        /\ pc[c] = "logs" => job = 0 \/ cond[job] = "complete"
        /\ pc[c] = "annotate" /\ mem[c].logsErr = "none" => mem[c].found = "succeeded"

ClientInv(c) == SawSuccess(c) /\ OwnJob(c) /\ SameJob(c)

SubmitInv ==
    /\ TypeOK /\ Counted
    /\ \A u \in Uid : JobInv(u)
    /\ OneLive /\ PreparedIsOwn
    /\ \A c \in Client : ClientInv(c)

-----------------------------------------------------------------------------
(* Numbers and the initial states                                           *)

\* There is a Job UID for every submission.
LEMMA ClientCount == Cardinality(Client) \in Nat \ {0} /\ Uid = 1 .. Cardinality(Client)
<1>1. Cardinality(Client) \in Nat
  BY SubmitAssumption, FS_CardinalityType
<1>2. Cardinality(Client) # 0
  BY SubmitAssumption, FS_EmptySet
<1>3. QED
  BY <1>1, <1>2 DEF Uid

\* A submission that has not come to its Job leaves a UID for it.
LEMMA RoomForJob ==
    ASSUME SubmitInv, NEW c \in Client, pc[c] = "applyJob"
    PROVE  created + 1 \in Uid
<1>1. IsFiniteSet(Client \ {c}) /\ Cardinality(Client \ {c}) = Cardinality(Client) - 1
  BY SubmitAssumption, FS_RemoveElement
<1>2. Past \subseteq Client \ {c}
  BY DEF Past
<1>3. Cardinality(Past) =< Cardinality(Client) - 1 /\ Cardinality(Past) \in Nat
  BY <1>1, <1>2, FS_Subset, FS_CardinalityType
<1>4. created \in Nat
  BY ClientCount DEF SubmitInv, TypeOK
<1>5. QED
  BY <1>3, <1>4, ClientCount DEF SubmitInv, Counted

\* A submission goes on, perhaps to its Job, and at most that Job is new.
LEMMA CountedStays ==
    ASSUME SubmitInv, NEW c \in Client, NEW p, pc' = [pc EXCEPT ![c] = p],
           \/ created' = created /\ (c \in Past => c \in Past')
           \/ created' = created + 1 /\ c \notin Past /\ c \in Past'
    PROVE  Counted'
<1>1. Past \subseteq Past' /\ Past' \subseteq Client
  BY DEF Past, SubmitInv, TypeOK
<1>2. IsFiniteSet(Past') /\ IsFiniteSet(Past)
  BY <1>1, SubmitAssumption, FS_Subset
<1>3. Cardinality(Past) \in Nat /\ Cardinality(Past') \in Nat /\ Cardinality(Past) =< Cardinality(Past')
  BY <1>1, <1>2, FS_Subset, FS_CardinalityType
<1>4. created \in Nat /\ created =< Cardinality(Past)
  BY ClientCount DEF SubmitInv, TypeOK, Counted
<1>5. CASE created' = created
  BY <1>3, <1>4, <1>5 DEF Counted
<1>6. CASE created' = created + 1 /\ c \notin Past /\ c \in Past'
  <2>1. Past' = Past \cup {c}
    BY <1>6, <1>1 DEF Past, SubmitInv, TypeOK
  <2>2. Cardinality(Past') = Cardinality(Past) + 1
    BY <1>2, <1>6, <2>1, FS_AddElement
  <2>3. QED
    BY <1>3, <1>4, <1>6, <2>2 DEF Counted
<1>7. QED
  BY <1>5, <1>6

LEMMA InitSubmit == Init => SubmitInv
<1> SUFFICES ASSUME Init PROVE SubmitInv
  OBVIOUS
<1>1. Blank \in Memory
  BY DEF Blank, Memory, Outcome, Verdict
<1>2. TypeOK
  <2>1. created \in {0} \cup Uid /\ job \in 0 .. created /\ prepared \in 0 .. created
    BY DEF Init
  <2>2. mem \in [Client -> Memory]
    BY <1>1 DEF Init
  <2>3. opts \in [Client -> Flags]
    BY DEF Init
  <2>4. QED
    BY <2>1, <2>2, <2>3 DEF Init, TypeOK, Alive, Verdict
<1>3. Counted
  <2>1. Past = {}
    BY DEF Past, Init
  <2>2. QED
    BY <2>1, FS_EmptySet DEF Counted, Init
<1>4. \A u \in Uid : JobInv(u)
  BY DEF JobInv, Init
<1>5. OneLive /\ PreparedIsOwn
  BY DEF OneLive, PreparedIsOwn, Alive, Init
<1>6. \A c \in Client : ClientInv(c)
  BY DEF ClientInv, SawSuccess, OwnJob, SameJob, Init
<1>7. QED
  BY <1>2, <1>3, <1>4, <1>5, <1>6 DEF SubmitInv

-----------------------------------------------------------------------------
(* Steps of the cluster                                                     *)

\* What a step on the Job or pod u leaves alone, and what it may do to a Job
\* that a submission waits for.
OnlyJob(u) ==
    /\ UNCHANGED <<configMap, created, pc, opts, mem, exit, alone, cut>>
    /\ \A v \in Uid \ {u} : cond'[v] = cond[v] /\ pod'[v] = pod[v] /\ ran'[v] = ran[v]
                            /\ report'[v] = report[v]
    /\ pod'[u] \in Alive \cup {"pending"} => pod[u] \in Alive \cup {"pending"}
    /\ \/ job = u /\ job' = 0 /\ cond[u] # "active"
       \/ /\ job' = job
          /\ job = u =>
               /\ \/ ran'[u] = ran[u] /\ pod[u] # "pending"
                  \/ ran'[u] = configMap /\ pod[u] = "pending"
               /\ cond[u] = "complete" => cond'[u] = "complete"

\* Only the pod of the Job prepares or releases, and none executes beside it.
OnlyOwnState(u) ==
    /\ pod'[u] = "executing" => prepared' = u \/ (prepared' = prepared /\ pod[u] = "executing")
    /\ prepared' = prepared \/ pod[u] \in Alive
    /\ prepared' \in {prepared, u, 0}

LEMMA OnlyJobKeeps ==
    ASSUME SubmitInv, NEW u \in Uid, OnlyJob(u), OnlyOwnState(u), TypeOK', JobInv(u)'
    PROVE  SubmitInv'
<1>1. Counted'
  BY DEF SubmitInv, OnlyJob, Counted, Past
<1>2. \A v \in Uid : JobInv(v)'
  BY ClientCount DEF SubmitInv, OnlyJob, OnlyOwnState, JobInv
<1>3. OneLive'
  <2> SUFFICES ASSUME cut = "no", NEW v \in Uid, pod'[v] \in Alive \cup {"pending"} PROVE v = job'
    BY DEF OnlyJob, OneLive
  <2>1. pod[v] \in Alive \cup {"pending"} /\ v = job
    BY DEF SubmitInv, OnlyJob, OneLive
  <2>2. cond[v] = "active"
    BY <2>1 DEF SubmitInv, TypeOK, JobInv, Alive
  <2>3. QED
    BY <2>1, <2>2 DEF OnlyJob
<1>4. PreparedIsOwn'
  <2> SUFFICES ASSUME cut = "no", NEW v \in Uid, pod'[v] = "executing" PROVE prepared' = v
    BY DEF OnlyJob, PreparedIsOwn
  <2>1. CASE v = u
    BY <2>1 DEF SubmitInv, OnlyJob, OnlyOwnState, PreparedIsOwn
  <2>2. CASE v # u
    <3>1. pod[v] = "executing" /\ prepared = v /\ v = job
      BY <2>2 DEF SubmitInv, OnlyJob, PreparedIsOwn, OneLive, Alive
    <3>2. pod[u] \notin Alive
      BY <2>2, <3>1 DEF SubmitInv, OneLive
    <3>3. QED
      BY <3>1, <3>2 DEF OnlyOwnState
  <2>3. QED
    BY <2>1, <2>2
<1>5. ASSUME NEW c \in Client PROVE ClientInv(c)'
  <2>1. ClientInv(c) /\ (job # 0 => job \in Uid)
    BY ClientCount DEF SubmitInv, TypeOK
  <2>2. SawSuccess(c)'
    BY <2>1 DEF ClientInv, SawSuccess, OnlyJob
  <2>3. OwnJob(c)'
    BY <2>1 DEF ClientInv, OwnJob, OnlyJob
  <2>4. SameJob(c)'
    BY <2>1 DEF ClientInv, SameJob, OnlyJob
  <2>5. QED
    BY <2>2, <2>3, <2>4 DEF ClientInv
<1>6. QED
  BY <1>1, <1>2, <1>3, <1>4, <1>5 DEF SubmitInv

\* The UIDs of pods, and of what they prepare, are those of Jobs created.
LEMMA PodsCreated ==
    ASSUME SubmitInv, NEW u \in Uid, pod[u] # "none" PROVE u \in 0 .. created
BY ClientCount DEF SubmitInv, TypeOK, JobInv

LEMMA ClusterKeeps ==
    ASSUME SubmitInv, NEW u \in Uid, ClusterStep(u) PROVE SubmitInv'
<1>0. TypeOK /\ JobInv(u) /\ PreparedIsOwn /\ u # 0
  BY ClientCount DEF SubmitInv
<1> USE DEF OnlyJob, OnlyOwnState, TypeOK, JobInv, otherVars, PodGo, Alive, Verdict
<1>1. CASE StartCoordinator(u)
  BY <1>0, <1>1, OnlyJobKeeps DEF StartCoordinator
<1>2. CASE CoordinatorError(u)
  BY <1>0, <1>2, OnlyJobKeeps DEF CoordinatorError
<1>3. CASE Prepare(u)
  <2>1. u \in 0 .. created
    BY <1>3, PodsCreated DEF Prepare
  <2>2. QED
    BY <1>0, <1>3, <2>1, OnlyJobKeeps DEF Prepare
<1>4. CASE \E v \in {"succeeded", "failed"} : Execute(u, v)
  BY <1>0, <1>4, OnlyJobKeeps DEF Execute
<1>5. CASE Abort(u)
  BY <1>0, <1>5, OnlyJobKeeps DEF Abort
<1>6. CASE ReleasePrepared(u)
  BY <1>0, <1>6, OnlyJobKeeps DEF ReleasePrepared
<1>7. CASE ReleaseError(u)
  BY <1>0, <1>7, OnlyJobKeeps DEF ReleaseError
<1>8. CASE KillPod(u)
  BY <1>0, <1>8, OnlyJobKeeps DEF KillPod
<1>9. CASE JobEnds(u)
  BY <1>0, <1>9, OnlyJobKeeps DEF JobEnds
<1>10. CASE CollectPod(u)
  BY <1>0, <1>10, OnlyJobKeeps DEF CollectPod
<1>11. CASE ExpireJob(u)
  BY <1>0, <1>11, OnlyJobKeeps DEF ExpireJob
<1>12. QED
  BY <1>1, <1>2, <1>3, <1>4, <1>5, <1>6, <1>7, <1>8, <1>9, <1>10, <1>11 DEF ClusterStep

-----------------------------------------------------------------------------
(* Steps of a submission that leave the cluster alone                       *)

\* Submission c alone learns something or ends.
OnlyClient(c) ==
    /\ UNCHANGED <<clusterVars, opts, cut>>
    /\ \E p \in {"apply", "wait", "logs", "annotate", "done"} : pc' = [pc EXCEPT ![c] = p]
    /\ \A d \in Client \ {c} : mem'[d] = mem[d] /\ alone'[d] = alone[d]
    /\ c \in Past => c \in Past'

LEMMA OnlyClientKeeps ==
    ASSUME SubmitInv, NEW c \in Client, OnlyClient(c), ClientInv(c)',
           mem' \in [Client -> Memory], exit' \in [Client -> {"none", "zero", "nonzero"}],
           alone' \in [Client -> {"yes", "no"}]
    PROVE  SubmitInv'
<1>1. TypeOK'
  <2>1. pc' \in [Client -> {"new", "apply", "applyJob", "wait", "logs", "annotate", "done"}]
    BY DEF SubmitInv, TypeOK, OnlyClient
  <2>2. UNCHANGED <<configMap, created, job, prepared, cond, pod, ran, verdict, report, opts, cut>>
    BY DEF OnlyClient, clusterVars
  <2>3. QED
    BY <2>1, <2>2 DEF SubmitInv, TypeOK
<1>2. Counted'
  BY CountedStays DEF OnlyClient, clusterVars
<1>3. \A u \in Uid : JobInv(u)'
  BY DEF SubmitInv, OnlyClient, clusterVars, JobInv
<1>4. OneLive' /\ PreparedIsOwn'
  BY DEF SubmitInv, OnlyClient, clusterVars, OneLive, PreparedIsOwn
<1>5. ASSUME NEW d \in Client PROVE ClientInv(d)'
  <2>1. CASE d # c
    <3>1. pc'[d] = pc[d] /\ mem'[d] = mem[d] /\ alone'[d] = alone[d] /\ ClientInv(d)
      BY <2>1 DEF SubmitInv, TypeOK, OnlyClient
    <3>2. QED
      BY <3>1 DEF OnlyClient, clusterVars, ClientInv, SawSuccess, OwnJob, SameJob
  <2>2. QED
    BY <2>1
<1>6. QED
  BY <1>1, <1>2, <1>3, <1>4, <1>5 DEF SubmitInv

\* A submission that ends has nothing left to keep.
LEMMA ExitKeeps ==
    ASSUME SubmitInv, NEW c \in Client, NEW code \in {"zero", "nonzero"}, Exit(c, code),
           UNCHANGED <<clusterVars, opts, cut>>
    PROVE  SubmitInv'
<1>1. Blank \in Memory
  BY DEF Blank, Memory, Outcome, Verdict
<1>2. pc'[c] = "done" /\ c \in Past'
  BY DEF Exit, Go, SubmitInv, TypeOK, Past
<1>3. OnlyClient(c)
  BY <1>2 DEF OnlyClient, Exit, Go, SubmitInv, TypeOK
<1>4. ClientInv(c)'
  BY <1>2 DEF ClientInv, SawSuccess, OwnJob, SameJob
<1>5. /\ mem' \in [Client -> Memory] /\ exit' \in [Client -> {"none", "zero", "nonzero"}]
      /\ alone' \in [Client -> {"yes", "no"}]
  BY <1>1 DEF Exit, SubmitInv, TypeOK
<1>6. QED
  BY <1>3, <1>4, <1>5, OnlyClientKeeps

\* The wait is over; what was learned is true of the Job.
LEMMA WaitedKeeps ==
    ASSUME SubmitInv, NEW c \in Client, pc[c] = "wait", NEW m \in Memory, Waited(c, m),
           m.waitErr = "none" =>
               /\ job # 0 /\ cond[job] = "complete"
               /\ m.result = report[job] /\ m.document = ran[job]
               /\ prepared # job => m.left = "no"
    PROVE  SubmitInv'
<1>1. pc'[c] = "logs" /\ mem'[c] = m /\ alone'[c] = alone[c] /\ c \in Past'
  BY DEF Waited, Go, SubmitInv, TypeOK, Past
<1>2. OnlyClient(c)
  BY <1>1 DEF OnlyClient, Waited, Go, SubmitInv, TypeOK
<1>3. m.waitErr = "none" => m.result = "succeeded" /\ m.left = "no" /\ pod[job] = "succeeded"
  BY ClientCount DEF SubmitInv, TypeOK, JobInv
<1>4. SawSuccess(c)'
  BY <1>1, <1>3 DEF SawSuccess
<1>5. OwnJob(c)'
  BY <1>1, <1>3 DEF OwnJob, Waited, clusterVars, SubmitInv, ClientInv
<1>6. SameJob(c)'
  BY <1>1 DEF SameJob, Waited, clusterVars
<1>7. /\ mem' \in [Client -> Memory] /\ exit' \in [Client -> {"none", "zero", "nonzero"}]
      /\ alone' \in [Client -> {"yes", "no"}]
  BY DEF Waited, SubmitInv, TypeOK
<1>8. QED
  BY <1>2, <1>4, <1>5, <1>6, <1>7, OnlyClientKeeps DEF ClientInv

LEMMA PollKeeps ==
    ASSUME SubmitInv, NEW c \in Client,
           PollGone(c) \/ PollError(c) \/ PollLate(c) \/ PollEnded(c)
    PROVE  SubmitInv'
<1>1. CASE PollGone(c) \/ PollError(c) \/ PollLate(c)
  <2> DEFINE m == [Blank EXCEPT !.waitErr = "error"]
  <2>1. m \in Memory /\ m.waitErr # "none"
    BY DEF Blank, Memory, Outcome, Verdict
  <2>2. pc[c] = "wait" /\ Waited(c, m)
    BY <1>1 DEF PollGone, PollError, PollLate, WaitFails
  <2> HIDE DEF m
  <2>3. QED
    BY <2>1, <2>2, WaitedKeeps
<1>2. CASE PollEnded(c)
  <2> DEFINE m == Seen(job)
  <2>1. pc[c] = "wait" /\ job # 0 /\ Waited(c, m)
    BY <1>2 DEF PollEnded
  <2>2. job \in Uid
    BY <2>1, ClientCount DEF SubmitInv, TypeOK
  <2>3. JobError(job) \in Outcome /\ (JobError(job) = "none" => cond[job] = "complete")
    BY <1>2, <2>2 DEF PollEnded, JobError, Outcome, SubmitInv, TypeOK
  <2>4. ran[job] \in Client \cup {None} /\ report[job] \in Verdict
    BY <2>2 DEF SubmitInv, TypeOK
  <2>5. /\ m \in Memory /\ m.waitErr = JobError(job)
        /\ JobError(job) = "none" => /\ m.document = ran[job] /\ m.result = report[job]
                                     /\ prepared # job => m.left = "no"
    BY <2>3, <2>4 DEF Seen, Blank, Memory, Outcome, Verdict
  <2> HIDE DEF m
  <2>6. QED
    BY <2>1, <2>3, <2>5, WaitedKeeps
<1>3. QED
  BY <1>1, <1>2

LEMMA DeadlineKeeps ==
    ASSUME SubmitInv, NEW c \in Client, DeadlinePasses(c) PROVE SubmitInv'
<1>1. mem[c] \in Memory
  BY DEF SubmitInv, TypeOK
<1>2. mem' \in [Client -> Memory] /\ pc' = [pc EXCEPT ![c] = "wait"] /\ pc'[c] = "wait"
  BY <1>1 DEF DeadlinePasses, SubmitInv, TypeOK, Memory
<1>3. OnlyClient(c)
  BY <1>2 DEF OnlyClient, DeadlinePasses, Past, SubmitInv, TypeOK
<1>4. ClientInv(c)'
  BY <1>2 DEF DeadlinePasses, SubmitInv, ClientInv, SawSuccess, OwnJob, SameJob, clusterVars
<1>5. QED
  BY <1>2, <1>3, <1>4, OnlyClientKeeps DEF DeadlinePasses, SubmitInv, TypeOK

\* The report found in the logs of a Job that completed is a success.
LEMMA LogsForReportKeeps ==
    ASSUME SubmitInv, NEW c \in Client, NEW err \in Outcome, LogsForReport(c, err) PROVE SubmitInv'
<1> DEFINE found == IF err = "none" THEN report[job] ELSE "none"
           m == [mem[c] EXCEPT !.logsErr = err, !.found = found]
<1>0. TypeOK
  BY DEF SubmitInv
<1>1. mem[c] \in Memory
  BY <1>0 DEF TypeOK
<1>2. err = "none" => job \in Uid /\ job # 0
  BY <1>0, ClientCount DEF LogsForReport, LogsResult, HasLog, TypeOK
<1>3. found \in Verdict
  BY <1>0, <1>2 DEF TypeOK, Verdict
<1>4. mem' = [mem EXCEPT ![c] = m]
  BY <1>0 DEF LogsForReport, TypeOK
<1>5. /\ m \in Memory /\ m.logsErr = err /\ m.found = found /\ m.waitErr = mem[c].waitErr
      /\ m.result = mem[c].result /\ m.document = mem[c].document /\ m.left = mem[c].left
  BY <1>1, <1>3 DEF Memory
<1> HIDE DEF m
<1>6. mem'[c] = m /\ pc'[c] = "annotate" /\ alone'[c] = alone[c] /\ c \in Past'
  BY <1>0, <1>4 DEF LogsForReport, Go, TypeOK, Past
<1>7. OnlyClient(c)
  BY <1>0, <1>4, <1>6 DEF OnlyClient, LogsForReport, Go, TypeOK
<1>8. SawSuccess(c)' /\ OwnJob(c)'
  BY <1>5, <1>6 DEF LogsForReport, SubmitInv, ClientInv, SawSuccess, OwnJob, clusterVars
<1>9. SameJob(c)'
  <2>1. ASSUME err = "none", alone[c] = "yes", mem[c].waitErr = "none" PROVE report[job] = "succeeded"
    <3>1. cond[job] = "complete"
      BY <1>2, <2>1 DEF LogsForReport, SubmitInv, ClientInv, SameJob
    <3>2. QED
      BY <1>2, <2>1, <3>1 DEF SubmitInv, JobInv
  <2>2. QED
    BY <1>5, <1>6, <2>1 DEF SameJob
<1>10. mem' \in [Client -> Memory]
  BY <1>0, <1>4, <1>5 DEF TypeOK
<1>11. exit' \in [Client -> {"none", "zero", "nonzero"}] /\ alone' \in [Client -> {"yes", "no"}]
  BY <1>0 DEF LogsForReport, TypeOK
<1>12. QED
  BY <1>7, <1>8, <1>9, <1>10, <1>11, OnlyClientKeeps DEF ClientInv

-----------------------------------------------------------------------------
(* Steps of a submission that change the cluster                            *)

\* Those under way notice.
LEMMA ActsNoticed ==
    ASSUME NEW c \in Client, Acts(c) PROVE
    /\ \A d \in Client \ {c} : Under(d) => alone'[d] = "no"
    /\ alone'[c] = "yes" => alone[c] = "yes"
    /\ alone \in [Client -> {"yes", "no"}] => alone' \in [Client -> {"yes", "no"}]
BY DEF Acts

\* Others keep what they know, and count on nothing else any more.
LEMMA OthersKeep ==
    ASSUME SubmitInv, NEW c \in Client, Acts(c), NEW p, Go(c, p), UNCHANGED <<opts, mem>>
    PROVE  \A d \in Client \ {c} : ClientInv(d)'
<1> SUFFICES ASSUME NEW d \in Client \ {c} PROVE ClientInv(d)'
  OBVIOUS
<1>1. pc'[d] = pc[d] /\ mem'[d] = mem[d] /\ ClientInv(d)
  BY DEF SubmitInv, TypeOK, Go
<1>2. CASE Under(d)
  BY <1>1, <1>2, ActsNoticed DEF ClientInv, SawSuccess, OwnJob, SameJob
<1>3. CASE ~Under(d)
  BY <1>1, <1>3 DEF Under, ClientInv, SawSuccess, OwnJob, SameJob
<1>4. QED
  BY <1>2, <1>3

LEMMA DeleteJobKeeps == ASSUME SubmitInv, NEW c \in Client, DeleteJob(c) PROVE SubmitInv'
<1>0. TypeOK
  BY DEF SubmitInv
<1>1. pc'[c] = "apply" /\ pc' = [pc EXCEPT ![c] = "apply"]
  BY <1>0 DEF DeleteJob, Go, TypeOK
<1>2. TypeOK'
  <2>1. alone' \in [Client -> {"yes", "no"}]
    BY <1>0, ActsNoticed DEF DeleteJob, TypeOK
  <2>2. job' \in 0 .. created /\ cut' \in {"yes", "no"}
    BY <1>0, ClientCount DEF DeleteJob, TypeOK
  <2>3. pc' \in [Client -> {"new", "apply", "applyJob", "wait", "logs", "annotate", "done"}]
    BY <1>0, <1>1 DEF TypeOK
  <2>4. QED
    BY <1>0, <2>1, <2>2, <2>3 DEF DeleteJob, TypeOK
<1>3. Counted'
  BY <1>1, CountedStays DEF DeleteJob, Past
<1>4. \A u \in Uid : JobInv(u)'
  BY DEF SubmitInv, DeleteJob, JobInv
<1>5. OneLive'
  BY DEF SubmitInv, DeleteJob, OneLive
<1>6. PreparedIsOwn'
  BY DEF SubmitInv, DeleteJob, PreparedIsOwn
<1>7. ClientInv(c)'
  BY <1>1 DEF DeleteJob, ClientInv, SawSuccess, OwnJob, SameJob
<1>8. QED
  BY <1>2, <1>3, <1>4, <1>5, <1>6, <1>7, OthersKeep DEF SubmitInv, DeleteJob

LEMMA ApplyConfigMapKeeps ==
    ASSUME SubmitInv, NEW c \in Client, ApplyConfigMap(c) PROVE SubmitInv'
<1>0. TypeOK /\ ClientInv(c)
  BY DEF SubmitInv
<1>1. pc'[c] = "applyJob" /\ pc' = [pc EXCEPT ![c] = "applyJob"]
  BY <1>0 DEF ApplyConfigMap, Go, TypeOK
<1>2. TypeOK'
  <2>1. alone' \in [Client -> {"yes", "no"}]
    BY <1>0, ActsNoticed DEF ApplyConfigMap, TypeOK
  <2>2. pc' \in [Client -> {"new", "apply", "applyJob", "wait", "logs", "annotate", "done"}]
    BY <1>0, <1>1 DEF TypeOK
  <2>3. QED
    BY <1>0, <2>1, <2>2 DEF ApplyConfigMap, TypeOK
<1>3. Counted'
  BY <1>1, CountedStays DEF ApplyConfigMap, Past
<1>4. \A u \in Uid : JobInv(u)'
  BY DEF SubmitInv, ApplyConfigMap, JobInv
<1>5. OneLive' /\ PreparedIsOwn'
  BY DEF SubmitInv, ApplyConfigMap, OneLive, PreparedIsOwn
<1>6. ClientInv(c)'
  <2>1. opts[c].replace /\ alone'[c] = "yes" => pc[c] = "apply" /\ alone[c] = "yes"
    BY ActsNoticed DEF ApplyConfigMap
  <2>2. OwnJob(c)'
    BY <1>0, <1>1, <2>1 DEF ApplyConfigMap, ClientInv, OwnJob
  <2>3. SawSuccess(c)' /\ SameJob(c)'
    BY <1>1 DEF SawSuccess, SameJob
  <2>4. QED
    BY <2>2, <2>3 DEF ClientInv
<1>7. QED
  BY <1>2, <1>3, <1>4, <1>5, <1>6, OthersKeep DEF SubmitInv, ApplyConfigMap

\* The Job is created when the name is free; a pod that is still alive then was
\* left behind by a Job that was deleted.
LEMMA NewJobKeeps ==
    ASSUME SubmitInv, NEW c \in Client, pc[c] = "applyJob", NewJob(created + 1), Acts(c),
           NEW p \in {"wait", "done"}, Go(c, p), UNCHANGED <<opts, mem, cut>>,
           exit' \in [Client -> {"none", "zero", "nonzero"}]
    PROVE  SubmitInv'
<1>0. TypeOK /\ ClientInv(c)
  BY DEF SubmitInv
<1>1. pc'[c] = p /\ pc' = [pc EXCEPT ![c] = p] /\ c \notin Past /\ c \in Past'
  BY <1>0 DEF Go, TypeOK, Past
<1>2. created + 1 \in Uid /\ created \in Nat
  BY RoomForJob, ClientCount, <1>0 DEF TypeOK
<1>3. /\ alone' \in [Client -> {"yes", "no"}]
      /\ pc' \in [Client -> {"new", "apply", "applyJob", "wait", "logs", "annotate", "done"}]
  BY <1>0, <1>1, ActsNoticed DEF TypeOK
<1>4. CASE job # 0
  <2>1. UNCHANGED <<configMap, job, created, cond, pod, ran, verdict, report, prepared>>
    BY <1>4 DEF NewJob, clusterVars
  <2>2. TypeOK'
    BY <1>0, <1>3, <2>1 DEF TypeOK
  <2>3. Counted'
    BY <1>1, <2>1, CountedStays
  <2>4. \A u \in Uid : JobInv(u)'
    BY <2>1 DEF SubmitInv, JobInv
  <2>5. OneLive' /\ PreparedIsOwn'
    BY <2>1 DEF SubmitInv, OneLive, PreparedIsOwn
  <2>6. ClientInv(c)'
    BY <1>0, <1>1, <1>4, <2>1, ActsNoticed DEF ClientInv, SawSuccess, OwnJob, SameJob
  <2>7. QED
    BY <2>2, <2>3, <2>4, <2>5, <2>6, OthersKeep DEF SubmitInv
<1>5. CASE job = 0
  <2>1. /\ created' = created + 1 /\ job' = created + 1
        /\ pod' = [pod EXCEPT ![created + 1] = "pending"]
        /\ UNCHANGED <<configMap, cond, ran, verdict, report, prepared>>
    BY <1>5 DEF NewJob
  <2>2. TypeOK'
    <3>1. created' \in {0} \cup Uid /\ job' \in 0 .. created' /\ prepared' \in 0 .. created'
      BY <1>0, <1>2, <2>1 DEF TypeOK
    <3>2. pod' \in [Uid -> {"none", "pending", "succeeded", "failed", "gone"} \cup Alive]
      BY <1>0, <2>1 DEF TypeOK
    <3>3. QED
      BY <1>0, <1>3, <2>1, <3>1, <3>2 DEF TypeOK
  <2>3. Counted'
    BY <1>1, <2>1, CountedStays
  <2>4. ASSUME NEW u \in Uid PROVE JobInv(u)'
    <3>1. JobInv(u) /\ u \in Int
      BY ClientCount DEF SubmitInv
    <3>2. CASE u = created + 1
      BY <1>0, <1>2, <2>1, <3>1, <3>2 DEF JobInv, TypeOK
    <3>3. CASE u # created + 1
      BY <1>0, <1>2, <2>1, <3>1, <3>3 DEF JobInv, TypeOK
    <3>4. QED
      BY <3>2, <3>3
  <2>5. OneLive'
    <3> SUFFICES ASSUME cut = "no", NEW u \in Uid, pod'[u] \in Alive \cup {"pending"},
                        u # created + 1
                 PROVE  FALSE
      BY <2>1 DEF OneLive
    <3>1. pod[u] \in Alive \cup {"pending"}
      BY <1>0, <2>1 DEF TypeOK
    <3>2. u = 0
      BY <1>5, <3>1 DEF SubmitInv, OneLive
    <3>3. QED
      BY <3>2, ClientCount
  <2>6. PreparedIsOwn'
    BY <1>0, <2>1 DEF SubmitInv, PreparedIsOwn, TypeOK
  <2>7. ClientInv(c)'
    <3>1. pod'[job'] = "pending"
      BY <1>0, <1>2, <2>1 DEF TypeOK
    <3>2. QED
      BY <1>0, <1>1, <2>1, <3>1, ActsNoticed DEF ClientInv, SawSuccess, OwnJob, SameJob
  <2>8. QED
    BY <2>2, <2>3, <2>4, <2>5, <2>6, <2>7, OthersKeep DEF SubmitInv
<1>6. QED
  BY <1>4, <1>5

-----------------------------------------------------------------------------
(* The invariant and what follows from it                                   *)

LEMMA CodeType == \A errs : Code(errs) \in {"zero", "nonzero"}
BY DEF Code

LEMMA ClientKeeps ==
    ASSUME SubmitInv, NEW c \in Client, ClientStep(c) \/ ClientError(c) \/ DeadlinePasses(c)
    PROVE  SubmitInv'
<1>1. CASE ApplyJob(c)
  BY <1>1, NewJobKeeps DEF ApplyJob, SubmitInv, TypeOK
<1>2. CASE ApplyJobOnly(c)
  <2>1. exit' \in [Client -> {"none", "zero", "nonzero"}]
    BY <1>2 DEF ApplyJobOnly, SubmitInv, TypeOK
  <2>2. QED
    BY <1>2, <2>1, NewJobKeeps DEF ApplyJobOnly
<1>3. ASSUME NEW err \in Outcome, Logs(c, err) PROVE SubmitInv'
  BY <1>3, ExitKeeps, CodeType DEF Logs
<1>4. CASE Annotate(c)
  BY <1>4, ExitKeeps, CodeType DEF Annotate
<1>5. CASE SubmitError(c) \/ AnnotateError(c)
  BY <1>5, ExitKeeps DEF SubmitError, AnnotateError
<1>6. QED
  BY <1>1, <1>2, <1>3, <1>4, <1>5, PollKeeps, DeadlineKeeps, LogsForReportKeeps, DeleteJobKeeps,
     ApplyConfigMapKeeps DEF ClientStep, ClientError

\* Every reachable state satisfies the inductive invariant.
THEOREM SubmitInvAlways == Spec => []SubmitInv
<1>1. SubmitInv /\ [Next]_vars => SubmitInv'
  <2> SUFFICES ASSUME SubmitInv, [Next]_vars PROVE SubmitInv'
    OBVIOUS
  <2>1. CASE UNCHANGED vars
    <3>1. UNCHANGED <<configMap, job, created, cond, pod, ran, verdict, report, prepared, pc, opts,
                      mem, exit, alone, cut>>
      BY <2>1 DEF vars, clusterVars
    <3>2. TypeOK' /\ Counted'
      BY <3>1 DEF SubmitInv, TypeOK, Counted, Past
    <3>3. (\A u \in Uid : JobInv(u)') /\ OneLive' /\ PreparedIsOwn'
      BY <3>1 DEF SubmitInv, JobInv, OneLive, PreparedIsOwn
    <3>4. \A c \in Client : ClientInv(c)'
      BY <3>1 DEF SubmitInv, ClientInv, SawSuccess, OwnJob, SameJob
    <3>5. QED
      BY <3>2, <3>3, <3>4 DEF SubmitInv
  <2>2. CASE Next
    BY <2>1, <2>2, ClientKeeps, ClusterKeeps DEF Next, Over
  <2>3. QED
    BY <2>1, <2>2
<1>2. QED
  BY InitSubmit, <1>1, PTL DEF Spec

\* Types are kept; in particular no submission runs out of Job UIDs.
THEOREM TypeOKAlways == Spec => []TypeOK
BY SubmitInvAlways, PTL DEF SubmitInv

\* Unless a Job is replaced under a live coordinator, nobody replaces or
\* releases what a coordinator has prepared and executes from.
THEOREM PreparedIsOwnAlways == Spec => []PreparedIsOwn
BY SubmitInvAlways, PTL DEF SubmitInv

\* A submission that exits with 0 after the wait has no error to report.
LEMMA PassesWithoutError ==
    ASSUME SubmitInv, Next, NEW c \in Client, Passes(c)
    PROVE  /\ mem[c].waitErr = "none"
           /\ pc[c] = "annotate" => mem[c].logsErr = "none" /\ ReportError(c) = "none"
           /\ opts[c].buildkite => pc[c] = "annotate"
<1>0. exit \in [Client -> {"none", "zero", "nonzero"}] /\ exit'[c] # exit[c] /\ exit'[c] = "zero"
      /\ pc[c] \in {"logs", "annotate"}
  BY DEF SubmitInv, TypeOK, Passes
<1>1. ASSUME NEW d \in Client, NEW code, Exit(d, code) PROVE d = c /\ code = "zero"
  BY <1>0, <1>1 DEF Exit
<1>2. ASSUME NEW d \in Client, ApplyJobOnly(d) PROVE FALSE
  BY <1>0, <1>2 DEF ApplyJobOnly
<1>3. ASSUME exit' = exit PROVE FALSE
  BY <1>0, <1>3
<1>4. (\E err \in Outcome : Logs(c, err)) \/ Annotate(c)
  <2>1. ~Over /\ \A u \in Uid : ~ClusterStep(u)
    BY <1>3 DEF Over, vars, ClusterStep, otherVars, StartCoordinator, CoordinatorError, Prepare, Execute,
       Abort, ReleasePrepared, ReleaseError, KillPod, JobEnds, CollectPod, ExpireJob
  <2>2. PICK d \in Client : ClientStep(d) \/ ClientError(d) \/ DeadlinePasses(d)
    BY <2>1 DEF Next
  <2>3. ~DeleteJob(d) /\ ~ApplyConfigMap(d) /\ ~ApplyJob(d) /\ ~ApplyJobOnly(d) /\ ~DeadlinePasses(d)
    BY <1>2, <1>3 DEF DeleteJob, ApplyConfigMap, ApplyJob, DeadlinePasses
  <2>4. ~PollGone(d) /\ ~PollEnded(d) /\ ~PollLate(d) /\ ~PollError(d)
    BY <1>3 DEF PollGone, PollEnded, PollLate, PollError, WaitFails, Waited
  <2>5. \A err \in Outcome : ~LogsForReport(d, err)
    BY <1>3 DEF LogsForReport
  <2>6. ~SubmitError(d) /\ ~AnnotateError(d)
    BY <1>1 DEF SubmitError, AnnotateError
  <2>7. (\E err \in Outcome : Logs(d, err)) \/ Annotate(d)
    BY <2>2, <2>3, <2>4, <2>5, <2>6 DEF ClientStep, ClientError
  <2>8. d = c
    BY <1>1, <2>7 DEF Logs, Annotate
  <2>9. QED
    BY <2>7, <2>8
<1>5. CASE \E err \in Outcome : Logs(c, err)
  BY <1>1, <1>5 DEF Logs, Code
<1>6. CASE Annotate(c)
  BY <1>1, <1>6 DEF Annotate, Code
<1>7. QED
  BY <1>4, <1>5, <1>6

\* An exit with 0 after the wait stands for a coordinator that reported success
\* and left nothing prepared: a failed release is never reported as 0.
THEOREM ExitZeroIsSuccessAlways == Spec => ExitZeroIsSuccess
<1>1. SubmitInv /\ [Next]_vars =>
        [\A c \in Client : Passes(c) => mem[c].result = "succeeded" /\ mem[c].left = "no"]_vars
  <2> SUFFICES ASSUME SubmitInv, Next, NEW c \in Client, Passes(c)
               PROVE  mem[c].result = "succeeded" /\ mem[c].left = "no"
    OBVIOUS
  <2>1. QED
    BY PassesWithoutError DEF SubmitInv, ClientInv, SawSuccess, Passes
<1>2. QED
  BY <1>1, SubmitInvAlways, PTL DEF Spec, ExitZeroIsSuccess

\* With --replace it stands for the submitted document, unless another
\* submission acted meanwhile.
THEOREM OwnRunReportedAlways == Spec => OwnRunReported
<1>1. SubmitInv /\ [Next]_vars =>
        [\A c \in Client :
           Passes(c) /\ opts[c].replace /\ alone[c] = "yes" => mem[c].document = c]_vars
  <2> SUFFICES ASSUME SubmitInv, Next, NEW c \in Client, Passes(c), opts[c].replace,
                      alone[c] = "yes"
               PROVE  mem[c].document = c
    OBVIOUS
  <2>1. QED
    BY PassesWithoutError DEF SubmitInv, ClientInv, OwnJob, Passes
<1>2. QED
  BY <1>1, SubmitInvAlways, PTL DEF Spec, OwnRunReported

\* A Buildkite step that passes has shown a report, a green one unless the Job
\* was replaced between the wait and the logs.
THEOREM AnnotationAgreesAlways == Spec => AnnotationAgrees
<1>1. SubmitInv /\ [Next]_vars =>
        [\A c \in Client : Passes(c) /\ opts[c].buildkite =>
           /\ mem[c].found # "none"
           /\ alone[c] = "yes" => Style(c) = "success"]_vars
  <2> SUFFICES ASSUME SubmitInv, Next, NEW c \in Client, Passes(c), opts[c].buildkite
               PROVE  /\ mem[c].found # "none"
                      /\ alone[c] = "yes" => Style(c) = "success"
    OBVIOUS
  <2>1. /\ pc[c] = "annotate" /\ mem[c].waitErr = "none" /\ mem[c].logsErr = "none"
        /\ ReportError(c) = "none"
    BY PassesWithoutError
  <2>2. mem[c].found # "none"
    BY <2>1 DEF ReportError
  <2>3. alone[c] = "yes" => Style(c) = "success"
    BY <2>1 DEF SubmitInv, ClientInv, SameJob, Style
  <2>4. QED
    BY <2>2, <2>3
<1>2. QED
  BY <1>1, SubmitInvAlways, PTL DEF Spec, AnnotationAgrees
=============================================================================

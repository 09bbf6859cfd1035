----------------------------- MODULE SourceRun -----------------------------
(***************************************************************************)
(* Coordinator processes against the agents of a cell: discovery of agent   *)
(* status, placement, preparation of a source run, the shard, and the       *)
(* deferred release of what was prepared.                                   *)
(*                                                                          *)
(* Every call is a request that an agent handles on its own: a coordinator  *)
(* that gives up leaves the handler behind, and the agent learns of it      *)
(* later.  What a shard does and how it is retried is in BatchRun, what is  *)
(* on disk during a preparation or a release in PreparedRun; here each is   *)
(* one handler.                                                             *)
(* Run IDs are unique, so state of a run is named by its coordinator.       *)
(***************************************************************************)
EXTENDS Integers, FiniteSets, FiniteSetsExt

CONSTANTS
    Coord,          \* coordinator processes
    Agent,          \* agents 1..n, in the order of --agent-url
    Rank,           \* Rank[a]: the place of the agent's ID among the IDs
    Slots,          \* Slots[a]: --slots
    HostClass,      \* HostClass[a]
    Kind,           \* Kind[c]: source run with "local" or "packed" children, or "bundle" run
    Wanted,         \* Wanted[c]: hostClass of a bundle run
    Children,       \* Children[c]: children.count
    MaxInFlight,    \* MaxInFlight[c]: execution.maxInFlightPerAgent
    Faults

FaultKinds == {"status", "prepare", "unwind", "giveup", "overtake", "shard", "release", "kill"}

ASSUME CellAssumption ==
    /\ Agent \subseteq Nat \ {0} /\ Agent # {}
    /\ IsFiniteSet(Agent) /\ IsFiniteSet(Coord)
    /\ Rank \in [Agent -> Nat] /\ \A a, b \in Agent : Rank[a] = Rank[b] => a = b
    /\ Slots \in [Agent -> Nat \ {0}]
    /\ Kind \in [Coord -> {"local", "packed", "bundle"}]
    /\ Children \in [Coord -> Nat \ {0}]
    /\ MaxInFlight \in [Coord -> Nat \ {0}]
    /\ Faults \subseteq FaultKinds

VARIABLES
    \* Agents
    pressure,   \* pressure[a]: "ok", "critical"; Server.Pressure is set once, if at all
    used,       \* used[a]: slots held by shards
    prepare,    \* prepare[c]: the prepare handler of a run: "none", "queued", "running", "done"
    shard,      \* shard[c]: the run-shard handler
    release,    \* release[c]: the release-prepared handler, or "failed", or "overtook": done
                \* before the preparation it was to undo
    disk,       \* disk[c]: "none", "prepared", "partial"
    \* Coordinators
    pc,         \* "discover", "select", "prepare", "plan", "shard", "release", "exit"
    seen,       \* seen[c]: agents whose status is known
    avail,      \* avail[c][a]: their available slots at that time
    safe,       \* safe[c][a]: "yes" when healthy and not critical, else "no"
    target,     \* target[c]: agent of the preparation, then of the lease; 0 before
    answer,     \* answer[c]: reply to the call in progress: "none", "ok", "error"
    err         \* err[c]: the first error: "none", "status", "select", "prepare", "plan", "inspect",
                \* "shard", "release", "killed"

agentVars == <<pressure, used>>
handlerVars == <<prepare, shard, release, disk>>
statusVars == <<seen, avail, safe>>
vars == <<agentVars, handlerVars, pc, statusVars, target, answer, err>>

May(fault) == fault \in Faults

Least(x, y) == IF x < y THEN x ELSE y

\* The run starts from an image, which the agent prepares.
IsSource(c) == Kind[c] # "bundle"

\* RequiredInFlightSlots
Required(c) == Least(Children[c], MaxInFlight[c])

Init ==
    /\ pressure \in [Agent -> {"ok", "critical"}]
    /\ used = [a \in Agent |-> 0]
    /\ prepare = [c \in Coord |-> "none"]
    /\ shard = [c \in Coord |-> "none"]
    /\ release = [c \in Coord |-> "none"]
    /\ disk = [c \in Coord |-> "none"]
    /\ pc = [c \in Coord |-> "discover"]
    /\ seen = [c \in Coord |-> {}]
    /\ avail = [c \in Coord |-> [a \in Agent |-> 0]]
    /\ safe = [c \in Coord |-> [a \in Agent |-> "no"]]
    /\ target = [c \in Coord |-> 0]
    /\ answer = [c \in Coord |-> "none"]
    /\ err = [c \in Coord |-> "none"]

-----------------------------------------------------------------------------
(* Discovery and placement                                                  *)

Go(c, place) == pc' = [pc EXCEPT ![c] = place]

Fail(c, what) == err' = [err EXCEPT ![c] = IF @ = "none" THEN what ELSE @]

\* discoverAgentEndpoints asks the agents one by one; handleStatus answers.
Discover(c, a) ==
    /\ pc[c] = "discover"
    /\ a \notin seen[c]
    /\ \A b \in Agent : b < a => b \in seen[c]
    /\ seen' = [seen EXCEPT ![c] = @ \cup {a}]
    /\ avail' = [avail EXCEPT ![c][a] = Slots[a] - used[a]]
    /\ safe' = [safe EXCEPT ![c][a] = IF pressure[a] = "ok" THEN "yes" ELSE "no"]
    /\ Go(c, IF seen[c] \cup {a} # Agent THEN "discover"
             ELSE IF IsSource(c) THEN "select" ELSE "plan")
    /\ UNCHANGED <<agentVars, handlerVars, target, answer, err>>

\* One agent that does not answer ends the run.
DiscoverError(c) ==
    /\ pc[c] = "discover"
    /\ May("status")
    /\ Go(c, "exit")
    /\ Fail(c, "status")
    /\ UNCHANGED <<agentVars, handlerVars, statusVars, target, answer>>

\* Child slots of an agent a run may use, as its status told.
Capacity(c, a) == Least(avail[c][a], MaxInFlight[c])

\* Mutant: any free slot will do for the preparation.
FitsSomehow(c, a) == safe[c][a] = "yes" /\ avail[c][a] > 0

\* What selectPrepareEndpoint looks for.
Fits(c, a) == safe[c][a] = "yes" /\ Capacity(c, a) >= Required(c)

\* It takes the first in the order of the URLs; the prepare request goes out.
SelectPrepare(c, a) ==
    /\ pc[c] = "select"
    /\ Fits(c, a)
    /\ \A b \in Agent : Fits(c, b) => a <= b
    /\ target' = [target EXCEPT ![c] = a]
    /\ prepare' = [prepare EXCEPT ![c] = "queued"]
    /\ Go(c, "prepare")
    /\ UNCHANGED <<agentVars, shard, release, disk, statusVars, answer, err>>

SelectRefused(c) ==
    /\ pc[c] = "select"
    /\ \A a \in Agent : ~Fits(c, a)
    /\ Go(c, "exit")
    /\ Fail(c, "select")
    /\ UNCHANGED <<agentVars, handlerVars, statusVars, target, answer>>

-----------------------------------------------------------------------------
(* Preparation                                                              *)

\* The handler gets the gate of its run ID.
PrepareStart(c) ==
    /\ prepare[c] = "queued"
    /\ release[c] # "running"
    /\ prepare' = [prepare EXCEPT ![c] = "running"]
    /\ UNCHANGED <<agentVars, shard, release, disk, pc, statusVars, target, answer, err>>

\* A reply reaches the coordinator if it still waits for this call.
Reply(c, call, value) ==
    answer' = IF pc[c] = call THEN [answer EXCEPT ![c] = value] ELSE answer

PrepareDone(c) ==
    /\ prepare[c] = "running"
    /\ prepare' = [prepare EXCEPT ![c] = "done"]
    /\ disk' = [disk EXCEPT ![c] = "prepared"]
    /\ Reply(c, "prepare", "ok")
    /\ UNCHANGED <<agentVars, shard, release, pc, statusVars, target, err>>

\* It fails and unwinds what it made, ...
PrepareUnwinds(c) ==
    /\ prepare[c] = "running"
    /\ May("prepare") \/ pc[c] # "prepare"
    /\ prepare' = [prepare EXCEPT ![c] = "done"]
    /\ disk' = [disk EXCEPT ![c] = "none"]
    /\ Reply(c, "prepare", "error")
    /\ UNCHANGED <<agentVars, shard, release, pc, statusVars, target, err>>

\* ... or cannot, and leaves it for a release or an operator.
PrepareStuck(c) ==
    /\ prepare[c] = "running"
    /\ May("unwind")
    /\ prepare' = [prepare EXCEPT ![c] = "done"]
    /\ disk' = [disk EXCEPT ![c] = "partial"]
    /\ Reply(c, "prepare", "error")
    /\ UNCHANGED <<agentVars, shard, release, pc, statusVars, target, err>>

\* A handler that still waits for the gate sees that its caller is gone.
PrepareGone(c) ==
    /\ prepare[c] = "queued"
    /\ pc[c] # "prepare"
    /\ prepare' = [prepare EXCEPT ![c] = "done"]
    /\ UNCHANGED <<agentVars, shard, release, disk, pc, statusVars, target, answer, err>>

\* runSource goes on with the prepared bundle, ...
Prepared(c) ==
    /\ pc[c] = "prepare"
    /\ answer[c] = "ok"
    /\ answer' = [answer EXCEPT ![c] = "none"]
    /\ Go(c, "plan")
    /\ UNCHANGED <<agentVars, handlerVars, statusVars, target, err>>

\* ... or learns that there is none, or stops waiting: the timeout of the run,
\* SIGTERM, or a broken connection.  Either way the release is due.
PrepareFailed(c) ==
    /\ pc[c] = "prepare"
    /\ answer[c] = "error" \/ May("giveup")
    /\ answer' = [answer EXCEPT ![c] = "none"]
    /\ Fail(c, "prepare")
    /\ Go(c, "release")
    /\ UNCHANGED <<agentVars, handlerVars, statusVars, target>>

-----------------------------------------------------------------------------
(* Plan and shard                                                           *)

\* candidateAgents: a source run plans with the agent that prepared it, whose
\* host class has become that of the run.
Candidates(c) ==
    LET known == IF IsSource(c) THEN {target[c]} ELSE Agent
    IN  {a \in known : /\ safe[c][a] = "yes"
                       /\ IsSource(c) \/ HostClass[a] = Wanted[c]
                       /\ Capacity(c, a) > 0}

\* Candidates with room for the whole lease.
Roomy(c) == {a \in Candidates(c) : Capacity(c, a) >= Required(c)}

\* BuildSingleAgentSequentialPlan takes the first in the order of the IDs; the
\* shard request goes out.
Plan(c, a) ==
    /\ pc[c] = "plan"
    /\ a \in Roomy(c)
    /\ \A b \in Roomy(c) : Rank[a] <= Rank[b]
    /\ target' = [target EXCEPT ![c] = a]
    /\ shard' = [shard EXCEPT ![c] = "queued"]
    /\ Go(c, "shard")
    /\ UNCHANGED <<agentVars, prepare, release, disk, statusVars, answer, err>>

PlanRefused(c) ==
    /\ pc[c] = "plan"
    /\ Roomy(c) = {}
    /\ Fail(c, "plan")
    /\ Go(c, IF IsSource(c) THEN "release" ELSE "exit")
    /\ UNCHANGED <<agentVars, handlerVars, statusVars, target, answer>>

\* The bundle is inspected before the plan, by an agent unless it is local.
InspectError(c) ==
    /\ pc[c] = "plan"
    /\ Kind[c] # "local"
    /\ May("status")
    /\ Fail(c, "inspect")
    /\ Go(c, IF IsSource(c) THEN "release" ELSE "exit")
    /\ UNCHANGED <<agentVars, handlerVars, statusVars, target, answer>>

\* Mutant: the plan has made sure of the slots.
AdmitPlanned(c) ==
    /\ shard[c] = "queued"
    /\ pressure[target[c]] = "ok"
    /\ shard' = [shard EXCEPT ![c] = "running"]
    /\ used' = [used EXCEPT ![target[c]] = @ + Required(c)]
    /\ UNCHANGED <<pressure, prepare, release, disk, pc, statusVars, target, answer, err>>

\* The agent looks at its slots and its pressure again.
Admit(c) ==
    /\ shard[c] = "queued"
    /\ pressure[target[c]] = "ok"
    /\ used[target[c]] + Required(c) <= Slots[target[c]]
    /\ shard' = [shard EXCEPT ![c] = "running"]
    /\ used' = [used EXCEPT ![target[c]] = @ + Required(c)]
    /\ UNCHANGED <<pressure, prepare, release, disk, pc, statusVars, target, answer, err>>

\* Mutant: the release function runs although nothing was acquired.
RejectReleases(c) ==
    /\ shard[c] = "queued"
    /\ \/ pressure[target[c]] # "ok"
       \/ used[target[c]] + Required(c) > Slots[target[c]]
    /\ shard' = [shard EXCEPT ![c] = "done"]
    /\ used' = [used EXCEPT ![target[c]] = @ - Required(c)]
    /\ Reply(c, "shard", "error")
    /\ UNCHANGED <<pressure, prepare, release, disk, pc, statusVars, target, err>>

Reject(c) ==
    /\ shard[c] = "queued"
    /\ \/ pressure[target[c]] # "ok"
       \/ used[target[c]] + Required(c) > Slots[target[c]]
    /\ shard' = [shard EXCEPT ![c] = "done"]
    /\ Reply(c, "shard", "error")
    /\ UNCHANGED <<agentVars, prepare, release, disk, pc, statusVars, target, err>>

\* The caller is gone before its request is handled.
ShardGone(c) ==
    /\ shard[c] = "queued"
    /\ pc[c] # "shard"
    /\ shard' = [shard EXCEPT ![c] = "done"]
    /\ UNCHANGED <<agentVars, prepare, release, disk, pc, statusVars, target, answer, err>>

\* The children are done, well or badly, and the slots free.
ShardDone(c, value) ==
    /\ shard[c] = "running"
    /\ value = "ok" \/ May("shard")
    /\ shard' = [shard EXCEPT ![c] = "done"]
    /\ used' = [used EXCEPT ![target[c]] = @ - Required(c)]
    /\ Reply(c, "shard", value)
    /\ UNCHANGED <<pressure, prepare, release, disk, pc, statusVars, target, err>>

AfterShard(c) == Go(c, IF IsSource(c) THEN "release" ELSE "exit")

ShardSucceeded(c) ==
    /\ pc[c] = "shard"
    /\ answer[c] = "ok"
    /\ answer' = [answer EXCEPT ![c] = "none"]
    /\ AfterShard(c)
    /\ UNCHANGED <<agentVars, handlerVars, statusVars, target, err>>

\* The attempts are used up, or the coordinator stops waiting for the answer,
\* whether or not the agent has seen the request.
ShardFailed(c) ==
    /\ pc[c] = "shard"
    /\ answer[c] = "error" \/ May("giveup")
    /\ answer' = [answer EXCEPT ![c] = "none"]
    /\ Fail(c, "shard")
    /\ AfterShard(c)
    /\ UNCHANGED <<agentVars, handlerVars, statusVars, target>>

-----------------------------------------------------------------------------
(* Release                                                                  *)

\* The deferred call, with a context of its own.
SendRelease(c) ==
    /\ pc[c] = "release" /\ release[c] = "none"
    /\ release' = [release EXCEPT ![c] = "queued"]
    /\ UNCHANGED <<agentVars, prepare, shard, disk, pc, statusVars, target, answer, err>>

\* Its handler gets the gate.  It may come before a prepare handler that was
\* sent earlier.
ReleaseStart(c) ==
    /\ release[c] = "queued"
    /\ prepare[c] # "running"
    /\ prepare[c] # "queued" \/ May("overtake")
    /\ release' = [release EXCEPT ![c] = "running"]
    /\ UNCHANGED <<agentVars, prepare, shard, disk, pc, statusVars, target, answer, err>>

\* Mutant: children in use are passed over, and the release is done.
ReleaseDonePassesOver(c) ==
    /\ release[c] = "running"
    /\ release' = [release EXCEPT ![c] = IF prepare[c] = "queued" THEN "overtook" ELSE "done"]
    /\ disk' = [disk EXCEPT ![c] = IF shard[c] = "running" THEN @ ELSE "none"]
    /\ Reply(c, "release", "ok")
    /\ UNCHANGED <<agentVars, prepare, shard, pc, statusVars, target, err>>

\* Everything is removed once no child is in use (SavedSporeInUse).
ReleaseDone(c) ==
    /\ release[c] = "running"
    /\ shard[c] # "running"
    /\ release' = [release EXCEPT ![c] = IF prepare[c] = "queued" THEN "overtook" ELSE "done"]
    /\ disk' = [disk EXCEPT ![c] = "none"]
    /\ Reply(c, "release", "ok")
    /\ UNCHANGED <<agentVars, prepare, shard, pc, statusVars, target, err>>

\* A removal fails, or the time of the release is over.
ReleaseStuck(c) ==
    /\ release[c] \in {"queued", "running"}
    /\ May("release")
    /\ release' = [release EXCEPT ![c] = "failed"]
    /\ Reply(c, "release", "error")
    /\ UNCHANGED <<agentVars, prepare, shard, disk, pc, statusVars, target, err>>

Released(c) ==
    /\ pc[c] = "release"
    /\ answer[c] = "ok"
    /\ answer' = [answer EXCEPT ![c] = "none"]
    /\ Go(c, "exit")
    /\ UNCHANGED <<agentVars, handlerVars, statusVars, target, err>>

\* Mutant: a failed release is logged only.
ReleaseFailedQuietly(c) ==
    /\ pc[c] = "release"
    /\ answer[c] = "error"
    /\ answer' = [answer EXCEPT ![c] = "none"]
    /\ Go(c, "exit")
    /\ UNCHANGED <<agentVars, handlerVars, statusVars, target, err>>

\* The error of the release is joined to that of the run.
ReleaseFailed(c) ==
    /\ pc[c] = "release"
    /\ answer[c] = "error"
    /\ answer' = [answer EXCEPT ![c] = "none"]
    /\ Fail(c, "release")
    /\ Go(c, "exit")
    /\ UNCHANGED <<agentVars, handlerVars, statusVars, target>>

\* The process is killed; deferred calls do not run.
Kill(c) ==
    /\ pc[c] # "exit"
    /\ May("kill")
    /\ answer' = [answer EXCEPT ![c] = "none"]
    /\ err' = [err EXCEPT ![c] = "killed"]
    /\ Go(c, "exit")
    /\ UNCHANGED <<agentVars, handlerVars, statusVars, target>>

-----------------------------------------------------------------------------
CoordStep(c) ==
    \/ \E a \in Agent : Discover(c, a) \/ SelectPrepare(c, a) \/ Plan(c, a)
    \/ DiscoverError(c) \/ SelectRefused(c) \/ PlanRefused(c) \/ InspectError(c)
    \/ Prepared(c) \/ PrepareFailed(c)
    \/ ShardSucceeded(c) \/ ShardFailed(c)
    \/ SendRelease(c) \/ Released(c) \/ ReleaseFailed(c)

AgentStep(c) ==
    \/ PrepareStart(c) \/ PrepareDone(c) \/ PrepareUnwinds(c) \/ PrepareStuck(c) \/ PrepareGone(c)
    \/ Admit(c) \/ Reject(c) \/ ShardGone(c) \/ \E value \in {"ok", "error"} : ShardDone(c, value)
    \/ ReleaseStart(c) \/ ReleaseDone(c) \/ ReleaseStuck(c)

\* Every coordinator has exited and every handler is done.
Over ==
    /\ \A c \in Coord : /\ pc[c] = "exit"
                        /\ \A h \in {prepare[c], shard[c], release[c]} : h \notin {"queued", "running"}
    /\ UNCHANGED vars

Next ==
    \/ \E c \in Coord : CoordStep(c) \/ AgentStep(c) \/ Kill(c)
    \/ Over

Spec == Init /\ [][Next]_vars

\* Calls of the coordinator have deadlines and handlers run commands that end.
FairSpec == Spec /\ \A c \in Coord : WF_vars(CoordStep(c)) /\ WF_vars(AgentStep(c))

-----------------------------------------------------------------------------
(* Properties                                                               *)

Handler == {"none", "queued", "running", "done"}

TypeOK ==
    /\ pressure \in [Agent -> {"ok", "critical"}]
    /\ used \in [Agent -> Nat]
    /\ prepare \in [Coord -> Handler] /\ shard \in [Coord -> Handler]
    /\ release \in [Coord -> Handler \cup {"failed", "overtook"}]
    /\ disk \in [Coord -> {"none", "prepared", "partial"}]
    /\ pc \in [Coord -> {"discover", "select", "prepare", "plan", "shard", "release", "exit"}]
    /\ seen \in [Coord -> SUBSET Agent]
    /\ avail \in [Coord -> [Agent -> Nat]]
    /\ safe \in [Coord -> [Agent -> {"yes", "no"}]]
    /\ target \in [Coord -> Agent \cup {0}]
    /\ answer \in [Coord -> {"none", "ok", "error"}]
    /\ err \in [Coord -> {"none", "status", "select", "prepare", "plan", "inspect", "shard",
                      "release", "killed"}]

\* selectPrepareEndpoint and BuildSingleAgentSequentialPlan are written apart
\* and look at the same status at different times: a source run that has paid
\* for its preparation is never refused by the planner.
PlanFitsSelection == \A c \in Coord : IsSource(c) => err[c] # "plan"

\* design.md: "cleanup failures fail the run rather than hiding durable
\* cache-pin leaks".  A coordinator that reports success left nothing prepared
\* on the agent and no handler that could still prepare it.
NoHiddenLeak ==
    \A c \in Coord : pc[c] = "exit" /\ err[c] = "none" =>
        disk[c] = "none" /\ prepare[c] \in {"none", "done"}

\* Coordinators plan with statuses that are out of date when the lease
\* arrives: no agent ever runs more than its slots, and the slots in use are
\* those of the shards it runs, abandoned ones included.
NeverOversubscribed ==
    \A a \in Agent :
        /\ used[a] <= Slots[a]
        /\ used[a] = MapThenSumSet(Required, {c \in Coord : shard[c] = "running" /\ target[c] = a})

\* What was prepared does not stay: the release comes after success, failure
\* and an uncertain preparation alike, waits for the children in use and
\* removes everything.  Three cases are left: the coordinator was killed, the
\* release failed, or it overtook the preparation.  The last one is what
\* design.md says cannot be: "a release following an ambiguous prepare response
\* waits for preparation to unwind".  The gate makes it wait for a preparation
\* that holds it, and not for one whose request has yet to arrive.
PreparedGoes ==
    \A c \in Coord : disk[c] # "none" ~>
        disk[c] = "none" \/ err[c] = "killed" \/ release[c] \in {"failed", "overtook"}
=============================================================================

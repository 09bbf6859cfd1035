----------------------------- MODULE Placement -----------------------------
(***************************************************************************)
(* The resident coordinator's API over the agents it is configured with,    *)
(* and the life of those agents: start, serve, die, start again.            *)
(*                                                                          *)
(* A request asks every agent for its status, is placed on one of them by   *)
(* what the statuses said, and is then a handler of that agent.  Agents die *)
(* with their container: the map of sandboxes, the slots and every VM go,   *)
(* the files of the runtime directory stay, and the next process clears     *)
(* them before it serves (--reset-runtime-on-start, as deployed).           *)
(*                                                                          *)
(* Handlers take one step when the agent admits them and one when their     *)
(* spore commands have ended; Sandboxes has every critical section of them. *)
(***************************************************************************)
EXTENDS Integers, FiniteSets, Sequences

CONSTANTS
    AgentCount, \* --agent-url values, in order
    Request,    \* requests the coordinator receives
    Name,       \* sandbox names
    Requested,  \* --slots
    ChildMemory,    \* --child-memory-bytes
    Reserve,    \* --memory-reserve-bytes
    LimitFiles, \* LimitFiles[a]: what the candidate cgroup files of agent a may hold
    MaxDeaths,  \* bound on agent processes that die
    Faults      \* what else may go wrong

FaultKinds == {"network", "spore", "exit", "reset"}

\* What a cgroup file holds, when it is not a limit in bytes.
Missing == -2
Unlimited == -1

ASSUME PlacementAssumption ==
    /\ AgentCount \in Nat \ {0} /\ IsFiniteSet(Request) /\ IsFiniteSet(Name)
    /\ Requested \in Nat \ {0} /\ ChildMemory \in Int /\ Reserve \in Int
    /\ MaxDeaths \in Nat /\ Faults \subseteq FaultKinds
Agent == 1 .. AgentCount

ASSUME LimitAssumption == LimitFiles \in [Agent -> SUBSET Seq(Int)]

Kind == {"run", "create", "exec", "delete"}

VARIABLES
    \* Agents
    proc,       \* proc[a]: "down", "reset", "clamp", "reconcile", "serving"
    started,    \* started[a]: "yes" once start-up maintenance is over
    limits,     \* limits[a]: its candidate cgroup files
    critical,   \* agents under critical pressure, which is fixed when they are set up
    slots,      \* slots[a]: SlotLimiter.total, 0 without a process
    used,       \* used[a]: SlotLimiter.used
    entry,      \* entry[a][n]: Runner.sandboxes: "absent", "reserved", "active"
    vm,         \* vm[a][n]: "none", "live", or "dead": in the runtime directory only
    deaths,     \* agent processes that have died
    \* Requests
    pc,         \* "new", "status", "call", "wait", "gone", "done"
    kind, name, \* what the request asks for, and which sandbox
    poll,       \* poll[r]: the agent whose status is fetched next
    seen,       \* seen[r]: available slots of the agents that answered
    place,      \* place[r]: the agent the request is on, 0 before
    work,       \* work[r]: its handler there: "none", "run", "create", "exec", "remove", "untracked"
    \* History
    deleted     \* names whose last delete was answered with success and not created since

agentVars == <<proc, started, limits, critical, slots, used, entry, vm, deaths>>
requestVars == <<pc, kind, name, poll, seen, place, work>>
vars == <<agentVars, requestVars, deleted>>

May(fault) == fault \in Faults

-----------------------------------------------------------------------------
(* Start-up of an agent                                                     *)

\* cgroupMemoryLimitBytes: the first file that exists decides.
MemoryLimit(files) ==
    LET present == {i \in DOMAIN files : files[i] # Missing}
    IN  IF present = {} THEN Unlimited
        ELSE files[CHOOSE i \in present : \A j \in present : i =< j]

\* A file that does not parse, or holds no positive number.
LimitError(files) == ChildMemory > 0 /\ MemoryLimit(files) # Unlimited /\ MemoryLimit(files) =< 0

HeldBack == IF Reserve < 0 THEN 0 ELSE Reserve

\* Mutant: the reserve is not held back.
EffectiveSlotsUnreserved(files) ==
    IF ChildMemory =< 0 \/ MemoryLimit(files) = Unlimited THEN Requested
    ELSE IF MemoryLimit(files) \div ChildMemory < Requested THEN MemoryLimit(files) \div ChildMemory
    ELSE Requested

\* effectiveSlotsForCgroup
EffectiveSlots(files) ==
    LET usable == MemoryLimit(files) - HeldBack
    IN  IF ChildMemory =< 0 \/ MemoryLimit(files) = Unlimited THEN Requested
        ELSE IF usable < ChildMemory THEN 0
        ELSE IF usable \div ChildMemory < Requested THEN usable \div ChildMemory
        ELSE Requested

CanStart(files) == ~LimitError(files) /\ EffectiveSlots(files) >= 1

Init ==
    /\ proc = [a \in Agent |-> "down"]
    /\ started = [a \in Agent |-> "no"]
    /\ limits \in {f \in [Agent -> UNION {LimitFiles[a] : a \in Agent}] : \A a \in Agent : f[a] \in LimitFiles[a]}
    /\ critical \in SUBSET Agent
    /\ slots = [a \in Agent |-> 0]
    /\ used = [a \in Agent |-> 0]
    /\ entry = [a \in Agent |-> [n \in Name |-> "absent"]]
    /\ vm = [a \in Agent |-> [n \in Name |-> "none"]]
    /\ deaths = 0
    /\ pc = [r \in Request |-> "new"]
    /\ kind = [r \in Request |-> "none"]
    /\ name \in [Request -> Name]
    /\ poll = [r \in Request |-> 1]
    /\ seen = [r \in Request |-> <<>>]
    /\ place = [r \in Request |-> 0]
    /\ work = [r \in Request |-> "none"]
    /\ deleted = {}

Become(a, p) == proc' = [proc EXCEPT ![a] = p]

\* The container starts and main makes the directories.
Start(a) ==
    /\ proc[a] = "down"
    /\ Become(a, "reset")
    /\ UNCHANGED <<started, limits, critical, slots, used, entry, vm, deaths, requestVars, deleted>>

\* Mutant: the runtime directory is left as the last process left it.
ResetSkipped(a) ==
    /\ proc[a] = "reset"
    /\ Become(a, "clamp")
    /\ UNCHANGED <<started, limits, critical, slots, used, entry, vm, deaths, requestVars, deleted>>

\* resetSporeRuntimeDir removes all but the authority file.
Reset(a) ==
    /\ proc[a] = "reset"
    /\ vm' = [vm EXCEPT ![a] = [n \in Name |-> "none"]]
    /\ Become(a, "clamp")
    /\ UNCHANGED <<started, limits, critical, slots, used, entry, deaths, requestVars, deleted>>

\* It fails part of the way: log.Fatal.
ResetError(a) ==
    /\ proc[a] = "reset"
    /\ May("reset")
    /\ deaths < MaxDeaths
    /\ deaths' = deaths + 1
    /\ \E done \in SUBSET Name :
           vm' = [vm EXCEPT ![a] = [n \in Name |-> IF n \in done THEN "none" ELSE vm[a][n]]]
    /\ Become(a, "down")
    /\ UNCHANGED <<started, limits, critical, slots, used, entry, requestVars, deleted>>

\* The slots of this process, as many as the memory limit has room for.
ClampSlots(a) ==
    /\ proc[a] = "clamp"
    /\ CanStart(limits[a])
    /\ slots' = [slots EXCEPT ![a] = EffectiveSlots(limits[a])]
    /\ Become(a, "reconcile")
    /\ UNCHANGED <<started, limits, critical, used, entry, vm, deaths, requestVars, deleted>>

\* "memory limit cannot fit one child", or no limit can be read: log.Fatal.
ClampError(a) ==
    /\ proc[a] = "clamp"
    /\ ~CanStart(limits[a])
    /\ Become(a, "down")
    /\ UNCHANGED <<started, limits, critical, slots, used, entry, vm, deaths, requestVars, deleted>>

\* The first reconciliation ends, its error only logged, and the server listens.
Serve(a) ==
    /\ proc[a] = "reconcile"
    /\ Become(a, "serving")
    /\ UNCHANGED <<started, limits, critical, slots, used, entry, vm, deaths, requestVars, deleted>>

\* Mutant: only a collection without an error ends the start-up.
CollectedIfFine(a) ==
    /\ proc[a] = "serving"
    /\ started[a] = "no"
    /\ started' = [started EXCEPT ![a] = IF May("spore") THEN "no" ELSE "yes"]
    /\ UNCHANGED <<proc, limits, critical, slots, used, entry, vm, deaths, requestVars, deleted>>

\* The start-up cache GC ends, failed or not, and the agent is ready.
Collected(a) ==
    /\ proc[a] = "serving"
    /\ started[a] = "no"
    /\ started' = [started EXCEPT ![a] = "yes"]
    /\ UNCHANGED <<proc, limits, critical, slots, used, entry, vm, deaths, requestVars, deleted>>

On(a) == {r \in Request : place[r] = a /\ pc[r] \in {"wait", "gone"}}

\* The process dies, or is told to stop: ListenAndServe returns as soon as Shutdown
\* closes the listener, and main with it, so no handler is waited for.  Memory and
\* processes are lost, connections break, the runtime directory stays.
Die(a) ==
    /\ proc[a] # "down"
    /\ deaths < MaxDeaths
    /\ deaths' = deaths + 1
    /\ Become(a, "down")
    /\ started' = [started EXCEPT ![a] = "no"]
    /\ slots' = [slots EXCEPT ![a] = 0]
    /\ used' = [used EXCEPT ![a] = 0]
    /\ entry' = [entry EXCEPT ![a] = [n \in Name |-> "absent"]]
    /\ vm' = [vm EXCEPT ![a] = [n \in Name |-> IF vm[a][n] = "live" THEN "dead" ELSE vm[a][n]]]
    /\ work' = [r \in Request |-> IF r \in On(a) THEN "none" ELSE work[r]]
    /\ pc' = [r \in Request |-> IF r \in On(a) THEN "done" ELSE pc[r]]
    /\ kind' = [r \in Request |-> IF r \in On(a) THEN "none" ELSE kind[r]]
    /\ poll' = [r \in Request |-> IF r \in On(a) THEN 1 ELSE poll[r]]
    /\ place' = [r \in Request |-> IF r \in On(a) THEN 0 ELSE place[r]]
    /\ UNCHANGED <<limits, critical, name, seen, deleted>>

-----------------------------------------------------------------------------
(* The coordinator                                                          *)

Go(r, p) == pc' = [pc EXCEPT ![r] = p]

\* The request is over, answered or not, and the coordinator keeps nothing of it.
Forget(r) ==
    /\ Go(r, "done")
    /\ kind' = [kind EXCEPT ![r] = "none"]
    /\ poll' = [poll EXCEPT ![r] = 1]
    /\ seen' = [seen EXCEPT ![r] = <<>>]
    /\ place' = [place EXCEPT ![r] = 0]

Submit(r, k) ==
    /\ pc[r] = "new"
    /\ kind' = [kind EXCEPT ![r] = k]
    /\ Go(r, "status")
    /\ UNCHANGED <<agentVars, name, poll, seen, place, work, deleted>>

\* discoverAgentEndpoints: the next agent answers; a starting one does too.
Status(r) ==
    /\ pc[r] = "status"
    /\ poll[r] \in Agent
    /\ proc[poll[r]] = "serving"
    /\ seen' = [seen EXCEPT ![r] =
                   [a \in DOMAIN seen[r] \cup {poll[r]} |->
                       IF a = poll[r] THEN slots[a] - used[a] ELSE seen[r][a]]]
    /\ poll' = [poll EXCEPT ![r] = @ + 1]
    /\ UNCHANGED <<agentVars, pc, kind, name, place, work, deleted>>

\* An agent that does not serve: one status that cannot be had fails the request.
StatusError(r) ==
    /\ pc[r] = "status"
    /\ poll[r] \in Agent
    /\ proc[poll[r]] # "serving"
    /\ Forget(r)
    /\ UNCHANGED <<agentVars, name, work, deleted>>

\* Mutant: an agent that does not answer is passed over.
NetworkErrorSkips(r) ==
    /\ pc[r] = "status"
    /\ poll[r] \in Agent
    /\ May("network")
    /\ poll' = [poll EXCEPT ![r] = @ + 1]
    /\ UNCHANGED <<agentVars, pc, kind, name, seen, place, work, deleted>>

\* An agent that serves and cannot be reached, by the status or by the call.
NetworkError(r) ==
    /\ \/ pc[r] = "status" /\ poll[r] \in Agent
       \/ pc[r] = "call"
    /\ May("network")
    /\ Forget(r)
    /\ UNCHANGED <<agentVars, name, work, deleted>>

\* selectSandboxEndpoint: exactly one healthy agent, or none.
SelectSandboxEndpoint(statuses) ==
    LET compatible == DOMAIN statuses \ critical
    IN  IF Cardinality(compatible) = 1 THEN compatible ELSE {}

\* selectRunEndpoint: the most available slots, the first of equals.
SelectRunEndpoint(statuses) ==
    LET compatible == {a \in DOMAIN statuses \ critical : statuses[a] >= 1}
    IN  {a \in compatible : \A b \in compatible :
            \/ statuses[a] > statuses[b]
            \/ statuses[a] = statuses[b] /\ a =< b}

Endpoint(r) ==
    IF kind[r] = "run" THEN SelectRunEndpoint(seen[r]) ELSE SelectSandboxEndpoint(seen[r])

Select(r) ==
    /\ pc[r] = "status"
    /\ poll[r] \notin Agent
    /\ \E a \in Endpoint(r) : place' = [place EXCEPT ![r] = a]
    /\ seen' = [seen EXCEPT ![r] = <<>>]
    /\ Go(r, "call")
    /\ UNCHANGED <<agentVars, kind, name, poll, work, deleted>>

\* ErrNoCompatibleAgents, or more than one agent could hold the sandbox.
SelectError(r) ==
    /\ pc[r] = "status"
    /\ poll[r] \notin Agent
    /\ Endpoint(r) = {}
    /\ Forget(r)
    /\ UNCHANGED <<agentVars, name, work, deleted>>

\* The agent has died since it was asked.
CallError(r) ==
    /\ pc[r] = "call"
    /\ proc[place[r]] # "serving"
    /\ Forget(r)
    /\ UNCHANGED <<agentVars, name, work, deleted>>

\* The caller is gone, or the run's timeout has passed, or the connection broke:
\* the handler may get to its end before its context is cancelled.
GiveUp(r) ==
    /\ pc[r] = "wait"
    /\ May("network")
    /\ Go(r, "gone")
    /\ UNCHANGED <<agentVars, kind, name, poll, seen, place, work, deleted>>

-----------------------------------------------------------------------------
(* Handlers of an agent                                                     *)

EntryOf(r) == entry[place[r]][name[r]]
SetEntry(r, e) == entry' = [entry EXCEPT ![place[r]][name[r]] = e]
SetVM(r, v) == vm' = [vm EXCEPT ![place[r]][name[r]] = v]
MaybeRemoveVM(r) == SetVM(r, "none") \/ UNCHANGED vm
Acquire(r) == used' = [used EXCEPT ![place[r]] = @ + 1]
Release(r) == used' = [used EXCEPT ![place[r]] = @ - 1]

\* admitOne
Admits(a) == a \notin critical /\ used[a] < slots[a]

\* The request is with the agent, which takes it up.
Arrived(r, k) == pc[r] = "call" /\ kind[r] = k /\ proc[place[r]] = "serving"
Handle(r, w) ==
    /\ Go(r, "wait")
    /\ work' = [work EXCEPT ![r] = w]
    /\ UNCHANGED <<proc, started, limits, critical, slots, deaths, kind, name, poll, seen, place>>

\* The handler ends and with it the request.
Ends(r, w) ==
    /\ work[r] = w
    /\ work' = [work EXCEPT ![r] = "none"]
    /\ Forget(r)
    /\ UNCHANGED <<proc, started, limits, critical, slots, deaths, name>>

BeginRun(r) ==
    /\ Arrived(r, "run")
    /\ Admits(place[r])
    /\ Acquire(r)
    /\ Handle(r, "run")
    /\ UNCHANGED <<entry, vm, deleted>>

\* CreateSandbox takes a slot and reserves the name.
BeginCreate(r) ==
    /\ Arrived(r, "create")
    /\ Admits(place[r])
    /\ EntryOf(r) = "absent"
    /\ Acquire(r)
    /\ SetEntry(r, "reserved")
    /\ deleted' = deleted \ {name[r]}
    /\ Handle(r, "create")
    /\ UNCHANGED vm

BeginExec(r) ==
    /\ Arrived(r, "exec")
    /\ EntryOf(r) = "active"
    /\ Handle(r, "exec")
    /\ UNCHANGED <<used, entry, vm, deleted>>

\* RemoveSandbox takes the entry of a name it tracks ...
BeginRemove(r) ==
    /\ Arrived(r, "delete")
    /\ EntryOf(r) = "active"
    /\ SetEntry(r, "reserved")
    /\ Handle(r, "remove")
    /\ UNCHANGED <<used, vm, deleted>>

\* ... and goes on to spore with one it does not.
BeginUntracked(r) ==
    /\ Arrived(r, "delete")
    /\ EntryOf(r) = "absent"
    /\ Handle(r, "untracked")
    /\ UNCHANGED <<used, entry, vm, deleted>>

Admissible(r) ==
    CASE kind[r] = "run" -> Admits(place[r])
      [] kind[r] = "create" -> Admits(place[r]) /\ EntryOf(r) = "absent"
      [] kind[r] = "exec" -> EntryOf(r) = "active"
      [] kind[r] = "delete" -> EntryOf(r) # "reserved"


\* ErrOversubscribed, ErrUnsafePressure, ErrSandboxExists, ErrSandboxBusy, not owned.
Refuse(r) ==
    /\ Arrived(r, kind[r])
    /\ ~Admissible(r)
    /\ Forget(r)
    /\ UNCHANGED <<agentVars, name, work, deleted>>

EndRun(r) ==
    /\ Ends(r, "run")
    /\ Release(r)
    /\ UNCHANGED <<entry, vm, deleted>>

EndExec(r) ==
    /\ Ends(r, "exec")
    /\ UNCHANGED <<used, entry, vm, deleted>>

\* RestoreNamed takes a name the runtime directory does not have.
EndCreate(r) ==
    /\ Ends(r, "create")
    /\ vm[place[r]][name[r]] = "none"
    /\ SetVM(r, "live")
    /\ SetEntry(r, "active")
    /\ UNCHANGED <<used, deleted>>

\* No template, or no VM and the cleanup worked: name and slot go back.
CreateError(r) ==
    /\ Ends(r, "create")
    /\ May("spore") \/ vm[place[r]][name[r]] # "none"
    /\ MaybeRemoveVM(r)
    /\ SetEntry(r, "absent")
    /\ Release(r)
    /\ UNCHANGED deleted

\* The cleanup failed too: the sandbox is kept for a delete.
CreateCleanupError(r) ==
    /\ Ends(r, "create")
    /\ May("spore")
    /\ \E v \in {"none", "live"} : SetVM(r, v)
    /\ SetEntry(r, "active")
    /\ UNCHANGED <<used, deleted>>

\* A success the caller hears of, with no creation of the name under way.
Record(r) ==
    LET creating == {q \in Request : work[q] = "create" /\ name[q] = name[r]}
    IN  deleted' = IF pc[r] = "wait" /\ creating = {} THEN deleted \cup {name[r]} ELSE deleted

EndRemove(r) ==
    /\ Ends(r, "remove")
    /\ SetVM(r, "none")
    /\ SetEntry(r, "absent")
    /\ Release(r)
    /\ Record(r)

\* Mutant: a failed RemoveVM is only logged.
RemoveErrorLogged(r) ==
    /\ Ends(r, "remove")
    /\ May("spore")
    /\ MaybeRemoveVM(r)
    /\ SetEntry(r, "absent")
    /\ Release(r)
    /\ Record(r)

\* RemoveVM fails: the sandbox stays, with its slot.
RemoveError(r) ==
    /\ Ends(r, "remove")
    /\ May("spore")
    /\ MaybeRemoveVM(r)
    /\ SetEntry(r, "active")
    /\ UNCHANGED <<used, deleted>>

\* Mutant: a delete always gives a slot back.
EndUntrackedReleases(r) ==
    /\ Ends(r, "untracked")
    /\ SetVM(r, "none")
    /\ Release(r)
    /\ Record(r)
    /\ UNCHANGED entry

EndUntracked(r) ==
    /\ Ends(r, "untracked")
    /\ SetVM(r, "none")
    /\ Record(r)
    /\ UNCHANGED <<used, entry>>

UntrackedError(r) ==
    /\ Ends(r, "untracked")
    /\ May("spore")
    /\ MaybeRemoveVM(r)
    /\ UNCHANGED <<used, entry, deleted>>

\* A VM ends by itself; spore keeps its files.
VMExit(a, n) ==
    /\ May("exit")
    /\ vm[a][n] = "live"
    /\ vm' = [vm EXCEPT ![a][n] = "dead"]
    /\ UNCHANGED <<proc, started, limits, critical, slots, used, entry, deaths, requestVars, deleted>>

-----------------------------------------------------------------------------
Ended == (\A r \in Request : pc[r] = "done") /\ UNCHANGED vars

Coordinate(r) == Status(r) \/ StatusError(r) \/ Select(r) \/ SelectError(r) \/ CallError(r)

Handler(r) ==
    \/ BeginRun(r) \/ BeginCreate(r) \/ BeginExec(r) \/ BeginRemove(r) \/ BeginUntracked(r)
    \/ Refuse(r) \/ EndRun(r) \/ EndExec(r) \/ EndCreate(r) \/ CreateError(r)
    \/ CreateCleanupError(r) \/ EndRemove(r) \/ RemoveError(r)
    \/ EndUntracked(r) \/ UntrackedError(r)

Boot(a) == Start(a) \/ Reset(a) \/ ClampSlots(a) \/ ClampError(a) \/ Serve(a) \/ Collected(a)

Next ==
    \/ \E r \in Request : (\E k \in Kind : Submit(r, k)) \/ Coordinate(r) \/ Handler(r)
                           \/ NetworkError(r) \/ GiveUp(r)
    \/ \E a \in Agent : Boot(a) \/ ResetError(a) \/ Die(a)
    \/ \E a \in Agent, n \in Name : VMExit(a, n)
    \/ Ended

Spec == Init /\ [][Next]_vars

\* The coordinator's calls and the agents' spore commands end, well or not.  The
\* kubelet restarts an agent, and its start-up work has timeouts.
FairSpec ==
    /\ Spec
    /\ \A r \in Request : WF_vars(Coordinate(r) \/ Handler(r))
    /\ \A a \in Agent : WF_vars(Boot(a))

-----------------------------------------------------------------------------
(* Properties                                                               *)

TypeOK ==
    /\ proc \in [Agent -> {"down", "reset", "clamp", "reconcile", "serving"}]
    /\ started \in [Agent -> {"yes", "no"}]
    /\ DOMAIN limits = Agent /\ \A a \in Agent : limits[a] \in LimitFiles[a]
    /\ critical \in SUBSET Agent
    /\ slots \in [Agent -> 0 .. Requested]
    /\ used \in [Agent -> 0 .. Requested]
    /\ entry \in [Agent -> [Name -> {"absent", "reserved", "active"}]]
    /\ vm \in [Agent -> [Name -> {"none", "live", "dead"}]]
    /\ deaths \in 0 .. MaxDeaths
    /\ pc \in [Request -> {"new", "status", "call", "wait", "gone", "done"}]
    /\ kind \in [Request -> Kind \cup {"none"}]
    /\ name \in [Request -> Name]
    /\ poll \in [Request -> 1 .. AgentCount + 1]
    /\ \A r \in Request : seen[r] \in UNION {[D -> 0 .. Requested] : D \in SUBSET Agent}
    /\ place \in [Request -> Agent \cup {0}]
    /\ work \in [Request -> {"none", "run", "create", "exec", "remove", "untracked"}]
    /\ deleted \in SUBSET Name

\* Ownership of a name is kept nowhere: the coordinator derives the agent anew for
\* every request.  Still no name has VMs on two agents, whatever fails or restarts
\* between the request that created one and the next.
OneOwner ==
    \A n \in Name : \A a, b \in Agent : vm[a][n] # "none" /\ vm[b][n] # "none" => a = b

Running(a) == {r \in Request : place[r] = a /\ work[r] = "run"}
LiveOn(a) == {n \in Name : vm[a][n] = "live"}

\* The clamp of effectiveSlotsForCgroup reaches every VM that a request was
\* admitted for: across restarts, leftovers, failed commands and late handlers,
\* an agent has no more of them than children of --child-memory-bytes fit beside
\* the reserve.  This bounds their number, in the unit of that flag.  It does
\* not bound their memory: a request names its own (1024mb by default) and
\* nothing compares it with the flag, and the VM that a preparation captures
\* takes no slot.
ChildBudgetFits ==
    \A a \in Agent :
        LET limit == MemoryLimit(limits[a])
        IN  ChildMemory > 0 /\ limit # Unlimited =>
                (Cardinality(LiveOn(a)) + Cardinality(Running(a))) * ChildMemory
                    =< IF limit > HeldBack THEN limit - HeldBack ELSE 0

\* A serving agent has no VM files of a process before it: a name its map does not
\* have, spore does not have either, so a creation the agent admits is not refused by
\* a leftover nobody can delete through the map.
NamesAreOwn ==
    \A a \in Agent, n \in Name :
        proc[a] = "serving" /\ vm[a][n] # "none" => entry[a][n] # "absent"

\* A delete that was answered with success is final: the name has no VM on any agent
\* until a later creation of it, restarts included.
DeleteMeansGone == \A n \in deleted : \A a \in Agent : vm[a][n] # "live"


Ready(a) == proc[a] = "serving" /\ started[a] = "yes"

\* An agent whose memory fits a child becomes ready, after every death, whatever
\* becomes of the start-up maintenance.
AgentBecomesReady == \A a \in Agent : CanStart(limits[a]) => []<>Ready(a)
=============================================================================

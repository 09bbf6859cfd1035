-------------------------- MODULE PlacementProofs --------------------------
(* Proofs about Placement: a name has one owner, an agent's names are its   *)
(* own, a delete is final and the VMs fit in the memory, for every number   *)
(* of agents.                                                               *)
EXTENDS Placement, FiniteSetTheorems, TLAPS

-----------------------------------------------------------------------------
(* The inductive invariant                                                  *)

\* Types, without the counters of slots and deaths.
Shape ==
    /\ proc \in [Agent -> {"down", "reset", "clamp", "reconcile", "serving"}]
    /\ entry \in [Agent -> [Name -> {"absent", "reserved", "active"}]]
    /\ vm \in [Agent -> [Name -> {"none", "live", "dead"}]]
    /\ pc \in [Request -> {"new", "status", "call", "wait", "gone", "done"}]
    /\ kind \in [Request -> Kind \cup {"none"}]
    /\ name \in [Request -> Name]
    /\ poll \in [Request -> 1 .. AgentCount + 1]
    /\ DOMAIN seen = Request /\ seen = [r \in Request |-> seen[r]]
    /\ place \in [Request -> Agent \cup {0}]
    /\ work \in [Request -> {"none", "run", "create", "exec", "remove", "untracked"}]
    /\ deleted \in SUBSET Name

\* A sandbox can only be on an agent that is alone in being healthy.
Sole(a) == Agent \ critical = {a}

\* A request has the statuses of the agents before the one it asks next.
Polled(r) == pc[r] \in {"new", "status"} => DOMAIN seen[r] = 1 .. poll[r] - 1

\* Whatever concerns a sandbox is placed on the sole healthy agent.
Placed(r) ==
    pc[r] \in {"call", "wait", "gone"} =>
        /\ place[r] \in Agent
        /\ kind[r] # "run" => Sole(place[r])

\* A handler is a placed request on a serving agent.
Working(r) ==
    work[r] # "none" =>
        /\ pc[r] \in {"wait", "gone"}
        /\ proc[place[r]] = "serving"
        /\ work[r] # "run" => kind[r] # "run"

\* A handler in the middle of a creation or removal.
Holds(r, a, n) == work[r] \in {"create", "remove"} /\ place[r] = a /\ name[r] = n

\* It has the entry of the name reserved; what is being created is not there and
\* not deleted.
Reserving(r) ==
    \A a \in Agent, n \in Name : Holds(r, a, n) =>
        /\ entry[a][n] = "reserved"
        /\ work[r] = "create" => vm[a][n] = "none" /\ n \notin deleted

\* It is alone with the name.
Alone == \A a \in Agent, n \in Name : \A q, r \in Request : Holds(q, a, n) /\ Holds(r, a, n) => q = r

\* A VM is on the sole healthy agent, and a process past its reset starts with none.
Owned(a) ==
    \A n \in Name :
        /\ vm[a][n] # "none" => Sole(a)
        /\ proc[a] \in {"clamp", "reconcile"} => vm[a][n] = "none"

RequestInv(r) == Polled(r) /\ Placed(r) /\ Working(r) /\ Reserving(r)

PlaceInv ==
    /\ Shape /\ Alone
    /\ \A r \in Request : RequestInv(r)
    /\ \A a \in Agent : Owned(a)
    /\ NamesAreOwn /\ DeleteMeansGone

-----------------------------------------------------------------------------
(* The initial states                                                       *)

LEMMA InitPlaceInv == Init => PlaceInv
<1> SUFFICES ASSUME Init PROVE PlaceInv
  OBVIOUS
<1>1. 1 \in 1 .. AgentCount + 1
  BY PlacementAssumption
<1>2. DOMAIN <<>> = 1 .. 1 - 1
  OBVIOUS
<1>3. Shape
  BY <1>1 DEF Init, Shape, Kind
<1>4. ASSUME NEW r \in Request PROVE RequestInv(r)
  BY <1>2 DEF Init, RequestInv, Polled, Placed, Working, Reserving, Holds
<1>5. ASSUME NEW a \in Agent PROVE Owned(a)
  BY DEF Init, Owned
<1>6. Alone /\ NamesAreOwn /\ DeleteMeansGone
  BY DEF Init, Alone, Holds, NamesAreOwn, DeleteMeansGone
<1>7. QED
  BY <1>3, <1>4, <1>5, <1>6 DEF PlaceInv

-----------------------------------------------------------------------------
(* Steps of the coordinator                                                 *)

\* A step of the coordinator for one request that no handler works for, or whose
\* caller leaves.
Coordinates(r) ==
    /\ UNCHANGED <<proc, critical, entry, vm, name, work, deleted>>
    /\ \A q \in Request \ {r} : /\ pc'[q] = pc[q] /\ kind'[q] = kind[q] /\ poll'[q] = poll[q]
                                /\ seen'[q] = seen[q] /\ place'[q] = place[q]
    /\ \/ work[r] = "none"
       \/ pc'[r] \in {"wait", "gone"} /\ kind'[r] = kind[r] /\ place'[r] = place[r]

LEMMA CoordinatesKeeps ==
    ASSUME PlaceInv, NEW r \in Request, Coordinates(r), Shape', Polled(r)', Placed(r)'
    PROVE  PlaceInv'
<1>1. ASSUME NEW q \in Request PROVE Polled(q)' /\ Placed(q)'
  <2>1. CASE q = r
    BY <2>1
  <2>2. CASE q # r
    BY <2>2 DEF PlaceInv, RequestInv, Coordinates, Polled, Placed, Sole
  <2>3. QED
    BY <2>1, <2>2
<1>2. \A q \in Request : work[q] # "none" => place'[q] = place[q] /\ kind'[q] = kind[q]
                                           /\ pc'[q] \in {"wait", "gone"}
  BY DEF Coordinates, PlaceInv, RequestInv, Working
<1>3. \A q \in Request : Working(q)'
  BY <1>2 DEF Coordinates, PlaceInv, RequestInv, Working
<1>4. \A q \in Request, a \in Agent, n \in Name : Holds(q, a, n)' <=> Holds(q, a, n)
  BY <1>2 DEF Coordinates, Holds
<1>5. \A q \in Request : Reserving(q)'
  BY <1>4 DEF Coordinates, PlaceInv, RequestInv, Reserving
<1>6. Alone'
  BY <1>4 DEF PlaceInv, Alone
<1>7. \A a \in Agent : Owned(a)'
  BY DEF Coordinates, PlaceInv, Owned, Sole
<1>8. NamesAreOwn' /\ DeleteMeansGone'
  BY DEF Coordinates, PlaceInv, NamesAreOwn, DeleteMeansGone
<1>9. QED
  BY <1>1, <1>3, <1>5, <1>6, <1>7, <1>8 DEF PlaceInv, RequestInv

\* A request that is over leaves its types and nothing else.
LEMMA ForgetShape ==
    ASSUME Shape, NEW r \in Request, Forget(r) PROVE
    /\ pc' \in [Request -> {"new", "status", "call", "wait", "gone", "done"}]
    /\ kind' \in [Request -> Kind \cup {"none"}]
    /\ poll' \in [Request -> 1 .. AgentCount + 1]
    /\ DOMAIN seen' = Request /\ seen' = [q \in Request |-> seen'[q]]
    /\ place' \in [Request -> Agent \cup {0}]
<1>1. 1 \in 1 .. AgentCount + 1
  BY PlacementAssumption
<1>2. pc' \in [Request -> {"new", "status", "call", "wait", "gone", "done"}]
  BY DEF Shape, Forget, Go
<1>3. DOMAIN seen' = Request /\ seen' = [q \in Request |-> seen'[q]]
  <2>1. DOMAIN seen = Request /\ seen = [q \in Request |-> seen[q]]
    BY DEF Shape
  <2>2. seen' = [seen EXCEPT ![r] = <<>>]
    BY DEF Forget
  <2>3. QED
    BY <2>1, <2>2
<1>4. kind' \in [Request -> Kind \cup {"none"}] /\ poll' \in [Request -> 1 .. AgentCount + 1]
      /\ place' \in [Request -> Agent \cup {0}]
  BY <1>1 DEF Shape, Forget
<1>5. QED
  BY <1>2, <1>3, <1>4

\* The coordinator gives up a request that is not with an agent.
LEMMA ForgetKeeps ==
    ASSUME PlaceInv, NEW r \in Request, pc[r] \in {"status", "call"}, Forget(r),
           UNCHANGED <<agentVars, name, work, deleted>>
    PROVE  PlaceInv'
<1>1. Shape'
  BY ForgetShape DEF PlaceInv, Shape, agentVars
<1>2. pc'[r] = "done"
  BY DEF Forget, Go, PlaceInv, Shape
<1>3. Coordinates(r)
  BY DEF Coordinates, Forget, Go, PlaceInv, RequestInv, Working, Shape, agentVars
<1>4. Polled(r)' /\ Placed(r)'
  BY <1>2 DEF Polled, Placed
<1>5. QED
  BY <1>1, <1>3, <1>4, CoordinatesKeeps

LEMMA SubmitKeeps ==
    ASSUME PlaceInv, NEW r \in Request, NEW k \in Kind, Submit(r, k) PROVE PlaceInv'
<1>1. Shape'
  BY DEF PlaceInv, Shape, Submit, Go, agentVars
<1>2. Coordinates(r)
  BY DEF Coordinates, Submit, Go, PlaceInv, RequestInv, Working, Shape, agentVars
<1>3. pc[r] = "new" /\ pc'[r] = "status" /\ seen'[r] = seen[r] /\ poll'[r] = poll[r]
  BY DEF PlaceInv, Shape, Submit, Go
<1>4. Polled(r)' /\ Placed(r)'
  BY <1>3 DEF PlaceInv, RequestInv, Polled, Placed
<1>5. QED
  BY <1>1, <1>2, <1>4, CoordinatesKeeps

LEMMA GiveUpKeeps == ASSUME PlaceInv, NEW r \in Request, GiveUp(r) PROVE PlaceInv'
<1>1. Shape'
  BY DEF PlaceInv, Shape, GiveUp, Go, agentVars
<1>2. pc[r] = "wait" /\ pc'[r] = "gone"
  BY DEF PlaceInv, Shape, GiveUp, Go
<1>3. Coordinates(r)
  BY <1>2 DEF Coordinates, GiveUp, Go, PlaceInv, Shape, agentVars
<1>4. Polled(r)' /\ Placed(r)'
  BY <1>2 DEF PlaceInv, RequestInv, GiveUp, Polled, Placed, Sole, agentVars
<1>5. QED
  BY <1>1, <1>3, <1>4, CoordinatesKeeps

\* One more status: the answers are those of the agents up to this one.
LEMMA StatusKeeps == ASSUME PlaceInv, NEW r \in Request, Status(r) PROVE PlaceInv'
<1> DEFINE answers == [a \in DOMAIN seen[r] \cup {poll[r]} |->
                          IF a = poll[r] THEN slots[a] - used[a] ELSE seen[r][a]]
<1>1. seen' = [seen EXCEPT ![r] = answers]
  BY DEF Status
<1>2. DOMAIN answers = DOMAIN seen[r] \cup {poll[r]}
  OBVIOUS
<1> HIDE DEF answers
<1>3. poll[r] \in Nat \ {0} /\ poll[r] + 1 \in 1 .. AgentCount + 1
  BY PlacementAssumption DEF Agent, Status
<1>4. Shape'
  <2>1. DOMAIN seen' = Request /\ seen' = [q \in Request |-> seen'[q]]
    BY <1>1 DEF PlaceInv, Shape
  <2>2. poll' \in [Request -> 1 .. AgentCount + 1]
    BY <1>3 DEF PlaceInv, Shape, Status
  <2>3. UNCHANGED <<proc, entry, vm, pc, kind, name, place, work, deleted>>
    BY DEF Status, agentVars
  <2>4. QED
    BY <2>1, <2>2, <2>3 DEF PlaceInv, Shape
<1>5. Coordinates(r)
  BY <1>1 DEF Coordinates, Status, PlaceInv, RequestInv, Working, Shape, agentVars
<1>6. DOMAIN seen'[r] = 1 .. poll'[r] - 1
  <2>1. DOMAIN seen[r] = 1 .. poll[r] - 1 /\ poll'[r] = poll[r] + 1
    BY DEF PlaceInv, Shape, RequestInv, Polled, Status
  <2>2. seen'[r] = answers
    BY <1>1 DEF PlaceInv, Shape
  <2>3. QED
    BY <1>2, <1>3, <2>1, <2>2
<1>7. Polled(r)' /\ Placed(r)'
  BY <1>6 DEF Status, Polled, Placed
<1>8. QED
  BY <1>4, <1>5, <1>7, CoordinatesKeeps

\* With every status at hand, a sandbox goes to the sole healthy agent.
LEMMA SelectKeeps == ASSUME PlaceInv, NEW r \in Request, Select(r) PROVE PlaceInv'
<1>1. DOMAIN seen[r] = Agent
  <2>1. DOMAIN seen[r] = 1 .. poll[r] - 1 /\ poll[r] \in 1 .. AgentCount + 1 /\ poll[r] \notin Agent
    BY DEF Select, PlaceInv, RequestInv, Polled, Shape
  <2>2. poll[r] = AgentCount + 1
    BY <2>1, PlacementAssumption DEF Agent
  <2>3. QED
    BY <2>1, <2>2, PlacementAssumption DEF Agent
<1>2. PICK a \in Endpoint(r) : place' = [place EXCEPT ![r] = a]
  BY DEF Select
<1>3. a \in Agent /\ (kind[r] # "run" => Sole(a))
  <2>1. CASE kind[r] = "run"
    BY <1>1, <1>2, <2>1 DEF Endpoint, SelectRunEndpoint
  <2>2. CASE kind[r] # "run"
    <3>1. a \in Agent \ critical /\ Cardinality(Agent \ critical) = 1
      BY <1>1, <1>2, <2>2 DEF Endpoint, SelectSandboxEndpoint
    <3>2. IsFiniteSet(Agent)
      BY FS_Interval, PlacementAssumption DEF Agent
    <3>3. IsFiniteSet(Agent \ critical)
      BY <3>2, FS_Subset
    <3>4. PICK b : Agent \ critical = {b}
      BY <3>1, <3>3, FS_Singleton
    <3>5. QED
      BY <3>1, <3>4 DEF Sole
  <2>3. QED
    BY <2>1, <2>2
<1>4. Shape'
  <2>1. DOMAIN seen' = Request /\ seen' = [q \in Request |-> seen'[q]]
    <3>1. DOMAIN seen = Request /\ seen = [q \in Request |-> seen[q]]
      BY DEF PlaceInv, Shape
    <3>2. seen' = [seen EXCEPT ![r] = <<>>]
      BY DEF Select
    <3>3. QED
      BY <3>1, <3>2
  <2>2. place' \in [Request -> Agent \cup {0}]
    BY <1>2, <1>3 DEF PlaceInv, Shape
  <2>3. pc' \in [Request -> {"new", "status", "call", "wait", "gone", "done"}]
    BY DEF PlaceInv, Shape, Select, Go
  <2>4. UNCHANGED <<proc, entry, vm, kind, name, poll, work, deleted>>
    BY DEF Select, agentVars
  <2>5. QED
    BY <2>1, <2>2, <2>3, <2>4 DEF PlaceInv, Shape
<1>5. Coordinates(r)
  BY <1>2 DEF Coordinates, Select, Go, PlaceInv, RequestInv, Working, Shape, agentVars
<1>6. pc'[r] = "call" /\ place'[r] = a /\ kind' = kind /\ critical' = critical
  BY <1>2 DEF Select, Go, PlaceInv, Shape, agentVars
<1>7. Polled(r)' /\ Placed(r)'
  BY <1>3, <1>6 DEF Polled, Placed, Sole
<1>8. QED
  BY <1>4, <1>5, <1>7, CoordinatesKeeps

-----------------------------------------------------------------------------
(* Steps of a handler                                                       *)

\* A handler's step leaves entry e and VM v of its name behind, and is at work w.
Leaves(r, w, e, v) ==
    /\ UNCHANGED <<proc, critical, name>>
    /\ work' = [work EXCEPT ![r] = w]
    /\ \A a \in Agent, n \in Name :
           /\ entry'[a][n] = IF a = place[r] /\ n = name[r] THEN e ELSE entry[a][n]
           /\ vm'[a][n] = IF a = place[r] /\ n = name[r] THEN v ELSE vm[a][n]
    /\ \A q \in Request \ {r} : /\ pc'[q] = pc[q] /\ kind'[q] = kind[q] /\ poll'[q] = poll[q]
                                /\ seen'[q] = seen[q] /\ place'[q] = place[q]
    /\ IF w = "none" THEN pc'[r] = "done"
       ELSE /\ pc[r] = "call" /\ pc'[r] = "wait" /\ kind'[r] = kind[r] /\ place'[r] = place[r]
            /\ w # "run" => kind[r] # "run"

\* Another handler is in the middle of a creation or removal of the name.
Contended(r) == \E q \in Request \ {r} : Holds(q, place[r], name[r])

\* What the step owes: a VM has an entry and a proper agent, nobody else's reservation
\* is touched, and what it reserves was free.
Owes(r, w, e, v) ==
    /\ place[r] \in Agent /\ proc[place[r]] = "serving"
    /\ v # "none" => e # "absent" /\ Sole(place[r])
    /\ Contended(r) => e = EntryOf(r) /\ v \in {vm[place[r]][name[r]], "none"}
    /\ w \in {"create", "remove"} => e = "reserved" /\ ~Contended(r) /\ (w = "create" => v = "none")

\* ... and a name it deletes is gone, one it creates is not deleted.
OwesDeleted(r, w, v) ==
    /\ \A n \in deleted' :
           \/ n \in deleted /\ (n = name[r] => v \in {vm[place[r]][name[r]], "none"} /\ w # "create")
           \/ /\ n = name[r] /\ v = "none" /\ w = "none" /\ Sole(place[r])
              /\ \A q \in Request \ {r} : ~(work[q] = "create" /\ name[q] = n)

LEMMA LeavesKeeps ==
    ASSUME PlaceInv, Shape', NEW r \in Request, NEW w, NEW e, NEW v,
           Leaves(r, w, e, v), Owes(r, w, e, v), OwesDeleted(r, w, v)
    PROVE  PlaceInv'
<1> DEFINE At(a, n) == a = place[r] /\ n = name[r]
<1>1. /\ work'[r] = w /\ \A q \in Request \ {r} : work'[q] = work[q]
      /\ name' = name /\ proc' = proc /\ critical' = critical
      /\ w # "none" => place'[r] = place[r]
      /\ \A q \in Request \ {r} : place'[q] = place[q]
  BY DEF Leaves, PlaceInv, Shape
<1>2. \A q \in Request : Polled(q)' /\ Placed(q)'
  BY <1>1 DEF Leaves, PlaceInv, RequestInv, Polled, Placed, Sole
<1>3. \A q \in Request : Working(q)'
  BY <1>1 DEF Leaves, Owes, PlaceInv, RequestInv, Working
<1>4. ASSUME NEW q \in Request \ {r}, NEW a \in Agent, NEW n \in Name
      PROVE  Holds(q, a, n)' <=> Holds(q, a, n)
  BY <1>1 DEF Holds
<1>5. ASSUME NEW a \in Agent, NEW n \in Name, Holds(r, a, n)'
      PROVE  w \in {"create", "remove"} /\ At(a, n) /\ ~Contended(r)
  BY <1>1, <1>5 DEF Holds, Owes
<1>6. ASSUME NEW q \in Request, NEW a \in Agent, NEW n \in Name, Holds(q, a, n)'
      PROVE  entry'[a][n] = "reserved" /\ (work'[q] = "create" => vm'[a][n] = "none")
  <2>1. CASE q = r
    BY <1>1, <1>5, <1>6, <2>1 DEF Leaves, Owes
  <2>2. CASE q # r /\ ~At(a, n)
    BY <1>1, <1>4, <1>6, <2>2 DEF Leaves, PlaceInv, RequestInv, Reserving
  <2>3. CASE q # r /\ At(a, n)
    <3>1. Holds(q, a, n) /\ Contended(r)
      BY <1>4, <1>6, <2>3 DEF Contended
    <3>2. entry[a][n] = "reserved" /\ (work[q] = "create" => vm[a][n] = "none")
      BY <3>1 DEF PlaceInv, RequestInv, Reserving
    <3>3. QED
      BY <1>1, <2>3, <3>1, <3>2 DEF Leaves, Owes, EntryOf
  <2>4. QED
    BY <2>1, <2>2, <2>3
<1>7. ASSUME NEW q \in Request, NEW a \in Agent, NEW n \in Name, Holds(q, a, n)', work'[q] = "create"
      PROVE  n \notin deleted'
  <2>1. CASE q = r
    BY <1>1, <1>5, <1>7, <2>1 DEF OwesDeleted
  <2>2. CASE q # r
    <3>1. n \notin deleted /\ work[q] = "create" /\ name[q] = n
      BY <1>1, <1>4, <1>7, <2>2 DEF PlaceInv, RequestInv, Reserving, Holds
    <3>2. QED
      BY <2>2, <3>1 DEF OwesDeleted
  <2>3. QED
    BY <2>1, <2>2
<1>8. \A q \in Request : Reserving(q)'
  BY <1>6, <1>7 DEF Reserving
<1>9. Alone'
  <2>1. ASSUME NEW a \in Agent, NEW n \in Name, NEW q \in Request \ {r}, Holds(q, a, n)', Holds(r, a, n)'
        PROVE  FALSE
    BY <1>4, <1>5, <2>1 DEF Contended
  <2>2. ASSUME NEW a \in Agent, NEW n \in Name, NEW p \in Request \ {r}, NEW q \in Request \ {r},
               Holds(p, a, n)', Holds(q, a, n)'
        PROVE  p = q
    BY <1>4, <2>2 DEF PlaceInv, Alone
  <2>3. QED
    BY <2>1, <2>2 DEF Alone
<1>10. \A a \in Agent : Owned(a)'
  BY <1>1 DEF Leaves, Owes, PlaceInv, Owned, Sole
<1>11. NamesAreOwn'
  BY <1>1 DEF Leaves, Owes, PlaceInv, NamesAreOwn
<1>12. DeleteMeansGone'
  <2>1. ASSUME NEW n \in deleted', NEW a \in Agent PROVE vm'[a][n] # "live"
    <3>1. CASE n \in deleted
      <4>1. vm[a][n] # "live" /\ n \in Name
        BY <3>1 DEF PlaceInv, DeleteMeansGone, Shape
      <4>2. n = name[r] => v \in {vm[place[r]][name[r]], "none"}
        BY <2>1, <3>1 DEF OwesDeleted
      <4>3. QED
        BY <4>1, <4>2 DEF Leaves
    <3>2. CASE n \notin deleted
      <4>1. n = name[r] /\ v = "none" /\ Sole(place[r])
        BY <2>1, <3>2 DEF OwesDeleted
      <4>2. a # place[r] => vm[a][n] = "none"
        BY <4>1 DEF PlaceInv, Owned, Sole, Shape
      <4>3. QED
        BY <4>1, <4>2 DEF Leaves, PlaceInv, Shape
    <3>3. QED
      BY <3>1, <3>2
  <2>2. QED
    BY <2>1 DEF DeleteMeansGone
<1>13. QED
  BY <1>2, <1>3, <1>8, <1>9, <1>10, <1>11, <1>12 DEF PlaceInv, RequestInv

\* Taking up a request keeps the types.
LEMMA HandleShape ==
    ASSUME Shape, NEW r \in Request, NEW w \in {"none", "run", "create", "exec", "remove", "untracked"}, Handle(r, w),
           entry' \in [Agent -> [Name -> {"absent", "reserved", "active"}]],
           vm' = vm, deleted' \in SUBSET Name
    PROVE  Shape'
BY DEF Shape, Handle, Go

\* So does ending it.
LEMMA EndsShape ==
    ASSUME Shape, NEW r \in Request, NEW w, Ends(r, w),
           entry' \in [Agent -> [Name -> {"absent", "reserved", "active"}]],
           vm' \in [Agent -> [Name -> {"none", "live", "dead"}]], deleted' \in SUBSET Name
    PROVE  Shape'
<1>1. work' \in [Request -> {"none", "run", "create", "exec", "remove", "untracked"}]
  BY DEF Shape, Ends
<1>2. Forget(r) /\ proc' = proc /\ name' = name
  BY DEF Ends
<1>3. QED
  BY <1>1, <1>2, ForgetShape DEF Shape

\* A request an agent takes up is a handler of it, ...
LEMMA HandleLeaves ==
    ASSUME PlaceInv, NEW r \in Request, NEW k, NEW w, NEW e, Arrived(r, k), Handle(r, w),
           w # "none", w # "run" => k # "run",
           entry' = [entry EXCEPT ![place[r]][name[r]] = e], vm' = vm
    PROVE  /\ Leaves(r, w, e, vm[place[r]][name[r]])
           /\ place[r] \in Agent /\ proc[place[r]] = "serving" /\ (k # "run" => Sole(place[r]))
<1>1. /\ pc[r] = "call" /\ kind[r] = k /\ proc[place[r]] = "serving"
      /\ place[r] \in Agent /\ (k # "run" => Sole(place[r]))
  BY DEF PlaceInv, RequestInv, Placed, Arrived
<1>2. \A a \in Agent, n \in Name :
          entry'[a][n] = IF a = place[r] /\ n = name[r] THEN e ELSE entry[a][n]
  BY <1>1 DEF PlaceInv, Shape
<1>3. pc'[r] = "wait" /\ \A q \in Request \ {r} : pc'[q] = pc[q]
  BY DEF PlaceInv, Shape, Handle, Go
<1>4. QED
  BY <1>1, <1>2, <1>3 DEF Leaves, Handle

\* ... until it ends.
LEMMA EndsLeaves ==
    ASSUME PlaceInv, NEW r \in Request, NEW w, NEW e, NEW v, Ends(r, w), w # "none",
           entry' = [entry EXCEPT ![place[r]][name[r]] = e],
           vm' = [vm EXCEPT ![place[r]][name[r]] = v]
    PROVE  /\ Leaves(r, "none", e, v)
           /\ place[r] \in Agent /\ name[r] \in Name /\ proc[place[r]] = "serving"
           /\ w # "run" => Sole(place[r])
<1>1. /\ work[r] = w /\ place[r] \in Agent /\ name[r] \in Name /\ proc[place[r]] = "serving"
      /\ w # "run" => Sole(place[r])
  BY DEF PlaceInv, Shape, RequestInv, Placed, Working, Ends
<1>2. \A a \in Agent, n \in Name :
          /\ entry'[a][n] = IF a = place[r] /\ n = name[r] THEN e ELSE entry[a][n]
          /\ vm'[a][n] = IF a = place[r] /\ n = name[r] THEN v ELSE vm[a][n]
  BY <1>1 DEF PlaceInv, Shape
<1>3. pc'[r] = "done" /\ \A q \in Request \ {r} : /\ pc'[q] = pc[q] /\ kind'[q] = kind[q]
                                                 /\ poll'[q] = poll[q] /\ seen'[q] = seen[q]
                                                 /\ place'[q] = place[q]
  BY DEF PlaceInv, Shape, Ends, Forget, Go
<1>4. QED
  BY <1>1, <1>2, <1>3 DEF Leaves, Ends

\* An entry or a VM that is not touched.
LEMMA Untouched ==
    ASSUME Shape, NEW r \in Request, place[r] \in Agent
    PROVE  /\ entry = [entry EXCEPT ![place[r]][name[r]] = EntryOf(r)]
           /\ vm = [vm EXCEPT ![place[r]][name[r]] = vm[place[r]][name[r]]]
BY DEF Shape, EntryOf

\* What an agent has of a name before a step of a handler.
LEMMA Before ==
    ASSUME PlaceInv, NEW r \in Request, place[r] \in Agent, proc[place[r]] = "serving"
    PROVE  /\ vm[place[r]][name[r]] # "none" => EntryOf(r) # "absent" /\ Sole(place[r])
           /\ Contended(r) => EntryOf(r) = "reserved"
           /\ name[r] \in Name
           /\ EntryOf(r) \in {"absent", "reserved", "active"}
           /\ vm[place[r]][name[r]] \in {"none", "live", "dead"}
<1>1. name[r] \in Name
  BY DEF PlaceInv, Shape
<1>2. EntryOf(r) \in {"absent", "reserved", "active"} /\ vm[place[r]][name[r]] \in {"none", "live", "dead"}
  BY <1>1 DEF PlaceInv, Shape, EntryOf
<1>3. vm[place[r]][name[r]] # "none" => EntryOf(r) # "absent" /\ Sole(place[r])
  BY <1>1 DEF PlaceInv, NamesAreOwn, Owned, EntryOf
<1>4. Contended(r) => EntryOf(r) = "reserved"
  BY <1>1 DEF PlaceInv, RequestInv, Reserving, Contended, EntryOf
<1>5. QED
  BY <1>1, <1>2, <1>3, <1>4

LEMMA BeginKeeps ==
    ASSUME PlaceInv, NEW r \in Request,
           BeginRun(r) \/ BeginCreate(r) \/ BeginExec(r) \/ BeginRemove(r) \/ BeginUntracked(r)
    PROVE  PlaceInv'
<1> DEFINE v == vm[place[r]][name[r]]
<1>1. place[r] \in Agent /\ proc[place[r]] = "serving" /\ vm' = vm /\ Shape
  BY DEF PlaceInv, RequestInv, Placed, Arrived, BeginRun, BeginCreate, BeginExec, BeginRemove,
     BeginUntracked
<1>2. /\ v # "none" => EntryOf(r) # "absent" /\ Sole(place[r])
      /\ Contended(r) => EntryOf(r) = "reserved"
      /\ name[r] \in Name /\ deleted \in SUBSET Name
  BY <1>1, Before DEF Shape
<1>3. CASE BeginRun(r) \/ BeginExec(r) \/ BeginUntracked(r)
  <2>1. PICK w \in {"run", "exec", "untracked"} :
            \E k \in Kind : Arrived(r, k) /\ Handle(r, w) /\ (w # "run" => k # "run")
    BY <1>3 DEF BeginRun, BeginExec, BeginUntracked, Kind
  <2>2. entry' = entry /\ deleted' = deleted
    BY <1>3 DEF BeginRun, BeginExec, BeginUntracked
  <2>3. Shape'
    BY <1>1, <1>2, <2>1, <2>2, HandleShape DEF Shape
  <2>4. entry' = [entry EXCEPT ![place[r]][name[r]] = EntryOf(r)]
    BY <1>1, <2>2, Untouched
  <2>5. Leaves(r, w, EntryOf(r), v)
    BY <1>1, <2>1, <2>4, HandleLeaves
  <2>6. Owes(r, w, EntryOf(r), v) /\ OwesDeleted(r, w, v)
    BY <1>1, <1>2, <2>1, <2>2 DEF Owes, OwesDeleted
  <2>7. QED
    BY <2>3, <2>5, <2>6, LeavesKeeps
<1>4. CASE BeginCreate(r)
  <2>1. /\ Arrived(r, "create") /\ Handle(r, "create") /\ EntryOf(r) = "absent"
        /\ deleted' = deleted \ {name[r]}
        /\ entry' = [entry EXCEPT ![place[r]][name[r]] = "reserved"]
    BY <1>4 DEF BeginCreate, SetEntry
  <2>2. Shape'
    <3>1. entry' \in [Agent -> [Name -> {"absent", "reserved", "active"}]]
      BY <1>1, <1>2, <2>1 DEF Shape
    <3>2. QED
      BY <1>1, <1>2, <2>1, <3>1, HandleShape
  <2>3. Leaves(r, "create", "reserved", v)
    BY <1>1, <2>1, HandleLeaves
  <2>4. Owes(r, "create", "reserved", v) /\ OwesDeleted(r, "create", v)
    BY <1>1, <1>2, <2>1 DEF Owes, OwesDeleted
  <2>5. QED
    BY <2>2, <2>3, <2>4, LeavesKeeps
<1>5. CASE BeginRemove(r)
  <2>1. /\ Arrived(r, "delete") /\ Handle(r, "remove") /\ EntryOf(r) = "active"
        /\ deleted' = deleted
        /\ entry' = [entry EXCEPT ![place[r]][name[r]] = "reserved"]
    BY <1>5 DEF BeginRemove, SetEntry
  <2>2. Shape'
    <3>1. entry' \in [Agent -> [Name -> {"absent", "reserved", "active"}]]
      BY <1>1, <1>2, <2>1 DEF Shape
    <3>2. QED
      BY <1>1, <1>2, <2>1, <3>1, HandleShape
  <2>3. Leaves(r, "remove", "reserved", v)
    BY <1>1, <2>1, HandleLeaves
  <2>4. Owes(r, "remove", "reserved", v) /\ OwesDeleted(r, "remove", v)
    BY <1>1, <1>2, <2>1 DEF Owes, OwesDeleted
  <2>5. QED
    BY <2>2, <2>3, <2>4, LeavesKeeps
<1>6. QED
  BY <1>3, <1>4, <1>5

\* A handler that leaves a VM only with an entry, and touches neither if the name
\* is reserved by another.
LEMMA EndKeeps ==
    ASSUME PlaceInv, NEW r \in Request, NEW w, NEW e, NEW v, Ends(r, w), w # "none",
           e \in {"absent", "reserved", "active"}, v \in {"none", "live", "dead"},
           entry' = [entry EXCEPT ![place[r]][name[r]] = e],
           vm' = [vm EXCEPT ![place[r]][name[r]] = v],
           v # "none" => e # "absent" /\ Sole(place[r]),
           Contended(r) => e = EntryOf(r) /\ v \in {vm[place[r]][name[r]], "none"},
           deleted' \in SUBSET Name, OwesDeleted(r, "none", v)
    PROVE  PlaceInv'
<1>1. Leaves(r, "none", e, v) /\ place[r] \in Agent /\ name[r] \in Name /\ proc[place[r]] = "serving"
  BY EndsLeaves
<1>2. Owes(r, "none", e, v)
  BY <1>1 DEF Owes
<1>3. /\ entry' \in [Agent -> [Name -> {"absent", "reserved", "active"}]]
      /\ vm' \in [Agent -> [Name -> {"none", "live", "dead"}]]
  BY <1>1 DEF PlaceInv, Shape
<1>4. Shape'
  BY <1>3, EndsShape DEF PlaceInv
<1>5. QED
  BY <1>1, <1>2, <1>4, LeavesKeeps

\* Where a handler is that is about to end.
LEMMA AtEnd ==
    ASSUME PlaceInv, NEW r \in Request, NEW w, Ends(r, w), w # "none"
    PROVE  /\ place[r] \in Agent /\ proc[place[r]] = "serving" /\ work[r] = w
           /\ w # "run" => Sole(place[r])
           /\ w \in {"create", "remove"} => ~Contended(r)
           /\ w = "create" => vm[place[r]][name[r]] = "none" /\ name[r] \notin deleted
<1>1. /\ place[r] \in Agent /\ proc[place[r]] = "serving" /\ work[r] = w /\ name[r] \in Name
      /\ w # "run" => Sole(place[r])
  BY DEF PlaceInv, Shape, RequestInv, Placed, Working, Ends
<1>2. w \in {"create", "remove"} => Holds(r, place[r], name[r])
  BY <1>1 DEF Holds
<1>3. w \in {"create", "remove"} => ~Contended(r)
  BY <1>1, <1>2 DEF PlaceInv, Alone, Contended
<1>4. w = "create" => vm[place[r]][name[r]] = "none" /\ name[r] \notin deleted
  BY <1>1, <1>2 DEF PlaceInv, RequestInv, Reserving
<1>5. QED
  BY <1>1, <1>3, <1>4

\* A success that is recorded is one.
LEMMA RecordOwes ==
    ASSUME NEW r \in Request, name[r] \in Name, deleted \in SUBSET Name, Record(r), Sole(place[r])
    PROVE  OwesDeleted(r, "none", "none") /\ deleted' \in SUBSET Name
<1> DEFINE creating == {q \in Request : work[q] = "create" /\ name[q] = name[r]}
<1>1. deleted' = deleted \/ (deleted' = deleted \cup {name[r]} /\ creating = {})
  BY DEF Record
<1>2. CASE deleted' = deleted
  BY <1>2 DEF OwesDeleted
<1>3. CASE deleted' = deleted \cup {name[r]} /\ creating = {}
  BY <1>3 DEF OwesDeleted
<1>4. QED
  BY <1>1, <1>2, <1>3

LEMMA HandlerEndKeeps ==
    ASSUME PlaceInv, NEW r \in Request,
           \/ EndRun(r) \/ EndExec(r) \/ EndCreate(r) \/ CreateError(r) \/ CreateCleanupError(r)
           \/ EndRemove(r) \/ RemoveError(r) \/ EndUntracked(r) \/ UntrackedError(r)
    PROVE  PlaceInv'
<1> DEFINE v == vm[place[r]][name[r]]
           Ending(w) == /\ place[r] \in Agent /\ proc[place[r]] = "serving" /\ work[r] = w
                        /\ w # "run" => Sole(place[r])
                        /\ w \in {"create", "remove"} => ~Contended(r)
                        /\ w = "create" => v = "none" /\ name[r] \notin deleted
<1>1. ASSUME NEW w, Ends(r, w), w # "none" PROVE Ending(w)
  BY <1>1, AtEnd
<1>2. Shape /\ deleted \in SUBSET Name
  BY DEF PlaceInv, Shape
<1>3. ASSUME place[r] \in Agent, proc[place[r]] = "serving"
      PROVE  /\ v # "none" => EntryOf(r) # "absent" /\ Sole(place[r])
             /\ Contended(r) => EntryOf(r) = "reserved"
             /\ name[r] \in Name /\ EntryOf(r) \in {"absent", "reserved", "active"}
             /\ v \in {"none", "live", "dead"}
             /\ entry = [entry EXCEPT ![place[r]][name[r]] = EntryOf(r)]
             /\ vm = [vm EXCEPT ![place[r]][name[r]] = v]
  BY <1>2, <1>3, Before, Untouched
<1> HIDE DEF v
<1>4. CASE EndRun(r) \/ EndExec(r)
  <2>1. PICK w \in {"run", "exec"} : Ends(r, w)
    BY <1>4 DEF EndRun, EndExec
  <2>2. entry' = entry /\ vm' = vm /\ deleted' = deleted
    BY <1>4 DEF EndRun, EndExec
  <2>3. Ending(w)
    BY <1>1, <2>1
  <2>4. OwesDeleted(r, "none", v)
    BY <2>2 DEF OwesDeleted, v
  <2>5. QED
    BY <1>2, <1>3, <2>1, <2>2, <2>3, <2>4, EndKeeps DEF v
<1>5. CASE EndCreate(r)
  <2>1. /\ Ends(r, "create") /\ deleted' = deleted
        /\ entry' = [entry EXCEPT ![place[r]][name[r]] = "active"]
        /\ vm' = [vm EXCEPT ![place[r]][name[r]] = "live"]
    BY <1>5 DEF EndCreate, SetVM, SetEntry
  <2>2. Ending("create")
    BY <1>1, <2>1
  <2>3. OwesDeleted(r, "none", "live")
    BY <2>1, <2>2 DEF OwesDeleted
  <2>4. QED
    BY <1>2, <2>1, <2>2, <2>3, EndKeeps
<1>6. CASE CreateError(r)
  <2>1. /\ Ends(r, "create") /\ deleted' = deleted
        /\ entry' = [entry EXCEPT ![place[r]][name[r]] = "absent"]
        /\ vm' = [vm EXCEPT ![place[r]][name[r]] = "none"] \/ vm' = vm
    BY <1>6 DEF CreateError, MaybeRemoveVM, SetVM, SetEntry
  <2>2. Ending("create")
    BY <1>1, <2>1
  <2>3. vm' = [vm EXCEPT ![place[r]][name[r]] = "none"]
    BY <1>3, <2>1, <2>2
  <2>4. OwesDeleted(r, "none", "none")
    BY <2>1, <2>2 DEF OwesDeleted
  <2>5. QED
    BY <1>2, <2>1, <2>2, <2>3, <2>4, EndKeeps
<1>7. CASE CreateCleanupError(r)
  <2>1. /\ Ends(r, "create") /\ deleted' = deleted
        /\ entry' = [entry EXCEPT ![place[r]][name[r]] = "active"]
    BY <1>7 DEF CreateCleanupError, SetEntry
  <2>2. PICK u \in {"none", "live"} : vm' = [vm EXCEPT ![place[r]][name[r]] = u]
    BY <1>7 DEF CreateCleanupError, SetVM
  <2>3. Ending("create")
    BY <1>1, <2>1
  <2>4. OwesDeleted(r, "none", u)
    BY <2>1, <2>3 DEF OwesDeleted
  <2>5. QED
    BY <1>2, <2>1, <2>2, <2>3, <2>4, EndKeeps
<1>8. CASE EndRemove(r)
  <2>1. /\ Ends(r, "remove") /\ Record(r)
        /\ entry' = [entry EXCEPT ![place[r]][name[r]] = "absent"]
        /\ vm' = [vm EXCEPT ![place[r]][name[r]] = "none"]
    BY <1>8 DEF EndRemove, SetVM, SetEntry
  <2>2. Ending("remove")
    BY <1>1, <2>1
  <2>3. OwesDeleted(r, "none", "none") /\ deleted' \in SUBSET Name
    BY <1>2, <1>3, <2>1, <2>2, RecordOwes
  <2>4. QED
    BY <2>1, <2>2, <2>3, EndKeeps
<1>9. CASE RemoveError(r)
  <2>1. /\ Ends(r, "remove") /\ deleted' = deleted
        /\ entry' = [entry EXCEPT ![place[r]][name[r]] = "active"]
        /\ vm' = [vm EXCEPT ![place[r]][name[r]] = "none"] \/ vm' = vm
    BY <1>9 DEF RemoveError, MaybeRemoveVM, SetVM, SetEntry
  <2>2. Ending("remove")
    BY <1>1, <2>1
  <2>3. PICK u \in {"none", v} : vm' = [vm EXCEPT ![place[r]][name[r]] = u]
    BY <1>3, <2>1, <2>2
  <2>4. OwesDeleted(r, "none", u)
    BY <2>1, <2>3 DEF OwesDeleted, v
  <2>5. QED
    BY <1>2, <1>3, <2>1, <2>2, <2>3, <2>4, EndKeeps
<1>10. CASE EndUntracked(r)
  <2>1. /\ Ends(r, "untracked") /\ Record(r) /\ entry' = entry
        /\ vm' = [vm EXCEPT ![place[r]][name[r]] = "none"]
    BY <1>10 DEF EndUntracked, SetVM
  <2>2. Ending("untracked")
    BY <1>1, <2>1
  <2>3. OwesDeleted(r, "none", "none") /\ deleted' \in SUBSET Name
    BY <1>2, <1>3, <2>1, <2>2, RecordOwes
  <2>4. QED
    BY <1>3, <2>1, <2>2, <2>3, EndKeeps
<1>11. CASE UntrackedError(r)
  <2>1. /\ Ends(r, "untracked") /\ entry' = entry /\ deleted' = deleted
        /\ vm' = [vm EXCEPT ![place[r]][name[r]] = "none"] \/ vm' = vm
    BY <1>11 DEF UntrackedError, MaybeRemoveVM, SetVM
  <2>2. Ending("untracked")
    BY <1>1, <2>1
  <2>3. PICK u \in {"none", v} : vm' = [vm EXCEPT ![place[r]][name[r]] = u]
    BY <1>3, <2>1, <2>2
  <2>4. OwesDeleted(r, "none", u)
    BY <2>1, <2>3 DEF OwesDeleted, v
  <2>5. QED
    BY <1>2, <1>3, <2>1, <2>2, <2>3, <2>4, EndKeeps DEF v
<1>12. QED
  BY <1>4, <1>5, <1>6, <1>7, <1>8, <1>9, <1>10, <1>11

-----------------------------------------------------------------------------
(* Steps of an agent                                                        *)

\* Starting an agent, and what becomes of its VMs by themselves: VMs only go, a reset
\* agent has none and a serving one goes on.
Lives(a) ==
    /\ UNCHANGED <<critical, entry, requestVars, deleted>>
    /\ \A b \in Agent \ {a} : proc'[b] = proc[b] /\ vm'[b] = vm[b]
    /\ \A n \in Name : vm'[a][n] # vm[a][n] => vm[a][n] # "none" /\ vm'[a][n] # "live"
    /\ proc[a] = "serving" => proc'[a] = "serving"
    /\ proc'[a] = "serving" => proc[a] \in {"reconcile", "serving"}
    /\ proc'[a] \in {"clamp", "reconcile"} =>
           \/ proc[a] \in {"clamp", "reconcile"}
           \/ \A n \in Name : vm'[a][n] = "none"

LEMMA LivesKeeps == ASSUME PlaceInv, Shape', NEW a \in Agent, Lives(a) PROVE PlaceInv'
<1>1. /\ \A b \in Agent, n \in Name : vm'[b][n] # vm[b][n] => vm[b][n] # "none" /\ vm'[b][n] # "live"
      /\ \A b \in Agent : proc[b] = "serving" => proc'[b] = "serving"
      /\ UNCHANGED <<critical, entry, pc, kind, name, poll, seen, place, work, deleted>>
  BY DEF Lives, requestVars
<1>2. ASSUME NEW r \in Request PROVE RequestInv(r)'
  <2>1. RequestInv(r)
    BY DEF PlaceInv
  <2>2. Polled(r)' /\ Placed(r)'
    BY <1>1, <2>1 DEF RequestInv, Polled, Placed, Sole
  <2>3. Working(r)'
    BY <1>1, <2>1 DEF RequestInv, Working, Placed
  <2>4. Reserving(r)'
    BY <1>1, <2>1 DEF RequestInv, Reserving, Holds
  <2>5. QED
    BY <2>2, <2>3, <2>4 DEF RequestInv
<1>3. Alone'
  BY <1>1 DEF PlaceInv, Alone, Holds
<1>4. ASSUME NEW b \in Agent PROVE Owned(b)'
  <2>1. Owned(b)
    BY DEF PlaceInv
  <2>2. CASE b = a
    BY <1>1, <2>1, <2>2 DEF Lives, Owned, Sole
  <2>3. CASE b # a
    BY <1>1, <2>1, <2>3 DEF Lives, Owned, Sole
  <2>4. QED
    BY <2>2, <2>3
<1>5. NamesAreOwn'
  <2>1. ASSUME NEW b \in Agent, NEW n \in Name, proc'[b] = "serving", vm'[b][n] # "none"
        PROVE  entry'[b][n] # "absent"
    <3>1. vm[b][n] # "none" /\ proc[b] \in {"reconcile", "serving"}
      BY <1>1, <2>1 DEF Lives
    <3>2. proc[b] = "serving"
      BY <3>1 DEF PlaceInv, Owned
    <3>3. QED
      BY <1>1, <3>1, <3>2 DEF PlaceInv, NamesAreOwn
  <2>2. QED
    BY <2>1 DEF NamesAreOwn
<1>6. DeleteMeansGone'
  BY <1>1 DEF PlaceInv, DeleteMeansGone, Shape
<1>7. QED
  BY <1>2, <1>3, <1>4, <1>5, <1>6 DEF PlaceInv

LEMMA BootKeeps ==
    ASSUME PlaceInv, NEW a \in Agent, Boot(a) \/ ResetError(a) PROVE PlaceInv'
<1>1. CASE Start(a) \/ ClampSlots(a) \/ ClampError(a) \/ Serve(a)
  <2>1. Shape'
    <3>1. CASE Start(a)
      BY <3>1 DEF PlaceInv, Shape, Start, Become, requestVars
    <3>2. CASE ClampSlots(a)
      BY <3>2 DEF PlaceInv, Shape, ClampSlots, Become, requestVars
    <3>3. CASE ClampError(a)
      BY <3>3 DEF PlaceInv, Shape, ClampError, Become, requestVars
    <3>4. CASE Serve(a)
      BY <3>4 DEF PlaceInv, Shape, Serve, Become, requestVars
    <3>5. QED
      BY <1>1, <3>1, <3>2, <3>3, <3>4
  <2>2. Lives(a)
    BY <1>1 DEF PlaceInv, Shape, Lives, Start, ClampSlots, ClampError, Serve, Become
  <2>3. QED
    BY <2>1, <2>2, LivesKeeps
<1>2. CASE Reset(a)
  <2>1. Shape'
    BY <1>2 DEF PlaceInv, Shape, Reset, Become, requestVars
  <2>2. Lives(a)
    BY <1>2 DEF PlaceInv, Shape, Lives, Reset, Become
  <2>3. QED
    BY <2>1, <2>2, LivesKeeps
<1>3. CASE ResetError(a)
  <2>1. PICK done \in SUBSET Name :
            vm' = [vm EXCEPT ![a] = [n \in Name |-> IF n \in done THEN "none" ELSE vm[a][n]]]
    BY <1>3 DEF ResetError
  <2>2. Shape'
    BY <1>3, <2>1 DEF PlaceInv, Shape, ResetError, Become, requestVars
  <2>3. Lives(a)
    BY <1>3, <2>1 DEF PlaceInv, Shape, Lives, ResetError, Become
  <2>4. QED
    BY <2>2, <2>3, LivesKeeps
<1>4. CASE Collected(a)
  <2>1. Shape' /\ Lives(a)
    BY <1>4 DEF PlaceInv, Shape, Lives, Collected, requestVars
  <2>2. QED
    BY <2>1, LivesKeeps
<1>5. QED
  BY <1>1, <1>2, <1>3, <1>4 DEF Boot

LEMMA VMExitKeeps ==
    ASSUME PlaceInv, NEW a \in Agent, NEW n \in Name, VMExit(a, n) PROVE PlaceInv'
<1>1. Shape'
  BY DEF PlaceInv, Shape, VMExit, requestVars
<1>2. Lives(a)
  BY DEF PlaceInv, Shape, Lives, VMExit
<1>3. QED
  BY <1>1, <1>2, LivesKeeps

\* An agent dies and its requests with it; what is left of its VMs is dead.
LEMMA DieKeeps == ASSUME PlaceInv, NEW a \in Agent, Die(a) PROVE PlaceInv'
<1>1. /\ proc'[a] = "down" /\ \A b \in Agent \ {a} : proc'[b] = proc[b] /\ entry'[b] = entry[b] /\ vm'[b] = vm[b]
      /\ \A n \in Name : entry'[a][n] = "absent" /\ vm'[a][n] # "live" /\ (vm[a][n] = "none" => vm'[a][n] = "none")
      /\ UNCHANGED <<critical, name, seen, deleted>>
  BY DEF PlaceInv, Shape, Die, Become
<1>2. Shape'
  <2>1. 1 \in 1 .. AgentCount + 1
    BY PlacementAssumption
  <2>2. /\ pc' \in [Request -> {"new", "status", "call", "wait", "gone", "done"}]
        /\ kind' \in [Request -> Kind \cup {"none"}]
        /\ place' \in [Request -> Agent \cup {0}]
        /\ work' \in [Request -> {"none", "run", "create", "exec", "remove", "untracked"}]
    BY DEF PlaceInv, Shape, Die
  <2>3. poll' \in [Request -> 1 .. AgentCount + 1]
    BY <2>1 DEF PlaceInv, Shape, Die
  <2>4. /\ proc' \in [Agent -> {"down", "reset", "clamp", "reconcile", "serving"}]
        /\ entry' \in [Agent -> [Name -> {"absent", "reserved", "active"}]]
        /\ vm' \in [Agent -> [Name -> {"none", "live", "dead"}]]
    BY DEF PlaceInv, Shape, Die, Become
  <2>5. QED
    BY <1>1, <2>2, <2>3, <2>4 DEF PlaceInv, Shape
<1>3. /\ \A r \in On(a) : work'[r] = "none" /\ pc'[r] = "done"
      /\ \A r \in Request \ On(a) : /\ work'[r] = work[r] /\ pc'[r] = pc[r] /\ kind'[r] = kind[r]
                                    /\ poll'[r] = poll[r] /\ place'[r] = place[r]
  BY DEF Die, On
<1>4. ASSUME NEW r \in Request, work'[r] # "none"
      PROVE  r \notin On(a) /\ place[r] \in Agent \ {a} /\ work'[r] = work[r] /\ place'[r] = place[r]
  <2>1. r \notin On(a) /\ work[r] # "none"
    BY <1>3, <1>4
  <2>2. pc[r] \in {"wait", "gone"} /\ place[r] \in Agent
    BY <2>1 DEF PlaceInv, RequestInv, Working, Placed
  <2>3. QED
    BY <1>3, <2>1, <2>2 DEF On
<1>5. ASSUME NEW r \in Request PROVE Polled(r)' /\ Placed(r)'
  BY <1>1, <1>3 DEF PlaceInv, RequestInv, Polled, Placed, Sole
<1>6. ASSUME NEW r \in Request PROVE Working(r)'
  BY <1>1, <1>3, <1>4 DEF PlaceInv, RequestInv, Working
<1>7. ASSUME NEW r \in Request, NEW b \in Agent, NEW n \in Name, Holds(r, b, n)'
      PROVE  b # a /\ Holds(r, b, n) /\ work'[r] = work[r]
  BY <1>1, <1>4, <1>7 DEF Holds
<1>8. ASSUME NEW r \in Request PROVE Reserving(r)'
  BY <1>1, <1>7 DEF PlaceInv, RequestInv, Reserving
<1>9. Alone'
  BY <1>7 DEF PlaceInv, Alone
<1>10. ASSUME NEW b \in Agent PROVE Owned(b)'
  BY <1>1 DEF PlaceInv, Owned, Sole
<1>11. NamesAreOwn'
  BY <1>1 DEF PlaceInv, NamesAreOwn
<1>12. DeleteMeansGone'
  <2>1. ASSUME NEW n \in deleted, NEW b \in Agent PROVE vm'[b][n] # "live"
    BY <1>1 DEF PlaceInv, DeleteMeansGone, Shape
  <2>2. QED
    BY <1>1, <2>1 DEF DeleteMeansGone
<1>13. QED
  BY <1>2, <1>5, <1>6, <1>8, <1>9, <1>10, <1>11, <1>12 DEF PlaceInv, RequestInv

-----------------------------------------------------------------------------
(* The theorems                                                             *)

\* Every step of the coordinator, of a handler and of an agent keeps the invariant.
LEMMA NextPlaceInv == ASSUME PlaceInv, [Next]_vars PROVE PlaceInv'
<1>1. ASSUME NEW r \in Request, NEW k \in Kind, Submit(r, k) PROVE PlaceInv'
  BY <1>1, SubmitKeeps
<1>2. ASSUME NEW r \in Request, Coordinate(r) PROVE PlaceInv'
  <2>1. CASE Status(r)
    BY <2>1, StatusKeeps
  <2>2. CASE Select(r)
    BY <2>2, SelectKeeps
  <2>3. CASE StatusError(r) \/ SelectError(r) \/ CallError(r)
    BY <2>3, ForgetKeeps DEF StatusError, SelectError, CallError
  <2>4. QED
    BY <1>2, <2>1, <2>2, <2>3 DEF Coordinate
<1>3. ASSUME NEW r \in Request, Handler(r) PROVE PlaceInv'
  <2>1. CASE Refuse(r)
    BY <2>1, ForgetKeeps DEF Refuse, Arrived
  <2>2. QED
    BY <1>3, <2>1, BeginKeeps, HandlerEndKeeps DEF Handler
<1>4. ASSUME NEW r \in Request, NetworkError(r) \/ GiveUp(r) PROVE PlaceInv'
  <2>1. CASE NetworkError(r)
    BY <2>1, ForgetKeeps DEF NetworkError
  <2>2. QED
    BY <1>4, <2>1, GiveUpKeeps
<1>5. ASSUME NEW a \in Agent, Boot(a) \/ ResetError(a) \/ Die(a) PROVE PlaceInv'
  BY <1>5, BootKeeps, DieKeeps
<1>6. ASSUME NEW a \in Agent, NEW n \in Name, VMExit(a, n) PROVE PlaceInv'
  BY <1>6, VMExitKeeps
<1>7. CASE UNCHANGED vars
  <2>1. UNCHANGED <<proc, critical, entry, vm, pc, kind, name, poll, seen, place, work, deleted>>
    BY <1>7 DEF vars, agentVars, requestVars
  <2>2. Shape' /\ Alone'
    BY <2>1 DEF PlaceInv, Shape, Alone, Holds
  <2>3. \A r \in Request : RequestInv(r)'
    BY <2>1 DEF PlaceInv, RequestInv, Polled, Placed, Working, Reserving, Holds, Sole
  <2>4. (\A a \in Agent : Owned(a)') /\ NamesAreOwn' /\ DeleteMeansGone'
    BY <2>1 DEF PlaceInv, Owned, Sole, NamesAreOwn, DeleteMeansGone
  <2>5. QED
    BY <2>2, <2>3, <2>4 DEF PlaceInv
<1>8. QED
  BY <1>1, <1>2, <1>3, <1>4, <1>5, <1>6, <1>7 DEF Next, Ended

\* The invariant holds: every request is placed by complete statuses, handlers are on
\* serving agents and alone with the name they reserve.
THEOREM PlaceInvHolds == Spec => []PlaceInv
<1>1. PlaceInv /\ [Next]_vars => PlaceInv'
  BY NextPlaceInv
<1>2. QED
  BY InitPlaceInv, <1>1, PTL DEF Spec

\* However many agents the coordinator has, no name has VMs on two of them: the
\* selection only ever leads to the one healthy agent, since it has every status.
THEOREM OneOwnerHolds == Spec => []OneOwner
<1>1. ASSUME PlaceInv, NEW n \in Name, NEW a \in Agent, NEW b \in Agent,
             vm[a][n] # "none", vm[b][n] # "none"
      PROVE  a = b
  <2>1. Sole(a) /\ Sole(b)
    BY <1>1 DEF PlaceInv, Owned
  <2>2. QED
    BY <2>1 DEF Sole
<1>2. PlaceInv => OneOwner
  BY <1>1 DEF OneOwner
<1>3. QED
  BY PlaceInvHolds, <1>2, PTL

\* A serving agent has no files of a VM its map does not know, across any number of
\* restarts.
THEOREM NamesAreOwnHolds == Spec => []NamesAreOwn
<1>1. PlaceInv => NamesAreOwn
  BY DEF PlaceInv
<1>2. QED
  BY PlaceInvHolds, <1>1, PTL

\* A name whose deletion was answered with success has no VM anywhere until the
\* next creation of it.
THEOREM DeleteMeansGoneHolds == Spec => []DeleteMeansGone
<1>1. PlaceInv => DeleteMeansGone
  BY DEF PlaceInv
<1>2. QED
  BY PlaceInvHolds, <1>1, PTL

-----------------------------------------------------------------------------
(* The memory limit and the slots it allows                                 *)

\* A set of positions has a first one: the intervals up to them are well founded
\* by inclusion.
LEMMA FirstPosition ==
    ASSUME NEW n \in Nat, NEW S \in SUBSET (1 .. n), S # {}
    PROVE  \E i \in S : \A j \in S : i =< j
<1> DEFINE upTo == {1 .. i : i \in S}
           R == StrictSubsetOrdering(1 .. n)
<1>1. IsFiniteSet(1 .. n)
  BY FS_Interval
<1>2. IsWellFoundedOn(R, SUBSET (1 .. n))
  BY <1>1, FS_StrictSubsetOrderingWellFounded, FS_FiniteSubsetsOfFinite
<1>3. upTo \subseteq SUBSET (1 .. n) /\ upTo # {}
  <2>1. \A i \in S : 1 .. i \subseteq 1 .. n
    OBVIOUS
  <2>2. upTo # {}
    OBVIOUS
  <2>3. QED
    BY <2>1, <2>2
<1>4. PICK x \in upTo : \A y \in upTo : ~(<<y, x>> \in R)
  <2> HIDE DEF upTo, R
  <2>1. QED
    BY <1>2, <1>3, WFMin
<1>5. PICK i \in S : x = 1 .. i
  BY <1>4
<1>6. ASSUME NEW j \in S, j < i PROVE FALSE
  <2>1. 1 .. j \in upTo /\ 1 .. j \subseteq x /\ 1 .. j # x
    <3>1. i \in 1 .. i /\ i \notin 1 .. j
      BY <1>6
    <3>2. QED
      BY <1>5, <1>6, <3>1
  <2>2. <<1 .. j, x>> \in R
    BY <1>3, <1>4, <2>1 DEF StrictSubsetOrdering
  <2>3. QED
    BY <1>4, <2>1, <2>2
<1>7. QED
  BY <1>6

\* The limit of an agent is a number.
LEMMA LimitType ==
    ASSUME NEW files \in Seq(Int) PROVE MemoryLimit(files) \in Int
<1> DEFINE present == {i \in DOMAIN files : files[i] # Missing}
           first == CHOOSE i \in present : \A j \in present : i =< j
<1>1. Len(files) \in Nat /\ DOMAIN files = 1 .. Len(files) /\ \A i \in DOMAIN files : files[i] \in Int
  OBVIOUS
<1>2. CASE present = {}
  BY <1>2 DEF MemoryLimit, Unlimited
<1>3. CASE present # {}
  <2>1. \E i \in present : \A j \in present : i =< j
    BY <1>1, <1>3, FirstPosition
  <2>2. first \in present
    BY <2>1
  <2>3. files[first] \in Int
    BY <1>1, <2>2
  <2>4. QED
    BY <1>3, <2>3 DEF MemoryLimit
<1>4. QED
  BY <1>2, <1>3

\* A quotient times the divisor does not exceed the dividend.
LEMMA QuotientFits == \A x \in Int : \A y \in Nat \ {0} : x \div y \in Int /\ (x \div y) * y =< x
OBVIOUS

\* More children need more memory.
LEMMA ProductGrows == \A x, y \in Int : \A z \in Nat : x =< y => x * z =< y * z
OBVIOUS

\* The slots of an agent, times the memory of a child, fit in what the limit leaves
\* beside the reserve.
LEMMA EffectiveSlotsFit ==
    ASSUME NEW files \in Seq(Int)
    PROVE  /\ EffectiveSlots(files) \in 0 .. Requested
           /\ ChildMemory > 0 /\ MemoryLimit(files) # Unlimited =>
                  EffectiveSlots(files) * ChildMemory =<
                      IF MemoryLimit(files) > HeldBack THEN MemoryLimit(files) - HeldBack ELSE 0
<1> DEFINE limit == MemoryLimit(files)
           usable == limit - HeldBack
<1>1. limit \in Int
  BY LimitType
<1>2. HeldBack \in Nat /\ ChildMemory \in Int /\ Requested \in Nat \ {0}
  BY PlacementAssumption DEF HeldBack
<1>3. usable \in Int
  BY <1>1, <1>2
<1>4. CASE ChildMemory =< 0 \/ limit = Unlimited
  BY <1>2, <1>4 DEF EffectiveSlots
<1>5. CASE ~(ChildMemory =< 0 \/ limit = Unlimited) /\ usable < ChildMemory
  <2>1. EffectiveSlots(files) = 0
    BY <1>5 DEF EffectiveSlots
  <2>2. 0 * ChildMemory = 0
    BY <1>2
  <2>3. QED
    BY <1>1, <1>2, <2>1, <2>2
<1>6. CASE ~(ChildMemory =< 0 \/ limit = Unlimited) /\ ~(usable < ChildMemory)
  <2> DEFINE q == usable \div ChildMemory
  <2>1. ChildMemory \in Nat \ {0} /\ usable > 0 /\ limit > HeldBack
    BY <1>1, <1>2, <1>3, <1>6
  <2>2. q \in Int /\ q * ChildMemory =< usable
    BY <1>3, <2>1, QuotientFits
  <2>3. q >= 0
    BY <1>3, <2>1
  <2> HIDE DEF q
  <2>4. CASE q < Requested
    <3>1. EffectiveSlots(files) = q
      BY <1>6, <2>4 DEF EffectiveSlots, q
    <3>2. QED
      BY <1>2, <2>1, <2>2, <2>3, <2>4, <3>1
  <2>5. CASE ~(q < Requested)
    <3>1. EffectiveSlots(files) = Requested
      BY <1>6, <2>5 DEF EffectiveSlots, q
    <3>2. Requested * ChildMemory =< q * ChildMemory
      BY <1>2, <2>1, <2>2, <2>5, ProductGrows
    <3>3. Requested * ChildMemory \in Int /\ q * ChildMemory \in Int
      BY <1>2, <2>2
    <3>4. QED
      BY <1>2, <1>3, <2>1, <2>2, <3>1, <3>2, <3>3
  <2>6. QED
    BY <2>4, <2>5
<1>7. QED
  BY <1>4, <1>5, <1>6

-----------------------------------------------------------------------------
(* Slots                                                                    *)

\* Names an agent tracks, each of which holds a slot, as every run does.
Tracked(a) == {n \in Name : entry[a][n] # "absent"}
Tally(a) == Cardinality(Running(a)) + Cardinality(Tracked(a))

\* The slots used are those held; a process that has its slots has as many as its
\* memory allows, and what is alive belongs to a process that serves.
SlotInv(a) ==
    /\ used[a] = Tally(a)
    /\ used[a] =< slots[a]
    /\ IF proc[a] \in {"reconcile", "serving"}
       THEN CanStart(limits[a]) /\ slots[a] = EffectiveSlots(limits[a])
       ELSE slots[a] = 0
    /\ \A n \in Name : vm[a][n] = "live" => proc[a] = "serving"

\* What a status said was a number of slots.
SeenInv(r) ==
    /\ DOMAIN seen[r] \subseteq Agent
    /\ seen[r] = [a \in DOMAIN seen[r] |-> seen[r][a]]
    /\ \A a \in DOMAIN seen[r] : seen[r][a] \in 0 .. Requested

\* The types that Shape leaves out.
Counters ==
    /\ started \in [Agent -> {"yes", "no"}]
    /\ DOMAIN limits = Agent /\ \A a \in Agent : limits[a] \in LimitFiles[a]
    /\ critical \in SUBSET Agent
    /\ slots \in [Agent -> 0 .. Requested]
    /\ used \in [Agent -> Nat]
    /\ deaths \in 0 .. MaxDeaths

HoldInv ==
    /\ PlaceInv /\ Counters
    /\ \A a \in Agent : SlotInv(a)
    /\ \A r \in Request : SeenInv(r)

\* Runs and tracked names are finitely many.
LEMMA TallyType ==
    ASSUME NEW a \in Agent
    PROVE  /\ IsFiniteSet(Running(a)) /\ IsFiniteSet(Tracked(a))
           /\ Cardinality(Running(a)) \in Nat /\ Cardinality(Tracked(a)) \in Nat /\ Tally(a) \in Nat
<1>1. Running(a) \subseteq Request /\ Tracked(a) \subseteq Name
  BY DEF Running, Tracked
<1>2. IsFiniteSet(Running(a)) /\ IsFiniteSet(Tracked(a))
  BY <1>1, FS_Subset, PlacementAssumption
<1>3. Cardinality(Running(a)) \in Nat /\ Cardinality(Tracked(a)) \in Nat
  BY <1>2, FS_CardinalityType
<1>4. QED
  BY <1>2, <1>3 DEF Tally

LEMMA InitHold == Init => HoldInv
<1> SUFFICES ASSUME Init PROVE HoldInv
  OBVIOUS
<1>1. 0 \in 0 .. Requested /\ 0 \in 0 .. MaxDeaths
  BY PlacementAssumption
<1>2. Counters
  BY <1>1 DEF Init, Counters
<1>3. ASSUME NEW a \in Agent PROVE SlotInv(a)
  <2>1. Running(a) = {} /\ Tracked(a) = {}
    BY DEF Init, Running, Tracked
  <2>2. Tally(a) = 0
    BY <2>1, FS_EmptySet DEF Tally
  <2>3. QED
    BY <2>2 DEF Init, SlotInv
<1>4. ASSUME NEW r \in Request PROVE SeenInv(r)
  <2>1. seen[r] = <<>> /\ DOMAIN <<>> = {}
    BY DEF Init
  <2>2. QED
    BY <2>1 DEF SeenInv
<1>5. QED
  BY <1>2, <1>3, <1>4, InitPlaceInv DEF HoldInv

\* A step that holds the same slots.
SameSlots ==
    /\ UNCHANGED <<limits, slots, used, proc>>
    /\ \A a \in Agent : /\ Running(a)' = Running(a) /\ Tracked(a)' = Tracked(a)
                        /\ \A n \in Name : vm'[a][n] = "live" => vm[a][n] = "live" \/ proc[a] = "serving"

LEMMA SameSlotsKeeps == ASSUME HoldInv, SameSlots PROVE \A a \in Agent : SlotInv(a)'
BY DEF HoldInv, SameSlots, SlotInv, Tally

\* A step of a handler on agent a that takes a slot, for a run or for a name, ...
TakesSlot(a) ==
    /\ UNCHANGED <<limits, slots, proc, vm>>
    /\ used' = [used EXCEPT ![a] = @ + 1] /\ used[a] < slots[a]
    /\ \A b \in Agent \ {a} : Running(b)' = Running(b) /\ Tracked(b)' = Tracked(b)
    /\ \/ /\ Tracked(a)' = Tracked(a)
          /\ \E r \in Request \ Running(a) : Running(a)' = Running(a) \cup {r}
       \/ /\ Running(a)' = Running(a)
          /\ \E n \in Name \ Tracked(a) : Tracked(a)' = Tracked(a) \cup {n}

\* ... and one that gives it back.
GivesSlot(a) ==
    /\ UNCHANGED <<limits, slots, proc>>
    /\ used' = [used EXCEPT ![a] = @ - 1]
    /\ \A b \in Agent \ {a} : Running(b)' = Running(b) /\ Tracked(b)' = Tracked(b)
    /\ \A b \in Agent, n \in Name : vm'[b][n] = "live" => vm[b][n] = "live"
    /\ \/ Tracked(a)' = Tracked(a) /\ \E r \in Running(a) : Running(a)' = Running(a) \ {r}
       \/ Running(a)' = Running(a) /\ \E n \in Tracked(a) : Tracked(a)' = Tracked(a) \ {n}

LEMMA TakesSlotKeeps ==
    ASSUME HoldInv, NEW a \in Agent, TakesSlot(a)
    PROVE  (\A b \in Agent : SlotInv(b)') /\ used' \in [Agent -> Nat]
<1>0. used \in [Agent -> Nat] /\ slots[a] \in 0 .. Requested /\ Requested \in Nat
  BY PlacementAssumption DEF HoldInv, Counters
<1>1. used' \in [Agent -> Nat] /\ used'[a] = used[a] + 1 /\ \A b \in Agent \ {a} : used'[b] = used[b]
  BY <1>0 DEF TakesSlot
<1>2. Tally(a)' = Tally(a) + 1
  <2>1. CASE Tracked(a)' = Tracked(a) /\ \E r \in Request \ Running(a) : Running(a)' = Running(a) \cup {r}
    <3>1. Cardinality(Running(a)') = Cardinality(Running(a)) + 1
      BY <2>1, TallyType, FS_AddElement
    <3>2. QED
      BY <2>1, <3>1, TallyType DEF Tally
  <2>2. CASE Running(a)' = Running(a) /\ \E n \in Name \ Tracked(a) : Tracked(a)' = Tracked(a) \cup {n}
    <3>1. Cardinality(Tracked(a)') = Cardinality(Tracked(a)) + 1
      BY <2>2, TallyType, FS_AddElement
    <3>2. QED
      BY <2>2, <3>1, TallyType DEF Tally
  <2>3. QED
    BY <2>1, <2>2 DEF TakesSlot
<1>3. ASSUME NEW b \in Agent \ {a} PROVE Tally(b)' = Tally(b)
  BY DEF TakesSlot, Tally
<1>4. used'[a] =< slots[a]
  BY <1>0, <1>1 DEF TakesSlot
<1>5. \A b \in Agent : SlotInv(b)'
  BY <1>1, <1>2, <1>3, <1>4 DEF TakesSlot, HoldInv, SlotInv
<1>6. QED
  BY <1>1, <1>5

LEMMA GivesSlotKeeps ==
    ASSUME HoldInv, NEW a \in Agent, GivesSlot(a)
    PROVE  (\A b \in Agent : SlotInv(b)') /\ used' \in [Agent -> Nat]
<1>0. used \in [Agent -> Nat] /\ slots[a] \in 0 .. Requested /\ Requested \in Nat
  BY PlacementAssumption DEF HoldInv, Counters
<1>1. Tally(a)' = Tally(a) - 1 /\ Tally(a) - 1 \in Nat
  <2>1. CASE Tracked(a)' = Tracked(a) /\ \E r \in Running(a) : Running(a)' = Running(a) \ {r}
    <3>1. Cardinality(Running(a)') = Cardinality(Running(a)) - 1 /\ Cardinality(Running(a)') \in Nat
      BY <2>1, TallyType, FS_RemoveElement, FS_CardinalityType
    <3>2. QED
      BY <2>1, <3>1, TallyType DEF Tally
  <2>2. CASE Running(a)' = Running(a) /\ \E n \in Tracked(a) : Tracked(a)' = Tracked(a) \ {n}
    <3>1. Cardinality(Tracked(a)') = Cardinality(Tracked(a)) - 1 /\ Cardinality(Tracked(a)') \in Nat
      BY <2>2, TallyType, FS_RemoveElement, FS_CardinalityType
    <3>2. QED
      BY <2>2, <3>1, TallyType DEF Tally
  <2>3. QED
    BY <2>1, <2>2 DEF GivesSlot
<1>2. used[a] = Tally(a)
  BY DEF HoldInv, SlotInv
<1>3. used' \in [Agent -> Nat] /\ used'[a] = used[a] - 1 /\ \A b \in Agent \ {a} : used'[b] = used[b]
  BY <1>0, <1>1, <1>2 DEF GivesSlot
<1>4. ASSUME NEW b \in Agent \ {a} PROVE Tally(b)' = Tally(b)
  BY DEF GivesSlot, Tally
<1>5. used'[a] =< slots[a]
  BY <1>0, <1>3 DEF HoldInv, SlotInv
<1>6. ASSUME NEW b \in Agent PROVE SlotInv(b)'
  <2>1. used'[b] = Tally(b)' /\ used'[b] =< slots'[b]
    BY <1>1, <1>2, <1>3, <1>4, <1>5 DEF GivesSlot, HoldInv, SlotInv
  <2>2. QED
    BY <2>1 DEF GivesSlot, HoldInv, SlotInv
<1>7. QED
  BY <1>3, <1>6

-----------------------------------------------------------------------------
(* Which steps take a slot and which give it back                           *)

\* The counters of an agent's life that only its start and its death change.
Settled == UNCHANGED <<started, limits, critical, slots, deaths>>

LEMMA SettledKeeps == ASSUME HoldInv, Settled, used' \in [Agent -> Nat] PROVE Counters'
BY DEF HoldInv, Counters, Settled

\* Statuses are kept or dropped.
LEMMA SeenKeeps ==
    ASSUME HoldInv, NEW r \in Request, \A q \in Request \ {r} : seen'[q] = seen[q],
           seen'[r] \in {seen[r], <<>>}
    PROVE  \A q \in Request : SeenInv(q)'
<1>1. DOMAIN <<>> = {} /\ <<>> = [a \in DOMAIN <<>> |-> <<>>[a]]
  OBVIOUS
<1>2. ASSUME NEW q \in Request, seen'[q] = seen[q] PROVE SeenInv(q)'
  BY <1>2 DEF HoldInv, SeenInv
<1>3. ASSUME NEW q \in Request, seen'[q] = <<>> PROVE SeenInv(q)'
  BY <1>1, <1>3 DEF SeenInv
<1>4. QED
  BY <1>2, <1>3

\* What the coordinator does by itself holds no slot: a request's slot is its
\* handler's.
LEMMA CoordinatesHold ==
    ASSUME HoldInv, PlaceInv', NEW r \in Request, Coordinates(r), UNCHANGED agentVars,
           \A q \in Request : SeenInv(q)'
    PROVE  HoldInv'
<1>1. \A q \in Request : work[q] = "run" => place'[q] = place[q]
  BY DEF Coordinates
<1>2. \A a \in Agent : Running(a)' = Running(a) /\ Tracked(a)' = Tracked(a)
  BY <1>1 DEF Coordinates, Running, Tracked
<1>3. SameSlots
  BY <1>2 DEF SameSlots, agentVars
<1>4. Settled /\ used' \in [Agent -> Nat]
  BY DEF Settled, agentVars, HoldInv, Counters
<1>5. QED
  BY <1>3, <1>4, SameSlotsKeeps, SettledKeeps DEF HoldInv

LEMMA ForgetHold ==
    ASSUME HoldInv, PlaceInv', NEW r \in Request, pc[r] \in {"status", "call"}, Forget(r),
           UNCHANGED <<agentVars, name, work, deleted>>
    PROVE  HoldInv'
<1>1. Coordinates(r)
  BY DEF Coordinates, Forget, Go, HoldInv, PlaceInv, RequestInv, Working, Shape, agentVars
<1>2. \A q \in Request : SeenInv(q)'
  <2>1. seen'[r] = <<>> /\ \A q \in Request \ {r} : seen'[q] = seen[q]
    BY DEF Forget, HoldInv, PlaceInv, Shape
  <2>2. QED
    BY <2>1, SeenKeeps
<1>3. QED
  BY <1>1, <1>2, CoordinatesHold

LEMMA AskHold ==
    ASSUME HoldInv, PlaceInv', NEW r \in Request, (\E k \in Kind : Submit(r, k)) \/ GiveUp(r) \/ Select(r)
    PROVE  HoldInv'
<1>1. Coordinates(r)
  <2>1. CASE \E k \in Kind : Submit(r, k)
    BY <2>1 DEF Coordinates, Submit, Go, HoldInv, PlaceInv, RequestInv, Working, Shape, agentVars
  <2>2. CASE GiveUp(r)
    <3>1. pc'[r] = "gone"
      BY <2>2 DEF HoldInv, PlaceInv, Shape, GiveUp, Go
    <3>2. QED
      BY <2>2, <3>1 DEF Coordinates, GiveUp, Go, HoldInv, PlaceInv, Shape, agentVars
  <2>3. CASE Select(r)
    BY <2>3 DEF Coordinates, Select, Go, HoldInv, PlaceInv, RequestInv, Working, Shape, agentVars
  <2>4. QED
    BY <2>1, <2>2, <2>3
<1>2. UNCHANGED agentVars
  BY DEF Submit, GiveUp, Select
<1>3. seen'[r] \in {seen[r], <<>>} /\ \A q \in Request \ {r} : seen'[q] = seen[q]
  BY DEF Submit, GiveUp, Select, HoldInv, PlaceInv, Shape
<1>4. QED
  BY <1>1, <1>2, <1>3, SeenKeeps, CoordinatesHold

\* A status says how many slots are free, which is a number of them.
LEMMA StatusHold == ASSUME HoldInv, PlaceInv', NEW r \in Request, Status(r) PROVE HoldInv'
<1> DEFINE answers == [a \in DOMAIN seen[r] \cup {poll[r]} |->
                          IF a = poll[r] THEN slots[a] - used[a] ELSE seen[r][a]]
<1>1. seen' = [seen EXCEPT ![r] = answers] /\ poll[r] \in Agent
  BY DEF Status
<1>2. slots[poll[r]] - used[poll[r]] \in 0 .. Requested
  BY <1>1, PlacementAssumption DEF HoldInv, Counters, SlotInv
<1>3. /\ DOMAIN answers \subseteq Agent /\ answers = [a \in DOMAIN answers |-> answers[a]]
      /\ \A a \in DOMAIN answers : answers[a] \in 0 .. Requested
  BY <1>1, <1>2 DEF HoldInv, SeenInv
<1> HIDE DEF answers
<1>4. seen'[r] = answers /\ \A q \in Request \ {r} : seen'[q] = seen[q]
  BY <1>1 DEF HoldInv, PlaceInv, Shape
<1>5. ASSUME NEW q \in Request PROVE SeenInv(q)'
  <2>1. CASE q = r
    BY <1>3, <1>4, <2>1 DEF SeenInv
  <2>2. CASE q # r
    BY <1>4, <2>2 DEF HoldInv, SeenInv
  <2>3. QED
    BY <2>1, <2>2
<1>6. Coordinates(r)
  BY <1>4 DEF Coordinates, Status, HoldInv, PlaceInv, RequestInv, Working, Shape, agentVars
<1>7. UNCHANGED agentVars
  BY DEF Status
<1>8. QED
  BY <1>5, <1>6, <1>7, CoordinatesHold

\* A handler's step concerns the runs and the names of its agent only, and of those
\* its own.
LEMMA LeavesSlots ==
    ASSUME PlaceInv, NEW r \in Request, NEW w, NEW e, NEW v, Leaves(r, w, e, v),
           NEW p \in Agent, p = place[r], name[r] \in Name
    PROVE  /\ \A b \in Agent \ {p} : Running(b)' = Running(b) /\ Tracked(b)' = Tracked(b)
           /\ Running(p)' = IF w = "run" THEN Running(p) \cup {r} ELSE Running(p) \ {r}
           /\ Tracked(p)' = IF e = "absent" THEN Tracked(p) \ {name[r]} ELSE Tracked(p) \cup {name[r]}
<1>1. /\ work'[r] = w /\ \A q \in Request \ {r} : work'[q] = work[q] /\ place'[q] = place[q]
      /\ w # "none" => place'[r] = p
  BY DEF Leaves, PlaceInv, Shape
<1>2. ASSUME NEW b \in Agent \ {p} PROVE Running(b)' = Running(b)
  BY <1>1 DEF Running
<1>3. ASSUME NEW b \in Agent \ {p} PROVE Tracked(b)' = Tracked(b)
  BY DEF Leaves, Tracked
<1>4. Running(p)' = IF w = "run" THEN Running(p) \cup {r} ELSE Running(p) \ {r}
  <2>1. Running(p)' = {q \in Request : place'[q] = p /\ work'[q] = "run"}
    BY DEF Running
  <2>2. \A q \in Request : q # r => (q \in Running(p)' <=> q \in Running(p))
    BY <1>1, <2>1 DEF Running
  <2>3. r \in Running(p)' <=> w = "run"
    BY <1>1, <2>1
  <2>4. Running(p) \subseteq Request /\ Running(p)' \subseteq Request
    BY <2>1 DEF Running
  <2>5. QED
    BY <2>2, <2>3, <2>4
<1>5. Tracked(p)' = IF e = "absent" THEN Tracked(p) \ {name[r]} ELSE Tracked(p) \cup {name[r]}
  <2>1. Tracked(p)' = {n \in Name : entry'[p][n] # "absent"}
    BY DEF Tracked
  <2>2. \A n \in Name : entry'[p][n] = IF n = name[r] THEN e ELSE entry[p][n]
    BY DEF Leaves
  <2>3. QED
    BY <2>1, <2>2 DEF Tracked
<1>6. QED
  BY <1>2, <1>3, <1>4, <1>5

\* Statuses have been dropped when a request becomes a handler's.
LEMMA HandlerSeen ==
    ASSUME HoldInv, NEW r \in Request,
           (\E w : Handle(r, w)) \/ (\E w : Ends(r, w))
    PROVE  (\A q \in Request : SeenInv(q)') /\ Settled
<1>1. seen'[r] \in {seen[r], <<>>} /\ \A q \in Request \ {r} : seen'[q] = seen[q]
  BY DEF Handle, Ends, Forget, HoldInv, PlaceInv, Shape
<1>2. Settled
  BY DEF Handle, Ends, Settled
<1>3. QED
  BY <1>1, <1>2, SeenKeeps

\* A step of a handler that neither takes nor gives back a slot.
LEMMA NeutralHold ==
    ASSUME HoldInv, PlaceInv', NEW r \in Request, NEW w, NEW e, NEW v, Leaves(r, w, e, v),
           NEW p \in Agent, p = place[r], name[r] \in Name, proc[p] = "serving",
           w # "run", work[r] # "run", used' = used,
           e = "absent" <=> EntryOf(r) = "absent",
           Settled, \A q \in Request : SeenInv(q)'
    PROVE  HoldInv'
<1>1. r \notin Running(p) /\ (name[r] \in Tracked(p) <=> e # "absent")
  BY DEF Running, Tracked, EntryOf
<1>2. \A b \in Agent : Running(b)' = Running(b) /\ Tracked(b)' = Tracked(b)
  <2>1. PlaceInv
    BY DEF HoldInv
  <2>2. /\ Running(p)' = Running(p) \ {r}
        /\ Tracked(p)' = IF e = "absent" THEN Tracked(p) \ {name[r]} ELSE Tracked(p) \cup {name[r]}
        /\ \A b \in Agent \ {p} : Running(b)' = Running(b) /\ Tracked(b)' = Tracked(b)
    BY <2>1, LeavesSlots
  <2>3. Running(p)' = Running(p) /\ Tracked(p)' = Tracked(p)
    BY <1>1, <2>2
  <2>4. QED
    BY <2>2, <2>3
<1>3. \A a \in Agent, n \in Name : vm'[a][n] = "live" => vm[a][n] = "live" \/ proc[a] = "serving"
  BY DEF Leaves
<1>4. SameSlots
  BY <1>2, <1>3 DEF SameSlots, Settled, Leaves
<1>5. used' \in [Agent -> Nat]
  BY DEF HoldInv, Counters
<1>6. QED
  BY <1>4, <1>5, SameSlotsKeeps, SettledKeeps DEF HoldInv

LEMMA BeginHold ==
    ASSUME HoldInv, PlaceInv', NEW r \in Request,
           BeginRun(r) \/ BeginCreate(r) \/ BeginExec(r) \/ BeginRemove(r) \/ BeginUntracked(r)
    PROVE  HoldInv'
<1> DEFINE v == vm[place[r]][name[r]]
<1>0. PlaceInv /\ Shape
  BY DEF HoldInv, PlaceInv
<1>1. PICK p \in Agent : /\ p = place[r] /\ proc[p] = "serving" /\ vm' = vm /\ name[r] \in Name
                         /\ pc[r] = "call" /\ work[r] = "none"
  <2>1. pc[r] = "call" /\ proc[place[r]] = "serving" /\ vm' = vm
    BY DEF Arrived, BeginRun, BeginCreate, BeginExec, BeginRemove, BeginUntracked
  <2>2. name[r] \in Name /\ Placed(r) /\ Working(r)
    BY <1>0 DEF PlaceInv, Shape, RequestInv
  <2>3. QED
    BY <2>1, <2>2 DEF Placed, Working
<1>2. (\E w : Handle(r, w)) /\ (\A q \in Request : SeenInv(q)') /\ Settled /\ proc' = proc
  <2>1. \E w : Handle(r, w)
    BY DEF BeginRun, BeginCreate, BeginExec, BeginRemove, BeginUntracked
  <2>2. QED
    BY <2>1, HandlerSeen DEF Handle
<1>3. entry = [entry EXCEPT ![place[r]][name[r]] = EntryOf(r)]
  BY <1>0, <1>1, Untouched
<1>4. CASE BeginRun(r)
  <2>1. Leaves(r, "run", EntryOf(r), v)
    BY <1>0, <1>1, <1>3, <1>4, HandleLeaves DEF BeginRun
  <2>2. Running(p)' = Running(p) \cup {r} /\ r \notin Running(p)
    BY <1>0, <1>1, <2>1, LeavesSlots DEF Running
  <2>3. entry' = entry /\ used' = [used EXCEPT ![place[r]] = @ + 1] /\ used[place[r]] < slots[place[r]]
    BY <1>4 DEF BeginRun, Acquire, Admits
  <2>4. \A b \in Agent : Tracked(b)' = Tracked(b)
    BY <2>3 DEF Tracked
  <2>5. TakesSlot(p)
    BY <1>0, <1>1, <1>2, <2>1, <2>2, <2>3, <2>4, LeavesSlots DEF TakesSlot, Settled
  <2>6. QED
    BY <1>1, <1>2, <2>5, TakesSlotKeeps, SettledKeeps DEF HoldInv
<1>5. CASE BeginCreate(r)
  <2>1. /\ Arrived(r, "create") /\ Handle(r, "create") /\ EntryOf(r) = "absent"
        /\ used' = [used EXCEPT ![place[r]] = @ + 1] /\ used[place[r]] < slots[place[r]]
        /\ entry' = [entry EXCEPT ![place[r]][name[r]] = "reserved"]
    BY <1>5 DEF BeginCreate, SetEntry, Acquire, Admits
  <2>2. Leaves(r, "create", "reserved", v)
    BY <1>0, <1>1, <2>1, HandleLeaves
  <2>3. r \notin Running(p) /\ name[r] \in Name \ Tracked(p)
    BY <1>1, <2>1 DEF Running, Tracked, EntryOf
  <2>4. /\ Running(p)' = Running(p)
        /\ Tracked(p)' = Tracked(p) \cup {name[r]}
    <3>1. /\ Running(p)' = Running(p) \ {r}
          /\ Tracked(p)' = Tracked(p) \cup {name[r]}
      BY <1>0, <1>1, <2>2, LeavesSlots
    <3>2. QED
      BY <2>3, <3>1
  <2>5. TakesSlot(p)
    BY <1>0, <1>1, <1>2, <2>1, <2>2, <2>3, <2>4, LeavesSlots DEF TakesSlot, Settled
  <2>6. QED
    BY <1>1, <1>2, <2>5, TakesSlotKeeps, SettledKeeps DEF HoldInv
<1>6. CASE BeginExec(r) \/ BeginUntracked(r)
  <2>1. PICK w \in {"exec", "untracked"} : \E k \in Kind : Arrived(r, k) /\ Handle(r, w) /\ k # "run"
    BY <1>6 DEF BeginExec, BeginUntracked, Kind
  <2>2. entry' = entry /\ used' = used
    BY <1>6 DEF BeginExec, BeginUntracked
  <2>3. Leaves(r, w, EntryOf(r), v)
    BY <1>0, <1>1, <1>3, <2>1, <2>2, HandleLeaves
  <2>4. QED
    BY <1>1, <1>2, <2>1, <2>2, <2>3, NeutralHold
<1>7. CASE BeginRemove(r)
  <2>1. /\ Arrived(r, "delete") /\ Handle(r, "remove") /\ EntryOf(r) = "active" /\ used' = used
        /\ entry' = [entry EXCEPT ![place[r]][name[r]] = "reserved"]
    BY <1>7 DEF BeginRemove, SetEntry
  <2>2. Leaves(r, "remove", "reserved", v)
    BY <1>0, <1>1, <2>1, HandleLeaves
  <2>3. QED
    BY <1>1, <1>2, <2>1, <2>2, NeutralHold
<1>8. QED
  BY <1>4, <1>5, <1>6, <1>7

LEMMA EndHold ==
    ASSUME HoldInv, PlaceInv', NEW r \in Request,
           \/ EndRun(r) \/ EndExec(r) \/ EndCreate(r) \/ CreateError(r) \/ CreateCleanupError(r)
           \/ EndRemove(r) \/ RemoveError(r) \/ EndUntracked(r) \/ UntrackedError(r)
    PROVE  HoldInv'
<1> DEFINE v == vm[place[r]][name[r]]
<1>0. PlaceInv /\ Shape
  BY DEF HoldInv, PlaceInv
<1>1. PICK w \in {"run", "create", "exec", "remove", "untracked"} : Ends(r, w)
  BY DEF EndRun, EndExec, EndCreate, CreateError, CreateCleanupError, EndRemove, RemoveError,
     EndUntracked, UntrackedError
<1>2. PICK p \in Agent :
      /\ p = place[r] /\ proc[p] = "serving" /\ work[r] = w /\ name[r] \in Name
      /\ w \in {"create", "remove"} => EntryOf(r) = "reserved"
      /\ w = "create" => v = "none"
  <2>1. /\ place[r] \in Agent /\ proc[place[r]] = "serving" /\ work[r] = w /\ name[r] \in Name
    BY <1>0, <1>1, AtEnd, Before
  <2>2. w \in {"create", "remove"} => Holds(r, place[r], name[r])
    BY <2>1 DEF Holds
  <2>3. QED
    BY <1>0, <2>1, <2>2 DEF PlaceInv, RequestInv, Reserving, EntryOf
<1>3. (\A q \in Request : SeenInv(q)') /\ Settled /\ proc' = proc
  BY <1>1, HandlerSeen DEF Ends
<1>4. /\ entry = [entry EXCEPT ![place[r]][name[r]] = EntryOf(r)]
      /\ vm = [vm EXCEPT ![place[r]][name[r]] = v]
  BY <1>0, <1>2, Untouched
<1>5. ASSUME NEW e, NEW u, entry' = [entry EXCEPT ![place[r]][name[r]] = e],
             vm' = [vm EXCEPT ![place[r]][name[r]] = u]
      PROVE  Leaves(r, "none", e, u)
  BY <1>0, <1>1, <1>5, EndsLeaves
<1>6. ASSUME NEW e, NEW u, Leaves(r, "none", e, u), w # "run", used' = used,
             e = "absent" <=> EntryOf(r) = "absent"
      PROVE  HoldInv'
  BY <1>2, <1>3, <1>6, NeutralHold
<1>7. ASSUME NEW u, Leaves(r, "none", "absent", u), u \in {v, "none"}, w \in {"create", "remove"},
             used' = [used EXCEPT ![place[r]] = @ - 1]
      PROVE  HoldInv'
  <2>1. r \notin Running(p) /\ name[r] \in Tracked(p)
    BY <1>2, <1>7 DEF Running, Tracked, EntryOf
  <2>2. Running(p)' = Running(p) /\ Tracked(p)' = Tracked(p) \ {name[r]}
    BY <1>0, <1>2, <1>7, <2>1, LeavesSlots
  <2>3. \A b \in Agent, n \in Name : vm'[b][n] = "live" => vm[b][n] = "live"
    BY <1>7 DEF Leaves
  <2>4. GivesSlot(p)
    BY <1>0, <1>2, <1>3, <1>7, <2>1, <2>2, <2>3, LeavesSlots DEF GivesSlot, Settled
  <2>5. QED
    BY <1>2, <1>3, <2>4, GivesSlotKeeps, SettledKeeps DEF HoldInv
<1>8. CASE EndRun(r)
  <2>1. work[r] = "run" /\ entry' = entry /\ vm' = vm /\ used' = [used EXCEPT ![place[r]] = @ - 1]
    BY <1>8 DEF EndRun, Release, Ends
  <2>2. Leaves(r, "none", EntryOf(r), v)
    BY <1>4, <1>5, <2>1
  <2>3. r \in Running(p) /\ Running(p)' = Running(p) \ {r}
    BY <1>0, <1>2, <2>1, <2>2, LeavesSlots DEF Running
  <2>4. \A b \in Agent : Tracked(b)' = Tracked(b)
    BY <2>1 DEF Tracked
  <2>5. GivesSlot(p)
    BY <1>0, <1>2, <1>3, <2>1, <2>2, <2>3, <2>4, LeavesSlots DEF GivesSlot, Settled
  <2>6. QED
    BY <1>2, <1>3, <2>5, GivesSlotKeeps, SettledKeeps DEF HoldInv
<1>9. CASE EndExec(r)
  BY <1>2, <1>4, <1>5, <1>6, <1>9 DEF EndExec, Ends
<1>10. CASE EndCreate(r)
  BY <1>2, <1>5, <1>6, <1>10 DEF EndCreate, SetVM, SetEntry, Ends
<1>11. CASE CreateError(r)
  <2>1. work[r] = "create" /\ entry' = [entry EXCEPT ![place[r]][name[r]] = "absent"]
        /\ used' = [used EXCEPT ![place[r]] = @ - 1]
    BY <1>11 DEF CreateError, SetEntry, Release, Ends
  <2>2. PICK u \in {"none", v} : vm' = [vm EXCEPT ![place[r]][name[r]] = u]
    BY <1>4, <1>11 DEF CreateError, MaybeRemoveVM, SetVM
  <2>3. QED
    BY <1>2, <1>5, <1>7, <2>1, <2>2
<1>12. CASE CreateCleanupError(r)
  <2>1. work[r] = "create" /\ entry' = [entry EXCEPT ![place[r]][name[r]] = "active"] /\ used' = used
    BY <1>12 DEF CreateCleanupError, SetEntry, Ends
  <2>2. PICK u : vm' = [vm EXCEPT ![place[r]][name[r]] = u]
    BY <1>12 DEF CreateCleanupError, SetVM
  <2>3. QED
    BY <1>2, <1>5, <1>6, <2>1, <2>2
<1>13. CASE EndRemove(r)
  BY <1>2, <1>5, <1>7, <1>13 DEF EndRemove, SetVM, SetEntry, Release, Ends
<1>14. CASE RemoveError(r)
  <2>1. work[r] = "remove" /\ entry' = [entry EXCEPT ![place[r]][name[r]] = "active"] /\ used' = used
    BY <1>14 DEF RemoveError, SetEntry, Ends
  <2>2. PICK u \in {"none", v} : vm' = [vm EXCEPT ![place[r]][name[r]] = u]
    BY <1>4, <1>14 DEF RemoveError, MaybeRemoveVM, SetVM
  <2>3. QED
    BY <1>2, <1>5, <1>6, <2>1, <2>2
<1>15. CASE EndUntracked(r) \/ UntrackedError(r)
  <2>1. work[r] = "untracked" /\ entry' = entry /\ used' = used
    BY <1>15 DEF EndUntracked, UntrackedError, Ends
  <2>2. PICK u \in {"none", v} : vm' = [vm EXCEPT ![place[r]][name[r]] = u]
    BY <1>4, <1>15 DEF EndUntracked, UntrackedError, MaybeRemoveVM, SetVM
  <2>3. QED
    BY <1>2, <1>4, <1>5, <1>6, <2>1, <2>2
<1>16. QED
  BY <1>8, <1>9, <1>10, <1>11, <1>12, <1>13, <1>14, <1>15

\* A step in the start-up of agent a, which holds no slot yet.
LEMMA BootHold ==
    ASSUME HoldInv, PlaceInv', NEW a \in Agent, Boot(a) \/ ResetError(a) PROVE HoldInv'
<1>0. /\ proc \in [Agent -> {"down", "reset", "clamp", "reconcile", "serving"}]
      /\ vm \in [Agent -> [Name -> {"none", "live", "dead"}]]
      /\ slots \in [Agent -> 0 .. Requested] /\ started \in [Agent -> {"yes", "no"}]
      /\ used \in [Agent -> Nat] /\ deaths \in 0 .. MaxDeaths /\ SlotInv(a)
  BY DEF HoldInv, PlaceInv, Shape, Counters
<1>1. /\ UNCHANGED <<limits, critical, used, entry, pc, kind, name, poll, seen, place, work>>
      /\ \A b \in Agent \ {a} : proc'[b] = proc[b] /\ slots'[b] = slots[b] /\ vm'[b] = vm[b]
  <2>1. UNCHANGED <<limits, critical, used, entry, requestVars>>
    BY DEF Boot, Start, Reset, ClampSlots, ClampError, Serve, Collected, ResetError
  <2>2. \A b \in Agent \ {a} : proc'[b] = proc[b]
    BY <1>0 DEF Boot, Start, Reset, ClampSlots, ClampError, Serve, Collected, ResetError, Become
  <2>3. \A b \in Agent \ {a} : slots'[b] = slots[b]
    BY <1>0 DEF Boot, Start, Reset, ClampSlots, ClampError, Serve, Collected, ResetError
  <2>4. \A b \in Agent \ {a} : vm'[b] = vm[b]
    BY <1>0 DEF Boot, Start, Reset, ClampSlots, ClampError, Serve, Collected, ResetError
  <2>5. QED
    BY <2>1, <2>2, <2>3, <2>4 DEF requestVars
<1>2. ASSUME NEW b \in Agent PROVE Tally(b)' = Tally(b)
  BY <1>1 DEF Tally, Running, Tracked
<1>3. ASSUME NEW b \in Agent \ {a} PROVE SlotInv(b)'
  BY <1>1, <1>2 DEF HoldInv, SlotInv
<1>4. used'[a] = Tally(a)'
  BY <1>0, <1>1, <1>2 DEF SlotInv
<1>5. limits[a] \in Seq(Int)
  BY LimitAssumption DEF HoldInv, Counters
<1>6. EffectiveSlots(limits[a]) \in 0 .. Requested
  BY <1>5, EffectiveSlotsFit
<1>7. CASE Start(a) \/ ClampError(a) \/ Serve(a)
  <2>1. UNCHANGED <<started, slots, vm, deaths>> /\ limits' = limits
    BY <1>7 DEF Start, ClampError, Serve
  <2>2. \/ proc[a] \notin {"reconcile", "serving"} /\ proc'[a] \notin {"reconcile", "serving"}
        \/ proc[a] = "reconcile" /\ proc'[a] = "serving"
    BY <1>0, <1>7 DEF Start, ClampError, Serve, Become
  <2>3. SlotInv(a)'
    BY <1>0, <1>1, <1>4, <2>1, <2>2 DEF SlotInv
  <2>4. Counters'
    BY <1>1, <2>1 DEF HoldInv, Counters
  <2>5. QED
    BY <1>1, <1>3, <2>3, <2>4 DEF HoldInv, SeenInv
<1>8. CASE Reset(a) \/ ResetError(a)
  <2>1. UNCHANGED <<started, slots>> /\ deaths' \in 0 .. MaxDeaths
    BY <1>0, <1>8, PlacementAssumption DEF Reset, ResetError
  <2>2. proc[a] = "reset" /\ proc'[a] \in {"clamp", "down"}
    BY <1>0, <1>8 DEF Reset, ResetError, Become
  <2>3. \A n \in Name : vm'[a][n] = "live" => vm[a][n] = "live"
    BY <1>0, <1>8 DEF Reset, ResetError
  <2>4. SlotInv(a)'
    BY <1>0, <1>1, <1>4, <2>1, <2>2, <2>3 DEF SlotInv
  <2>5. Counters'
    BY <1>1, <2>1 DEF HoldInv, Counters
  <2>6. QED
    BY <1>1, <1>3, <2>4, <2>5 DEF HoldInv, SeenInv
<1>9. CASE ClampSlots(a)
  <2>1. /\ UNCHANGED <<started, vm, deaths>> /\ CanStart(limits[a]) /\ proc[a] = "clamp"
        /\ slots' = [slots EXCEPT ![a] = EffectiveSlots(limits[a])]
    BY <1>9 DEF ClampSlots
  <2>2. slots' \in [Agent -> 0 .. Requested] /\ slots'[a] = EffectiveSlots(limits[a])
    BY <1>0, <1>6, <2>1
  <2>3. proc'[a] = "reconcile"
    BY <1>0, <1>9 DEF ClampSlots, Become
  <2>4. used[a] = 0 /\ used[a] =< EffectiveSlots(limits[a])
    BY <1>0, <1>6, <2>1 DEF SlotInv
  <2>5. SlotInv(a)'
    BY <1>0, <1>1, <1>4, <2>1, <2>2, <2>3, <2>4 DEF SlotInv
  <2>6. Counters'
    BY <1>1, <2>1, <2>2 DEF HoldInv, Counters
  <2>7. QED
    BY <1>1, <1>3, <2>5, <2>6 DEF HoldInv, SeenInv
<1>10. CASE Collected(a)
  <2>1. UNCHANGED <<proc, slots, vm, deaths>> /\ started' \in [Agent -> {"yes", "no"}]
    BY <1>0, <1>10 DEF Collected
  <2>2. SlotInv(a)'
    BY <1>0, <1>1, <1>4, <2>1 DEF SlotInv
  <2>3. Counters'
    BY <1>1, <2>1 DEF HoldInv, Counters
  <2>4. QED
    BY <1>1, <1>3, <2>2, <2>3 DEF HoldInv, SeenInv
<1>11. QED
  BY <1>7, <1>8, <1>9, <1>10 DEF Boot

\* The death of an agent ends its runs and takes its map, and with them every slot.
LEMMA DieHold == ASSUME HoldInv, PlaceInv', NEW a \in Agent, Die(a) PROVE HoldInv'
<1>0. /\ proc \in [Agent -> {"down", "reset", "clamp", "reconcile", "serving"}]
      /\ vm \in [Agent -> [Name -> {"none", "live", "dead"}]]
      /\ entry \in [Agent -> [Name -> {"absent", "reserved", "active"}]]
      /\ slots \in [Agent -> 0 .. Requested] /\ started \in [Agent -> {"yes", "no"}]
      /\ used \in [Agent -> Nat] /\ deaths \in 0 .. MaxDeaths /\ 0 \in 0 .. Requested
  BY PlacementAssumption DEF HoldInv, PlaceInv, Shape, Counters
<1>1. \A r \in Request : work[r] = "run" /\ place[r] = a => r \in On(a)
  BY DEF HoldInv, PlaceInv, RequestInv, Working, On
<1>2. \A r \in Request : /\ r \in On(a) => work'[r] = "none" /\ place[r] = a
                         /\ r \notin On(a) => work'[r] = work[r] /\ place'[r] = place[r]
  BY DEF Die, On
<1>3. Running(a)' = {} /\ \A b \in Agent \ {a} : Running(b)' = Running(b)
  BY <1>1, <1>2 DEF Running
<1>4. Tracked(a)' = {} /\ \A b \in Agent \ {a} : Tracked(b)' = Tracked(b)
  BY <1>0 DEF Die, Tracked
<1>5. Tally(a)' = 0 /\ \A b \in Agent \ {a} : Tally(b)' = Tally(b)
  <2>1. Tally(a)' = Cardinality(Running(a)') + Cardinality(Tracked(a)')
    BY DEF Tally
  <2>2. Cardinality({}) = 0
    BY FS_EmptySet
  <2>3. QED
    BY <1>3, <1>4, <2>1, <2>2 DEF Tally
<1>6. /\ used' \in [Agent -> Nat] /\ slots' \in [Agent -> 0 .. Requested]
      /\ used'[a] = 0 /\ slots'[a] = 0 /\ proc'[a] = "down"
      /\ \A b \in Agent \ {a} : used'[b] = used[b] /\ slots'[b] = slots[b] /\ proc'[b] = proc[b]
  BY <1>0 DEF Die, Become
<1>7. /\ \A n \in Name : vm'[a][n] # "live"
      /\ \A b \in Agent \ {a} : vm'[b] = vm[b]
  BY <1>0 DEF Die
<1>8. limits' = limits /\ critical' = critical /\ seen' = seen
  BY DEF Die
<1>9. ASSUME NEW b \in Agent PROVE SlotInv(b)'
  <2>1. CASE b = a
    BY <1>5, <1>6, <1>7, <2>1 DEF SlotInv
  <2>2. CASE b # a
    BY <1>5, <1>6, <1>7, <1>8, <2>2 DEF HoldInv, SlotInv
  <2>3. QED
    BY <2>1, <2>2
<1>10. started' \in [Agent -> {"yes", "no"}] /\ deaths' \in 0 .. MaxDeaths
  BY <1>0, PlacementAssumption DEF Die
<1>11. Counters'
  BY <1>6, <1>8, <1>10 DEF HoldInv, Counters
<1>12. QED
  BY <1>8, <1>9, <1>11 DEF HoldInv, SeenInv

LEMMA VMExitHold ==
    ASSUME HoldInv, PlaceInv', NEW a \in Agent, NEW n \in Name, VMExit(a, n) PROVE HoldInv'
<1>1. UNCHANGED <<proc, started, limits, critical, slots, used, entry, deaths, seen, place, work>>
  BY DEF VMExit, requestVars
<1>2. \A b \in Agent, m \in Name : vm'[b][m] = "live" => vm[b][m] = "live"
  BY DEF VMExit, HoldInv, PlaceInv, Shape
<1>3. SameSlots
  BY <1>1, <1>2 DEF SameSlots, Running, Tracked
<1>4. Counters'
  BY <1>1 DEF HoldInv, Counters
<1>5. QED
  BY <1>1, <1>3, <1>4, SameSlotsKeeps DEF HoldInv, SeenInv

LEMMA NextHold == ASSUME HoldInv, [Next]_vars PROVE HoldInv'
<1>0. PlaceInv'
  BY NextPlaceInv DEF HoldInv
<1>1. ASSUME NEW r \in Request, NEW k \in Kind, Submit(r, k) PROVE HoldInv'
  BY <1>0, <1>1, AskHold
<1>2. ASSUME NEW r \in Request, Coordinate(r) PROVE HoldInv'
  <2>1. CASE Status(r)
    BY <1>0, <2>1, StatusHold
  <2>2. CASE Select(r)
    BY <1>0, <2>2, AskHold
  <2>3. CASE StatusError(r) \/ SelectError(r) \/ CallError(r)
    BY <1>0, <2>3, ForgetHold DEF StatusError, SelectError, CallError
  <2>4. QED
    BY <1>2, <2>1, <2>2, <2>3 DEF Coordinate
<1>3. ASSUME NEW r \in Request, Handler(r) PROVE HoldInv'
  <2>1. CASE Refuse(r)
    BY <1>0, <2>1, ForgetHold DEF Refuse, Arrived
  <2>2. QED
    BY <1>0, <1>3, <2>1, BeginHold, EndHold DEF Handler
<1>4. ASSUME NEW r \in Request, NetworkError(r) \/ GiveUp(r) PROVE HoldInv'
  <2>1. CASE NetworkError(r)
    BY <1>0, <2>1, ForgetHold DEF NetworkError
  <2>2. QED
    BY <1>0, <1>4, <2>1, AskHold
<1>5. ASSUME NEW a \in Agent, Boot(a) \/ ResetError(a) \/ Die(a) PROVE HoldInv'
  BY <1>0, <1>5, BootHold, DieHold
<1>6. ASSUME NEW a \in Agent, NEW n \in Name, VMExit(a, n) PROVE HoldInv'
  BY <1>0, <1>6, VMExitHold
<1>7. CASE UNCHANGED vars
  <2>1. UNCHANGED <<proc, started, limits, critical, slots, used, entry, vm, deaths, seen, place, work>>
    BY <1>7 DEF vars, agentVars, requestVars
  <2>2. SameSlots
    BY <2>1 DEF SameSlots, Running, Tracked
  <2>3. Counters'
    BY <2>1 DEF HoldInv, Counters
  <2>4. QED
    BY <1>0, <2>1, <2>2, <2>3, SameSlotsKeeps DEF HoldInv, SeenInv
<1>8. QED
  BY <1>1, <1>2, <1>3, <1>4, <1>5, <1>6, <1>7 DEF Next, Ended

-----------------------------------------------------------------------------
(* The theorems about slots                                                 *)

\* The slots an agent counts as used are those of its runs and of the names it tracks,
\* through every failed command, late handler and death.
THEOREM HoldInvHolds == Spec => []HoldInv
<1>1. HoldInv /\ [Next]_vars => HoldInv'
  BY NextHold
<1>2. QED
  BY InitHold, <1>1, PTL DEF Spec

\* Placement's variables keep their types: no agent ever counts more slots used than it
\* was started with, and no status reports a negative number of free ones.
THEOREM TypeOKHolds == Spec => []TypeOK
<1>1. ASSUME HoldInv PROVE TypeOK
  <2>1. \A a \in Agent : used[a] \in 0 .. Requested
    BY <1>1, PlacementAssumption DEF HoldInv, Counters, SlotInv
  <2>2. used \in [Agent -> 0 .. Requested]
    BY <1>1, <2>1 DEF HoldInv, Counters
  <2>3. ASSUME NEW r \in Request
        PROVE  seen[r] \in UNION {[D -> 0 .. Requested] : D \in SUBSET Agent}
    <3>1. DOMAIN seen[r] \in SUBSET Agent /\ seen[r] \in [DOMAIN seen[r] -> 0 .. Requested]
      BY <1>1 DEF HoldInv, SeenInv
    <3>2. QED
      BY <3>1
  <2>4. QED
    BY <1>1, <2>2, <2>3 DEF HoldInv, PlaceInv, Shape, Counters, TypeOK
<1>2. HoldInv => TypeOK
  BY <1>1
<1>3. QED
  BY HoldInvHolds, <1>2, PTL

\* The VMs of admitted requests never outnumber the children of --child-memory-bytes
\* that fit beside the reserve, for every memory limit, budget and number of slots asked
\* for: each one alive is a run's or has a tracked name, so it holds one of the slots
\* the clamp left.
THEOREM ChildBudgetFitsHolds == Spec => []ChildBudgetFits
<1>1. ASSUME HoldInv, NEW a \in Agent, ChildMemory > 0, MemoryLimit(limits[a]) # Unlimited
      PROVE  (Cardinality(LiveOn(a)) + Cardinality(Running(a))) * ChildMemory
                =< IF MemoryLimit(limits[a]) > HeldBack THEN MemoryLimit(limits[a]) - HeldBack ELSE 0
  <2> DEFINE room == IF MemoryLimit(limits[a]) > HeldBack THEN MemoryLimit(limits[a]) - HeldBack ELSE 0
             holding == Cardinality(LiveOn(a)) + Cardinality(Running(a))
  <2>1. limits[a] \in Seq(Int)
    BY <1>1, LimitAssumption DEF HoldInv, Counters
  <2>2. MemoryLimit(limits[a]) \in Int /\ HeldBack \in Nat /\ ChildMemory \in Nat
    BY <1>1, <2>1, LimitType, PlacementAssumption DEF HeldBack
  <2>3. LiveOn(a) \subseteq Tracked(a)
    BY <1>1 DEF HoldInv, PlaceInv, SlotInv, NamesAreOwn, LiveOn, Tracked
  <2>4. /\ Cardinality(LiveOn(a)) \in Nat /\ Cardinality(LiveOn(a)) =< Cardinality(Tracked(a))
    BY <2>3, TallyType, FS_Subset, FS_CardinalityType
  <2>5. holding \in Nat /\ holding =< used[a] /\ used[a] \in Nat
    BY <1>1, <2>4, TallyType DEF HoldInv, SlotInv, Tally
  <2>6. used[a] =< slots[a] /\ slots[a] \in Nat
    BY <1>1 DEF HoldInv, SlotInv, Counters
  <2> HIDE DEF holding
  <2>7. holding * ChildMemory =< slots[a] * ChildMemory
    BY <2>2, <2>5, <2>6, ProductGrows
  <2>8. slots[a] * ChildMemory =< room
    <3>1. CASE slots[a] = 0
      <4>1. slots[a] * ChildMemory = 0 /\ room >= 0
        BY <2>2, <3>1
      <4>2. QED
        BY <2>2, <4>1
    <3>2. CASE slots[a] # 0
      <4>1. slots[a] = EffectiveSlots(limits[a])
        BY <1>1, <3>2 DEF HoldInv, SlotInv
      <4>2. QED
        BY <1>1, <2>1, <4>1, EffectiveSlotsFit
    <3>3. QED
      BY <3>1, <3>2
  <2>9. holding * ChildMemory \in Int /\ slots[a] * ChildMemory \in Int /\ room \in Int
    BY <2>2, <2>5, <2>6
  <2> HIDE DEF room
  <2>10. holding * ChildMemory =< room
    BY <2>7, <2>8, <2>9
  <2>11. QED
    BY <2>10 DEF holding, room
<1>2. HoldInv => ChildBudgetFits
  BY <1>1 DEF ChildBudgetFits
<1>3. QED
  BY HoldInvHolds, <1>2, PTL
=============================================================================

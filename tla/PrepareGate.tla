---------------------------- MODULE PrepareGate ----------------------------
(***************************************************************************)
(* The gate that serialises the prepare and release operations of one run   *)
(* ID on an agent: lockPrepareOperation and the unlock function it returns. *)
(*                                                                          *)
(* A gate is a heap object with a one-token channel and a reference count.  *)
(* The map holds the gate of the run ID while the count is positive; an     *)
(* operation keeps a pointer to the gate it found, so a gate that left the  *)
(* map may still be in use while another one is created.                    *)
(***************************************************************************)
EXTENDS Integers, FiniteSets

CONSTANTS
    Op,     \* prepare and release requests
    Gate,   \* heap objects
    None    \* the map has no gate

ASSUME GateAssumption == IsFiniteSet(Op) /\ None \notin Gate

VARIABLES
    pc,     \* "idle", "wait", "inside", "unref"
    gate,   \* gate[p]: the gate operation p holds a pointer to, or None
    current,\* Runner.prepareOps[runID]
    refs,   \* prepareOperation.refs
    token   \* messages in the token channel of each gate

vars == <<pc, gate, current, refs, token>>

Init ==
    /\ pc = [p \in Op |-> "idle"]
    /\ gate = [p \in Op |-> None]
    /\ current = None
    /\ refs = [g \in Gate |-> 0]
    /\ token = [g \in Gate |-> 0]

\* Under prepareOpsMu: the gate in the map gets one more reference.
EnterGate(p) ==
    /\ pc[p] = "idle"
    /\ current # None
    /\ refs' = [refs EXCEPT ![current] = @ + 1]
    /\ gate' = [gate EXCEPT ![p] = current]
    /\ pc' = [pc EXCEPT ![p] = "wait"]
    /\ UNCHANGED <<current, token>>

\* Under prepareOpsMu: a new object, with its token, goes into the map.
CreateGate(p, g) ==
    /\ pc[p] = "idle"
    /\ current = None
    /\ \A q \in Op : gate[q] # g
    /\ current' = g
    /\ refs' = [refs EXCEPT ![g] = 1]
    /\ token' = [token EXCEPT ![g] = 1]
    /\ gate' = [gate EXCEPT ![p] = g]
    /\ pc' = [pc EXCEPT ![p] = "wait"]

\* The token is received from the channel.
TakeToken(p) ==
    /\ pc[p] = "wait"
    /\ token[gate[p]] = 1
    /\ token' = [token EXCEPT ![gate[p]] = 0]
    /\ pc' = [pc EXCEPT ![p] = "inside"]
    /\ UNCHANGED <<gate, current, refs>>

\* The request's context ends, before or while it waits for the token.
GiveUp(p) ==
    /\ pc[p] = "wait"
    /\ pc' = [pc EXCEPT ![p] = "unref"]
    /\ UNCHANGED <<gate, current, refs, token>>

\* Mutant: unlock gives up the reference and not the token.
ForgetToken(p) ==
    /\ pc[p] = "inside"
    /\ pc' = [pc EXCEPT ![p] = "unref"]
    /\ UNCHANGED <<gate, current, refs, token>>

\* unlock sends the token back, which would block on a full channel.
ReturnToken(p) ==
    /\ pc[p] = "inside"
    /\ token[gate[p]] = 0
    /\ token' = [token EXCEPT ![gate[p]] = 1]
    /\ pc' = [pc EXCEPT ![p] = "unref"]
    /\ UNCHANGED <<gate, current, refs>>

\* Mutant: the map entry is deleted by whoever leaves first.
UnrefDeletes(p) ==
    /\ pc[p] = "unref"
    /\ refs' = [refs EXCEPT ![gate[p]] = @ - 1]
    /\ current' = IF current = gate[p] THEN None ELSE current
    /\ gate' = [gate EXCEPT ![p] = None]
    /\ pc' = [pc EXCEPT ![p] = "idle"]
    /\ UNCHANGED token

\* releasePrepareOperationRef: the last reference deletes the map entry.
Unref(p) ==
    /\ pc[p] = "unref"
    /\ refs' = [refs EXCEPT ![gate[p]] = @ - 1]
    /\ current' = IF refs[gate[p]] = 1 /\ current = gate[p] THEN None ELSE current
    /\ gate' = [gate EXCEPT ![p] = None]
    /\ pc' = [pc EXCEPT ![p] = "idle"]
    /\ UNCHANGED token

Enter(p) == EnterGate(p) \/ \E g \in Gate : CreateGate(p, g)

Next == \E p \in Op : Enter(p) \/ TakeToken(p) \/ GiveUp(p) \/ ReturnToken(p) \/ Unref(p)

Spec == Init /\ [][Next]_vars

\* Go's channels hand a token to the receiver that waited longest, so one that
\* becomes available again and again is eventually taken.  The operation
\* inside ends: its spore commands are killed with its context.
Fairness ==
    \A p \in Op : SF_vars(TakeToken(p)) /\ WF_vars(ReturnToken(p)) /\ WF_vars(Unref(p))

FairSpec == Spec /\ Fairness

-----------------------------------------------------------------------------
(* Properties                                                               *)

TypeOK ==
    /\ pc \in [Op -> {"idle", "wait", "inside", "unref"}]
    /\ gate \in [Op -> Gate \cup {None}]
    /\ current \in Gate \cup {None}
    /\ refs \in [Gate -> Nat]
    /\ token \in [Gate -> {0, 1}]

\* design.md: "Agent prepare and release operations are serialized per unique
\* active run ID", although gates come and go while operations hold pointers
\* to them.
MutualExclusion ==
    \A p, q \in Op : pc[p] = "inside" /\ pc[q] = "inside" => p = q

\* The map entry goes with the last operation: run IDs do not pile up.
NoGateLeak == (\A p \in Op : pc[p] = "idle") => current = None

\* An operation that waits gets in, or gives up: no token is lost and no
\* operation waits at a gate nobody will open.
WaiterProceeds == \A p \in Op : pc[p] = "wait" ~> pc[p] # "wait"
=============================================================================

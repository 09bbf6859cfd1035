------------------------- MODULE PrepareGateProofs -------------------------
(* Proofs about PrepareGate, for any number of operations and gates.        *)
EXTENDS PrepareGate, FiniteSetTheorems, TLAPS

Busy == {p \in Op : pc[p] # "idle"}

\* Everyone who is not idle points to the gate in the map: an entry is only
\* deleted when nobody is left who could still use it.
OneGate ==
    /\ \A p \in Op : pc[p] # "idle" => gate[p] = current /\ current # None
    /\ \A p \in Op : pc[p] = "idle" => gate[p] = None

\* The reference count is the number of those who point to the gate.
Counted == current # None => refs[current] = Cardinality(Busy)

\* The entry goes with the last reference.
Kept == current # None => Busy # {}

\* The channel is empty exactly while one operation is inside.
TokenHeld ==
    /\ \A p \in Op : pc[p] = "inside" => token[current] = 0
    /\ current # None => token[current] = 1 \/ \E p \in Op : pc[p] = "inside"

Inv == TypeOK /\ OneGate /\ Counted /\ Kept /\ MutualExclusion /\ TokenHeld

\* The operations that are not idle can be counted.
LEMMA BusyFinite == IsFiniteSet(Busy) /\ Cardinality(Busy) \in Nat
  <1>1. Busy \in SUBSET Op
    BY DEF Busy
  <1>2. IsFiniteSet(Busy)
    BY <1>1, GateAssumption, FS_Subset
  <1> QED
    BY <1>2, FS_CardinalityType

\* No operation and no gate to begin with.
LEMMA InitInv == Init => Inv
  BY GateAssumption DEF Init, Inv, TypeOK, OneGate, Counted, Kept, MutualExclusion, TokenHeld

\* Finding the gate in the map: one more operation, one more reference.
LEMMA EnterGateInv ==
    ASSUME Inv, NEW p \in Op, EnterGate(p)
    PROVE  Inv'
  <1> USE DEF Inv, EnterGate
  <1>1. TypeOK'
    BY DEF TypeOK
  <1>2. OneGate' /\ MutualExclusion' /\ TokenHeld'
    BY DEF OneGate, MutualExclusion, TokenHeld, TypeOK
  <1>3. Busy' = Busy \cup {p} /\ p \notin Busy
    BY DEF Busy, TypeOK
  <1>4. Cardinality(Busy') = Cardinality(Busy) + 1
    BY <1>3, BusyFinite, FS_AddElement
  <1>5. Counted' /\ Kept'
    BY <1>3, <1>4 DEF Counted, Kept, TypeOK
  <1> QED
    BY <1>1, <1>2, <1>5

\* Creating the gate: nobody else is busy, or there would be an entry.
LEMMA CreateGateInv ==
    ASSUME Inv, NEW p \in Op, NEW g \in Gate, CreateGate(p, g)
    PROVE  Inv'
  <1> USE DEF Inv, CreateGate
  <1>0. g # None
    BY GateAssumption
  <1>1. TypeOK'
    BY DEF TypeOK
  <1>2. \A q \in Op : pc[q] = "idle"
    BY DEF OneGate
  <1>3. OneGate' /\ MutualExclusion' /\ TokenHeld'
    BY <1>0, <1>2 DEF OneGate, MutualExclusion, TokenHeld, TypeOK
  <1>4. Busy' = {p}
    BY <1>2 DEF Busy, TypeOK
  <1>5. Counted' /\ Kept'
    BY <1>4, FS_Singleton DEF Counted, Kept, TypeOK
  <1> QED
    BY <1>1, <1>3, <1>5

\* Steps that leave the references alone move between the busy places.
LEMMA BusyUnchanged ==
    ASSUME Inv, NEW p \in Op, pc[p] # "idle",
           NEW place \in {"inside", "unref"}, pc' = [pc EXCEPT ![p] = place],
           UNCHANGED <<gate, current, refs>>
    PROVE  OneGate' /\ Counted' /\ Kept'
  <1> USE DEF Inv
  <1>1. Busy' = Busy
    BY DEF Busy, TypeOK
  <1>2. OneGate'
    BY DEF OneGate, TypeOK
  <1> QED
    BY <1>1, <1>2 DEF Counted, Kept

\* The token is there, so nobody is inside.
LEMMA TakeTokenInv ==
    ASSUME Inv, NEW p \in Op, TakeToken(p)
    PROVE  Inv'
  <1> USE DEF Inv, TakeToken
  <1>1. TypeOK'
    BY DEF TypeOK
  <1>2. OneGate' /\ Counted' /\ Kept'
    BY BusyUnchanged
  <1>3. gate[p] = current /\ current \in Gate
    BY DEF OneGate, TypeOK
  <1>4. MutualExclusion' /\ TokenHeld'
    BY <1>3 DEF MutualExclusion, TokenHeld, TypeOK
  <1> QED
    BY <1>1, <1>2, <1>4

\* A request that gives up has not touched the token.
LEMMA GiveUpInv ==
    ASSUME Inv, NEW p \in Op, GiveUp(p)
    PROVE  Inv'
  <1> USE DEF Inv, GiveUp
  <1>1. TypeOK'
    BY DEF TypeOK
  <1>2. OneGate' /\ Counted' /\ Kept'
    BY BusyUnchanged
  <1>3. MutualExclusion' /\ TokenHeld'
    BY DEF MutualExclusion, TokenHeld, TypeOK
  <1> QED
    BY <1>1, <1>2, <1>3

\* Whoever returns the token was alone inside.
LEMMA ReturnTokenInv ==
    ASSUME Inv, NEW p \in Op, ReturnToken(p)
    PROVE  Inv'
  <1> USE DEF Inv, ReturnToken
  <1>1. TypeOK'
    BY DEF TypeOK
  <1>2. OneGate' /\ Counted' /\ Kept'
    BY BusyUnchanged
  <1>3. gate[p] = current /\ current \in Gate
    BY DEF OneGate, TypeOK
  <1>4. MutualExclusion' /\ TokenHeld'
    BY <1>3 DEF MutualExclusion, TokenHeld, TypeOK
  <1> QED
    BY <1>1, <1>2, <1>4

\* One operation less, one reference less; the entry goes when none is left.
LEMMA UnrefInv ==
    ASSUME Inv, NEW p \in Op, Unref(p)
    PROVE  Inv'
  <1> USE DEF Inv, Unref
  <1>1. gate[p] = current /\ current \in Gate /\ p \in Busy
    BY DEF OneGate, TypeOK, Busy
  <1>2. Busy' = Busy \ {p}
    BY DEF Busy, TypeOK
  <1>3. IsFiniteSet(Busy') /\ Cardinality(Busy') = Cardinality(Busy) - 1
        /\ Cardinality(Busy') \in Nat
    BY <1>1, <1>2, BusyFinite, FS_RemoveElement, FS_CardinalityType
  <1>4. refs[current] = Cardinality(Busy) /\ refs'[current] = Cardinality(Busy')
    BY <1>1, <1>3, GateAssumption DEF Counted, TypeOK
  <1>5. TypeOK'
    BY <1>1, <1>3, <1>4 DEF TypeOK
  <1>6. Busy' = {} <=> refs[current] = 1
    BY <1>3, <1>4, BusyFinite, FS_EmptySet
  <1>7. current' = IF Busy' = {} THEN None ELSE current
    BY <1>1, <1>6
  <1>8. Counted' /\ Kept'
    BY <1>4, <1>7 DEF Counted, Kept
  <1>9. OneGate'
    BY <1>7 DEF OneGate, TypeOK, Busy
  <1>10. MutualExclusion'
    BY DEF MutualExclusion, TypeOK
  <1>11. TokenHeld'
    <2>1. \A q \in Op : pc'[q] = "inside" => token'[current'] = 0
      BY <1>7 DEF TokenHeld, TypeOK, Busy
    <2>2. current' # None => token'[current'] = 1 \/ \E q \in Op : pc'[q] = "inside"
      BY <1>7 DEF TokenHeld, TypeOK
    <2> QED
      BY <2>1, <2>2 DEF TokenHeld
  <1> QED
    BY <1>5, <1>8, <1>9, <1>10, <1>11

\* Every reachable state satisfies the inductive invariant.
THEOREM Invariance == Spec => []Inv
  <1>1. Inv /\ [Next]_vars => Inv'
    <2> SUFFICES ASSUME Inv, [Next]_vars PROVE Inv'
      OBVIOUS
    <2>1. CASE UNCHANGED vars
      BY <2>1 DEF vars, Inv, TypeOK, OneGate, Counted, Kept, MutualExclusion, TokenHeld, Busy
    <2>2. CASE Next
      BY <2>2, EnterGateInv, CreateGateInv, TakeTokenInv, GiveUpInv, ReturnTokenInv, UnrefInv
         DEF Next, Enter
    <2> QED
      BY <2>1, <2>2
  <1> QED
    BY InitInv, <1>1, PTL DEF Spec

\* Types are kept; in particular no reference count becomes negative.
THEOREM TypeOKHolds == Spec => []TypeOK
  BY Invariance, PTL DEF Inv

\* Prepare and release operations of one run ID are serialised, for any number
\* of concurrent requests, cancellations and generations of gates.
THEOREM MutualExclusionHolds == Spec => []MutualExclusion
  BY Invariance, PTL DEF Inv

\* The map entry of a run ID goes with its last operation.
THEOREM NoGateLeakHolds == Spec => []NoGateLeak
  <1>1. Inv => NoGateLeak
    BY DEF Inv, Kept, NoGateLeak, Busy
  <1> QED
    BY <1>1, Invariance, PTL
=============================================================================

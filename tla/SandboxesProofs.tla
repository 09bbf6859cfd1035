-------------------------- MODULE SandboxesProofs --------------------------
(* Proofs about Sandboxes, for any number of requests, names and slots and  *)
(* any set of faults.                                                       *)
EXTENDS Sandboxes, FiniteSetTheorems, FunctionTheorems, TLAPS

\* A VM is never left behind under a name the agent has forgotten, because a
\* handler that is about to forget a name has no VM of that name.
NoOrphanVM ==
    /\ \A n \in Name : vm[n] => entry[n] # "absent"
    /\ \A r \in Request : pc[r] \in {"reserved", "clear"} => ~vm[target[r]]

Inv == TypeOK /\ NameExclusion /\ SlotsAccounted /\ NoOrphanVM

\* Handlers and sandboxes that hold slots are finitely many.
LEMMA CountsFinite ==
    /\ IsFiniteSet(Holding) /\ Cardinality(Holding) \in Nat
    /\ IsFiniteSet(Active) /\ Cardinality(Active) \in Nat
  <1>1. Holding \in SUBSET Request /\ Active \in SUBSET Name
    BY DEF Holding, Active
  <1>2. IsFiniteSet(Holding) /\ IsFiniteSet(Active)
    BY <1>1, RequestAssumption, FS_Subset
  <1> QED
    BY <1>2, FS_CardinalityType

\* A fresh agent has no sandbox, no VM and no slot in use.
LEMMA InitInv == Init => Inv
  <1> SUFFICES ASSUME Init PROVE Inv
    OBVIOUS
  <1> USE DEF Init
  <1>1. TypeOK
    BY SlotsAssumption DEF TypeOK, Place
  <1>2. NameExclusion
    BY DEF NameExclusion, Reserving, ReservingAt
  <1>3. SlotsAccounted
    <2>1. Holding = {} /\ Active = {}
      BY DEF Holding, Active, HoldingAt, ReservingAt
    <2> QED
      BY <2>1, FS_EmptySet DEF SlotsAccounted
  <1>4. NoOrphanVM
    BY DEF NoOrphanVM
  <1> QED
    BY <1>1, <1>2, <1>3, <1>4 DEF Inv

\* A step that moves no slot: the handler keeps what it holds, and no sandbox
\* becomes or ceases to be active.
LEMMA SlotsUnmoved ==
    ASSUME SlotsAccounted, Holding' = Holding, Active' = Active, used' = used
    PROVE  SlotsAccounted'
  BY DEF SlotsAccounted

-----------------------------------------------------------------------------
(* One lemma per action or group of actions with one effect                 *)

\* admitOne: a handler that held nothing holds the slot it took.
LEMMA AdmitOneInv ==
    ASSUME Inv, NEW r \in Request, NEW place \in {"running", "admitted"}, AdmitOne(r, place)
    PROVE  Inv'
  <1> USE DEF Inv, AdmitOne, Go
  <1>1. TypeOK'
    BY SlotsAssumption DEF TypeOK, Place, HoldingAt
  <1>2. NameExclusion'
    <2>1. \A n \in Name : Reserving(n)' = Reserving(n)
      BY DEF Reserving, ReservingAt, TypeOK
    <2> QED
      BY <2>1 DEF NameExclusion
  <1>3. SlotsAccounted'
    <2>1. Holding' = Holding \cup {r} /\ r \notin Holding /\ Active' = Active
      BY DEF Holding, HoldingAt, ReservingAt, Active, TypeOK
    <2>2. Cardinality(Holding') = Cardinality(Holding) + 1
      BY <2>1, CountsFinite, FS_AddElement
    <2> QED
      BY <2>1, <2>2, CountsFinite DEF SlotsAccounted, TypeOK
  <1>4. NoOrphanVM'
    BY DEF NoOrphanVM
  <1> QED
    BY <1>1, <1>2, <1>3, <1>4

\* The release function is called once: its handler held a slot and holds none.
LEMMA ReleaseInv ==
    ASSUME Inv, NEW r \in Request, Release(r)
    PROVE  Inv'
  <1> USE DEF Inv, Release, Go
  <1>1. Holding' = Holding \ {r} /\ r \in Holding /\ Active' = Active
    BY DEF Holding, HoldingAt, ReservingAt, Active, TypeOK
  <1>2. /\ Cardinality(Holding') = Cardinality(Holding) - 1
        /\ Cardinality(Holding') \in Nat
    BY <1>1, CountsFinite, FS_RemoveElement, FS_CardinalityType
  <1>3. SlotsAccounted'
    BY <1>1, <1>2, CountsFinite DEF SlotsAccounted, TypeOK
  <1>4. used' \in 0 .. Slots
    <2>1. used' \in Nat
      BY <1>1, <1>2, <1>3, CountsFinite DEF SlotsAccounted
    <2> QED
      BY <2>1, SlotsAssumption DEF TypeOK
  <1>5. TypeOK'
    BY <1>4 DEF TypeOK, Place
  <1>6. NameExclusion'
    <2>1. \A n \in Name : Reserving(n)' = Reserving(n)
      BY DEF Reserving, ReservingAt, TypeOK
    <2> QED
      BY <2>1 DEF NameExclusion
  <1>7. NoOrphanVM'
    BY DEF NoOrphanVM
  <1> QED
    BY <1>3, <1>5, <1>6, <1>7

\* A handler that neither holds nor reserves ends or asks spore, at most
\* removing a VM.
LEMMA IdleMoveInv ==
    ASSUME Inv, NEW r \in Request, NEW place \in {"done", "executing", "removingUntracked"},
           pc[r] \in {"new", "executing", "removingUntracked"}, Go(r, place),
           MaybeSetVM(r, FALSE), UNCHANGED <<target, entry, used>>
    PROVE  Inv'
  <1> USE DEF Inv, Go, MaybeSetVM, SetVM
  <1>1. TypeOK'
    BY DEF TypeOK, Place
  <1>2. NameExclusion'
    <2>1. \A n \in Name : Reserving(n)' = Reserving(n)
      BY DEF Reserving, ReservingAt, TypeOK
    <2> QED
      BY <2>1 DEF NameExclusion
  <1>3. Holding' = Holding /\ Active' = Active
    BY DEF Holding, HoldingAt, ReservingAt, Active, TypeOK
  <1>4. NoOrphanVM'
    BY DEF NoOrphanVM, TypeOK
  <1> QED
    BY <1>1, <1>2, <1>3, <1>4, SlotsUnmoved

\* A handler keeps its slot and moves before it reserves its name or after it
\* has given the name up.
LEMMA UnreservedMoveInv ==
    ASSUME Inv, NEW r \in Request, pc[r] \in {"running", "admitted"}, Go(r, "release"),
           UNCHANGED <<target, entry, vm, used>>
    PROVE  Inv'
  <1> USE DEF Inv, Go
  <1>1. TypeOK'
    BY DEF TypeOK, Place, HoldingAt
  <1>2. NameExclusion'
    <2>1. \A n \in Name : Reserving(n)' = Reserving(n)
      BY DEF Reserving, ReservingAt, TypeOK
    <2> QED
      BY <2>1 DEF NameExclusion
  <1>3. Holding' = Holding /\ Active' = Active
    BY DEF Holding, HoldingAt, ReservingAt, Active, TypeOK
  <1>4. NoOrphanVM'
    BY DEF NoOrphanVM
  <1> QED
    BY <1>1, <1>2, <1>3, <1>4, SlotsUnmoved

\* The handler that reserved a name works on its VM; a handler that frees the
\* name has made sure that there is none.
LEMMA ReservedMoveInv ==
    ASSUME Inv, NEW r \in Request, NEW place \in ReservingAt \ {"reserved"},
           pc[r] \in ReservingAt, Go(r, place), NEW b \in BOOLEAN,
           MaybeSetVM(r, b), UNCHANGED <<target, entry, used>>,
           place = "clear" => ~vm'[target[r]]
    PROVE  Inv'
  <1> USE DEF Inv, Go, MaybeSetVM, SetVM
  <1>1. TypeOK'
    BY DEF TypeOK, Place, HoldingAt
  <1>2. NameExclusion'
    <2>1. \A n \in Name : Reserving(n)' = Reserving(n)
      BY DEF Reserving, TypeOK
    <2> QED
      BY <2>1 DEF NameExclusion
  <1>3. Holding' = Holding /\ Active' = Active
    BY DEF Holding, HoldingAt, Active, TypeOK
  <1>4. NoOrphanVM'
    <2>1. entry[target[r]] = "reserved"
      BY DEF NameExclusion, Reserving, TypeOK
    <2>2. \A n \in Name : vm'[n] => entry'[n] # "absent"
      BY <2>1 DEF NoOrphanVM, TypeOK
    <2>3. ASSUME NEW q \in Request, pc'[q] \in {"reserved", "clear"}
          PROVE  ~vm'[target'[q]]
      <3>1. CASE q = r
        BY <2>3, <3>1 DEF TypeOK
      <3>2. CASE q # r
        <4>1. pc[q] \in {"reserved", "clear"}
          BY <2>3, <3>2 DEF TypeOK
        <4>2. target[q] # target[r]
          BY <3>2, <4>1 DEF NameExclusion, Reserving, ReservingAt, TypeOK
        <4> QED
          BY <4>1, <4>2 DEF NoOrphanVM, TypeOK
      <3> QED
        BY <3>1, <3>2
    <2> QED
      BY <2>2, <2>3 DEF NoOrphanVM
  <1> QED
    BY <1>1, <1>2, <1>3, <1>4, SlotsUnmoved

\* reserveSandbox: a free name has no other handler, and gets this one.
LEMMA ReserveSandboxInv ==
    ASSUME Inv, NEW r \in Request, ReserveSandbox(r)
    PROVE  Inv'
  <1> USE DEF Inv, ReserveSandbox, Go, SetEntry
  <1>1. TypeOK'
    BY DEF TypeOK, Place, HoldingAt, ReservingAt
  <1>2. NameExclusion'
    <2>1. Reserving(target[r]) = {} /\ target[r] \in Name
      BY DEF NameExclusion, TypeOK
    <2>2. Reserving(target[r])' = {r}
      BY <2>1 DEF Reserving, ReservingAt, TypeOK
    <2>3. \A n \in Name : n # target[r] => Reserving(n)' = Reserving(n)
      BY DEF Reserving, TypeOK
    <2> QED
      BY <2>1, <2>2, <2>3 DEF NameExclusion, TypeOK
  <1>3. Holding' = Holding /\ Active' = Active
    BY DEF Holding, HoldingAt, ReservingAt, Active, TypeOK
  <1>4. NoOrphanVM'
    BY DEF NoOrphanVM, TypeOK
  <1> QED
    BY <1>1, <1>2, <1>3, <1>4, SlotsUnmoved

\* sandboxRelease: the slot of an active sandbox passes to the handler.
LEMMA RemoveSandboxInv ==
    ASSUME Inv, NEW r \in Request, RemoveSandbox(r)
    PROVE  Inv'
  <1> USE DEF Inv, RemoveSandbox, Go, SetEntry
  <1>1. TypeOK'
    BY DEF TypeOK, Place, HoldingAt, ReservingAt
  <1>2. NameExclusion'
    <2>1. Reserving(target[r]) = {} /\ target[r] \in Name
      BY DEF NameExclusion, TypeOK
    <2>2. Reserving(target[r])' = {r}
      BY <2>1 DEF Reserving, ReservingAt, TypeOK
    <2>3. \A n \in Name : n # target[r] => Reserving(n)' = Reserving(n)
      BY DEF Reserving, TypeOK
    <2> QED
      BY <2>1, <2>2, <2>3 DEF NameExclusion, TypeOK
  <1>3. SlotsAccounted'
    <2>1. Holding' = Holding \cup {r} /\ r \notin Holding
      BY DEF Holding, HoldingAt, ReservingAt, TypeOK
    <2>2. Active' = Active \ {target[r]} /\ target[r] \in Active
      BY DEF Active, TypeOK
    <2>3. Cardinality(Holding') = Cardinality(Holding) + 1
      BY <2>1, CountsFinite, FS_AddElement
    <2>4. Cardinality(Active') = Cardinality(Active) - 1
      BY <2>2, CountsFinite, FS_RemoveElement
    <2> QED
      BY <2>3, <2>4, CountsFinite DEF SlotsAccounted
  <1>4. NoOrphanVM'
    BY DEF NoOrphanVM, TypeOK
  <1> QED
    BY <1>1, <1>2, <1>3, <1>4

\* The handler that reserved a name is the only one, and gives it up.
LEMMA GiveUpName ==
    ASSUME TypeOK, NameExclusion, NEW r \in Request, pc[r] \in ReservingAt,
           NEW place, place \notin ReservingAt, Go(r, place), target' = target
    PROVE  /\ Reserving(target[r])' = {}
           /\ \A n \in Name : n # target[r] => Reserving(n)' = Reserving(n)
           /\ target[r] \in Name /\ entry[target[r]] = "reserved"
  <1> USE DEF Go
  <1>1. target[r] \in Name /\ r \in Reserving(target[r])
    BY DEF Reserving, TypeOK
  <1>2. \A q \in Reserving(target[r]) : q = r
    BY <1>1 DEF NameExclusion
  <1>3. Reserving(target[r])' = {}
    BY <1>2 DEF Reserving, TypeOK
  <1>4. \A n \in Name : n # target[r] => Reserving(n)' = Reserving(n)
    BY DEF Reserving, TypeOK
  <1>5. entry[target[r]] = "reserved"
    BY <1>1 DEF NameExclusion
  <1> QED
    BY <1>1, <1>3, <1>4, <1>5

\* activateSandbox: the handler's slot passes to the sandbox.
LEMMA ActivateSandboxInv ==
    ASSUME Inv, NEW r \in Request, ActivateSandbox(r)
    PROVE  Inv'
  <1> USE DEF Inv, ActivateSandbox, SetEntry
  <1>0. /\ Reserving(target[r])' = {}
        /\ \A n \in Name : n # target[r] => Reserving(n)' = Reserving(n)
        /\ target[r] \in Name /\ entry[target[r]] = "reserved"
    BY GiveUpName, "done" \notin ReservingAt DEF ReservingAt
  <1>1. TypeOK'
    BY DEF TypeOK, Place, Go
  <1>2. NameExclusion'
    BY <1>0 DEF NameExclusion, TypeOK
  <1>3. SlotsAccounted'
    <2>1. Holding' = Holding \ {r} /\ r \in Holding
      BY DEF Holding, HoldingAt, ReservingAt, TypeOK, Go
    <2>2. Active' = Active \cup {target[r]} /\ target[r] \notin Active
      BY <1>0 DEF Active, TypeOK
    <2>3. Cardinality(Holding') = Cardinality(Holding) - 1
      BY <2>1, CountsFinite, FS_RemoveElement
    <2>4. Cardinality(Active') = Cardinality(Active) + 1
      BY <2>2, CountsFinite, FS_AddElement
    <2> QED
      BY <2>3, <2>4, CountsFinite DEF SlotsAccounted
  <1>4. NoOrphanVM'
    BY DEF NoOrphanVM, TypeOK, Go
  <1> QED
    BY <1>1, <1>2, <1>3, <1>4

\* The entry is deleted; there is no VM of that name any more.
LEMMA ClearEntryInv ==
    ASSUME Inv, NEW r \in Request, ClearEntry(r)
    PROVE  Inv'
  <1> USE DEF Inv, ClearEntry, SetEntry
  <1>0. /\ Reserving(target[r])' = {}
        /\ \A n \in Name : n # target[r] => Reserving(n)' = Reserving(n)
        /\ target[r] \in Name /\ entry[target[r]] = "reserved"
    BY GiveUpName, "release" \notin ReservingAt DEF ReservingAt
  <1>1. TypeOK'
    BY DEF TypeOK, Place, HoldingAt, Go
  <1>2. NameExclusion'
    BY <1>0 DEF NameExclusion, TypeOK
  <1>3. Holding' = Holding /\ Active' = Active
    BY <1>0 DEF Holding, HoldingAt, ReservingAt, Active, TypeOK, Go
  <1>4. NoOrphanVM'
    <2>1. ~vm[target[r]]
      BY DEF NoOrphanVM
    <2>2. ASSUME NEW n \in Name, vm'[n]
          PROVE  entry'[n] # "absent"
      BY <2>1, <2>2 DEF NoOrphanVM, TypeOK
    <2>3. ASSUME NEW q \in Request, pc'[q] \in {"reserved", "clear"}
          PROVE  ~vm'[target'[q]]
      BY <2>3 DEF NoOrphanVM, TypeOK, Go
    <2> QED
      BY <2>2, <2>3 DEF NoOrphanVM
  <1> QED
    BY <1>1, <1>2, <1>3, <1>4, SlotsUnmoved

\* A VM that ends by itself leaves its entry and its slot where they are.
LEMMA VMExitInv ==
    ASSUME Inv, NEW n \in Name, VMExit(n)
    PROVE  Inv'
  <1> USE DEF Inv, VMExit
  <1>1. TypeOK'
    BY DEF TypeOK
  <1>2. NameExclusion'
    BY DEF NameExclusion, Reserving
  <1>3. Holding' = Holding /\ Active' = Active
    BY DEF Holding, Active
  <1>4. NoOrphanVM'
    BY DEF NoOrphanVM, TypeOK
  <1> QED
    BY <1>1, <1>2, <1>3, <1>4, SlotsUnmoved

\* Taking up a request preserves the invariant.
LEMMA ArriveInv ==
    ASSUME Inv, NEW r \in Request, Arrive(r)
    PROVE  Inv'
  <1>1. CASE Run(r)
    BY <1>1, AdmitOneInv DEF Run
  <1>2. CASE CreateSandbox(r)
    BY <1>2, AdmitOneInv DEF CreateSandbox
  <1>3. CASE AdmitRefused(r)
    BY <1>3, IdleMoveInv DEF AdmitRefused, MaybeSetVM
  <1>4. CASE RemoveSandbox(r)
    BY <1>4, RemoveSandboxInv
  <1>5. CASE RemoveBusy(r)
    BY <1>5, IdleMoveInv DEF RemoveBusy, MaybeSetVM
  <1>6. CASE RemoveUnknown(r)
    BY <1>6, IdleMoveInv DEF RemoveUnknown, MaybeSetVM
  <1>7. CASE ExecSandbox(r)
    BY <1>7, IdleMoveInv DEF ExecSandbox, MaybeSetVM
  <1>8. CASE ExecRefused(r)
    BY <1>8, IdleMoveInv DEF ExecRefused, MaybeSetVM
  <1> QED
    BY <1>1, <1>2, <1>3, <1>4, <1>5, <1>6, <1>7, <1>8 DEF Arrive

\* Every later step of a handler preserves the invariant.
LEMMA ProgressInv ==
    ASSUME Inv, NEW r \in Request, Progress(r)
    PROVE  Inv'
  <1>1. CASE RunEnd(r)
    BY <1>1, UnreservedMoveInv DEF RunEnd
  <1>2. CASE ReserveSandbox(r)
    BY <1>2, ReserveSandboxInv
  <1>3. CASE ReserveExists(r)
    BY <1>3, UnreservedMoveInv DEF ReserveExists
  <1>4. CASE TemplateError(r)
    <2>1. ~vm'[target[r]] /\ MaybeSetVM(r, FALSE)
      BY <1>4 DEF TemplateError, MaybeSetVM, Inv, NoOrphanVM
    <2> QED
      BY <1>4, <2>1, ReservedMoveInv DEF TemplateError, ReservingAt
  <1>5. CASE RestoreNamed(r)
    <2>1. "restored" \in ReservingAt \ {"reserved"} /\ pc[r] \in ReservingAt
      BY <1>5 DEF RestoreNamed, ReservingAt
    <2>2. MaybeSetVM(r, TRUE) /\ Go(r, "restored") /\ UNCHANGED <<target, entry, used>>
      BY <1>5 DEF RestoreNamed, MaybeSetVM
    <2> QED
      BY <2>1, <2>2, ReservedMoveInv
  <1>6. CASE RestoreError(r)
    <2>1. "cleanup" \in ReservingAt \ {"reserved"} /\ pc[r] \in ReservingAt
      BY <1>6 DEF RestoreError, ReservingAt
    <2>2. MaybeSetVM(r, TRUE) /\ Go(r, "cleanup") /\ UNCHANGED <<target, entry, used>>
      BY <1>6 DEF RestoreError, MaybeSetVM
    <2> QED
      BY <2>1, <2>2, ReservedMoveInv
  <1>7. CASE CleanupVM(r)
    <2>1. ~vm'[target[r]] /\ MaybeSetVM(r, FALSE)
      BY <1>7 DEF CleanupVM, MaybeSetVM, SetVM, Inv, TypeOK
    <2> QED
      BY <1>7, <2>1, ReservedMoveInv DEF CleanupVM, ReservingAt
  <1>8. CASE CleanupError(r)
    <2>1. "reactivate" \in ReservingAt \ {"reserved"} /\ pc[r] \in ReservingAt
      BY <1>8 DEF CleanupError, ReservingAt
    <2>2. MaybeSetVM(r, FALSE) /\ Go(r, "reactivate") /\ UNCHANGED <<target, entry, used>>
      BY <1>8 DEF CleanupError, MaybeSetVM
    <2> QED
      BY <2>1, <2>2, ReservedMoveInv
  <1>9. CASE ActivateSandbox(r)
    BY <1>9, ActivateSandboxInv
  <1>10. CASE RemoveVM(r)
    <2>1. ~vm'[target[r]] /\ MaybeSetVM(r, FALSE)
      BY <1>10 DEF RemoveVM, MaybeSetVM, SetVM, Inv, TypeOK
    <2> QED
      BY <1>10, <2>1, ReservedMoveInv DEF RemoveVM, ReservingAt
  <1>11. CASE RemoveVMError(r)
    <2>1. "reactivate" \in ReservingAt \ {"reserved"} /\ pc[r] \in ReservingAt
      BY <1>11 DEF RemoveVMError, ReservingAt
    <2>2. MaybeSetVM(r, FALSE) /\ Go(r, "reactivate") /\ UNCHANGED <<target, entry, used>>
      BY <1>11 DEF RemoveVMError, MaybeSetVM
    <2> QED
      BY <2>1, <2>2, ReservedMoveInv
  <1>12. CASE RemoveUnknownVM(r)
    BY <1>12, IdleMoveInv DEF RemoveUnknownVM, MaybeSetVM
  <1>13. CASE RemoveUnknownVMError(r)
    BY <1>13, IdleMoveInv DEF RemoveUnknownVMError
  <1>14. CASE ClearEntry(r)
    BY <1>14, ClearEntryInv
  <1>15. CASE Release(r)
    BY <1>15, ReleaseInv
  <1>16. CASE ExecEnd(r)
    BY <1>16, IdleMoveInv DEF ExecEnd, MaybeSetVM
  <1> QED
    BY <1>1, <1>2, <1>3, <1>4, <1>5, <1>6, <1>7, <1>8, <1>9, <1>10, <1>11, <1>12,
       <1>13, <1>14, <1>15, <1>16 DEF Progress

\* A step that changes nothing preserves the invariant.
LEMMA StutterInv ==
    ASSUME Inv, UNCHANGED vars
    PROVE  Inv'
  BY DEF vars, Inv, TypeOK, NameExclusion, Reserving, SlotsAccounted, Holding, Active,
         NoOrphanVM

\* Every reachable state of the agent satisfies the inductive invariant.
THEOREM Invariance == Spec => []Inv
  <1>1. Inv /\ [Next]_vars => Inv'
    BY ArriveInv, ProgressInv, VMExitInv, StutterInv DEF Next, Ended
  <1> QED
    BY InitInv, <1>1, PTL DEF Spec

\* Every variable keeps its type, and the limiter stays within the agent's slots.
THEOREM TypeOKHolds == Spec => []TypeOK
  BY Invariance, PTL DEF Inv

\* Creations and deletions of one name exclude each other, for any number of
\* requests, although no lock is held while spore works on the VM.
THEOREM NameExclusionHolds == Spec => []NameExclusion
  BY Invariance, PTL DEF Inv

\* No interleaving of creations, deletions, runs and failed commands loses a
\* slot or releases one twice.
THEOREM SlotsAccountedHolds == Spec => []SlotsAccounted
  BY Invariance, PTL DEF Inv

\* A command by exec never runs in a VM the agent has forgotten, whatever was
\* deleted and created after its check.
THEOREM ExecStaysTrackedHolds == Spec => []ExecStaysTracked
  <1>1. Inv => ExecStaysTracked
    BY DEF Inv, NoOrphanVM, TypeOK, ExecStaysTracked
  <1> QED
    BY Invariance, <1>1, PTL

\* Disjoint finite sets are counted apart.
LEMMA DisjointUnion ==
    ASSUME NEW S, NEW T, IsFiniteSet(S), IsFiniteSet(T), S \cap T = {}
    PROVE  /\ IsFiniteSet(S \cup T)
           /\ Cardinality(S \cup T) = Cardinality(S) + Cardinality(T)
  <1>1. Cardinality(S \cap T) = 0
    BY FS_EmptySet
  <1>2. Cardinality(S) \in Nat /\ Cardinality(T) \in Nat
    BY FS_CardinalityType
  <1>3. /\ IsFiniteSet(S \cup T)
        /\ Cardinality(S \cup T) = Cardinality(S) + Cardinality(T) - Cardinality(S \cap T)
    BY FS_Union
  <1> QED
    BY <1>1, <1>2, <1>3

\* Every named VM and every running command is backed by a slot of its own: a
\* VM's name is active or reserved, and a reserved name has a handler that
\* holds a slot.
LEMMA VMsAreBacked == Inv => VMsHoldSlots
  <1> SUFFICES ASSUME Inv PROVE VMsHoldSlots
    OBVIOUS
  <1> DEFINE Busy == {r \in Request : pc[r] \in ReservingAt}
             BusyNames == {n \in Name : entry[n] = "reserved"}
             f == [r \in Busy |-> target[r]]
  <1>1. /\ IsFiniteSet(Busy) /\ IsFiniteSet(BusyNames) /\ IsFiniteSet(Active)
        /\ IsFiniteSet(RunningCommands) /\ IsFiniteSet(Live) /\ IsFiniteSet(Holding)
    <2>1. /\ Busy \in SUBSET Request /\ BusyNames \in SUBSET Name /\ Active \in SUBSET Name
          /\ RunningCommands \in SUBSET Request /\ Live \in SUBSET Name
          /\ Holding \in SUBSET Request
      BY DEF Active, RunningCommands, Live, Holding
    <2> QED
      BY <2>1, FS_Subset, RequestAssumption
  <1>2. Cardinality(BusyNames) =< Cardinality(Busy)
    <2>1. f \in [Busy -> BusyNames]
      BY DEF Inv, NameExclusion, Reserving, TypeOK
    <2>2. \A n \in BusyNames : \E r \in Busy : f[r] = n
      BY DEF Inv, NameExclusion, Reserving, TypeOK
    <2>3. f \in Surjection(Busy, BusyNames)
      BY <2>1, <2>2 DEF Surjection
    <2> QED
      BY <2>3, <1>1, FS_Surjection
  <1>3. Cardinality(Live) =< Cardinality(Active) + Cardinality(BusyNames)
    <2>1. Live \in SUBSET (Active \cup BusyNames) /\ Active \cap BusyNames = {}
      BY DEF Inv, NoOrphanVM, TypeOK, Live, Active
    <2>2. /\ IsFiniteSet(Active \cup BusyNames)
          /\ Cardinality(Active \cup BusyNames)
               = Cardinality(Active) + Cardinality(BusyNames)
      BY <1>1, <2>1, DisjointUnion
    <2> QED
      BY <2>1, <2>2, FS_Subset
  <1>4. Cardinality(Busy) + Cardinality(RunningCommands) =< Cardinality(Holding)
    <2>1. /\ Busy \cup RunningCommands \in SUBSET Holding
          /\ Busy \cap RunningCommands = {}
      BY DEF RunningCommands, Holding, HoldingAt, ReservingAt
    <2>2. Cardinality(Busy \cup RunningCommands)
            = Cardinality(Busy) + Cardinality(RunningCommands)
      BY <1>1, <2>1, DisjointUnion
    <2> QED
      BY <1>1, <2>1, <2>2, FS_Subset
  <1>5. /\ Cardinality(Busy) \in Nat /\ Cardinality(BusyNames) \in Nat
        /\ Cardinality(Active) \in Nat /\ Cardinality(RunningCommands) \in Nat
        /\ Cardinality(Live) \in Nat /\ Cardinality(Holding) \in Nat
    BY <1>1, FS_CardinalityType
  <1> HIDE DEF Busy, BusyNames
  <1> QED
    BY <1>2, <1>3, <1>4, <1>5 DEF Inv, SlotsAccounted, VMsHoldSlots

\* "sandbox lifetime reserves an honest agent slot", whatever fails.
THEOREM VMsHoldSlotsHolds == Spec => []VMsHoldSlots
  BY Invariance, VMsAreBacked, PTL
=============================================================================

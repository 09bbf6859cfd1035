----------------------------- MODULE Sandboxes -----------------------------
(***************************************************************************)
(* The interactive API of one agent: POST /sandboxes, POST                  *)
(* /sandboxes/{name}/exec, DELETE /sandboxes/{name} and POST /runs over one *)
(* slot limiter, the map of sandboxes and the named VMs of the spore        *)
(* runtime.                                                                 *)
(*                                                                          *)
(* Every request is a handler of its own.  The map is guarded by sandboxMu  *)
(* and the limiter by its own mutex, so a handler takes one step for each   *)
(* critical section and one for each spore command, and handlers interleave *)
(* between them.  An entry of the map is nil while a handler works on the   *)
(* name ("reserved") and otherwise holds the release function of the        *)
(* sandbox's slot ("active").                                               *)
(***************************************************************************)
EXTENDS Integers, FiniteSets

CONSTANTS
    Request,    \* requests the agent receives
    Name,       \* sandbox names
    Slots,      \* SlotLimiter.total
    Faults      \* what may go wrong

FaultKinds == {"pressure", "template", "restore", "remove", "exit"}

ASSUME RequestAssumption == IsFiniteSet(Request) /\ IsFiniteSet(Name)
ASSUME SlotsAssumption == Slots \in Nat \ {0}
ASSUME SandboxFaultAssumption == Faults \subseteq FaultKinds

VARIABLES
    pc,     \* where the handler of each request is
    target, \* target[r]: the name request r carries
    entry,  \* Runner.sandboxes: "absent", "reserved" or "active"
    vm,     \* vm[n]: spore has a VM of that name
    used    \* SlotLimiter.used

vars == <<pc, target, entry, vm, used>>

\* Places of a handler that has set the entry of its name to nil.
ReservingAt == {"reserved", "restored", "cleanup", "removing", "reactivate", "clear"}

\* Places of a handler that has a release function in hand.
HoldingAt == {"admitted", "running", "release"} \cup ReservingAt

Place == {"new", "executing", "removingUntracked", "done"} \cup HoldingAt

May(fault) == fault \in Faults

Init ==
    /\ pc = [r \in Request |-> "new"]
    /\ target \in [Request -> Name]
    /\ entry = [n \in Name |-> "absent"]
    /\ vm = [n \in Name |-> FALSE]
    /\ used = 0

Go(r, place) == pc' = [pc EXCEPT ![r] = place]
SetEntry(r, e) == entry' = [entry EXCEPT ![target[r]] = e]
SetVM(r, alive) == vm' = [vm EXCEPT ![target[r]] = alive]

\* A command that failed did its work, or did not.
MaybeSetVM(r, alive) == SetVM(r, alive) \/ UNCHANGED vm

-----------------------------------------------------------------------------
\* admitOne: TryAcquire(1) of the limiter.
AdmitOne(r, place) ==
    /\ pc[r] = "new"
    /\ used < Slots
    /\ used' = used + 1
    /\ Go(r, place)
    /\ UNCHANGED <<target, entry, vm>>

\* ErrOversubscribed or ErrUnsafePressure: nothing is kept.
AdmitRefused(r) ==
    /\ pc[r] = "new"
    /\ used = Slots \/ May("pressure")
    /\ Go(r, "done")
    /\ UNCHANGED <<target, entry, vm, used>>

\* The slot's release function is called, the last thing a handler does.
Release(r) ==
    /\ pc[r] = "release"
    /\ used' = used - 1
    /\ Go(r, "done")
    /\ UNCHANGED <<target, entry, vm>>

(* Runner.Run: the slot is held until the command has ended.                *)
Run(r) == AdmitOne(r, "running")

RunEnd(r) ==
    /\ pc[r] = "running"
    /\ Go(r, "release")
    /\ UNCHANGED <<target, entry, vm, used>>

-----------------------------------------------------------------------------
(* Runner.CreateSandbox                                                     *)

CreateSandbox(r) == AdmitOne(r, "admitted")

\* reserveSandbox stores nil under a free name.
ReserveSandbox(r) ==
    /\ pc[r] = "admitted"
    /\ entry[target[r]] = "absent"
    /\ SetEntry(r, "reserved")
    /\ Go(r, "reserved")
    /\ UNCHANGED <<target, vm, used>>

\* ErrSandboxExists: the slot goes back.
ReserveExists(r) ==
    /\ pc[r] = "admitted"
    /\ entry[target[r]] # "absent"
    /\ Go(r, "release")
    /\ UNCHANGED <<target, entry, vm, used>>

\* Mutant: the reservation outlives a template that cannot be built.
TemplateErrorKeeps(r) ==
    /\ pc[r] = "reserved"
    /\ May("template")
    /\ Go(r, "release")
    /\ UNCHANGED <<target, entry, vm, used>>

\* No boot template: the deferred function clears the reservation.
TemplateError(r) ==
    /\ pc[r] = "reserved"
    /\ May("template")
    /\ Go(r, "clear")
    /\ UNCHANGED <<target, entry, vm, used>>

\* RestoreNamed starts the VM.
RestoreNamed(r) ==
    /\ pc[r] = "reserved"
    /\ SetVM(r, TRUE)
    /\ Go(r, "restored")
    /\ UNCHANGED <<target, entry, used>>

\* RestoreNamed fails, or its answer does not validate; the VM may exist.
RestoreError(r) ==
    /\ pc[r] = "reserved"
    /\ May("restore")
    /\ MaybeSetVM(r, TRUE)
    /\ Go(r, "cleanup")
    /\ UNCHANGED <<target, entry, used>>

\* failSandboxCreation removes the VM, if there is one, under a context of its own.
CleanupVM(r) ==
    /\ pc[r] = "cleanup"
    /\ SetVM(r, FALSE)
    /\ Go(r, "clear")
    /\ UNCHANGED <<target, entry, used>>

\* Mutant: a cleanup that failed gives the name and the slot back.
CleanupErrorIgnored(r) ==
    /\ pc[r] = "cleanup"
    /\ May("remove")
    /\ MaybeSetVM(r, FALSE)
    /\ Go(r, "clear")
    /\ UNCHANGED <<target, entry, used>>

\* The cleanup fails: the sandbox is kept so that a delete can be retried.
CleanupError(r) ==
    /\ pc[r] = "cleanup"
    /\ May("remove")
    /\ MaybeSetVM(r, FALSE)
    /\ Go(r, "reactivate")
    /\ UNCHANGED <<target, entry, used>>

\* activateSandbox hands the release function to the map.
ActivateSandbox(r) ==
    /\ pc[r] \in {"restored", "reactivate"}
    /\ SetEntry(r, "active")
    /\ Go(r, "done")
    /\ UNCHANGED <<target, vm, used>>

\* Mutant: the name is freed and the slot forgotten.
ClearEntryOnly(r) ==
    /\ pc[r] = "clear"
    /\ SetEntry(r, "absent")
    /\ Go(r, "done")
    /\ UNCHANGED <<target, vm, used>>

\* The entry is deleted from the map, before the slot is released.
ClearEntry(r) ==
    /\ pc[r] = "clear"
    /\ SetEntry(r, "absent")
    /\ Go(r, "release")
    /\ UNCHANGED <<target, vm, used>>

-----------------------------------------------------------------------------
(* Runner.ExecSandbox: sandboxReady looks at the entry and unlocks the map,  *)
(* then spore exec runs the command in whatever VM has the name.            *)

ExecSandbox(r) ==
    /\ pc[r] = "new"
    /\ entry[target[r]] = "active"
    /\ Go(r, "executing")
    /\ UNCHANGED <<target, entry, vm, used>>

\* The agent does not own the name, or another handler works on it.
ExecRefused(r) ==
    /\ pc[r] = "new"
    /\ entry[target[r]] # "active"
    /\ Go(r, "done")
    /\ UNCHANGED <<target, entry, vm, used>>

\* The command ends, or its VM does.
ExecEnd(r) ==
    /\ pc[r] = "executing"
    /\ Go(r, "done")
    /\ UNCHANGED <<target, entry, vm, used>>

-----------------------------------------------------------------------------
(* Runner.RemoveSandbox                                                     *)

\* sandboxRelease takes the release function out of the map.
RemoveSandbox(r) ==
    /\ pc[r] = "new"
    /\ entry[target[r]] = "active"
    /\ SetEntry(r, "reserved")
    /\ Go(r, "removing")
    /\ UNCHANGED <<target, vm, used>>

\* ErrSandboxBusy: another handler works on the name.
RemoveBusy(r) ==
    /\ pc[r] = "new"
    /\ entry[target[r]] = "reserved"
    /\ Go(r, "done")
    /\ UNCHANGED <<target, entry, vm, used>>

\* A name this agent does not track is still removed from spore.
RemoveUnknown(r) ==
    /\ pc[r] = "new"
    /\ entry[target[r]] = "absent"
    /\ Go(r, "removingUntracked")
    /\ UNCHANGED <<target, entry, vm, used>>

\* RemoveVM succeeds, also when spore does not know the VM.
RemoveVM(r) ==
    /\ pc[r] = "removing"
    /\ SetVM(r, FALSE)
    /\ Go(r, "clear")
    /\ UNCHANGED <<target, entry, used>>

\* RemoveVM fails: the release function goes back into the map.
RemoveVMError(r) ==
    /\ pc[r] = "removing"
    /\ May("remove")
    /\ MaybeSetVM(r, FALSE)
    /\ Go(r, "reactivate")
    /\ UNCHANGED <<target, entry, used>>

RemoveUnknownVM(r) ==
    /\ pc[r] = "removingUntracked"
    /\ SetVM(r, FALSE)
    /\ Go(r, "done")
    /\ UNCHANGED <<target, entry, used>>

RemoveUnknownVMError(r) ==
    /\ pc[r] = "removingUntracked"
    /\ May("remove")
    /\ MaybeSetVM(r, FALSE)
    /\ Go(r, "done")
    /\ UNCHANGED <<target, entry, used>>

\* A VM ends by itself.
VMExit(n) ==
    /\ May("exit")
    /\ vm[n]
    /\ vm' = [vm EXCEPT ![n] = FALSE]
    /\ UNCHANGED <<pc, target, entry, used>>

-----------------------------------------------------------------------------
Ended ==
    /\ \A r \in Request : pc[r] = "done"
    /\ UNCHANGED vars

\* What a handler does once its request has been taken up.
Progress(r) ==
    \/ RunEnd(r) \/ ExecEnd(r) \/ ReserveSandbox(r) \/ ReserveExists(r)
    \/ TemplateError(r) \/ RestoreNamed(r) \/ RestoreError(r)
    \/ CleanupVM(r) \/ CleanupError(r) \/ ActivateSandbox(r)
    \/ RemoveVM(r) \/ RemoveVMError(r)
    \/ RemoveUnknownVM(r) \/ RemoveUnknownVMError(r)
    \/ ClearEntry(r) \/ Release(r)

Arrive(r) ==
    \/ Run(r) \/ CreateSandbox(r) \/ AdmitRefused(r)
    \/ ExecSandbox(r) \/ ExecRefused(r)
    \/ RemoveSandbox(r) \/ RemoveBusy(r) \/ RemoveUnknown(r)

Next ==
    \/ \E r \in Request : Arrive(r) \/ Progress(r)
    \/ \E n \in Name : VMExit(n)
    \/ Ended

Spec == Init /\ [][Next]_vars

\* Every spore command ends: it is killed when its request's context is done,
\* and the cleanup of a failed creation has a timeout of its own.
FairSpec == Spec /\ \A r \in Request : WF_vars(Progress(r))

-----------------------------------------------------------------------------
(* Properties                                                               *)

TypeOK ==
    /\ pc \in [Request -> Place]
    /\ target \in [Request -> Name]
    /\ entry \in [Name -> {"absent", "reserved", "active"}]
    /\ vm \in [Name -> BOOLEAN]
    /\ used \in 0 .. Slots

Reserving(n) == {r \in Request : pc[r] \in ReservingAt /\ target[r] = n}

\* A nil entry belongs to exactly one handler: creations and deletions of one
\* name exclude each other although no lock is held across a spore command.
NameExclusion ==
    \A n \in Name :
        /\ \A r1, r2 \in Reserving(n) : r1 = r2
        /\ entry[n] = "reserved" <=> Reserving(n) # {}

\* Every slot in use belongs to one handler or to one sandbox: none is lost on
\* an error path and none is released twice.
Holding == {r \in Request : pc[r] \in HoldingAt}
Active == {n \in Name : entry[n] = "active"}
SlotsAccounted == used = Cardinality(Holding) + Cardinality(Active)

\* "sandbox lifetime reserves an honest agent slot": named VMs and running
\* commands together never outnumber the slots in use, whichever command failed
\* on the way: no VM is left behind under a name the agent has forgotten.
Live == {n \in Name : vm[n]}
RunningCommands == {r \in Request : pc[r] = "running"}
VMsHoldSlots == Cardinality(Live) + Cardinality(RunningCommands) =< used

\* An exec checks the entry and runs by name, so a delete and another create may
\* come between and the command lands in a sandbox it never checked: whichever
\* VM that is, the agent still tracks it and a slot is paid for it.
ExecStaysTracked ==
    \A r \in Request : pc[r] = "executing" /\ vm[target[r]] => entry[target[r]] # "absent"

\* No name stays busy: whoever set an entry to nil deletes or activates it.
ReservationSettles == \A n \in Name : entry[n] = "reserved" ~> entry[n] # "reserved"

(* What the design document says and the code does not keep.                *)

\* docs/plans/design.md: "destroy deletes the child and releases its slot".
\* When no command fails and no VM ends by itself, a sandbox that holds a slot
\* should have its VM.
DestroyFreesSlot == \A n \in Name : entry[n] = "active" => vm[n]
=============================================================================

---------------------------- MODULE PreparedRun ----------------------------
(***************************************************************************)
(* The prepared state of one run ID on one agent: prepareChildren, which    *)
(* captures a parent spore and forks its children, and releasePreparedRun,  *)
(* which removes them through spore, one by one, with a ledger on disk.     *)
(*                                                                          *)
(* Operations of a run ID exclude each other (module PrepareGate), so one   *)
(* operation runs at a time.  The agent may die between any two steps; the  *)
(* disk and the cache pins of spore survive, the operation's memory does    *)
(* not.  Spores are numbered in the order of the ledger, children first.    *)
(***************************************************************************)
EXTENDS Integers

CONSTANT ChildCount     \* run.Fork.Count

ASSUME ForkAssumption == ChildCount \in Nat \ {0}

Child == 0 .. ChildCount - 1
Parent == ChildCount
Spore == 0 .. ChildCount

VARIABLES
    \* On disk
    root,       \* the run's work directory: "absent", "present"
    dirs,       \* spores published under it
    partial,    \* spore directories an interrupted command left incomplete
    ledger,     \* cleanup ledger: "none", "written"
    ledgerList, \* the paths it lists
    temp,       \* its temporary file: "none", "torn" (truncated), "written"
    tempList,   \* the paths it lists
    \* In the node's spore cache
    pins,       \* spores whose storage is pinned
    \* In the memory of the operation
    pc,         \* "idle" or the step that comes next
    goal,       \* "prepare", "release", "unwind" (prepare failed)
    pending     \* releasePreparedRun's list

disk == <<root, dirs, partial, ledger, ledgerList, temp, tempList>>
vars == <<disk, pins, pc, goal, pending>>

Init ==
    /\ root = "absent" /\ dirs = {} /\ partial = {}
    /\ ledger = "none" /\ ledgerList = {}
    /\ temp = "none" /\ tempList = {}
    /\ pins = {}
    /\ pc = "idle" /\ goal = "release" /\ pending = {}

Go(place) == pc' = place /\ UNCHANGED <<goal, pending>>

\* The operation returns, with or without an error, and its memory is gone.
Return == pc' = "idle" /\ goal' = "release" /\ pending' = {}

\* releasePreparedAfterError: a failed preparation releases what it left.
Unwind == pc' = "load" /\ goal' = "unwind" /\ pending' = {}

-----------------------------------------------------------------------------
(* prepareChildren, PrepareLocal and PrepareBundle                          *)

\* PrepareLocal or PrepareBundle: leftovers of the run ID are released first.
Prepare ==
    /\ pc = "idle"
    /\ pc' = "load" /\ goal' = "prepare" /\ pending' = {}
    /\ UNCHANGED <<disk, pins>>

\* MkdirAll.
MakeRoot ==
    /\ pc = "mkdir"
    /\ root' = "present"
    /\ Go("capture")
    /\ UNCHANGED <<dirs, partial, ledger, ledgerList, temp, tempList, pins>>

\* spore run --save publishes the parent and pins its storage, ...
PublishParent ==
    /\ pc = "capture"
    /\ dirs' = dirs \cup {Parent}
    /\ pins' = pins \cup {Parent}
    /\ UNCHANGED <<root, partial, ledger, ledgerList, temp, tempList, pc, goal, pending>>

\* ... or is cut short and leaves an incomplete directory.
TearParent ==
    /\ pc = "capture"
    /\ Parent \notin dirs
    /\ partial' = partial \cup {Parent}
    /\ UNCHANGED <<root, dirs, ledger, ledgerList, temp, tempList, pins, pc, goal, pending>>

\* RunCapture accepts the command's answer: the parent is there.
Captured ==
    /\ pc = "capture"
    /\ Parent \in dirs
    /\ Go("fork")
    /\ UNCHANGED <<disk, pins>>

\* RunCapture fails, whether or not the parent was published.
CaptureError ==
    /\ pc = "capture"
    /\ Unwind
    /\ UNCHANGED <<disk, pins>>

\* spore fork publishes children one after the other.
PublishChildren(C) ==
    /\ dirs' = dirs \cup C
    /\ pins' = pins \cup C
    /\ UNCHANGED <<root, ledger, ledgerList, temp, tempList>>

Fork ==
    /\ pc = "fork"
    /\ PublishChildren(Child)
    /\ Go("pack")
    /\ UNCHANGED partial

\* The fork fails with some children published, and perhaps one incomplete.
ForkError(C, cut) ==
    /\ pc = "fork"
    /\ PublishChildren(C)
    /\ partial' = partial \cup cut
    /\ Unwind

\* The bundle is packed and inspected, and the run compiled.
Prepared ==
    /\ pc = "pack"
    /\ Return
    /\ UNCHANGED <<disk, pins>>

PackError ==
    /\ pc = "pack"
    /\ Unwind
    /\ UNCHANGED <<disk, pins>>

-----------------------------------------------------------------------------
(* releasePreparedRun                                                       *)

\* ReleasePreparedRun, sent by the coordinator when the run is over.
Release ==
    /\ pc = "idle"
    /\ pc' = "load" /\ goal' = "release" /\ pending' = {}
    /\ UNCHANGED <<disk, pins>>

\* Releasing is done: a preparation goes on, the other callers return.
ReleaseDone ==
    IF goal = "prepare" THEN Go("mkdir") ELSE Return

\* There is no work directory.
LoadAbsent ==
    /\ pc = "load"
    /\ root = "absent"
    /\ ReleaseDone
    /\ UNCHANGED <<disk, pins>>

Loading == pc = "load" /\ root = "present"

\* The ledger of an earlier release is taken up.
LoadLedger ==
    /\ Loading
    /\ ledger = "written"
    /\ pending' = ledgerList
    /\ pc' = "remove"
    /\ UNCHANGED <<disk, pins, goal>>

\* The temporary file of a ledger that was never renamed is complete.
LoadTemp ==
    /\ Loading
    /\ ledger = "none" /\ temp = "written"
    /\ ledger' = "written" /\ ledgerList' = tempList
    /\ temp' = "none" /\ tempList' = {}
    /\ pending' = tempList
    /\ pc' = "remove"
    /\ UNCHANGED <<root, dirs, partial, pins, goal>>

\* The temporary file is truncated: the release fails closed.
LoadTorn ==
    /\ Loading
    /\ ledger = "none" /\ temp = "torn"
    /\ Return
    /\ UNCHANGED <<disk, pins>>

\* Mutant: removal starts before the ledger is on disk.
LoadScanUnlogged ==
    /\ Loading
    /\ ledger = "none" /\ temp = "none"
    /\ pending' = dirs \cup partial
    /\ pc' = "remove"
    /\ UNCHANGED <<disk, pins, goal>>

\* No ledger yet: the directories are listed and the list is written.
LoadScan ==
    /\ Loading
    /\ ledger = "none" /\ temp = "none"
    /\ pending' = dirs \cup partial
    /\ pc' = "openTemp"
    /\ UNCHANGED <<disk, pins, goal>>

\* Mutant: the temporary file is opened without truncating it.
OpenTempKeeping ==
    /\ pc = "openTemp"
    /\ temp' = "torn"
    /\ Go("writeTemp")
    /\ UNCHANGED <<root, dirs, partial, ledger, ledgerList, tempList, pins>>

\* writeCleanupLedger truncates the temporary file, ...
OpenTemp ==
    /\ pc = "openTemp"
    /\ temp' = "torn" /\ tempList' = {}
    /\ Go("writeTemp")
    /\ UNCHANGED <<root, dirs, partial, ledger, ledgerList, pins>>

\* ... writes and syncs it, ...
WriteTemp ==
    /\ pc = "writeTemp"
    /\ temp' = "written" /\ tempList' = pending
    /\ Go("renameTemp")
    /\ UNCHANGED <<root, dirs, partial, ledger, ledgerList, pins>>

\* ... and renames it over the ledger.
RenameTemp ==
    /\ pc = "renameTemp"
    /\ ledger' = "written" /\ ledgerList' = tempList
    /\ temp' = "none" /\ tempList' = {}
    /\ Go("remove")
    /\ UNCHANGED <<root, dirs, partial, pins>>

\* The file system fails one of the steps: the operation returns the error and
\* leaves what it has done.
DiskError ==
    /\ pc \in {"mkdir", "load", "openTemp", "writeTemp", "renameTemp", "remove", "removeRoot"}
    /\ Return
    /\ UNCHANGED <<disk, pins>>

\* Mutant: the list is walked from its end.
LastFirst(s) == s \in pending /\ \A t \in pending : t =< s

\* The first path of the list.
FirstPath(s) == s \in pending /\ \A t \in pending : s =< t

\* spore rm --spore removes the directory and its pin, or finishes a removal
\* its journal knows of; then the ledger is advanced.  (This is SporeVM 0.17; a
\* newer one leaves the pin to cache gc once the directory is gone.)
RemoveSpore(s) ==
    /\ pc = "remove"
    /\ FirstPath(s)
    /\ s \notin partial
    /\ dirs' = dirs \ {s}
    /\ pins' = pins \ {s}
    /\ pending' = pending \ {s}
    /\ pc' = "openTemp"
    /\ UNCHANGED <<root, partial, ledger, ledgerList, temp, tempList, goal>>

\* The removal fails, perhaps after the directory is gone: the spore is in
\* use until the context ends, it is incomplete, a missing path has no
\* journal, or the command was cut short.
RemoveError(s) ==
    /\ pc = "remove"
    /\ FirstPath(s)
    /\ dirs' = dirs \/ dirs' = dirs \ {s}
    /\ Return
    /\ UNCHANGED <<root, partial, ledger, ledgerList, temp, tempList, pins>>

\* The list is empty.  RemoveAll deletes what is in the directory, ...
RemoveEntries ==
    /\ pc = "remove" /\ pending = {}
    /\ dirs' = {} /\ partial' = {}
    /\ ledger' = "none" /\ ledgerList' = {}
    /\ temp' = "none" /\ tempList' = {}
    /\ Go("removeRoot")
    /\ UNCHANGED <<root, pins>>

\* ... and the directory itself.
RemoveRoot ==
    /\ pc = "removeRoot"
    /\ root' = "absent"
    /\ ReleaseDone
    /\ UNCHANGED <<dirs, partial, ledger, ledgerList, temp, tempList, pins>>

\* The agent process dies in the middle of an operation.
Crash ==
    /\ pc # "idle"
    /\ Return
    /\ UNCHANGED <<disk, pins>>

-----------------------------------------------------------------------------
Next ==
    \/ Prepare \/ MakeRoot
    \/ PublishParent \/ TearParent \/ Captured \/ CaptureError
    \/ Fork
    \/ \E C \in SUBSET Child : \E cut \in {{}} \cup {{c} : c \in Child \ C} : ForkError(C, cut)
    \/ Prepared \/ PackError
    \/ Release
    \/ LoadAbsent \/ LoadLedger \/ LoadTemp \/ LoadTorn \/ LoadScan
    \/ OpenTemp \/ WriteTemp \/ RenameTemp \/ DiskError
    \/ \E s \in Spore : RemoveSpore(s) \/ RemoveError(s)
    \/ RemoveEntries \/ RemoveRoot
    \/ Crash

Spec == Init /\ [][Next]_vars

-----------------------------------------------------------------------------
(* Properties                                                               *)

\* A file that does not exist lists nothing.
TypeOK ==
    /\ root \in {"absent", "present"}
    /\ dirs \subseteq Spore /\ partial \subseteq Spore /\ pins \subseteq Spore
    /\ ledger \in {"none", "written"} /\ ledgerList \subseteq Spore
    /\ temp \in {"none", "torn", "written"} /\ tempList \subseteq Spore
    /\ ledger = "none" => ledgerList = {}
    /\ temp # "written" => tempList = {}
    /\ pc \in {"idle", "mkdir", "capture", "fork", "pack", "load", "openTemp", "writeTemp",
               "renameTemp", "remove", "removeRoot"}
    /\ goal \in {"prepare", "release", "unwind"}
    /\ pending \subseteq Spore

\* The temporary file of the first ledger was cut short by a crash or a disk
\* error: loadOrCreateCleanupLedger fails on it before it looks at the
\* directory, so no release and no preparation of the run ID gets any further
\* until an operator has removed the file.
Torn == root = "present" /\ ledger = "none" /\ temp = "torn"

\* The spores a release would remove, whichever way it learns of them.
Listed ==
    IF root = "absent" \/ Torn THEN {}
    ELSE IF ledger = "written" THEN ledgerList
    ELSE IF temp = "written" THEN tempList
    ELSE dirs

\* Whenever the agent dies, the next release finds every pinned spore: in the
\* ledger, in its complete temporary file, or in the directory when there is
\* neither.  Once the directory is gone nothing would find a pin any more;
\* design.md: "raw work-directory removal happens only after pin release
\* succeeds".  The exception is a torn temporary file without a ledger: no
\* release finds anything then, but none has removed anything either, and the
\* directory an operator finds holds exactly the pinned spores.
PinsFindable == IF Torn THEN pins = dirs ELSE pins \subseteq Listed

\* A parent's storage outlives the children forked from it.
ParentOutlivesChildren == pins \cap Child # {} => Parent \in pins

\* A preparation starts on an empty directory: nothing of an earlier, failed
\* preparation is mixed into it.
FreshStart == pc = "mkdir" => dirs = {} /\ partial = {} /\ pins = {} /\ ledger = "none"
=============================================================================

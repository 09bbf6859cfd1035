------------------------- MODULE PreparedRunProofs -------------------------
(* Proofs about PreparedRun, and about PreparedCapture, which carries out   *)
(* its capture, for any number of children and of lines.                    *)
EXTENDS PreparedCapture, SequenceTheorems, TLAPS

\* Each file that lists spores lists every pinned one; while neither file is
\* complete, nothing has been removed.
Covers ==
    /\ ledger = "written" => pins \subseteq ledgerList
    /\ temp = "written" => pins \subseteq tempList
    /\ ledger = "none" /\ temp # "written" => pins = dirs

\* Nothing is left under a directory that does not exist.
Empty == dirs = {} /\ partial = {} /\ pins = {} /\ ledger = "none" /\ temp = "none"
RootHoldsAll == root = "absent" => Empty

\* What each step of the operation relies on.
AtStep ==
    /\ pc = "mkdir" => Empty
    /\ pc = "capture" => ledger = "none" /\ temp = "none" /\ pins = dirs /\ dirs \subseteq {Parent}
    /\ pc = "fork" => ledger = "none" /\ temp = "none" /\ Parent \in pins
    /\ pc = "pack" => ledger = "none" /\ temp = "none"
    /\ pc \in {"openTemp", "writeTemp", "renameTemp", "remove"} => pins \subseteq pending
    /\ pc = "openTemp" => ledger = "written" \/ temp = "none"
    /\ pc = "renameTemp" => temp = "written" /\ tempList = pending
    /\ pc = "remove" => ledger = "written"
    /\ pc = "removeRoot" => Empty
    /\ pc \notin {"idle", "load", "mkdir"} => root = "present"

Inv == TypeOK /\ Covers /\ RootHoldsAll /\ AtStep /\ ParentOutlivesChildren

\* The numbers of the children and of the parent.
LEMMA Numbers ==
    /\ Child \subseteq Spore /\ Parent \in Spore /\ Parent \notin Child
    /\ \A s \in Spore : s =< Parent
    /\ Spore \subseteq Int
  BY ForkAssumption DEF Child, Spore, Parent

\* Nothing is prepared initially.
LEMMA InitInv == Init => Inv
  BY DEF Init, Inv, TypeOK, Covers, RootHoldsAll, Empty, AtStep, ParentOutlivesChildren

\* An operation starts, ends or unwinds and leaves the disk alone.
LEMMA MemoryOnlyInv ==
    ASSUME Inv, UNCHANGED <<disk, pins>>, pc' \in {"idle", "load"},
           goal' \in {"prepare", "release", "unwind"}, pending' = {}
    PROVE  Inv'
  BY DEF Inv, disk, TypeOK, Covers, RootHoldsAll, Empty, AtStep, ParentOutlivesChildren

\* The steps of a preparation.
LEMMA PrepareInv ==
    ASSUME Inv, MakeRoot \/ PublishParent \/ TearParent \/ Captured \/ Fork
    PROVE  Inv'
  <1> USE Numbers DEF Inv, TypeOK, Covers, RootHoldsAll, Empty, AtStep, ParentOutlivesChildren
  <1>1. CASE MakeRoot
    BY <1>1 DEF MakeRoot, Go
  <1>2. CASE PublishParent
    BY <1>2 DEF PublishParent
  <1>3. CASE TearParent
    BY <1>3 DEF TearParent
  <1>4. CASE Captured
    BY <1>4 DEF Captured, Go, disk
  <1>5. CASE Fork
    BY <1>5 DEF Fork, PublishChildren, Go
  <1> QED
    BY <1>1, <1>2, <1>3, <1>4, <1>5

\* A fork that fails has the parent to its children.
LEMMA ForkErrorInv ==
    ASSUME Inv, NEW S \in SUBSET Child, NEW cut \in SUBSET Child, ForkError(S, cut)
    PROVE  Inv'
  BY Numbers DEF Inv, TypeOK, Covers, RootHoldsAll, Empty, AtStep, ParentOutlivesChildren,
                 ForkError, PublishChildren, Unwind

\* Loading the list of spores to remove: whatever it is read from covers the pins.
LEMMA LoadInv ==
    ASSUME Inv, LoadAbsent \/ LoadLedger \/ LoadTemp \/ LoadScan
    PROVE  Inv'
  <1> USE Numbers DEF Inv, TypeOK, Covers, RootHoldsAll, Empty, AtStep, ParentOutlivesChildren
  <1>1. CASE LoadAbsent
    <2>1. CASE goal = "prepare"
      BY <1>1, <2>1 DEF LoadAbsent, ReleaseDone, Go, disk
    <2>2. CASE goal # "prepare"
      BY <1>1, <2>2 DEF LoadAbsent, ReleaseDone, Return, disk
    <2> QED
      BY <2>1, <2>2
  <1>2. CASE LoadLedger
    BY <1>2 DEF LoadLedger, Loading, disk
  <1>3. CASE LoadTemp
    BY <1>3 DEF LoadTemp, Loading
  <1>4. CASE LoadScan
    BY <1>4 DEF LoadScan, Loading, disk
  <1> QED
    BY <1>1, <1>2, <1>3, <1>4

\* Writing the ledger: the old one, or the directory, covers the pins until the
\* new one does.
LEMMA LedgerInv ==
    ASSUME Inv, OpenTemp \/ WriteTemp \/ RenameTemp
    PROVE  Inv'
  <1> USE DEF Inv, TypeOK, Covers, RootHoldsAll, Empty, AtStep, ParentOutlivesChildren
  <1>1. CASE OpenTemp
    BY <1>1 DEF OpenTemp, Go
  <1>2. CASE WriteTemp
    BY <1>2 DEF WriteTemp, Go
  <1>3. CASE RenameTemp
    BY <1>3 DEF RenameTemp, Go
  <1> QED
    BY <1>1, <1>2, <1>3

\* Removing the first spore of the list: the parent comes last.
LEMMA RemoveSporeInv ==
    ASSUME Inv, NEW s \in Spore, RemoveSpore(s)
    PROVE  Inv'
  <1> USE DEF Inv, RemoveSpore
  <1>1. ParentOutlivesChildren'
    <2>1. CASE s = Parent
      <3>1. \A t \in pending : t = Parent
        BY <2>1, Numbers DEF FirstPath, TypeOK
      <3>2. pins' = {}
        BY <2>1, <3>1 DEF AtStep
      <3> QED
        BY <3>2 DEF ParentOutlivesChildren
    <2>2. CASE s # Parent
      BY <2>2 DEF ParentOutlivesChildren
    <2> QED
      BY <2>1, <2>2
  <1>2. TypeOK' /\ Covers' /\ RootHoldsAll' /\ AtStep'
    BY DEF TypeOK, Covers, RootHoldsAll, Empty, AtStep
  <1> QED
    BY <1>1, <1>2

\* A removal that fails keeps the pin, and the ledger that lists it.
LEMMA RemoveErrorInv ==
    ASSUME Inv, NEW s \in Spore, RemoveError(s)
    PROVE  Inv'
  BY DEF Inv, RemoveError, Return, TypeOK, Covers, RootHoldsAll, Empty, AtStep,
         ParentOutlivesChildren

\* RemoveAll runs when the list, and so the set of pins, is empty.
LEMMA RemoveAllInv ==
    ASSUME Inv, RemoveEntries \/ RemoveRoot
    PROVE  Inv'
  <1> USE DEF Inv, TypeOK, Covers, RootHoldsAll, Empty, AtStep, ParentOutlivesChildren
  <1>1. CASE RemoveEntries
    BY <1>1 DEF RemoveEntries, Go
  <1>2. CASE RemoveRoot
    BY <1>2 DEF RemoveRoot, ReleaseDone, Go, Return
  <1> QED
    BY <1>1, <1>2

\* Every reachable state satisfies the inductive invariant.
THEOREM Invariance == Spec => []Inv
  <1>1. Inv /\ [Next]_vars => Inv'
    <2> SUFFICES ASSUME Inv, [Next]_vars PROVE Inv'
      OBVIOUS
    <2>1. CASE UNCHANGED vars
      BY <2>1 DEF vars, disk, Inv, TypeOK, Covers, RootHoldsAll, Empty, AtStep,
                  ParentOutlivesChildren
    <2>2. CASE Prepare \/ CaptureError \/ Prepared \/ PackError \/ Release \/ LoadTorn
               \/ DiskError \/ Crash
      BY <2>2, MemoryOnlyInv DEF Prepare, CaptureError, Prepared, PackError, Release, LoadTorn,
                                 DiskError, Crash, Return, Unwind
    <2>3. CASE \E S \in SUBSET Child : \E cut \in {{}} \cup {{c} : c \in Child \ S} :
                 ForkError(S, cut)
      BY <2>3, ForkErrorInv
    <2>4. CASE \E s \in Spore : RemoveSpore(s) \/ RemoveError(s)
      BY <2>4, RemoveSporeInv, RemoveErrorInv
    <2> QED
      BY <2>1, <2>2, <2>3, <2>4, PrepareInv, LoadInv, LedgerInv, RemoveAllInv DEF Next
  <1> QED
    BY InitInv, <1>1, PTL DEF Spec

\* Types are kept, and a file that does not exist lists nothing.
THEOREM TypeOKHolds == Spec => []TypeOK
  BY Invariance, PTL DEF Inv

\* Wherever the agent dies and whatever fails, no pin is lost from sight.
THEOREM PinsFindableHolds == Spec => []PinsFindable
  <1>1. Inv => PinsFindable
    BY DEF Inv, TypeOK, Covers, RootHoldsAll, Empty, PinsFindable, Torn, Listed
  <1> QED
    BY <1>1, Invariance, PTL

\* The parent is the last to go.
THEOREM ParentOutlivesChildrenHolds == Spec => []ParentOutlivesChildren
  BY Invariance, PTL DEF Inv

\* A preparation never starts over leftovers.
THEOREM FreshStartHolds == Spec => []FreshStart
  <1>1. Inv => FreshStart
    BY DEF Inv, AtStep, Empty, FreshStart
  <1> QED
    BY <1>1, Invariance, PTL

-----------------------------------------------------------------------------
(* The capture: the inductive invariant                                     *)

\* All the process has written, read or not.
Output == stdout \o pipe
OutputHas(l) == \E i \in 1 .. Len(Output) : Output[i] = l

\* The process wrote a completion last and once, the one that fits its save.
Completed ==
    /\ Len(Output) > 0
    /\ Output[Len(Output)] = IF save = "published" THEN "captured" ELSE "uncaptured"
    /\ \A i \in 1 .. Len(Output) - 1 : Output[i] \in {"event", "marker"}

\* What the output says of the process.
OutputInv ==
    /\ proc \in {"none", "running"} =>
          exit = 0 /\ \A i \in 1 .. Len(Output) : Output[i] \in {"event", "marker"}
    /\ proc \in {"completed", "exited"} /\ exit = 0 => Completed
    /\ OutputHas("captured") => save = "published"

\* The signal comes after the marker and the save after the signal.
SignalInv ==
    /\ asked = "yes" => signaled = "sent"
    /\ signaled # "no" => \E i \in 1 .. Len(stdout) : stdout[i] = "marker"
    /\ mode = "marker" /\ save # "none" => asked = "yes"

\* A reader that ended has read everything, and Wait comes after the readers.
ReaderInv ==
    /\ reader = "ended" /\ proc # "none" => proc = "exited" /\ pipe = <<>>
    /\ proc = "none" => reader = "ended" /\ copier = "ended"
    /\ call # "running" => reader # "reading" /\ copier # "reading"
    /\ call = "waited" => proc = "exited"
    /\ call = "waited" /\ waitErr = "none" => exit = 0
    /\ call = "waited" /\ waitErr = "exit" => exit # 0
    /\ call = "waited" /\ waitErr = "other" => ctx = "done" \/ C!ReadFailed

\* A call belongs to a preparation that waits for it, and what it published is
\* on disk.
CallInv ==
    /\ call # "idle" => pc = "capture" /\ proc # "none"
    /\ proc # "none" => call # "idle" \/ pc = "fork"
    /\ proc = "none" => save = "none"
    /\ pc = "capture" /\ save = "published" => Parent \in dirs

CaptureInv ==
    /\ C!CaptureTypeOK
    /\ OutputInv /\ SignalInv /\ ReaderInv /\ CallInv
    /\ AcceptedIsCaptured

-----------------------------------------------------------------------------
(* The capture: lines written and read                                      *)

\* The output is a sequence of lines.
LEMMA OutputType == ASSUME C!CaptureTypeOK PROVE Output \in Seq(C!Line) /\ Len(Output) \in Nat
BY ConcatProperties, LenProperties DEF Output, C!CaptureTypeOK

\* A line is written to the end of it.
LEMMA WriteLine ==
    ASSUME C!CaptureTypeOK, NEW l \in C!Line, C!Write(l), stdout' = stdout
    PROVE  /\ pipe' \in Seq(C!Line)
           /\ Len(Output') = Len(Output) + 1
           /\ Output'[Len(Output) + 1] = l
           /\ \A i \in 1 .. Len(Output) : Output'[i] = Output[i]
<1>1. pipe \in Seq(C!Line) /\ stdout \in Seq(C!Line)
  BY DEF C!CaptureTypeOK
<1>2. /\ pipe' \in Seq(C!Line) /\ Len(pipe') = Len(pipe) + 1 /\ pipe'[Len(pipe) + 1] = l
      /\ \A i \in 1 .. Len(pipe) : pipe'[i] = pipe[i]
  BY <1>1 DEF C!Write
<1>3. Len(pipe) \in Nat /\ Len(stdout) \in Nat
  BY <1>1, LenProperties
<1>4. /\ Len(Output) = Len(stdout) + Len(pipe)
      /\ \A i \in 1 .. Len(Output) : Output[i] =
             IF i <= Len(stdout) THEN stdout[i] ELSE pipe[i - Len(stdout)]
  BY <1>1, ConcatProperties DEF Output
<1>5. stdout' \in Seq(C!Line)
  BY <1>1
<1>6. /\ Len(Output') = Len(stdout') + Len(pipe')
      /\ \A i \in 1 .. Len(stdout') + Len(pipe') : Output'[i] =
             IF i <= Len(stdout') THEN stdout'[i] ELSE pipe'[i - Len(stdout')]
  BY <1>2, <1>5, ConcatProperties DEF Output
<1>7. Len(Output') = Len(Output) + 1
  BY <1>2, <1>3, <1>4, <1>6
<1>8. Output'[Len(Output) + 1] = l
  BY <1>2, <1>3, <1>4, <1>6
<1>9. ASSUME NEW i \in 1 .. Len(Output) PROVE Output'[i] = Output[i]
  <2>1. CASE i <= Len(stdout)
    BY <1>2, <1>3, <1>4, <1>6, <2>1
  <2>2. CASE ~(i <= Len(stdout))
    <3>1. i - Len(stdout) \in 1 .. Len(pipe)
      BY <1>3, <1>4, <2>2
    <3>2. Output[i] = pipe[i - Len(stdout)]
      BY <1>4, <2>2
    <3>3. Output'[i] = pipe'[i - Len(stdout')]
      <4>1. i \in 1 .. Len(stdout') + Len(pipe') /\ ~(i <= Len(stdout'))
        BY <1>2, <1>3, <1>4, <2>2
      <4>2. QED
        BY <1>6, <4>1
    <3>4. QED
      BY <1>2, <3>1, <3>2, <3>3
  <2>3. QED
    BY <2>1, <2>2
<1>10. QED
  BY <1>2, <1>7, <1>8, <1>9

\* Reading a line moves it.
LEMMA MoveLine ==
    ASSUME C!CaptureTypeOK, pipe # <<>>, stdout' = Append(stdout, Head(pipe)), pipe' = Tail(pipe)
    PROVE  /\ stdout' \in Seq(C!Line) /\ pipe' \in Seq(C!Line)
           /\ Output' = Output
           /\ Len(stdout') = Len(stdout) + 1 /\ stdout'[Len(stdout) + 1] = Head(pipe)
           /\ \A i \in 1 .. Len(stdout) : stdout'[i] = stdout[i]
<1>1. pipe \in Seq(C!Line) /\ stdout \in Seq(C!Line) /\ Len(pipe) \in Nat /\ Len(stdout) \in Nat
  BY LenProperties DEF C!CaptureTypeOK
<1>2. /\ Head(pipe) \in C!Line /\ Head(pipe) = pipe[1] /\ pipe' \in Seq(C!Line)
      /\ Len(pipe') = Len(pipe) - 1 /\ Len(pipe) > 0
      /\ \A i \in 1 .. Len(pipe') : pipe'[i] = pipe[i + 1]
  BY <1>1, HeadTailProperties, EmptySeq
<1>3. /\ stdout' \in Seq(C!Line) /\ Len(stdout') = Len(stdout) + 1
      /\ stdout'[Len(stdout) + 1] = pipe[1]
      /\ \A i \in 1 .. Len(stdout) : stdout'[i] = stdout[i]
  BY <1>1, <1>2
<1>4. /\ Output \in Seq(C!Line) /\ Len(Output) = Len(stdout) + Len(pipe)
      /\ \A i \in 1 .. Len(Output) : Output[i] =
             IF i <= Len(stdout) THEN stdout[i] ELSE pipe[i - Len(stdout)]
  BY <1>1, ConcatProperties DEF Output
<1>5. /\ Output' \in Seq(C!Line) /\ Len(Output') = Len(stdout') + Len(pipe')
      /\ \A i \in 1 .. Len(Output') : Output'[i] =
             IF i <= Len(stdout') THEN stdout'[i] ELSE pipe'[i - Len(stdout')]
  BY <1>2, <1>3, ConcatProperties DEF Output
<1>6. Len(Output') = Len(Output)
  BY <1>1, <1>2, <1>3, <1>4, <1>5
<1>7. ASSUME NEW i \in 1 .. Len(Output') PROVE Output'[i] = Output[i]
  <2>1. CASE i <= Len(stdout)
    <3>1. i \in 1 .. Len(stdout) /\ i <= Len(stdout') /\ i \in 1 .. Len(Output)
      BY <1>1, <1>2, <1>3, <1>4, <1>6, <2>1
    <3>2. Output'[i] = stdout'[i] /\ Output[i] = stdout[i]
      BY <1>4, <1>5, <2>1, <3>1
    <3>3. QED
      BY <1>3, <3>1, <3>2
  <2>2. CASE i = Len(stdout) + 1
    BY <1>1, <1>2, <1>3, <1>4, <1>5, <1>6, <2>2
  <2>3. CASE i > Len(stdout) + 1
    <3>1. i - Len(stdout') \in 1 .. Len(pipe') /\ i - Len(stdout') + 1 = i - Len(stdout)
      BY <1>1, <1>2, <1>3, <1>5, <2>3
    <3>2. Output'[i] = pipe'[i - Len(stdout')] /\ Output[i] = pipe[i - Len(stdout)]
      BY <1>1, <1>3, <1>4, <1>5, <1>6, <2>3
    <3>3. QED
      BY <1>2, <3>1, <3>2
  <2>4. QED
    BY <1>1, <2>1, <2>2, <2>3
<1>8. Output' = Output
  BY <1>4, <1>5, <1>6, <1>7, SeqEqual
<1>9. QED
  BY <1>2, <1>3, <1>8

\* What is left when everything has been read.
LEMMA ReadAll ==
    ASSUME C!CaptureTypeOK, pipe = <<>> PROVE Output = stdout
BY ConcatEmptySeq DEF Output, C!CaptureTypeOK

-----------------------------------------------------------------------------
(* The capture: steps                                                       *)

\* A capture that is over leaves nothing.
LEMMA ForgetCapture == ASSUME C!Forget, pc' # "fork" PROVE CaptureInv'
<1>1. Output' = <<>>
  BY DEF C!Forget, Output
<1>2. <<>> \in Seq(C!Line) /\ Len(Output') = 0
  BY <1>1
<1>3. C!CaptureTypeOK'
  BY <1>2 DEF C!Forget, C!CaptureTypeOK
<1>4. OutputInv'
  BY <1>2 DEF C!Forget, OutputInv, OutputHas
<1>5. SignalInv' /\ ReaderInv' /\ CallInv'
  BY DEF C!Forget, SignalInv, ReaderInv, CallInv
<1>6. QED
  BY <1>3, <1>4, <1>5 DEF CaptureInv, AcceptedIsCaptured

LEMMA InitCapture == CaptureInit => CaptureInv
<1> SUFFICES ASSUME CaptureInit PROVE CaptureInv
  OBVIOUS
<1>1. Output = <<>> /\ pc = "idle"
  BY DEF CaptureInit, Init, C!CaptureInit, Output
<1>2. <<>> \in Seq(C!Line) /\ Len(Output) = 0
  BY <1>1
<1>3. C!CaptureTypeOK
  BY <1>2 DEF CaptureInit, C!CaptureInit, C!CaptureTypeOK
<1>4. OutputInv
  BY <1>2 DEF CaptureInit, C!CaptureInit, OutputInv, OutputHas
<1>5. SignalInv /\ ReaderInv /\ CallInv
  BY DEF CaptureInit, C!CaptureInit, SignalInv, ReaderInv, CallInv
<1>6. QED
  BY <1>1, <1>3, <1>4, <1>5 DEF CaptureInv, AcceptedIsCaptured

\* Without a process the operation may go anywhere but to the fork.
LEMMA IdleCapture ==
    ASSUME CaptureInv, proc = "none", UNCHANGED captureVars, pc' # "fork" PROVE CaptureInv'
<1>1. Output' = Output
  BY DEF captureVars, Output
<1>2. C!CaptureTypeOK'
  BY DEF CaptureInv, captureVars, C!CaptureTypeOK
<1>3. OutputInv' /\ SignalInv' /\ ReaderInv'
  BY <1>1 DEF CaptureInv, captureVars, OutputInv, OutputHas, Completed, SignalInv, ReaderInv,
              C!ReadFailed
<1>4. CallInv'
  BY DEF CaptureInv, captureVars, CallInv
<1>5. QED
  BY <1>2, <1>3, <1>4 DEF CaptureInv, AcceptedIsCaptured

LEMMA StartCaptureKeeps ==
    ASSUME CaptureInv, NEW m \in {"marker", "plain"}, StartCapture(m) PROVE CaptureInv'
<1>1. Output' = <<>> /\ pc' = "capture"
  BY DEF StartCapture, MakeRoot, Go, C!Start, Output
<1>2. <<>> \in Seq(C!Line) /\ Len(Output') = 0
  BY <1>1
<1>3. C!CaptureTypeOK'
  BY <1>2 DEF StartCapture, C!Start, C!CaptureTypeOK
<1>4. OutputInv'
  BY <1>2 DEF StartCapture, C!Start, OutputInv, OutputHas
<1>5. SignalInv' /\ ReaderInv' /\ CallInv'
  BY <1>1 DEF StartCapture, C!Start, SignalInv, ReaderInv, CallInv
<1>6. QED
  BY <1>1, <1>3, <1>4, <1>5 DEF CaptureInv, AcceptedIsCaptured

\* The process writes a line and perhaps ends.
LEMMA WriteKeeps ==
    ASSUME CaptureInv, UNCHANGED vars, NEW l \in C!Line, C!Write(l), UNCHANGED C!callVars,
           UNCHANGED <<mode, heir, asked, save>>, proc = "running", exit' \in {-1, 0, 1},
           \/ proc' = "running" /\ exit' = exit /\ l \in {"event", "marker"}
           \/ /\ proc' = "completed"
              /\ exit' = 0 => l = IF save = "published" THEN "captured" ELSE "uncaptured"
              /\ l = "captured" => save = "published"
           \/ proc' = "exited" /\ exit' # 0 /\ l = "garbage"
    PROVE  CaptureInv'
<1>0. C!CaptureTypeOK /\ stdout' = stdout
  BY DEF CaptureInv, C!callVars
<1>1. /\ pipe' \in Seq(C!Line)
      /\ Len(Output') = Len(Output) + 1
      /\ Output'[Len(Output) + 1] = l
      /\ \A i \in 1 .. Len(Output) : Output'[i] = Output[i]
  BY <1>0, WriteLine
<1>2. Len(Output) \in Nat
  BY <1>0, OutputType
<1>3. C!CaptureTypeOK'
  BY <1>0, <1>1 DEF C!CaptureTypeOK, C!callVars
<1>4. \A i \in 1 .. Len(Output) : Output[i] \in {"event", "marker"}
  BY DEF CaptureInv, OutputInv
<1>5. \A i \in 1 .. Len(Output') - 1 : Output'[i] \in {"event", "marker"}
  BY <1>1, <1>2, <1>4
<1>6. Output'[Len(Output')] = l /\ Len(Output') > 0 /\ Len(Output') \in Nat
  BY <1>1, <1>2
<1>7. OutputInv'
  <2>1. CASE proc' = "running"
    BY <1>5, <1>6, <2>1 DEF CaptureInv, OutputInv, OutputHas
  <2>2. CASE proc' # "running"
    <3>1. proc' \in {"completed", "exited"} /\ exit' = 0 => Completed'
      BY <1>5, <1>6, <2>2 DEF Completed
    <3>2. OutputHas("captured")' => save' = "published"
      BY <1>5, <1>6, <2>2 DEF OutputHas
    <3>3. QED
      BY <2>2, <3>1, <3>2 DEF OutputInv
  <2>3. QED
    BY <2>1, <2>2
<1>8. SignalInv'
  BY DEF CaptureInv, SignalInv, C!callVars
<1>9. ReaderInv'
  BY DEF CaptureInv, ReaderInv, C!callVars, C!ReadFailed
<1>10. CallInv'
  BY DEF CaptureInv, CallInv, C!callVars, vars, disk
<1>11. AcceptedIsCaptured'
  BY DEF CaptureInv, AcceptedIsCaptured, vars
<1>12. QED
  BY <1>3, <1>7, <1>8, <1>9, <1>10, <1>11 DEF CaptureInv

\* The process ends, or what it left behind does, without a line.
LEMMA EndKeeps ==
    ASSUME CaptureInv, UNCHANGED vars, UNCHANGED C!callVars, UNCHANGED <<mode, asked, save, pipe>>,
           heir' \in {heir, "no"}, exit' \in {-1, 0, 1},
           \/ proc = "exited" /\ proc' = proc /\ exit' = exit
           \/ proc = "completed" /\ proc' = "exited" /\ exit' = exit
           \/ proc \in {"running", "completed"} /\ proc' = "exited" /\ exit' # 0
    PROVE  CaptureInv'
<1>1. Output' = Output
  BY DEF Output, C!callVars
<1>2. C!CaptureTypeOK'
  BY DEF CaptureInv, C!CaptureTypeOK, C!callVars
<1>3. OutputInv'
  BY <1>1 DEF CaptureInv, OutputInv, OutputHas, Completed
<1>4. SignalInv'
  BY DEF CaptureInv, SignalInv, C!callVars
<1>5. ReaderInv'
  BY DEF CaptureInv, ReaderInv, C!callVars, C!ReadFailed
<1>6. CallInv'
  BY DEF CaptureInv, CallInv, C!callVars, vars, disk
<1>7. AcceptedIsCaptured'
  BY DEF CaptureInv, AcceptedIsCaptured, C!callVars, vars, C!ReadFailed
<1>8. QED
  BY <1>2, <1>3, <1>4, <1>5, <1>6, <1>7 DEF CaptureInv

LEMMA CutShortKeeps ==
    ASSUME CaptureInv, UNCHANGED vars, NEW status \in {-1, 1}, proc \in {"running", "completed"},
           C!CutShort(status)
    PROVE  CaptureInv'
<1>1. CASE pipe' = pipe
  BY <1>1, EndKeeps DEF C!CutShort
<1>2. CASE proc = "running" /\ C!Write("garbage")
  BY <1>2, WriteKeeps DEF C!CutShort, C!Line
<1>3. QED
  BY <1>1, <1>2 DEF C!CutShort

LEMMA ProcStepKeeps == ASSUME CaptureInv, ProcStep PROVE CaptureInv'
<1>0. UNCHANGED vars /\ exit \in {-1, 0, 1} /\ save \in {"none", "torn", "published"}
  BY DEF ProcStep, CaptureInv, C!CaptureTypeOK
<1>1. ASSUME NEW l \in {"event", "marker"}, C!Emit(l) PROVE CaptureInv'
  BY <1>0, <1>1, WriteKeeps DEF C!Emit, C!Line
<1>2. ASSUME NEW c \in C!Completion, C!Complete(c) PROVE CaptureInv'
  <2>1. /\ c \in C!Line /\ exit' \in {-1, 0, 1}
        /\ exit' = 0 => c = IF save = "published" THEN "captured" ELSE "uncaptured"
        /\ c = "captured" => save = "published"
    BY <1>2 DEF C!Complete, C!Completion, C!Line, C!ReportedExit
  <2>2. QED
    BY <1>0, <1>2, <2>1, WriteKeeps DEF C!Complete
<1>3. CASE C!Exit
  BY <1>0, <1>3, EndKeeps DEF C!Exit
<1>4. CASE C!Die
  BY <1>0, <1>4, CutShortKeeps DEF C!Die
<1>5. QED
  BY <1>1, <1>2, <1>3, <1>4 DEF ProcStep

LEMMA KillKeeps == ASSUME CaptureInv, KillStep \/ HeirStep PROVE CaptureInv'
<1>1. CASE KillStep
  BY <1>1, CutShortKeeps DEF KillStep, C!Kill
<1>2. CASE HeirStep
  <2>1. exit \in {-1, 0, 1}
    BY DEF CaptureInv, C!CaptureTypeOK
  <2>2. QED
    BY <1>2, <2>1, EndKeeps DEF HeirStep, C!HeirEnds
<1>3. QED
  BY <1>1, <1>2

\* The save, complete or cut short: the process runs, so the preparation waits.
LEMMA SaveKeeps == ASSUME CaptureInv, ProcPublish \/ ProcTear PROVE CaptureInv'
<1>1. /\ C!Saving /\ save' \in {"torn", "published"} /\ pc = "capture" /\ pc' = pc
      /\ UNCHANGED <<mode, proc, exit, heir, asked, pipe>> /\ UNCHANGED C!callVars
      /\ save' = "published" => dirs' = dirs \cup {Parent}
  BY DEF ProcPublish, ProcTear, C!Publish, C!Tear, PublishParent, TearParent
<1>2. Output' = Output
  BY <1>1 DEF Output, C!callVars
<1>3. C!CaptureTypeOK'
  BY <1>1 DEF CaptureInv, C!CaptureTypeOK, C!callVars
<1>4. OutputInv'
  BY <1>1, <1>2 DEF CaptureInv, OutputInv, OutputHas, C!Saving
<1>5. SignalInv'
  BY <1>1 DEF CaptureInv, SignalInv, C!callVars, C!Saving
<1>6. ReaderInv' /\ CallInv'
  BY <1>1 DEF CaptureInv, ReaderInv, CallInv, C!callVars, C!ReadFailed, C!Saving
<1>7. QED
  BY <1>1, <1>3, <1>4, <1>5, <1>6 DEF CaptureInv, AcceptedIsCaptured

LEMMA ExpireKeeps == ASSUME CaptureInv, ExpireStep PROVE CaptureInv'
<1>1. Output' = Output
  BY DEF ExpireStep, C!Expire, C!procVars, Output
<1>2. C!CaptureTypeOK'
  BY DEF ExpireStep, C!Expire, C!procVars, CaptureInv, C!CaptureTypeOK
<1>3. OutputInv' /\ SignalInv'
  BY <1>1 DEF ExpireStep, C!Expire, C!procVars, CaptureInv, OutputInv, OutputHas, Completed, SignalInv
<1>4. ReaderInv' /\ CallInv'
  BY DEF ExpireStep, C!Expire, C!procVars, CaptureInv, ReaderInv, CallInv, C!ReadFailed, vars, disk
<1>5. AcceptedIsCaptured'
  BY DEF ExpireStep, C!Expire, CaptureInv, CallInv, AcceptedIsCaptured, vars
<1>6. QED
  BY <1>2, <1>3, <1>4, <1>5 DEF CaptureInv

\* The reader takes a line and signals at the first marker.
LEMMA ReadLineKeeps == ASSUME CaptureInv, C!ReadLine, UNCHANGED vars PROVE CaptureInv'
<1>0. C!CaptureTypeOK /\ pipe # <<>> /\ stdout' = Append(stdout, Head(pipe)) /\ pipe' = Tail(pipe)
  BY DEF CaptureInv, C!ReadLine
<1>1. /\ stdout' \in Seq(C!Line) /\ pipe' \in Seq(C!Line)
      /\ Output' = Output
      /\ Len(stdout') = Len(stdout) + 1 /\ stdout'[Len(stdout) + 1] = Head(pipe)
      /\ \A i \in 1 .. Len(stdout) : stdout'[i] = stdout[i]
  BY <1>0, MoveLine
<1>2. Len(stdout) \in Nat
  BY <1>0, LenProperties DEF C!CaptureTypeOK
<1>3. \/ UNCHANGED <<signaled, asked>>
      \/ /\ Head(pipe) = "marker" /\ signaled = "no"
         /\ \/ signaled' = "sent" /\ asked' \in {asked, "yes"}
            \/ signaled' = "failed" /\ asked' = asked
  BY DEF C!ReadLine, C!Signal, C!Ask
<1>4. reader = "reading" /\ UNCHANGED <<mode, proc, exit, heir, save, call, ctx, reader, copier, waitErr>>
  BY DEF C!ReadLine
<1>5. C!CaptureTypeOK'
  BY <1>0, <1>1, <1>3, <1>4 DEF C!CaptureTypeOK
<1>6. OutputInv'
  BY <1>1, <1>4 DEF CaptureInv, OutputInv, OutputHas, Completed
<1>7. SignalInv'
  <2>1. signaled' # "no" => \E i \in 1 .. Len(stdout') : stdout'[i] = "marker"
    <3>1. CASE signaled' = signaled
      BY <1>1, <1>2, <3>1 DEF CaptureInv, SignalInv
    <3>2. CASE signaled' # signaled
      <4>1. stdout'[Len(stdout) + 1] = "marker" /\ Len(stdout) + 1 \in 1 .. Len(stdout')
        BY <1>1, <1>2, <1>3, <3>2
      <4>2. QED
        BY <4>1
    <3>3. QED
      BY <3>1, <3>2
  <2>2. asked' = "yes" => signaled' = "sent"
    BY <1>3 DEF CaptureInv, SignalInv
  <2>3. mode' = "marker" /\ save' # "none" => asked' = "yes"
    BY <1>3, <1>4 DEF CaptureInv, SignalInv
  <2>4. QED
    BY <2>1, <2>2, <2>3 DEF SignalInv
<1>8. ReaderInv' /\ CallInv'
  BY <1>4 DEF CaptureInv, ReaderInv, CallInv, C!ReadFailed, vars, disk
<1>9. AcceptedIsCaptured'
  BY <1>4 DEF CaptureInv, CallInv, ReaderInv, AcceptedIsCaptured, vars
<1>10. QED
  BY <1>5, <1>6, <1>7, <1>8, <1>9 DEF CaptureInv

\* The readers end and the process is waited for.
LEMMA WaitKeeps ==
    ASSUME CaptureInv, UNCHANGED vars,
           C!ReadEOF \/ C!ReadError \/ C!CopyEOF \/ C!CopyError \/ C!Wait
    PROVE  CaptureInv'
<1>1. /\ UNCHANGED <<mode, proc, exit, heir, asked, save, pipe, ctx, stdout, signaled>>
      /\ pc' = pc /\ dirs' = dirs
  BY DEF C!ReadEOF, C!ReadError, C!CopyEOF, C!CopyError, C!Wait, C!procVars, vars, disk
<1>2. Output' = Output
  BY <1>1 DEF Output
<1>3. C!CaptureTypeOK'
  <2>1. call' \in {"idle", "running", "waited"} /\ waitErr' \in {"none", "exit", "other"}
        /\ {reader', copier'} \subseteq {"reading", "ended", "failed"}
    BY DEF CaptureInv, C!CaptureTypeOK, C!ReadEOF, C!ReadError, C!CopyEOF, C!CopyError, C!Wait
  <2>2. QED
    BY <1>1, <2>1 DEF CaptureInv, C!CaptureTypeOK
<1>4. OutputInv' /\ SignalInv'
  BY <1>1, <1>2 DEF CaptureInv, OutputInv, OutputHas, Completed, SignalInv
<1>5. CallInv'
  BY <1>1 DEF CaptureInv, CallInv, C!ReadEOF, C!ReadError, C!CopyEOF, C!CopyError, C!Wait
<1>6. AcceptedIsCaptured'
  BY <1>1 DEF CaptureInv, CallInv, ReaderInv, AcceptedIsCaptured, C!ReadEOF, C!ReadError, C!CopyEOF,
              C!CopyError, C!Wait
<1>7. ReaderInv'
  <2>1. CASE C!ReadEOF
    BY <1>1, <2>1 DEF CaptureInv, ReaderInv, CallInv, C!ReadEOF, C!Closed, C!ReadFailed, C!CaptureTypeOK
  <2>2. CASE C!ReadError
    BY <1>1, <2>2 DEF CaptureInv, ReaderInv, CallInv, C!ReadError, C!ReadFailed, C!CaptureTypeOK
  <2>3. CASE C!CopyEOF
    BY <1>1, <2>3 DEF CaptureInv, ReaderInv, CallInv, C!CopyEOF, C!ReadFailed, C!CaptureTypeOK
  <2>4. CASE C!CopyError
    BY <1>1, <2>4 DEF CaptureInv, ReaderInv, CallInv, C!CopyError, C!ReadFailed, C!CaptureTypeOK
  <2>5. CASE C!Wait
    BY <1>1, <2>5 DEF CaptureInv, ReaderInv, C!Wait, C!ReadFailed
  <2>6. QED
    BY <2>1, <2>2, <2>3, <2>4, <2>5
<1>8. QED
  BY <1>3, <1>4, <1>5, <1>6, <1>7 DEF CaptureInv

-----------------------------------------------------------------------------
(* The capture: its verdict                                                 *)

\* What RunCapture accepts was captured.
LEMMA AcceptedMeans ==
    ASSUME CaptureInv, call = "waited", C!Accepted
    PROVE  /\ save = "published" /\ proc = "exited" /\ exit = 0
           /\ mode = "marker" => /\ "marker" \in C!Range(stdout)
                                 /\ asked = "yes"
                                 /\ ctx = "live" /\ ~C!ReadFailed
<1>0. C!CaptureTypeOK /\ stdout \in Seq(C!Line) /\ pipe \in Seq(C!Line)
  BY DEF CaptureInv, C!CaptureTypeOK
<1>1. stdout # <<>> /\ stdout[Len(stdout)] = "captured"
  BY DEF C!Accepted, C!HasTerminal, C!Last
<1>2. Len(stdout) \in Nat \ {0} /\ Len(pipe) \in Nat /\ DOMAIN stdout = 1 .. Len(stdout)
  BY <1>0, <1>1, EmptySeq, LenProperties
<1>3. save = "published"
  <2>1. Len(Output) = Len(stdout) + Len(pipe) /\ Output[Len(stdout)] = stdout[Len(stdout)]
    BY <1>0, <1>2, ConcatProperties DEF Output
  <2>2. Len(stdout) \in 1 .. Len(Output)
    BY <1>2, <2>1
  <2>3. QED
    BY <1>1, <2>1, <2>2 DEF CaptureInv, OutputInv, OutputHas
<1>4. C!ReportedExit("captured") = 0
  BY DEF C!ReportedExit
<1>5. ~C!RunErr
  <2> SUFFICES ASSUME C!RunErr PROVE FALSE
    OBVIOUS
  <2>1. waitErr = "exit" /\ exit = 0
    BY <1>1, <1>4 DEF C!Accepted, C!ExitStatusValid, C!Last
  <2>2. QED
    BY <2>1 DEF CaptureInv, ReaderInv
<1>6. proc = "exited" /\ exit = 0
  BY <1>5 DEF C!RunErr, CaptureInv, ReaderInv
<1>7. ASSUME mode = "marker"
      PROVE  "marker" \in C!Range(stdout) /\ asked = "yes" /\ ctx = "live" /\ ~C!ReadFailed
  <2>1. signaled = "sent" /\ ctx = "live" /\ ~C!ReadFailed
    BY <1>0, <1>5, <1>7 DEF C!RunErr, C!CaptureTypeOK
  <2>2. asked = "yes" /\ \E i \in 1 .. Len(stdout) : stdout[i] = "marker"
    BY <1>3, <1>7, <2>1 DEF CaptureInv, SignalInv
  <2>3. "marker" \in C!Range(stdout)
    BY <1>2, <2>2 DEF C!Range
  <2>4. QED
    BY <2>1, <2>2, <2>3
<1>8. QED
  BY <1>3, <1>6, <1>7

\* And what went well it accepts.
LEMMA GoodIsAccepted ==
    ASSUME CaptureInv, call = "waited", exit = 0, save = "published", ctx # "done",
           signaled # "failed", ~C!ReadFailed
    PROVE  C!Accepted
<1>0. C!CaptureTypeOK /\ stdout \in Seq(C!Line)
  BY DEF CaptureInv, C!CaptureTypeOK
<1>1. proc = "exited" /\ waitErr = "none"
  BY <1>0 DEF CaptureInv, ReaderInv, C!CaptureTypeOK
<1>2. pipe = <<>>
  BY <1>0, <1>1 DEF CaptureInv, ReaderInv, C!ReadFailed, C!CaptureTypeOK
<1>3. Completed /\ Output = stdout
  BY <1>0, <1>1, <1>2, ReadAll DEF CaptureInv, OutputInv
<1>4. /\ Len(stdout) > 0 /\ stdout[Len(stdout)] = "captured"
      /\ \A i \in 1 .. Len(stdout) - 1 : stdout[i] \in {"event", "marker"}
  BY <1>3 DEF Completed
<1>5. Len(stdout) \in Nat /\ DOMAIN stdout = 1 .. Len(stdout)
  BY <1>0, LenProperties
<1>6. C!Decoded
  <2>1. \A n \in Nat : \A i \in 1 .. n : i = n \/ i \in 1 .. n - 1
    OBVIOUS
  <2>2. \A i \in DOMAIN stdout : stdout[i] # "garbage"
    BY <1>4, <1>5, <2>1
  <2>3. QED
    BY <2>2 DEF C!Decoded, C!Range
<1>7. C!HasTerminal /\ C!Last(stdout) = "captured"
  <2>1. stdout # <<>>
    BY <1>4
  <2>2. QED
    BY <1>4, <2>1 DEF C!HasTerminal, C!Last, C!Completion
<1>8. ~C!RunErr
  BY <1>0, <1>1 DEF C!RunErr, CaptureInv, SignalInv, C!CaptureTypeOK
<1>9. C!ExitStatusValid("captured")
  BY <1>8 DEF C!ExitStatusValid, C!ReportedExit
<1>10. QED
  BY <1>6, <1>7, <1>9 DEF C!Accepted

LEMMA AcceptedKeeps == ASSUME CaptureInv, CaptureAccepted PROVE CaptureInv'
<1>1. call = "waited" /\ C!Accepted
  BY DEF CaptureAccepted, C!Returning
<1>2. /\ UNCHANGED <<mode, proc, exit, heir, asked, save, pipe, ctx, stdout, reader, copier, signaled,
                     waitErr>>
      /\ call' = "idle" /\ pc' = "fork" /\ dirs' = dirs
  BY DEF CaptureAccepted, C!Return, C!procVars, Go, disk
<1>3. Output' = Output
  BY <1>2 DEF Output
<1>4. C!CaptureTypeOK'
  BY <1>2 DEF CaptureInv, C!CaptureTypeOK
<1>5. OutputInv' /\ SignalInv'
  BY <1>2, <1>3 DEF CaptureInv, OutputInv, OutputHas, Completed, SignalInv
<1>6. ReaderInv' /\ CallInv'
  BY <1>1, <1>2 DEF CaptureInv, ReaderInv, CallInv, C!ReadFailed
<1>7. AcceptedIsCaptured'
  BY <1>1, <1>2, AcceptedMeans DEF AcceptedIsCaptured, C!ReadFailed
<1>8. QED
  BY <1>4, <1>5, <1>6, <1>7 DEF CaptureInv

\* The steps that have nothing to do with a capture happen without one.
LEMMA OtherKeeps == ASSUME CaptureInv, OtherStep \/ StartFails \/ StartError PROVE CaptureInv'
<1>1. CASE StartFails
  BY <1>1, IdleCapture DEF StartFails, MakeRoot, Go, CaptureInv, CallInv
<1>2. CASE StartError
  BY <1>2, IdleCapture DEF StartError, CaptureError, Unwind, CaptureInv, CallInv
<1>3. CASE OtherStep
  <2>1. pc \notin {"capture", "fork"} /\ pc' # "fork" /\ UNCHANGED captureVars
    BY <1>3 DEF OtherStep, Prepare, Prepared, PackError, Release, LoadAbsent, LoadLedger, LoadTemp,
       LoadTorn, LoadScan, Loading, OpenTemp, WriteTemp, RenameTemp, RemoveSpore, RemoveError,
       RemoveEntries, RemoveRoot, DiskError, ReleaseDone, Return, Unwind, Go
  <2>2. QED
    BY <2>1, IdleCapture DEF CaptureInv, CallInv
<1>4. QED
  BY <1>1, <1>2, <1>3

LEMMA CaptureStepKeeps == ASSUME CaptureInv, CaptureNext PROVE CaptureInv'
<1>1. CASE CaptureRejected \/ ForkStep \/ CrashAll
  BY <1>1, ForgetCapture DEF CaptureRejected, ForkStep, CrashAll, Unwind, Fork, ForkError, Go, Crash,
     Return
<1>2. CASE ReadStep
  BY <1>2, ReadLineKeeps, WaitKeeps DEF ReadStep
<1>3. QED
  BY <1>1, <1>2, StartCaptureKeeps, OtherKeeps, SaveKeeps, ProcStepKeeps, ExpireKeeps, KillKeeps,
     AcceptedKeeps DEF CaptureNext

LEMMA CaptureStutters == ASSUME CaptureInv, UNCHANGED allVars PROVE CaptureInv'
<1>1. UNCHANGED <<mode, proc, exit, heir, asked, save, pipe, call, ctx, stdout, reader, copier,
                  signaled, waitErr>> /\ pc' = pc /\ dirs' = dirs
  BY DEF allVars, captureVars, vars, disk
<1>2. Output' = Output
  BY <1>1 DEF Output
<1>3. C!CaptureTypeOK'
  BY <1>1 DEF CaptureInv, C!CaptureTypeOK
<1>4. OutputInv' /\ SignalInv'
  BY <1>1, <1>2 DEF CaptureInv, OutputInv, OutputHas, Completed, SignalInv
<1>5. ReaderInv' /\ CallInv' /\ AcceptedIsCaptured'
  BY <1>1 DEF CaptureInv, ReaderInv, CallInv, AcceptedIsCaptured, C!ReadFailed
<1>6. QED
  BY <1>3, <1>4, <1>5 DEF CaptureInv

-----------------------------------------------------------------------------
(* The capture: theorems                                                    *)

\* Every reachable state satisfies the inductive invariant of the capture.
THEOREM CaptureInvariance == CaptureSpec => []CaptureInv
<1>1. CaptureInv /\ [CaptureNext]_allVars => CaptureInv'
  BY CaptureStepKeeps, CaptureStutters
<1>2. QED
  BY <1>1, InitCapture, PTL DEF CaptureSpec

\* Whatever is forked was captured: no order of marker, signal, save, output,
\* exit, kill and cancellation lets RunCapture accept anything else.
THEOREM AcceptedIsCapturedHolds == CaptureSpec => []AcceptedIsCaptured
BY CaptureInvariance, PTL DEF CaptureInv

\* No capture that went well is thrown away.
THEOREM GoodCaptureKeptHolds == CaptureSpec => GoodCaptureKept
<1>1. CaptureInv /\ [CaptureNext]_allVars =>
        [CaptureRejected => \/ exit # 0 \/ save # "published"
                            \/ ctx = "done" \/ signaled = "failed" \/ C!ReadFailed]_allVars
  <2> SUFFICES ASSUME CaptureInv, CaptureRejected,
                      ~(\/ exit # 0 \/ save # "published"
                        \/ ctx = "done" \/ signaled = "failed" \/ C!ReadFailed)
               PROVE  FALSE
    OBVIOUS
  <2>1. call = "waited" /\ ~C!Accepted
    BY DEF CaptureRejected, C!Returning
  <2>2. QED
    BY <2>1, GoodIsAccepted
<1>2. QED
  BY <1>1, CaptureInvariance, PTL DEF CaptureSpec, GoodCaptureKept

\* PreparedCapture implements PreparedRun: an accepted capture has put the
\* parent on disk, and every other step is one of PreparedRun's or none.
THEOREM CaptureRefines == CaptureSpec => ImplementsPreparedRun
<1>1. CaptureInit => Init
  BY DEF CaptureInit
<1>2. CaptureInv /\ [CaptureNext]_allVars => [Next]_vars
  <2> SUFFICES ASSUME CaptureInv, [CaptureNext]_allVars PROVE [Next]_vars
    OBVIOUS
  <2>1. CASE UNCHANGED allVars
    BY <2>1 DEF allVars
  <2>2. CASE CaptureAccepted
    <3>1. call = "waited" /\ C!Accepted
      BY <2>2 DEF CaptureAccepted, C!Returning
    <3>2. save = "published"
      BY <3>1, AcceptedMeans
    <3>3. pc = "capture" /\ Parent \in dirs
      BY <3>1, <3>2 DEF CaptureInv, CallInv
    <3>4. QED
      BY <2>2, <3>3 DEF CaptureAccepted, Next, Captured
  <2>3. CASE CaptureRejected
    <3>1. pc = "capture"
      BY <2>3 DEF CaptureRejected, C!Returning, CaptureInv, CallInv
    <3>2. QED
      BY <2>3, <3>1 DEF CaptureRejected, Next, CaptureError
  <2>4. CASE (\E m \in {"marker", "plain"} : StartCapture(m)) \/ StartFails \/ StartError
    BY <2>4 DEF StartCapture, StartFails, StartError, Next
  <2>5. CASE ProcPublish \/ ProcTear \/ CrashAll
    BY <2>5 DEF ProcPublish, ProcTear, CrashAll, Next
  <2>6. CASE ProcStep \/ ExpireStep \/ KillStep \/ HeirStep \/ ReadStep
    BY <2>6 DEF ProcStep, ExpireStep, KillStep, HeirStep, ReadStep
  <2>7. CASE ForkStep
    BY <2>7 DEF ForkStep, Next
  <2>8. CASE OtherStep
    BY <2>8 DEF OtherStep, Next
  <2>9. QED
    BY <2>1, <2>2, <2>3, <2>4, <2>5, <2>6, <2>7, <2>8 DEF CaptureNext
<1>3. QED
  BY <1>1, <1>2, CaptureInvariance, PTL DEF CaptureSpec, ImplementsPreparedRun, Spec

\* Types are kept on both sides.
THEOREM AllTypeOKHolds == CaptureSpec => []AllTypeOK
<1>1. CaptureInv /\ TypeOK => AllTypeOK
  BY DEF CaptureInv, AllTypeOK
<1>2. QED
  BY <1>1, CaptureInvariance, CaptureRefines, TypeOKHolds, PTL DEF ImplementsPreparedRun

\* So what is proved of PreparedRun holds with the real capture.
THEOREM CapturePinsFindable == CaptureSpec => []PinsFindable /\ []ParentOutlivesChildren
BY CaptureRefines, PinsFindableHolds, ParentOutlivesChildrenHolds, PTL DEF ImplementsPreparedRun
=============================================================================

--------------------------- MODULE PreparedCapture ---------------------------
(***************************************************************************)
(* PreparedRun with its capture carried out by RunCapture: the preparation  *)
(* waits at "capture" while the spore process writes the parent, and goes   *)
(* on with whatever RunCapture makes of the process's output.  Nothing here *)
(* says that an accepted capture has published its parent; that it has, and *)
(* that every step is one PreparedRun allows, is checked.                   *)
(***************************************************************************)
EXTENDS PreparedRun

CONSTANTS MaxLines, CaptureFaults

VARIABLES mode, proc, exit, heir, asked, save, pipe,
          call, ctx, stdout, reader, copier, signaled, waitErr

C == INSTANCE RunCapture

ASSUME CaptureAssumption ==
    MaxLines \in Nat \ {0} /\ CaptureFaults \subseteq C!CaptureFaultKinds

captureVars == <<mode, proc, exit, heir, asked, save, pipe,
                 call, ctx, stdout, reader, copier, signaled, waitErr>>
allVars == <<vars, captureVars>>

CaptureInit == Init /\ C!CaptureInit

-----------------------------------------------------------------------------
\* The work directory is made and the capture started, with a ready marker or
\* without; the marker cannot change between the two.
StartCapture(m) == MakeRoot /\ C!Start(m)

\* The pipes or the process cannot be made, and RunCapture returns the error.
StartFails ==
    /\ C!MayFail("start")
    /\ MakeRoot
    /\ UNCHANGED captureVars

StartError ==
    /\ call = "idle"
    /\ CaptureError
    /\ UNCHANGED captureVars

\* What the process does to the disk.
ProcPublish == C!Publish /\ PublishParent
ProcTear == C!Tear /\ TearParent

\* The rest of the process and the goroutines of the call.
ProcStep ==
    /\ \/ \E l \in {"event", "marker"} : C!Emit(l)
       \/ \E c \in C!Completion : C!Complete(c)
       \/ C!Exit \/ C!Die
    /\ UNCHANGED vars

ExpireStep == C!Expire /\ UNCHANGED vars
KillStep == C!Kill /\ UNCHANGED vars
HeirStep == C!HeirEnds /\ UNCHANGED vars

ReadStep ==
    /\ \/ C!ReadLine \/ C!ReadEOF \/ C!ReadError
       \/ C!CopyEOF \/ C!CopyError
       \/ C!Wait
    /\ UNCHANGED vars

\* prepareChildren goes on to the fork, ...
CaptureAccepted ==
    /\ C!Returning(TRUE)
    /\ C!Return
    /\ Go("fork")
    /\ UNCHANGED <<disk, pins>>

\* ... or unwinds.
CaptureRejected ==
    /\ C!Returning(FALSE)
    /\ C!Forget
    /\ Unwind
    /\ UNCHANGED <<disk, pins>>

CrashAll == Crash /\ C!Forget

ForkStep ==
    /\ \/ Fork
       \/ \E S \in SUBSET Child : \E cut \in {{}} \cup {{c} : c \in Child \ S} : ForkError(S, cut)
    /\ C!Forget

\* The steps that have nothing to do with a capture.
OtherStep ==
    /\ \/ Prepare \/ Prepared \/ PackError
       \/ Release
       \/ LoadAbsent \/ LoadLedger \/ LoadTemp \/ LoadTorn \/ LoadScan
       \/ OpenTemp \/ WriteTemp \/ RenameTemp
       \/ \E s \in Spore : RemoveSpore(s) \/ RemoveError(s)
       \/ RemoveEntries \/ RemoveRoot
       \/ DiskError
    /\ UNCHANGED captureVars

CaptureNext ==
    \/ \E m \in {"marker", "plain"} : StartCapture(m)
    \/ StartFails \/ StartError
    \/ ProcPublish \/ ProcTear \/ ProcStep
    \/ ExpireStep \/ KillStep \/ HeirStep \/ ReadStep
    \/ CaptureAccepted \/ CaptureRejected
    \/ ForkStep \/ OtherStep
    \/ CrashAll

CaptureSpec == CaptureInit /\ [][CaptureNext]_allVars

\* The context of a preparation ends with the coordinator's timeout or its
\* connection, and an ended context kills the process.  Nothing is assumed of
\* the guest, nor of a process that spore leaves behind with the pipes open.
FairCaptureSpec ==
    /\ CaptureSpec
    /\ WF_allVars(ExpireStep) /\ WF_allVars(KillStep)
    /\ WF_allVars(ReadStep) /\ WF_allVars(CaptureAccepted \/ CaptureRejected)

-----------------------------------------------------------------------------
(* Properties                                                               *)

AllTypeOK == TypeOK /\ C!CaptureTypeOK

\* RunCapture and prepareChildren: what is forked was published by a process
\* that ended with 0 and was not killed after its completion; with a marker, it
\* was asked to save after the marker came out, nothing of the output was lost
\* and the caller was still waiting.
AcceptedIsCaptured ==
    pc = "fork" =>
        /\ save = "published" /\ proc = "exited" /\ exit = 0
        /\ mode = "marker" => /\ "marker" \in C!Range(stdout)
                              /\ asked = "yes"
                              /\ ctx = "live" /\ ~C!ReadFailed

\* Signal, end of output and exit race, but a capture that went well is never
\* thrown away: when RunCapture returns an error the process failed, saved
\* nothing or was cut off, or the caller had left.
GoodCaptureKept ==
    [][CaptureRejected =>
         \/ exit # 0 \/ save # "published"
         \/ ctx = "done" \/ signaled = "failed" \/ C!ReadFailed]_allVars

\* RunCapture returns although it waits for the end of the output before it
\* waits for the process, whatever the guest does and whatever it leaves in
\* the pipes, once no process left behind holds them.  One that keeps them
\* open keeps RunCapture, and the gate of the run ID with it: no WaitDelay is
\* set and the readers are awaited without a bound.
CaptureReturns == call # "idle" /\ heir = "no" ~> call = "idle"

\* Every step is one of PreparedRun, so what is proved of PreparedRun holds with
\* the real capture: it forks only from a parent that is on disk.
ImplementsPreparedRun == Spec
=============================================================================

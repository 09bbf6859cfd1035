----------------------------- MODULE RunCapture -----------------------------
(***************************************************************************)
(* One call of CommandClient.RunCapture: the spore run --save process, the  *)
(* goroutine that reads its output line by line and signals the process at  *)
(* the ready marker, the goroutine that drains its error output, and the    *)
(* verdict of decodeRunEventsAfterCommand on what they collected.           *)
(*                                                                          *)
(* The process is external.  It writes events, saves the VM (at the signal  *)
(* when there is a marker, otherwise when it likes) and reports a capture   *)
(* only when it has published one; it may also die at any point, be killed  *)
(* when the context ends, and leave a process behind that keeps the pipes   *)
(* open.                                                                    *)
(***************************************************************************)
EXTENDS Integers, Sequences, SequencesExt

CONSTANTS
    MaxLines,       \* bound on the lines the process writes
    CaptureFaults   \* what may go wrong

CaptureFaultKinds == {"start", "die", "heir", "read", "signal"}

\* Lines of the output: events without and with the marker, a line that is no
\* event, and completions (a guest that exits 0 with or without a capture, a
\* guest that exits 1, and an error of spore).
Completion == {"captured", "uncaptured", "guestFailed", "failed"}
Line == {"event", "marker", "garbage"} \cup Completion

\* The exit_code of a completion.
ReportedExit(c) == IF c \in {"guestFailed", "failed"} THEN 1 ELSE 0

VARIABLES
    \* The spore process
    mode,       \* "marker", or "plain" without a ready marker
    proc,       \* "none", "running", "completed" (completion written), "exited"
    exit,       \* its exit status; -1 when killed by a signal
    heir,       \* "yes" while a process it left behind holds the pipes
    asked,      \* the capture signal has arrived: "yes", "no"
    save,       \* what is at CaptureDir: "none", "torn", "published"
    pipe,       \* lines written and not read
    \* The call
    call,       \* "idle", "running", "waited"
    ctx,        \* "live", "done"
    stdout,     \* lines read
    reader,     \* the goroutine on stdout: "reading", "ended", "failed"
    copier,     \* the goroutine on stderr, likewise
    signaled,   \* "no", "sent", "failed"
    waitErr     \* what Wait returns: "none", "exit" (ExitError), "other"

procVars == <<mode, proc, exit, heir, asked, save, pipe>>
callVars == <<call, ctx, stdout, reader, copier, signaled, waitErr>>
captureVars == <<procVars, callVars>>

MayFail(fault) == fault \in CaptureFaults

CaptureInit ==
    /\ mode = "plain" /\ proc = "none" /\ exit = 0 /\ heir = "no" /\ asked = "no"
    /\ save = "none" /\ pipe = <<>>
    /\ call = "idle" /\ ctx = "live" /\ stdout = <<>>
    /\ reader = "ended" /\ copier = "ended" /\ signaled = "no" /\ waitErr = "none"

-----------------------------------------------------------------------------
(* The spore process                                                        *)

Write(l) == pipe' = Append(pipe, l)
Written == Len(pipe) + Len(stdout)

Emit(l) ==
    /\ proc = "running"
    /\ l \in {"event", "marker"}
    /\ Written < MaxLines
    /\ Write(l)
    /\ UNCHANGED <<mode, proc, exit, heir, asked, save, callVars>>

\* The save is allowed once the signal has arrived, or without one.
Saving == proc = "running" /\ save = "none" /\ (mode = "marker" => asked = "yes")

Publish ==
    /\ Saving
    /\ save' = "published"
    /\ UNCHANGED <<mode, proc, exit, heir, asked, pipe, callVars>>

Tear ==
    /\ Saving
    /\ save' = "torn"
    /\ UNCHANGED <<mode, proc, exit, heir, asked, pipe, callVars>>

\* The completion tells the truth about the save, or reports an error.
Complete(c) ==
    /\ proc = "running"
    /\ \/ c = "captured" /\ save = "published"
       \/ c \in {"uncaptured", "guestFailed"} /\ save = "none"
       \/ c = "failed"
    /\ Write(c)
    /\ proc' = "completed"
    /\ exit' = ReportedExit(c)
    /\ UNCHANGED <<mode, heir, asked, save, callVars>>

Exit ==
    /\ proc = "completed"
    /\ proc' = "exited"
    /\ UNCHANGED <<mode, exit, heir, asked, save, pipe, callVars>>

\* An end without a completion may cut a line short.
CutShort(status) ==
    /\ proc' = "exited"
    /\ exit' = status
    /\ \/ pipe' = pipe
       \/ proc = "running" /\ Write("garbage")
    /\ UNCHANGED <<mode, heir, asked, save, callVars>>

Die ==
    /\ MayFail("die")
    /\ proc \in {"running", "completed"}
    /\ CutShort(1)

\* The process left behind closes the pipes.
HeirEnds ==
    /\ proc = "exited" /\ heir = "yes"
    /\ heir' = "no"
    /\ UNCHANGED <<mode, proc, exit, asked, save, pipe, callVars>>

-----------------------------------------------------------------------------
(* RunCapture                                                               *)

\* runSignalingOnMarker or run starts the process and its readers.
Start(m) ==
    /\ call = "idle"
    /\ mode' = m /\ proc' = "running" /\ exit' = 0 /\ asked' = "no"
    /\ \/ heir' = "no"
       \/ MayFail("heir") /\ heir' = "yes"
    /\ save' = "none" /\ pipe' = <<>>
    /\ call' = "running" /\ ctx' = "live" /\ stdout' = <<>>
    /\ reader' = "reading" /\ copier' = "reading" /\ signaled' = "no" /\ waitErr' = "none"

\* The caller's context ends, ...
Expire ==
    /\ call # "idle" /\ ctx = "live"
    /\ ctx' = "done"
    /\ UNCHANGED <<procVars, call, stdout, reader, copier, signaled, waitErr>>

\* Mutant: the command is not bound to the context.
KillNever == FALSE /\ UNCHANGED captureVars

\* ... and CommandContext kills the process.
Kill ==
    /\ ctx = "done"
    /\ proc \in {"running", "completed"}
    /\ CutShort(-1)

Ask == asked' = IF proc = "running" THEN "yes" ELSE asked

\* sendSignal, in the goroutine that reads stdout, once.
Signal ==
    \/ signaled' = "sent" /\ Ask
    \/ MayFail("signal") /\ signaled' = "failed" /\ asked' = asked

ReadLine ==
    /\ reader = "reading"
    /\ pipe # <<>>
    /\ stdout' = Append(stdout, Head(pipe))
    /\ pipe' = Tail(pipe)
    /\ IF mode = "marker" /\ Head(pipe) = "marker" /\ signaled = "no"
       THEN Signal
       ELSE UNCHANGED <<signaled, asked>>
    /\ UNCHANGED <<mode, proc, exit, heir, save, call, ctx, reader, copier, waitErr>>

\* Every writer has closed the pipe.
Closed == proc = "exited" /\ heir = "no"

\* Mutant: the reader ends with the process, whatever is left in the pipe.
ReadEOFEarly ==
    /\ reader = "reading"
    /\ Closed
    /\ reader' = "ended"
    /\ UNCHANGED <<procVars, call, ctx, stdout, copier, signaled, waitErr>>

ReadEOF ==
    /\ reader = "reading"
    /\ pipe = <<>> /\ Closed
    /\ reader' = "ended"
    /\ UNCHANGED <<procVars, call, ctx, stdout, copier, signaled, waitErr>>

ReadError ==
    /\ reader = "reading"
    /\ MayFail("read")
    /\ reader' = "failed"
    /\ UNCHANGED <<procVars, call, ctx, stdout, copier, signaled, waitErr>>

CopyEOF ==
    /\ copier = "reading"
    /\ Closed
    /\ copier' = "ended"
    /\ UNCHANGED <<procVars, call, ctx, stdout, reader, signaled, waitErr>>

CopyError ==
    /\ copier = "reading"
    /\ MayFail("read")
    /\ copier' = "failed"
    /\ UNCHANGED <<procVars, call, ctx, stdout, reader, signaled, waitErr>>

ReadFailed == reader = "failed" \/ copier = "failed"

\* Wait, after both readers have ended.  The kill of a process that has just
\* exited with 0 may turn into the error of the context, and without a marker
\* a failed reader is Wait's error.
Wait ==
    /\ call = "running"
    /\ reader # "reading" /\ copier # "reading"
    /\ proc = "exited"
    /\ call' = "waited"
    /\ \/ exit # 0 /\ waitErr' = "exit"
       \/ exit = 0 /\ ~(mode = "plain" /\ ReadFailed) /\ waitErr' = "none"
       \/ exit = 0 /\ mode = "plain" /\ ReadFailed /\ waitErr' = "other"
       \/ exit = 0 /\ ctx = "done" /\ waitErr' = "other"
    /\ UNCHANGED <<procVars, ctx, stdout, reader, copier, signaled>>

-----------------------------------------------------------------------------
(* The verdict                                                              *)

\* Mutant: the errors around the command are dropped.
RunErrOfWait == waitErr # "none"

\* What is joined to Wait's error.
RunErr ==
    \/ waitErr # "none"
    \/ mode = "marker" /\ (ReadFailed \/ signaled # "sent" \/ ctx = "done")

\* DecodeRunEvents.
Decoded == "garbage" \notin Range(stdout)

\* TerminalEvent: one completion, and nothing after it.
HasTerminal ==
    /\ stdout # <<>> /\ Last(stdout) \in Completion
    /\ \A i \in 1 .. Len(stdout) - 1 : stdout[i] \notin Completion

\* validateRunEventExitStatus: an ExitError counts if the codes agree.
ExitStatusValid(c) ==
    IF ~RunErr THEN ReportedExit(c) = 0
    ELSE waitErr = "exit" /\ ReportedExit(c) = exit

\* Mutant: the exit status of the process is not compared with the completion.
AcceptedUnchecked == Decoded /\ HasTerminal /\ Last(stdout) = "captured"

\* Mutant: a guest that exits with 0 is enough.
AcceptedUncaptured ==
    /\ Decoded /\ HasTerminal
    /\ ExitStatusValid(Last(stdout))
    /\ ReportedExit(Last(stdout)) = 0

\* The capture is accepted: the outcome is no error, the guest exited with 0
\* and the completion names the captured parent.
Accepted ==
    /\ Decoded /\ HasTerminal
    /\ ExitStatusValid(Last(stdout))
    /\ Last(stdout) = "captured"

Returning(ok) == call = "waited" /\ ok = Accepted

\* The call returns, and what it learned can still be looked at, ...
Return ==
    /\ call' = "idle"
    /\ UNCHANGED <<procVars, ctx, stdout, reader, copier, signaled, waitErr>>

\* ... or it is over, because it failed, its caller went on or the agent died and
\* its container with it.
Forget ==
    /\ mode' = "plain" /\ proc' = "none" /\ exit' = 0 /\ heir' = "no" /\ asked' = "no"
    /\ save' = "none" /\ pipe' = <<>>
    /\ call' = "idle" /\ ctx' = "live" /\ stdout' = <<>>
    /\ reader' = "ended" /\ copier' = "ended" /\ signaled' = "no" /\ waitErr' = "none"

-----------------------------------------------------------------------------
CaptureTypeOK ==
    /\ mode \in {"marker", "plain"}
    /\ proc \in {"none", "running", "completed", "exited"}
    /\ exit \in {-1, 0, 1}
    /\ heir \in {"yes", "no"} /\ asked \in {"yes", "no"}
    /\ save \in {"none", "torn", "published"}
    /\ pipe \in Seq(Line) /\ stdout \in Seq(Line)
    /\ call \in {"idle", "running", "waited"}
    /\ ctx \in {"live", "done"}
    /\ {reader, copier} \subseteq {"reading", "ended", "failed"}
    /\ signaled \in {"no", "sent", "failed"}
    /\ waitErr \in {"none", "exit", "other"}
=============================================================================

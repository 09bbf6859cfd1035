------------------------------ MODULE BatchRun ------------------------------
(***************************************************************************)
(* One logical batch run: the coordinator's lease loop, the run-shard       *)
(* handlers of the agent that holds the lease, and the result store they    *)
(* share.  A Submission is one coordinator process executing the run;       *)
(* several submissions share the run ID, hence every document of the store. *)
(*                                                                          *)
(* A handler <<s, a>> is the agent's HTTP handler for attempt a of          *)
(* submission s.  It outlives the call that started it: the coordinator may *)
(* have lost the connection while the handler still runs its children.      *)
(*                                                                          *)
(* Child IDs are counted from the start of the lease's range.               *)
(***************************************************************************)
EXTENDS Integers, FiniteSets

CONSTANTS
    Submission,     \* coordinator processes that execute this run ID
    ChildCount,     \* lease.ChildCount
    MaxInFlight,    \* run.MaxInFlight
    AttemptBudget,  \* lease.AttemptBudget
    Slots,          \* slot limiter total of the agent
    Faults,         \* faults of the environment that may happen
    MaxCrashes      \* bound: times the agent process dies

FaultKinds == {"read", "commit", "write", "transport", "pressure"}

ASSUME SubmissionAssumption == IsFiniteSet(Submission)
ASSUME CountAssumption == /\ ChildCount \in Nat \ {0}
                          /\ MaxInFlight \in Nat \ {0}
                          /\ AttemptBudget \in Nat \ {0}
                          /\ Slots \in Nat \ {0}
ASSUME FaultAssumption == Faults \subseteq FaultKinds /\ MaxCrashes \in Nat

Child == 0 .. ChildCount - 1
Handler == Submission \X (1 .. AttemptBudget)
Work == Handler \X Child

\* Slots a lease occupies: one per worker goroutine.
ShardSlotDemand == IF ChildCount < MaxInFlight THEN ChildCount ELSE MaxInFlight

\* The planner leases only to an agent whose slots cover the demand.
ASSUME CapacityAssumption == ShardSlotDemand =< Slots

(***************************************************************************)
(* An AttemptResult, reduced to what the coordinator and the store tell     *)
(* apart:                                                                   *)
(*   "unset"       the zero value: the child was never dispatched           *)
(*   "unreadable"  failed, no error body: the terminal lookup failed        *)
(*   "succeeded"   terminal, the guest exited with 0                        *)
(*   "exited"      terminal and failed: the guest exited with another code  *)
(*   "failed"      failed and not terminal                                  *)
(*   "mismatch"    platform mismatch, not terminal                          *)
(*   "skipped"     terminal: a committed result short-circuited the attempt *)
(***************************************************************************)
Result == {"unset", "unreadable", "succeeded", "exited", "failed", "mismatch", "skipped"}
Executed == {"succeeded", "exited"}
Terminal(r) == r \in Executed \cup {"skipped"}

\* AttemptResult.Validate: the zero value has no attempt ID, and a failed
\* status needs an error code and message.
Valid(r) == r \notin {"unset", "unreadable"}

VARIABLES
    \* Result store
    terminal,   \* terminal[c]: the committed terminal.json of child c, or "none"
    attempts,   \* attempts[c, a]: the attempt document of attempt a, or "none"
    \* Coordinator process of each submission
    phase,      \* "idle", "scan", "calling", "done"
    attempt,    \* loop counter of runLease
    afterCall,  \* which of the two leaseHasPendingChildren calls is scanning
    scanAt,     \* loop counter of leaseHasPendingChildren
    pending,    \* its result so far
    known,      \* runtimeState.terminal
    mismatches, \* runtimeState.platformMismatches
    runErr,     \* the error Run returns is not nil
    ctxDone,    \* the run context timed out or its caller went away
    \* Agent
    handler,    \* "none", "sent", "running", "replied", "rejected", "gone"
    canceled,   \* the handler's request context is done
    disp,       \* dispatcher loop of RunShard: "check", "send", "wait"
    next,       \* its loop counter
    work,       \* runChild of each child: "todo", "lookup", "execute",
                \* "commit", "write", "writeFresh", "done"
    result,     \* results[] of each handler
    used,       \* SlotLimiter.used
    \* History
    commitErr,  \* work items whose CommitTerminalResult returned an error
    crashes     \* times the agent process died

storeVars == <<terminal, attempts>>
coordVars == <<phase, attempt, afterCall, scanAt, pending, known, mismatches, runErr, ctxDone>>
agentVars == <<handler, canceled, disp, next, work, result, used>>
vars == <<storeVars, coordVars, agentVars, commitErr, crashes>>

Call(s) == <<s, attempt[s]>>
Awaited(h) == phase[h[1]] = "calling" /\ attempt[h[1]] = h[2]
Active(h) == {c \in Child : work[<<h, c>>] \notin {"todo", "done"}}
May(fault) == fault \in Faults

Init ==
    /\ terminal = [c \in Child |-> "none"]
    /\ attempts = [d \in Child \X (1 .. AttemptBudget) |-> "none"]
    /\ phase = [s \in Submission |-> "idle"]
    /\ attempt = [s \in Submission |-> 1]
    /\ afterCall = [s \in Submission |-> FALSE]
    /\ scanAt = [s \in Submission |-> 0]
    /\ pending = [s \in Submission |-> FALSE]
    /\ known = [s \in Submission |-> [c \in Child |-> "none"]]
    /\ mismatches = [s \in Submission |-> 0]
    /\ runErr = [s \in Submission |-> FALSE]
    /\ ctxDone = [s \in Submission |-> FALSE]
    /\ handler = [h \in Handler |-> "none"]
    /\ canceled = [h \in Handler |-> FALSE]
    /\ disp = [h \in Handler |-> "check"]
    /\ next = [h \in Handler |-> 0]
    /\ work = [w \in Work |-> "todo"]
    /\ result = [w \in Work |-> "unset"]
    /\ used = 0
    /\ commitErr = {}
    /\ crashes = 0

-----------------------------------------------------------------------------
(* Coordinator: Coordinator.Run and runLease                                *)

\* leaseHasPendingChildren starts over the lease's range.
StartScan(s, after) ==
    /\ phase' = [phase EXCEPT ![s] = "scan"]
    /\ afterCall' = [afterCall EXCEPT ![s] = after]
    /\ scanAt' = [scanAt EXCEPT ![s] = 0]
    /\ pending' = [pending EXCEPT ![s] = FALSE]

\* leaseHasPendingChildren is left, and its locals with it.
EndScan(s) ==
    /\ afterCall' = [afterCall EXCEPT ![s] = FALSE]
    /\ scanAt' = [scanAt EXCEPT ![s] = 0]
    /\ pending' = [pending EXCEPT ![s] = FALSE]

\* runLease returns; Run builds the summary from the state left behind.
Return(s, err) ==
    /\ phase' = [phase EXCEPT ![s] = "done"]
    /\ runErr' = [runErr EXCEPT ![s] = err]
    /\ EndScan(s)

\* The run is planned and its lease loop entered.
Submit(s) ==
    /\ phase[s] = "idle"
    /\ StartScan(s, FALSE)
    /\ UNCHANGED <<storeVars, attempt, known, mismatches, runErr, ctxDone,
                   agentVars, commitErr, crashes>>

\* Mutant: the deadline is looked at between calls only.
CtxDoneBetweenCalls(s) ==
    /\ phase[s] = "scan"
    /\ ~ctxDone[s]
    /\ ctxDone' = [ctxDone EXCEPT ![s] = TRUE]
    /\ UNCHANGED <<storeVars, phase, attempt, afterCall, scanAt, pending, known,
                   mismatches, runErr, agentVars, commitErr, crashes>>

\* The run context ends: --timeout elapsed or the process is told to stop.
CtxDone(s) ==
    /\ phase[s] \notin {"idle", "done"}
    /\ ~ctxDone[s]
    /\ ctxDone' = [ctxDone EXCEPT ![s] = TRUE]
    /\ UNCHANGED <<storeVars, phase, attempt, afterCall, scanAt, pending, known,
                   mismatches, runErr, agentVars, commitErr, crashes>>

\* One iteration of leaseHasPendingChildren, over the child at its counter.
Scanning(s) == phase[s] = "scan" /\ scanAt[s] < ChildCount

\* A child already known is passed over without a read.
ScanKnown(s) ==
    /\ Scanning(s)
    /\ known[s][scanAt[s]] # "none"
    /\ scanAt' = [scanAt EXCEPT ![s] = @ + 1]
    /\ UNCHANGED <<storeVars, phase, attempt, afterCall, pending, known, mismatches,
                   runErr, ctxDone, agentVars, commitErr, crashes>>

\* The store has a terminal result: recordExistingTerminal.
ScanTerminal(s) ==
    /\ Scanning(s)
    /\ known[s][scanAt[s]] = "none" /\ ~ctxDone[s]
    /\ terminal[scanAt[s]] # "none"
    /\ known' = [known EXCEPT ![s] = [@ EXCEPT ![scanAt[s]] = terminal[scanAt[s]]]]
    /\ scanAt' = [scanAt EXCEPT ![s] = @ + 1]
    /\ UNCHANGED <<storeVars, phase, attempt, afterCall, pending, mismatches,
                   runErr, ctxDone, agentVars, commitErr, crashes>>

\* The store has none: the child is pending.
ScanPending(s) ==
    /\ Scanning(s)
    /\ known[s][scanAt[s]] = "none" /\ ~ctxDone[s]
    /\ terminal[scanAt[s]] = "none"
    /\ pending' = [pending EXCEPT ![s] = TRUE]
    /\ scanAt' = [scanAt EXCEPT ![s] = @ + 1]
    /\ UNCHANGED <<storeVars, phase, attempt, afterCall, known, mismatches,
                   runErr, ctxDone, agentVars, commitErr, crashes>>

\* The store read fails, and with it the whole lease.
ScanError(s) ==
    /\ Scanning(s)
    /\ known[s][scanAt[s]] = "none"
    /\ ctxDone[s] \/ May("read")
    /\ Return(s, TRUE)
    /\ UNCHANGED <<storeVars, attempt, known, mismatches, ctxDone,
                   agentVars, commitErr, crashes>>

Scanned(s) == phase[s] = "scan" /\ scanAt[s] = ChildCount

\* Nothing is pending, before or after an attempt: the lease is finished.
LeaseComplete(s) ==
    /\ Scanned(s)
    /\ ~pending[s]
    /\ Return(s, FALSE)
    /\ UNCHANGED <<storeVars, attempt, known, mismatches, ctxDone,
                   agentVars, commitErr, crashes>>

\* Children are pending before the attempt: RunShard is sent to the agent.
SendAttempt(s) ==
    /\ Scanned(s)
    /\ pending[s] /\ ~afterCall[s]
    /\ phase' = [phase EXCEPT ![s] = "calling"]
    /\ EndScan(s)
    /\ handler' = [handler EXCEPT ![Call(s)] = "sent"]
    /\ UNCHANGED <<storeVars, attempt, known, mismatches, runErr, ctxDone, canceled,
                   disp, next, work, result, used, commitErr, crashes>>

\* Children are pending after the last attempt the budget or the context allows.
LeaseExhausted(s) ==
    /\ Scanned(s)
    /\ pending[s] /\ afterCall[s]
    /\ attempt[s] = AttemptBudget \/ ctxDone[s]
    /\ Return(s, TRUE)
    /\ UNCHANGED <<storeVars, attempt, known, mismatches, ctxDone,
                   agentVars, commitErr, crashes>>

\* Children are pending and another attempt is allowed, without delay.
NextAttempt(s) ==
    /\ Scanned(s)
    /\ pending[s] /\ afterCall[s]
    /\ attempt[s] < AttemptBudget /\ ~ctxDone[s]
    /\ attempt' = [attempt EXCEPT ![s] = @ + 1]
    /\ StartScan(s, FALSE)
    /\ UNCHANGED <<storeVars, known, mismatches, runErr, ctxDone,
                   agentVars, commitErr, crashes>>

\* recordResults for one result: a skip never replaces what is known.
Record(old, r) ==
    IF Terminal(r) /\ ~(old # "none" /\ r = "skipped") THEN r ELSE old

\* The handler's goroutines are gone, and their locals with them.
Forget(h) ==
    /\ canceled' = [canceled EXCEPT ![h] = FALSE]
    /\ disp' = [disp EXCEPT ![h] = "check"]
    /\ next' = [next EXCEPT ![h] = 0]
    /\ work' = [w \in Work |-> IF w[1] = h THEN "todo" ELSE work[w]]
    /\ result' = [w \in Work |-> IF w[1] = h THEN "unset" ELSE result[w]]

\* The response arrives and every result validates: recordResults.
Mismatched(h) == {c \in Child : result[<<h, c>>] = "mismatch"}
Accept(s) ==
    LET h == Call(s) IN
       /\ phase[s] = "calling"
       /\ handler[h] = "replied"
       /\ \A c \in Child : Valid(result[<<h, c>>])
       /\ known' = [known EXCEPT ![s] =
                        [c \in Child |-> Record(known[s][c], result[<<h, c>>])]]
       /\ mismatches' = [mismatches EXCEPT ![s] = @ + Cardinality(Mismatched(h))]
       /\ handler' = [handler EXCEPT ![h] = "gone"]
       /\ Forget(h)
       /\ UNCHANGED <<storeVars, attempt, ctxDone, used, commitErr, crashes>>

\* The children are looked up again after the attempt.
Receive(s) ==
    /\ Accept(s)
    /\ Mismatched(Call(s)) = {}
    /\ StartScan(s, TRUE)
    /\ UNCHANGED runErr

\* A platform mismatch ends the lease at once.
ReceiveMismatch(s) ==
    /\ Accept(s)
    /\ Mismatched(Call(s)) # {}
    /\ Return(s, TRUE)

\* The agent answered with an error, or one result does not validate and the
\* client drops all of them.
ReceiveInvalid(s) ==
    LET h == Call(s) IN
       /\ phase[s] = "calling"
       /\ \/ handler[h] = "rejected"
          \/ handler[h] = "replied" /\ \E c \in Child : ~Valid(result[<<h, c>>])
       /\ handler' = [handler EXCEPT ![h] = "gone"]
       /\ Forget(h)
       /\ StartScan(s, TRUE)
       /\ UNCHANGED <<storeVars, attempt, known, mismatches, runErr, ctxDone, used,
                      commitErr, crashes>>

\* The connection breaks or the run context ends while the call is pending.  A
\* handler that is running keeps running; a response on its way is lost.
CallBroken(s) ==
    LET h == Call(s) IN
       /\ phase[s] = "calling"
       /\ handler[h] = "gone" \/ ctxDone[s] \/ May("transport")
       /\ handler' = [handler EXCEPT ![h] = IF @ \in {"replied", "rejected"} THEN "gone" ELSE @]
       /\ StartScan(s, TRUE)
       /\ UNCHANGED <<storeVars, attempt, known, mismatches, runErr, ctxDone, canceled,
                      disp, next, work, result, used, commitErr, crashes>>

-----------------------------------------------------------------------------
(* Agent: handleRunShard, Runner.RunShard and runChild                      *)

\* AdmitShard reserves the slots of the shard.
Admit(h) ==
    /\ handler[h] = "sent"
    /\ Slots - used >= ShardSlotDemand
    /\ used' = used + ShardSlotDemand
    /\ handler' = [handler EXCEPT ![h] = "running"]
    /\ UNCHANGED <<storeVars, coordVars, canceled, disp, next, work, result,
                   commitErr, crashes>>

\* ErrOversubscribed or ErrUnsafePressure: no result, an error response.
Reject(h) ==
    /\ handler[h] = "sent"
    /\ Slots - used < ShardSlotDemand \/ May("pressure")
    /\ handler' = [handler EXCEPT ![h] = IF Awaited(h) THEN "rejected" ELSE "gone"]
    /\ UNCHANGED <<storeVars, coordVars, canceled, disp, next, work, result, used,
                   commitErr, crashes>>

\* A request the coordinator gave up on never reaches the agent.
Drop(h) ==
    /\ handler[h] = "sent"
    /\ ~Awaited(h)
    /\ handler' = [handler EXCEPT ![h] = "gone"]
    /\ UNCHANGED <<storeVars, coordVars, canceled, disp, next, work, result, used,
                   commitErr, crashes>>

\* Mutant: the shard runs on a context of its own.
CancelDetached(h) ==
    /\ handler[h] = "running"
    /\ ~Awaited(h)
    /\ ~canceled[h]
    /\ UNCHANGED vars

\* The server notices that the client of a running handler is gone.
Cancel(h) ==
    /\ handler[h] = "running"
    /\ ~Awaited(h)
    /\ ~canceled[h]
    /\ canceled' = [canceled EXCEPT ![h] = TRUE]
    /\ UNCHANGED <<storeVars, coordVars, handler, disp, next, work, result, used,
                   commitErr, crashes>>

\* The dispatcher looks at the context before it offers the next child.
DispatchCheck(h) ==
    /\ handler[h] = "running"
    /\ disp[h] = "check"
    /\ disp' = [disp EXCEPT ![h] = IF next[h] = ChildCount \/ canceled[h]
                                     THEN "wait" ELSE "send"]
    /\ UNCHANGED <<storeVars, coordVars, handler, canceled, next, work, result, used,
                   commitErr, crashes>>

\* jobs <- childID: blocks until one of the workers is idle.
DispatchSend(h) ==
    /\ handler[h] = "running"
    /\ disp[h] = "send"
    /\ Cardinality(Active(h)) < ShardSlotDemand
    /\ work' = [work EXCEPT ![<<h, next[h]>>] = "lookup"]
    /\ next' = [next EXCEPT ![h] = @ + 1]
    /\ disp' = [disp EXCEPT ![h] = "check"]
    /\ UNCHANGED <<storeVars, coordVars, handler, canceled, result, used,
                   commitErr, crashes>>

\* A step of runChild: its new place and the result it will return.
Step(h, c, place, r) ==
    /\ work' = [work EXCEPT ![<<h, c>>] = place]
    /\ result' = [result EXCEPT ![<<h, c>>] = r]
    /\ UNCHANGED <<coordVars, handler, canceled, disp, next, used, crashes>>

At(h, c, place) == handler[h] = "running" /\ work[<<h, c>>] = place

\* Mutant: a failed lookup is taken for a result that exists.
LookupErrorSkips(h, c) ==
    /\ At(h, c, "lookup")
    /\ \/ /\ terminal[c] # "none" \/ canceled[h] \/ May("read")
          /\ Step(h, c, "write", "skipped")
       \/ /\ ~canceled[h] /\ terminal[c] = "none"
          /\ Step(h, c, "execute", "unset")
    /\ UNCHANGED <<storeVars, commitErr>>

\* The terminal lookup before execution.  A failed read leaves a result
\* without an error body and writes no attempt document.
Lookup(h, c) ==
    /\ At(h, c, "lookup")
    /\ \/ /\ ~canceled[h] /\ terminal[c] # "none"
          /\ Step(h, c, "write", "skipped")
       \/ /\ ~canceled[h] /\ terminal[c] = "none"
          /\ Step(h, c, "execute", "unset")
       \/ /\ canceled[h] \/ May("read")
          /\ Step(h, c, "done", "unreadable")
    /\ UNCHANGED <<storeVars, commitErr>>

\* Materialise the child, execute it and classify the event stream.  A guest
\* that completed goes on to commit.  The failAttempt paths write their
\* document with a fresh context when the request's is done ("writeFresh"),
\* a failed or canceled completion event writes it with the request's own.
Execute(h, c, r) ==
    /\ At(h, c, "execute")
    /\ \/ r \in Executed /\ Step(h, c, "commit", r)
       \/ r \in {"failed", "mismatch"}
          /\ \E place \in {"write", "writeFresh"} : Step(h, c, place, r)
    /\ UNCHANGED <<storeVars, commitErr>>

\* Mutant: terminal.json is written without If-None-Match.
CommitOverwrites(h, c) ==
    /\ At(h, c, "commit")
    /\ ~canceled[h]
    /\ terminal' = [terminal EXCEPT ![c] = result[<<h, c>>]]
    /\ Step(h, c, "write", result[<<h, c>>])
    /\ UNCHANGED <<attempts, commitErr>>

\* CommitTerminalResult creates terminal.json.
Commit(h, c) ==
    /\ At(h, c, "commit")
    /\ ~canceled[h]
    /\ terminal[c] = "none"
    /\ terminal' = [terminal EXCEPT ![c] = result[<<h, c>>]]
    /\ Step(h, c, "write", result[<<h, c>>])
    /\ UNCHANGED <<attempts, commitErr>>

\* Mutant: the loser of the commit race returns its own outcome.
CommitExistsKept(h, c) ==
    /\ At(h, c, "commit")
    /\ ~canceled[h]
    /\ terminal[c] # "none"
    /\ Step(h, c, "done", result[<<h, c>>])
    /\ UNCHANGED <<storeVars, commitErr>>

\* The object exists, so the attempt is turned into a failure.  The object may
\* be this attempt's own: the store created it, the answer was lost and the
\* retried conditional put found it.
CommitExists(h, c) ==
    /\ At(h, c, "commit")
    /\ ~canceled[h]
    /\ \/ terminal[c] # "none" /\ UNCHANGED terminal
       \/ /\ terminal[c] = "none" /\ May("commit")
          /\ terminal' = [terminal EXCEPT ![c] = result[<<h, c>>]]
    /\ Step(h, c, "write", "failed")
    /\ UNCHANGED <<attempts, commitErr>>

\* CommitTerminalResult returns an error, with or without having created the
\* object.  runChild returns the result it was about to commit, as terminal,
\* and no attempt document is written.
CommitError(h, c) ==
    /\ At(h, c, "commit")
    /\ \/ (canceled[h] \/ May("commit")) /\ UNCHANGED terminal
       \/ /\ ~canceled[h] /\ May("commit") /\ terminal[c] = "none"
          /\ terminal' = [terminal EXCEPT ![c] = result[<<h, c>>]]
    /\ Step(h, c, "done", result[<<h, c>>])
    /\ commitErr' = commitErr \cup {<<h, c>>}
    /\ UNCHANGED attempts

\* WriteAttemptResult creates the attempt document unless one exists, the
\* context it was given is done, or the store fails.  The result is returned
\* in every case.
WriteAttempt(h, c) ==
    /\ \/ At(h, c, "write") \/ At(h, c, "writeFresh")
    /\ LET doc == <<c, h[2]>> IN
         \/ /\ work[<<h, c>>] = "writeFresh" \/ ~canceled[h]
            /\ attempts[doc] = "none"
            /\ attempts' = [attempts EXCEPT ![doc] = result[<<h, c>>]]
         \/ /\ attempts[doc] # "none" \/ May("write")
               \/ (work[<<h, c>>] = "write" /\ canceled[h])
            /\ UNCHANGED attempts
    /\ Step(h, c, "done", result[<<h, c>>])
    /\ UNCHANGED <<terminal, commitErr>>

\* Mutant: RunShard does not wait for its workers.
FinishedWithoutWait(h) ==
    /\ handler[h] = "running"
    /\ disp[h] = "wait"
    /\ used' = used - ShardSlotDemand
    /\ UNCHANGED <<storeVars, coordVars, commitErr, crashes>>

\* Every worker is done: RunShard returns and its slots are released.
Finished(h) ==
    /\ handler[h] = "running"
    /\ disp[h] = "wait"
    /\ Active(h) = {}
    /\ used' = used - ShardSlotDemand
    /\ UNCHANGED <<storeVars, coordVars, commitErr, crashes>>

\* The handler writes the results as its response.
Finish(h) ==
    /\ Awaited(h)
    /\ Finished(h)
    /\ handler' = [handler EXCEPT ![h] = "replied"]
    /\ UNCHANGED <<canceled, disp, next, work, result>>

\* The response goes to nobody when the client is gone.
FinishUnheard(h) ==
    /\ ~Awaited(h)
    /\ Finished(h)
    /\ handler' = [handler EXCEPT ![h] = "gone"]
    /\ Forget(h)

\* The agent process dies and is restarted with an empty slot limiter.
Crash ==
    /\ crashes < MaxCrashes
    /\ crashes' = crashes + 1
    /\ handler' = [h \in Handler |-> IF handler[h] = "none" THEN "none" ELSE "gone"]
    /\ canceled' = [h \in Handler |-> FALSE]
    /\ disp' = [h \in Handler |-> "check"]
    /\ next' = [h \in Handler |-> 0]
    /\ work' = [w \in Work |-> "todo"]
    /\ result' = [w \in Work |-> "unset"]
    /\ used' = 0
    /\ UNCHANGED <<storeVars, coordVars, commitErr>>

-----------------------------------------------------------------------------
\* Nothing is left to do: every process has ended.
Ended ==
    /\ \A s \in Submission : phase[s] = "done"
    /\ \A h \in Handler : handler[h] \in {"none", "gone"}
    /\ UNCHANGED vars

CoordStep(s) ==
    \/ ScanKnown(s) \/ ScanTerminal(s) \/ ScanPending(s) \/ ScanError(s)
    \/ LeaseComplete(s) \/ SendAttempt(s) \/ LeaseExhausted(s) \/ NextAttempt(s)
    \/ Receive(s) \/ ReceiveMismatch(s) \/ ReceiveInvalid(s) \/ CallBroken(s)

HandlerStep(h) ==
    \/ Admit(h) \/ Reject(h) \/ Drop(h)
    \/ DispatchCheck(h) \/ DispatchSend(h)
    \/ Finish(h) \/ FinishUnheard(h)

StoreStep(h, c) ==
    Lookup(h, c) \/ Commit(h, c) \/ CommitExists(h, c) \/ CommitError(h, c) \/ WriteAttempt(h, c)

Next ==
    \/ \E s \in Submission : Submit(s) \/ CtxDone(s) \/ CoordStep(s)
    \/ \E h \in Handler : HandlerStep(h) \/ Cancel(h)
    \/ \E h \in Handler, c \in Child :
          \/ StoreStep(h, c)
          \/ \E r \in Executed \cup {"failed", "mismatch"} : Execute(h, c, r)
    \/ Crash
    \/ Ended

Spec == Init /\ [][Next]_vars

\* The guest is never assumed to finish.  What is assumed: processes take the
\* steps they can, the run context has a deadline (--timeout must be positive),
\* the server notices a client that is gone, and killing the spore command of a
\* canceled handler ends its execution.  No fault is assumed to happen: a pending
\* call is due only when its answer, its handler's end or the context is.
Due(s) ==
    phase[s] = "calling" =>
        ctxDone[s] \/ handler[Call(s)] \in {"replied", "rejected", "gone"}

Fairness ==
    /\ \A s \in Submission : WF_vars(Due(s) /\ CoordStep(s)) /\ WF_vars(CtxDone(s))
    /\ \A h \in Handler : WF_vars(HandlerStep(h)) /\ WF_vars(Cancel(h))
    /\ \A h \in Handler, c \in Child :
          /\ WF_vars(StoreStep(h, c))
          /\ WF_vars(canceled[h] /\ Execute(h, c, "failed"))

FairSpec == Spec /\ Fairness

-----------------------------------------------------------------------------
(* Properties                                                               *)

StoreTypeOK ==
    /\ terminal \in [Child -> Executed \cup {"none"}]
    /\ attempts \in [Child \X (1 .. AttemptBudget) -> Result \cup {"none"}]

CoordTypeOK ==
    /\ phase \in [Submission -> {"idle", "scan", "calling", "done"}]
    /\ attempt \in [Submission -> 1 .. AttemptBudget]
    /\ afterCall \in [Submission -> BOOLEAN]
    /\ scanAt \in [Submission -> 0 .. ChildCount]
    /\ pending \in [Submission -> BOOLEAN]
    /\ known \in [Submission -> [Child -> Executed \cup {"none", "skipped"}]]
    /\ mismatches \in [Submission -> Nat]
    /\ runErr \in [Submission -> BOOLEAN]
    /\ ctxDone \in [Submission -> BOOLEAN]

AgentTypeOK ==
    /\ handler \in [Handler -> {"none", "sent", "running", "replied", "rejected", "gone"}]
    /\ canceled \in [Handler -> BOOLEAN]
    /\ disp \in [Handler -> {"check", "send", "wait"}]
    /\ next \in [Handler -> 0 .. ChildCount]
    /\ work \in [Work -> {"todo", "lookup", "execute", "commit", "write", "writeFresh", "done"}]
    /\ result \in [Work -> Result]
    /\ used \in Nat
    /\ commitErr \subseteq Work
    /\ crashes \in Nat

TypeOK == StoreTypeOK /\ CoordTypeOK /\ AgentTypeOK

\* RuntimeSummary.State, which decides the coordinator's exit status.
RunState(s) ==
    IF \/ runErr[s]
       \/ \E c \in Child : known[s][c] \in {"none", "exited"}
       \/ mismatches[s] > 0
    THEN "failed" ELSE "succeeded"

Done(s) == phase[s] = "done"

\* The create-only documents of the store keep the promise of ResultStore
\* whatever handlers, retries, submissions and failed calls interleave.
Store == INSTANCE ResultStore WITH Attempt <- 1 .. AttemptBudget
StoreContract == Store!Spec

\* What a coordinator believes of a child is what the store holds, except
\* where the commit of one of its own attempts returned an error: runChild
\* then reports a terminal result that may not have been stored.
KnownIsCommitted ==
    \A s \in Submission, c \in Child :
        \/ known[s][c] = "none"
        \/ known[s][c] = "skipped" /\ terminal[c] # "none"
        \/ known[s][c] = terminal[c]
        \/ \E a \in 1 .. AttemptBudget : <<<<s, a>>, c>> \in commitErr

\* A run reported as succeeded has a terminal document for every child, as
\* long as no commit of its own returned an error: a response that was lost,
\* discarded or overtaken by a straggling handler is healed from the store.
SucceededRunIsStored ==
    \A s \in Submission :
        /\ Done(s) /\ RunState(s) = "succeeded"
        /\ \A w \in commitErr : w[1][1] # s
        => \A c \in Child : terminal[c] # "none"

\* runLease returns no error only when every child of the lease is accounted
\* for, in whichever of its two scans it stops.
NilErrorMeansComplete ==
    \A s \in Submission :
        Done(s) /\ ~runErr[s] => \A c \in Child : known[s][c] # "none"

\* The slot limiter holds exactly the demand of the admitted shards and never
\* more than the agent has, whatever becomes of the callers.
Running == {h \in Handler : handler[h] = "running"}
SlotLedger ==
    /\ used = ShardSlotDemand * Cardinality(Running)
    /\ used =< Slots

\* Children that are executing never outnumber the slots held, nor these the slots
\* there are, also while the handlers of abandoned attempts are still unwinding.
Executing == {w \in Work : work[w] \in {"execute", "commit", "write", "writeFresh"}}
ExecutionHoldsSlots == Cardinality(Executing) =< used /\ used =< Slots

\* A batch run ends, even when a guest never exits: the run context has a
\* deadline and every wait of the lease loop observes it.
RunEnds == \A s \in Submission : phase[s] = "scan" ~> Done(s)

\* Whatever was admitted gives its slots back, also without an agent-side
\* child timeout: the handler is canceled once its caller is gone.
SlotsComeBack == used > 0 ~> used = 0

(* What the design document says and the code does not keep.                *)

\* docs/plans/design.md: "Agents commit per-child terminal results and logs to
\* object storage" before the coordinator reports.  A run reported as succeeded
\* should have a terminal document for every child.
EverySuccessIsCommitted ==
    \A s \in Submission :
        Done(s) /\ RunState(s) = "succeeded" => \A c \in Child : terminal[c] # "none"

\* docs/plans/design.md: "exit non-zero when any child has a failed terminal
\* result".  A run reported as succeeded should have no failed terminal result.
FailedChildFailsRun ==
    \A s \in Submission :
        Done(s) /\ RunState(s) = "succeeded" => \A c \in Child : terminal[c] # "exited"
=============================================================================

--------------------------- MODULE BatchRunProofs ---------------------------
(* Proofs about BatchRun, for any number of submissions, children, attempts *)
(* and slots and any set of faults.                                         *)
EXTENDS BatchRun, FiniteSetTheorems, TLAPS

-----------------------------------------------------------------------------
(* Type correctness                                                         *)

\* The dispatcher offers only children of the lease.
DispatchBound == \A h \in Handler : disp[h] = "send" => next[h] < ChildCount

\* The handler of an attempt appears when the attempt is sent, and an attempt
\* is sent once: sending never resets a handler that still runs.
AttemptSentOnce ==
    \A h \in Handler :
        handler[h] # "none" =>
            \/ h[2] < attempt[h[1]]
            \/ /\ h[2] = attempt[h[1]]
               /\ \/ phase[h[1]] \in {"calling", "done"}
                  \/ phase[h[1]] = "scan" /\ afterCall[h[1]]

\* Only the outcome of an execution is committed.
CommitsOutcome == \A w \in Work : work[w] = "commit" => result[w] \in Executed

TypeInv == TypeOK /\ DispatchBound /\ AttemptSentOnce /\ CommitsOutcome /\ SlotLedger

\* A shard always takes at least one slot.
LEMMA DemandPositive ==
    ShardSlotDemand \in Nat \ {0}
  BY CountAssumption DEF ShardSlotDemand

\* Attempts, and so handlers, are finitely many.
LEMMA HandlerFinite ==
    IsFiniteSet(Handler)
  <1>1. IsFiniteSet(1 .. AttemptBudget)
    BY FS_Interval, CountAssumption
  <1> QED
    BY <1>1, FS_Product, SubmissionAssumption DEF Handler

\* The running handlers can be counted.
LEMMA RunningFinite ==
    IsFiniteSet(Running) /\ Cardinality(Running) \in Nat
  BY HandlerFinite, FS_Subset, FS_CardinalityType DEF Running

\* The attempt a coordinator is in names a handler.
LEMMA CallIsHandler ==
    ASSUME TypeOK, NEW s \in Submission
    PROVE  Call(s) \in Handler
  BY DEF Call, Handler, TypeOK, CoordTypeOK

\* A step that leaves the running handlers and the limiter alone.
LEMMA LedgerUnchanged ==
    ASSUME SlotLedger, used' = used, Running' = Running
    PROVE  SlotLedger'
  BY DEF SlotLedger

\* The mismatches of a response can be counted.
LEMMA MismatchedFinite ==
    ASSUME NEW h \in Handler
    PROVE  Cardinality(Mismatched(h)) \in Nat
  <1>1. IsFiniteSet(Child)
    BY FS_Interval, CountAssumption DEF Child
  <1>2. Mismatched(h) \in SUBSET Child
    BY DEF Mismatched
  <1>3. IsFiniteSet(Mismatched(h))
    BY <1>1, <1>2, FS_Subset
  <1> QED
    BY <1>3, FS_CardinalityType

\* The initial state is well typed and its ledger empty.
LEMMA InitTypeInv == Init => TypeInv
  <1> SUFFICES ASSUME Init PROVE TypeInv
    OBVIOUS
  <1> USE CountAssumption DEF Init
  <1>1. TypeOK
    <2>1. StoreTypeOK
      BY DEF StoreTypeOK, Executed, Result
    <2>2. CoordTypeOK
      BY DEF CoordTypeOK
    <2>3. AgentTypeOK
      BY DEF AgentTypeOK, Result
    <2> QED
      BY <2>1, <2>2, <2>3 DEF TypeOK
  <1>2. DispatchBound
    BY DEF DispatchBound
  <1>a. AttemptSentOnce /\ CommitsOutcome
    BY DEF AttemptSentOnce, CommitsOutcome
  <1>3. Running = {}
    BY DEF Running
  <1>4. SlotLedger
    BY <1>3, FS_EmptySet, DemandPositive DEF SlotLedger
  <1> QED
    BY <1>1, <1>2, <1>a, <1>4 DEF TypeInv

\* Steps of the coordinator.
LEMMA CoordStepTypeInv ==
    ASSUME TypeInv, NEW s \in Submission,
           Submit(s) \/ CtxDone(s) \/ CoordStep(s)
    PROVE  TypeInv'
  <1> USE CountAssumption DEF TypeInv, TypeOK
  <1>c. Call(s) \in Handler
    BY CallIsHandler
  <1>h. \A h \in Handler : h[1] \in Submission /\ h[2] \in 1 .. AttemptBudget
    BY DEF Handler
  <1>1. CASE Submit(s)
    <2> USE <1>1 DEF Submit, StartScan
    <2>1. StoreTypeOK' /\ CoordTypeOK' /\ AgentTypeOK' /\ DispatchBound' /\ CommitsOutcome' /\ Running' = Running
      BY DEF StoreTypeOK, CoordTypeOK, AgentTypeOK, DispatchBound, CommitsOutcome, Running, storeVars, agentVars
    <2>2. AttemptSentOnce'
      BY <1>h DEF AttemptSentOnce, CoordTypeOK, AgentTypeOK, agentVars
    <2> QED
      BY <2>1, <2>2, LedgerUnchanged DEF agentVars
  <1>2. CASE CtxDone(s)
    <2> USE <1>2 DEF CtxDone
    <2>1. StoreTypeOK' /\ CoordTypeOK' /\ AgentTypeOK' /\ DispatchBound' /\ CommitsOutcome' /\ Running' = Running
      BY DEF StoreTypeOK, CoordTypeOK, AgentTypeOK, DispatchBound, CommitsOutcome, Running, storeVars, agentVars
    <2>2. AttemptSentOnce'
      BY DEF AttemptSentOnce, agentVars
    <2> QED
      BY <2>1, <2>2, LedgerUnchanged DEF agentVars
  <1>3. CASE ScanKnown(s)
    <2> USE <1>3 DEF ScanKnown, Scanning
    <2>1. StoreTypeOK' /\ CoordTypeOK' /\ AgentTypeOK' /\ DispatchBound' /\ CommitsOutcome' /\ Running' = Running
      BY DEF StoreTypeOK, CoordTypeOK, AgentTypeOK, DispatchBound, CommitsOutcome, Running, storeVars, agentVars
    <2>2. AttemptSentOnce'
      BY DEF AttemptSentOnce, agentVars
    <2> QED
      BY <2>1, <2>2, LedgerUnchanged DEF agentVars
  <1>4. CASE ScanTerminal(s)
    <2> USE <1>4 DEF ScanTerminal, Scanning
    <2>1. scanAt[s] \in Child
      BY DEF CoordTypeOK, Child
    <2>2. terminal[scanAt[s]] \in Executed
      BY <2>1 DEF StoreTypeOK
    <2>3. StoreTypeOK' /\ CoordTypeOK' /\ AgentTypeOK' /\ DispatchBound' /\ CommitsOutcome' /\ Running' = Running
      BY <2>1, <2>2
         DEF StoreTypeOK, CoordTypeOK, AgentTypeOK, DispatchBound, CommitsOutcome, Running, storeVars, agentVars
    <2>4. AttemptSentOnce'
      BY DEF AttemptSentOnce, agentVars
    <2> QED
      BY <2>3, <2>4, LedgerUnchanged DEF agentVars
  <1>5. CASE ScanPending(s)
    <2> USE <1>5 DEF ScanPending, Scanning
    <2>1. StoreTypeOK' /\ CoordTypeOK' /\ AgentTypeOK' /\ DispatchBound' /\ CommitsOutcome' /\ Running' = Running
      BY DEF StoreTypeOK, CoordTypeOK, AgentTypeOK, DispatchBound, CommitsOutcome, Running, storeVars, agentVars
    <2>2. AttemptSentOnce'
      BY DEF AttemptSentOnce, agentVars
    <2> QED
      BY <2>1, <2>2, LedgerUnchanged DEF agentVars
  <1>6. CASE ScanError(s) \/ LeaseComplete(s) \/ LeaseExhausted(s)
    <2>1. PICK err \in BOOLEAN : 
             /\ Return(s, err)
             /\ UNCHANGED <<storeVars, attempt, known, mismatches, ctxDone,
                            agentVars, commitErr, crashes>>
      BY <1>6 DEF ScanError, LeaseComplete, LeaseExhausted
    <2> USE <2>1 DEF Return, EndScan
    <2>2. StoreTypeOK' /\ CoordTypeOK' /\ AgentTypeOK' /\ DispatchBound' /\ CommitsOutcome' /\ Running' = Running
      BY DEF StoreTypeOK, CoordTypeOK, AgentTypeOK, DispatchBound, CommitsOutcome, Running, storeVars, agentVars
    <2>3. AttemptSentOnce'
      BY <1>h, <1>6 DEF AttemptSentOnce, CoordTypeOK, agentVars
    <2> QED
      BY <2>2, <2>3, LedgerUnchanged DEF agentVars
  <1>7. CASE SendAttempt(s)
    <2> USE <1>7 DEF SendAttempt, Scanned, EndScan
    <2>1. StoreTypeOK' /\ CoordTypeOK' /\ AgentTypeOK' /\ DispatchBound' /\ CommitsOutcome'
      BY <1>c DEF StoreTypeOK, CoordTypeOK, AgentTypeOK, DispatchBound, CommitsOutcome, storeVars
    <2>2. handler[Call(s)] = "none"
      <3>1. Call(s)[1] = s /\ Call(s)[2] = attempt[s] /\ attempt[s] \in Nat
        BY DEF Call, CoordTypeOK
      <3> QED
        BY <1>c, <3>1 DEF AttemptSentOnce
    <2>3. Running' = Running
      BY <1>c, <2>2 DEF AgentTypeOK, Running
    <2>4. AttemptSentOnce'
      BY <1>h, <1>c DEF AttemptSentOnce, CoordTypeOK, AgentTypeOK, Call
    <2> QED
      BY <2>1, <2>3, <2>4, LedgerUnchanged
  <1>8. CASE NextAttempt(s)
    <2> USE <1>8 DEF NextAttempt, Scanned, StartScan
    <2>1. StoreTypeOK' /\ CoordTypeOK' /\ AgentTypeOK' /\ DispatchBound' /\ CommitsOutcome' /\ Running' = Running
      BY DEF StoreTypeOK, CoordTypeOK, AgentTypeOK, DispatchBound, CommitsOutcome, Running, storeVars, agentVars
    <2>2. AttemptSentOnce'
      BY <1>h DEF AttemptSentOnce, CoordTypeOK, agentVars
    <2> QED
      BY <2>1, <2>2, LedgerUnchanged DEF agentVars
  <1>9. ASSUME Accept(s), Return(s, TRUE) \/ (StartScan(s, TRUE) /\ UNCHANGED runErr)
        PROVE  TypeInv'
    <2> USE <1>9
    <2>1. StoreTypeOK'
      BY DEF Accept, StoreTypeOK, storeVars
    <2>2. CoordTypeOK'
      <3>1. known' \in [Submission -> [Child -> Executed \cup {"none", "skipped"}]]
        BY DEF Accept, CoordTypeOK, Record, Terminal
      <3>2. mismatches' \in [Submission -> Nat]
        BY <1>c, MismatchedFinite DEF Accept, CoordTypeOK
      <3>3. CASE Return(s, TRUE)
        BY <3>1, <3>2, <3>3 DEF Accept, CoordTypeOK, Return, EndScan
      <3>4. CASE StartScan(s, TRUE) /\ UNCHANGED runErr
        BY <3>1, <3>2, <3>4 DEF Accept, CoordTypeOK, StartScan
      <3> QED
        BY <3>3, <3>4
    <2>3. AgentTypeOK' /\ DispatchBound' /\ CommitsOutcome'
      BY <1>c DEF Accept, AgentTypeOK, DispatchBound, CommitsOutcome, Forget, Result
    <2>4. Running' = Running
      BY <1>c DEF Accept, AgentTypeOK, Running
    <2>5. AttemptSentOnce'
      <3>1. \A x \in Handler : handler'[x] # "none" => handler[x] # "none"
        BY <1>c DEF Accept, AgentTypeOK
      <3>2. /\ attempt' = attempt
            /\ phase'[s] = "done" \/ (phase'[s] = "scan" /\ afterCall'[s])
            /\ \A x \in Submission \ {s} : phase'[x] = phase[x] /\ afterCall'[x] = afterCall[x]
        BY DEF Accept, CoordTypeOK, Return, EndScan, StartScan
      <3> QED
        BY <1>h, <3>1, <3>2 DEF AttemptSentOnce
    <2> QED
      BY <2>1, <2>2, <2>3, <2>4, <2>5, LedgerUnchanged DEF Accept
  <1>10. CASE Receive(s) \/ ReceiveMismatch(s)
    BY <1>9, <1>10 DEF Receive, ReceiveMismatch
  <1>11. CASE ReceiveInvalid(s)
    <2> USE <1>11 DEF ReceiveInvalid
    <2>1. StoreTypeOK' /\ CoordTypeOK'
      BY DEF StoreTypeOK, CoordTypeOK, storeVars, StartScan
    <2>2. AgentTypeOK' /\ DispatchBound' /\ CommitsOutcome'
      BY <1>c DEF AgentTypeOK, DispatchBound, CommitsOutcome, Forget, Result
    <2>3. Running' = Running
      BY <1>c DEF AgentTypeOK, Running
    <2>4. AttemptSentOnce'
      BY <1>h, <1>c DEF AttemptSentOnce, CoordTypeOK, AgentTypeOK, StartScan
    <2> QED
      BY <2>1, <2>2, <2>3, <2>4, LedgerUnchanged
  <1>12. CASE CallBroken(s)
    <2> USE <1>12 DEF CallBroken
    <2>1. StoreTypeOK' /\ CoordTypeOK'
      BY DEF StoreTypeOK, CoordTypeOK, storeVars, StartScan
    <2>2. AgentTypeOK' /\ DispatchBound' /\ CommitsOutcome'
      BY <1>c DEF AgentTypeOK, DispatchBound, CommitsOutcome
    <2>3. Running' = Running
      BY <1>c DEF AgentTypeOK, Running
    <2>4. AttemptSentOnce'
      BY <1>h, <1>c DEF AttemptSentOnce, CoordTypeOK, AgentTypeOK, StartScan
    <2> QED
      BY <2>1, <2>2, <2>3, <2>4, LedgerUnchanged
  <1> QED
    BY <1>1, <1>2, <1>3, <1>4, <1>5, <1>6, <1>7, <1>8, <1>10, <1>11, <1>12 DEF CoordStep

\* Steps of runChild: they move one work item and touch neither the
\* coordinator nor the limiter.
LEMMA StepTypeInv ==
    ASSUME TypeInv, NEW h \in Handler, NEW c \in Child,
           NEW place \in {"lookup", "execute", "commit", "write", "writeFresh", "done"},
           NEW r \in Result, place = "commit" => r \in Executed,
           Step(h, c, place, r), StoreTypeOK', commitErr' \subseteq Work
    PROVE  TypeInv'
  <1> USE DEF TypeInv, TypeOK, Step
  <1>1. CoordTypeOK'
    BY DEF CoordTypeOK, coordVars
  <1>2. AgentTypeOK'
    BY DEF AgentTypeOK
  <1>3. DispatchBound' /\ Running' = Running /\ AttemptSentOnce'
    BY DEF DispatchBound, Running, AttemptSentOnce, coordVars
  <1>4. CommitsOutcome'
    BY DEF CommitsOutcome, AgentTypeOK
  <1> QED
    BY <1>1, <1>2, <1>3, <1>4, LedgerUnchanged

\* Every action of runChild is such a step.
LEMMA WorkStepTypeInv ==
    ASSUME TypeInv, NEW h \in Handler, NEW c \in Child,
           StoreStep(h, c) \/ \E r \in Executed \cup {"failed", "mismatch"} : Execute(h, c, r)
    PROVE  TypeInv'
  <1> USE DEF Result
  <1>w. <<h, c>> \in Work /\ result[<<h, c>>] \in Result /\ commitErr \subseteq Work
    BY DEF TypeInv, TypeOK, AgentTypeOK, Work
  <1>s. StoreTypeOK
    BY DEF TypeInv, TypeOK
  <1>1. CASE Lookup(h, c)
    <2>1. StoreTypeOK' /\ commitErr' \subseteq Work
      BY <1>1, <1>w, <1>s DEF Lookup, StoreTypeOK, storeVars
    <2> QED
      BY <1>1, <2>1, StepTypeInv DEF Lookup
  <1>2. ASSUME NEW r \in Executed \cup {"failed", "mismatch"}, Execute(h, c, r)
        PROVE  TypeInv'
    <2>1. StoreTypeOK' /\ commitErr' \subseteq Work
      BY <1>2, <1>w, <1>s DEF Execute, StoreTypeOK, storeVars
    <2> QED
      BY <1>2, <2>1, StepTypeInv DEF Execute, Executed
  <1>3. CASE Commit(h, c) \/ CommitExists(h, c) \/ CommitError(h, c)
    <2>1. PICK place \in {"write", "done"}, r \in {result[<<h, c>>], "failed"} :
             Step(h, c, place, r)
      BY <1>3 DEF Commit, CommitExists, CommitError
    <2>2. At(h, c, "commit")
      BY <1>3 DEF Commit, CommitExists, CommitError
    <2>3. StoreTypeOK' /\ commitErr' \subseteq Work
      <3>1. result[<<h, c>>] \in Executed
        BY <1>w, <2>2 DEF TypeInv, CommitsOutcome, At
      <3> QED
        BY <1>3, <1>w, <1>s, <3>1 DEF Commit, CommitExists, CommitError, StoreTypeOK
    <2> QED
      BY <1>w, <2>1, <2>3, StepTypeInv
  <1>4. CASE WriteAttempt(h, c)
    <2>1. StoreTypeOK' /\ commitErr' \subseteq Work
      BY <1>4, <1>w, <1>s DEF WriteAttempt, StoreTypeOK, storeVars
    <2> QED
      BY <1>4, <1>w, <2>1, StepTypeInv DEF WriteAttempt
  <1> QED
    BY <1>1, <1>2, <1>3, <1>4 DEF StoreStep

\* Steps of the handler that runs a shard.
LEMMA HandlerStepTypeInv ==
    ASSUME TypeInv, NEW h \in Handler, HandlerStep(h) \/ Cancel(h)
    PROVE  TypeInv'
  <1> USE CountAssumption DEF TypeInv, TypeOK
  <1>d. ShardSlotDemand \in Nat \ {0} /\ Slots \in Nat
    BY DemandPositive
  <1>h. h[1] \in Submission /\ h[2] \in 1 .. AttemptBudget
    BY DEF Handler
  <1>1. CASE Admit(h)
    <2> USE <1>1 DEF Admit
    <2>1. StoreTypeOK' /\ CoordTypeOK' /\ AgentTypeOK' /\ DispatchBound' /\ AttemptSentOnce'
          /\ CommitsOutcome'
      BY <1>d DEF StoreTypeOK, CoordTypeOK, AgentTypeOK, DispatchBound, AttemptSentOnce, CommitsOutcome,
                  storeVars, coordVars
    <2>2. Running' = Running \cup {h} /\ h \notin Running
      BY DEF Running, AgentTypeOK
    <2>3. Cardinality(Running') = Cardinality(Running) + 1
      BY <2>2, RunningFinite, FS_AddElement
    <2>4. SlotLedger'
      BY <1>d, <2>3, RunningFinite DEF SlotLedger, AgentTypeOK
    <2> QED
      BY <2>1, <2>4
  <1>2. CASE Reject(h)
    <2> USE <1>2 DEF Reject
    <2>1. StoreTypeOK' /\ CoordTypeOK' /\ AgentTypeOK'
      BY DEF StoreTypeOK, CoordTypeOK, AgentTypeOK, storeVars, coordVars
    <2>2. DispatchBound' /\ AttemptSentOnce' /\ CommitsOutcome'
      BY DEF DispatchBound, AttemptSentOnce, CommitsOutcome, AgentTypeOK, coordVars
    <2>3. Running' = Running
      BY DEF Running, AgentTypeOK
    <2> QED
      BY <2>1, <2>2, <2>3, LedgerUnchanged
  <1>3. CASE Drop(h)
    <2> USE <1>3 DEF Drop
    <2>1. StoreTypeOK' /\ CoordTypeOK' /\ AgentTypeOK'
      BY DEF StoreTypeOK, CoordTypeOK, AgentTypeOK, storeVars, coordVars
    <2>2. DispatchBound' /\ AttemptSentOnce' /\ CommitsOutcome'
      BY DEF DispatchBound, AttemptSentOnce, CommitsOutcome, AgentTypeOK, coordVars
    <2>3. Running' = Running
      BY DEF Running, AgentTypeOK
    <2> QED
      BY <2>1, <2>2, <2>3, LedgerUnchanged
  <1>6. CASE Cancel(h)
    <2> USE <1>6 DEF Cancel
    <2>1. StoreTypeOK' /\ CoordTypeOK' /\ AgentTypeOK'
      BY DEF StoreTypeOK, CoordTypeOK, AgentTypeOK, storeVars, coordVars
    <2>2. DispatchBound' /\ AttemptSentOnce' /\ CommitsOutcome'
      BY DEF DispatchBound, AttemptSentOnce, CommitsOutcome, AgentTypeOK, coordVars
    <2>3. Running' = Running
      BY DEF Running, AgentTypeOK
    <2> QED
      BY <2>1, <2>2, <2>3, LedgerUnchanged
  <1>7. CASE DispatchCheck(h)
    <2> USE <1>7 DEF DispatchCheck
    <2>1. StoreTypeOK' /\ CoordTypeOK' /\ AgentTypeOK'
      BY DEF StoreTypeOK, CoordTypeOK, AgentTypeOK, storeVars, coordVars
    <2>2. DispatchBound' /\ AttemptSentOnce' /\ CommitsOutcome'
      BY DEF DispatchBound, AttemptSentOnce, CommitsOutcome, AgentTypeOK, coordVars
    <2>3. Running' = Running
      BY DEF Running, AgentTypeOK
    <2> QED
      BY <2>1, <2>2, <2>3, LedgerUnchanged
  <1>4. CASE DispatchSend(h)
    <2> USE <1>4 DEF DispatchSend
    <2>1. next[h] \in Child
      BY DEF DispatchBound, AgentTypeOK, Child
    <2>2. StoreTypeOK' /\ CoordTypeOK' /\ AttemptSentOnce' /\ Running' = Running
      BY DEF StoreTypeOK, CoordTypeOK, AttemptSentOnce, Running, storeVars, coordVars
    <2>3. AgentTypeOK'
      <3>1. next[h] + 1 \in 0 .. ChildCount
        BY <2>1 DEF Child
      <3> QED
        BY <3>1 DEF AgentTypeOK
    <2>4. DispatchBound' /\ CommitsOutcome'
      BY DEF DispatchBound, CommitsOutcome, AgentTypeOK
    <2> QED
      BY <2>2, <2>3, <2>4, LedgerUnchanged
  <1>5. ASSUME Finished(h), handler'[h] # "running", handler'[h] # "none",
               \A x \in Handler \ {h} : handler'[x] = handler[x]
        PROVE  StoreTypeOK' /\ CoordTypeOK' /\ AttemptSentOnce' /\ SlotLedger' /\ used' \in Nat
    <2> USE <1>5 DEF Finished
    <2>1. Running' = Running \ {h} /\ h \in Running
      BY DEF Running
    <2>2. Cardinality(Running') = Cardinality(Running) - 1
      BY <2>1, RunningFinite, FS_RemoveElement
    <2>3. Cardinality(Running') \in Nat
      BY <2>1, RunningFinite, FS_RemoveElement, FS_CardinalityType
    <2>4. SlotLedger' /\ used' \in Nat
      BY <1>d, <2>2, <2>3, RunningFinite DEF SlotLedger, AgentTypeOK
    <2>5. StoreTypeOK' /\ CoordTypeOK' /\ AttemptSentOnce'
      BY DEF StoreTypeOK, CoordTypeOK, AttemptSentOnce, storeVars, coordVars
    <2> QED
      BY <2>4, <2>5
  <1>8. CASE Finish(h)
    <2> USE <1>8 DEF Finish
    <2>1. StoreTypeOK' /\ CoordTypeOK' /\ AttemptSentOnce' /\ SlotLedger' /\ used' \in Nat
      BY <1>5 DEF AgentTypeOK
    <2>2. AgentTypeOK' /\ DispatchBound' /\ CommitsOutcome'
      BY <2>1 DEF Finished, AgentTypeOK, DispatchBound, CommitsOutcome
    <2> QED
      BY <2>1, <2>2
  <1>9. CASE FinishUnheard(h)
    <2> USE <1>9 DEF FinishUnheard
    <2>1. StoreTypeOK' /\ CoordTypeOK' /\ AttemptSentOnce' /\ SlotLedger' /\ used' \in Nat
      BY <1>5 DEF AgentTypeOK
    <2>2. AgentTypeOK' /\ DispatchBound' /\ CommitsOutcome'
      BY <2>1 DEF Finished, Forget, AgentTypeOK, DispatchBound, CommitsOutcome, Result
    <2> QED
      BY <2>1, <2>2
  <1> QED
    BY <1>1, <1>2, <1>3, <1>4, <1>6, <1>7, <1>8, <1>9 DEF HandlerStep

\* A restarted agent runs nothing and holds no slot.
LEMMA CrashTypeInv ==
    ASSUME TypeInv, Crash
    PROVE  TypeInv'
  <1> USE CountAssumption DEF TypeInv, TypeOK, Crash
  <1>1. StoreTypeOK' /\ CoordTypeOK' /\ AgentTypeOK' /\ DispatchBound' /\ CommitsOutcome'
    BY DEF StoreTypeOK, CoordTypeOK, AgentTypeOK, DispatchBound, CommitsOutcome, Result, storeVars, coordVars
  <1>2. AttemptSentOnce'
    BY DEF AttemptSentOnce, coordVars
  <1>3. Running' = {}
    BY DEF Running
  <1>4. SlotLedger'
    BY <1>3, FS_EmptySet, DemandPositive DEF SlotLedger
  <1> QED
    BY <1>1, <1>2, <1>4

\* Every variable keeps its type, sending an attempt never resets a handler
\* that runs, and the slot limiter holds exactly what the running handlers
\* were admitted with, within the agent's slots.
THEOREM TypeCorrect == Spec => []TypeInv
  <1>1. TypeInv /\ [Next]_vars => TypeInv'
    <2> SUFFICES ASSUME TypeInv, [Next]_vars PROVE TypeInv'
      OBVIOUS
    <2>1. CASE UNCHANGED vars
      <3>1. StoreTypeOK' /\ CoordTypeOK' /\ AgentTypeOK' /\ DispatchBound'
            /\ AttemptSentOnce' /\ CommitsOutcome'
        BY <2>1 DEF TypeInv, CommitsOutcome, TypeOK, StoreTypeOK, CoordTypeOK, AgentTypeOK, DispatchBound,
                    AttemptSentOnce, vars, storeVars, coordVars, agentVars
      <3>2. used' = used /\ Running' = Running
        BY <2>1 DEF Running, vars, agentVars
      <3> QED
        BY <3>1, <3>2, LedgerUnchanged DEF TypeInv, TypeOK
    <2>2. CASE Next
      BY <2>1, <2>2, CoordStepTypeInv, HandlerStepTypeInv, WorkStepTypeInv, CrashTypeInv
         DEF Next, Ended
    <2> QED
      BY <2>1, <2>2
  <1> QED
    BY <1>1, InitTypeInv, PTL DEF Spec

-----------------------------------------------------------------------------
(* What the coordinator believes and what the store holds                   *)

\* What a runChild may claim at each place: a skip or an attempt document
\* speaks of a committed result, and a finished child reports an outcome that
\* is committed or whose commit returned an error.
ResultBacked ==
    \A w \in Work :
        /\ result[w] = "skipped" => terminal[w[2]] # "none"
        /\ work[w] = "todo" => result[w] = "unset"
        /\ work[w] \in {"write", "writeFresh"} =>
              /\ Valid(result[w])
              /\ result[w] \in Executed => terminal[w[2]] = result[w]
        /\ work[w] = "done" /\ result[w] \in Executed =>
              terminal[w[2]] = result[w] \/ w \in commitErr

\* A response is written once every child is done or was never dispatched.
ReplyComplete ==
    \A h \in Handler : handler[h] = "replied" =>
        \A c \in Child : work[<<h, c>>] \in {"todo", "done"}

\* While nothing was found pending, every child passed over is known.
ScanSound ==
    \A s \in Submission : phase[s] = "scan" /\ ~pending[s] =>
        \A c \in Child : c < scanAt[s] => known[s][c] # "none"

SafetyInv ==
    ResultBacked /\ ReplyComplete /\ ScanSound /\ KnownIsCommitted /\ NilErrorMeansComplete

\* Committed results and commit errors stay.
Grows ==
    /\ \A c \in Child : terminal[c] # "none" => terminal'[c] = terminal[c]
    /\ commitErr \subseteq commitErr'

\* What a coordinator knows stays backed while the store only grows.
LEMMA KnownStable ==
    ASSUME Grows, KnownIsCommitted, known' = known
    PROVE  KnownIsCommitted'
  BY DEF Grows, KnownIsCommitted

\* A step that leaves each work item alone, dispatches it or forgets it.
LEMMA ResultStable ==
    ASSUME Grows, ResultBacked,
           \A w \in Work : \/ work'[w] \in {work[w], "lookup"} /\ result'[w] = result[w]
                           \/ work'[w] = "todo" /\ result'[w] = "unset"
    PROVE  ResultBacked'
  <1>1. \A w \in Work : w[2] \in Child
    BY DEF Work
  <1> QED
    BY <1>1 DEF Grows, ResultBacked, Valid, Executed

\* Steps of the coordinator write nothing to the store.
LEMMA CoordSafety ==
    ASSUME TypeInv, SafetyInv, NEW s \in Submission,
           Submit(s) \/ CtxDone(s) \/ CoordStep(s)
    PROVE  SafetyInv'
  <1> USE CountAssumption DEF SafetyInv
  <1>t. StoreTypeOK /\ CoordTypeOK /\ AgentTypeOK
    BY DEF TypeInv, TypeOK
  <1>c. Call(s) \in Handler
    BY CallIsHandler DEF TypeInv
  <1>g. Grows
    BY DEF Grows, CoordStep, Submit, CtxDone, ScanKnown, ScanTerminal, ScanPending, ScanError,
           LeaseComplete, SendAttempt, LeaseExhausted, NextAttempt, Receive, ReceiveMismatch,
           Accept, ReceiveInvalid, CallBroken, storeVars
  <1>1. CASE Submit(s) \/ NextAttempt(s)
    <2>0. StartScan(s, FALSE) /\ UNCHANGED <<known, runErr, agentVars>>
      BY <1>1 DEF Submit, NextAttempt
    <2> USE <2>0 DEF StartScan
    <2>1. ResultBacked' /\ ReplyComplete'
      BY <1>g, ResultStable DEF ReplyComplete, agentVars
    <2>2. ScanSound' /\ NilErrorMeansComplete'
      <3>1. ScanSound'
        BY <1>t DEF ScanSound, CoordTypeOK, Done, Child
      <3>2. NilErrorMeansComplete'
        BY <1>t DEF ScanSound, NilErrorMeansComplete, CoordTypeOK, Done, Child
      <3> QED
        BY <3>1, <3>2
    <2> QED
      BY <2>1, <2>2, <1>g, KnownStable
  <1>2. CASE CtxDone(s)
    <2> USE <1>2 DEF CtxDone
    <2>1. ResultBacked' /\ ReplyComplete'
      BY <1>g, ResultStable DEF ReplyComplete, agentVars
    <2>2. ScanSound' /\ NilErrorMeansComplete'
      BY <1>t DEF ScanSound, NilErrorMeansComplete, Done
    <2> QED
      BY <2>1, <2>2, <1>g, KnownStable
  <1>3. CASE ScanKnown(s)
    <2> USE <1>3 DEF ScanKnown, Scanning
    <2>1. ResultBacked' /\ ReplyComplete'
      BY <1>g, ResultStable DEF ReplyComplete, agentVars
    <2>2. ScanSound'
      BY <1>t DEF ScanSound, CoordTypeOK, Done, Child
    <2>3. NilErrorMeansComplete'
      BY <1>t DEF ScanSound, NilErrorMeansComplete, CoordTypeOK, Done, Child
    <2> QED
      BY <2>1, <2>2, <2>3, <1>g, KnownStable
  <1>4. CASE ScanTerminal(s)
    <2> USE <1>4 DEF ScanTerminal, Scanning
    <2>1. ResultBacked' /\ ReplyComplete'
      BY <1>g, ResultStable DEF ReplyComplete, agentVars
    <2>2. scanAt[s] \in Child
      BY <1>t DEF CoordTypeOK, Child
    <2>3. \A x \in Submission, c \in Child :
             known'[x][c] = IF x = s /\ c = scanAt[s] THEN terminal[c] ELSE known[x][c]
      BY <1>t, <2>2 DEF CoordTypeOK
    <2>4. ScanSound' /\ NilErrorMeansComplete'
      <3>1. ScanSound'
        BY <1>t, <2>2, <2>3 DEF ScanSound, CoordTypeOK, Done, Child
      <3>2. NilErrorMeansComplete'
        BY <1>t, <2>2, <2>3 DEF ScanSound, NilErrorMeansComplete, CoordTypeOK, Done, Child
      <3> QED
        BY <3>1, <3>2
    <2>5. KnownIsCommitted'
      BY <1>g, <2>3 DEF KnownIsCommitted, storeVars
    <2> QED
      BY <2>1, <2>4, <2>5
  <1>5. CASE ScanPending(s)
    <2> USE <1>5 DEF ScanPending, Scanning
    <2>1. ResultBacked' /\ ReplyComplete'
      BY <1>g, ResultStable DEF ReplyComplete, agentVars
    <2>2. ScanSound' /\ NilErrorMeansComplete'
      BY <1>t DEF ScanSound, NilErrorMeansComplete, CoordTypeOK, Done
    <2> QED
      BY <2>1, <2>2, <1>g, KnownStable
  <1>6. CASE ScanError(s) \/ LeaseExhausted(s)
    <2>0. Return(s, TRUE) /\ UNCHANGED <<known, agentVars>>
      BY <1>6 DEF ScanError, LeaseExhausted
    <2>1. ResultBacked' /\ ReplyComplete'
      BY <2>0, <1>g, ResultStable DEF ReplyComplete, agentVars
    <2>2. ScanSound' /\ NilErrorMeansComplete'
      BY <2>0, <1>t DEF ScanSound, NilErrorMeansComplete, CoordTypeOK, Done, Return, EndScan
    <2> QED
      BY <2>0, <2>1, <2>2, <1>g, KnownStable
  <1>7. CASE LeaseComplete(s)
    <2> USE <1>7 DEF LeaseComplete, Scanned, Return, EndScan
    <2>1. ResultBacked' /\ ReplyComplete'
      BY <1>g, ResultStable DEF ReplyComplete, agentVars
    <2>2. \A c \in Child : known[s][c] # "none"
      BY DEF ScanSound, Child
    <2>3. ScanSound' /\ NilErrorMeansComplete'
      BY <1>t, <2>2 DEF ScanSound, NilErrorMeansComplete, CoordTypeOK, Done
    <2> QED
      BY <2>1, <2>3, <1>g, KnownStable
  <1>8. CASE SendAttempt(s)
    <2> USE <1>8 DEF SendAttempt, Scanned, EndScan
    <2>1. ResultBacked' /\ ReplyComplete'
      BY <1>g, <1>t, <1>c, ResultStable DEF ReplyComplete, AgentTypeOK
    <2>2. ScanSound' /\ NilErrorMeansComplete'
      BY <1>t DEF ScanSound, NilErrorMeansComplete, CoordTypeOK, Done
    <2> QED
      BY <2>1, <2>2, <1>g, KnownStable
  <1>9. ASSUME Accept(s), Return(s, TRUE) \/ (StartScan(s, TRUE) /\ UNCHANGED runErr)
        PROVE  SafetyInv'
    <2> USE <1>9
    <2>1. ResultBacked' /\ ReplyComplete'
      BY <1>g, <1>t, <1>c, ResultStable DEF Accept, Forget, ReplyComplete, AgentTypeOK, Work
    <2>2. ScanSound' /\ NilErrorMeansComplete'
      <3>1. \A x \in Submission \ {s} : /\ known'[x] = known[x] /\ phase'[x] = phase[x]
                                         /\ scanAt'[x] = scanAt[x] /\ pending'[x] = pending[x]
                                         /\ runErr'[x] = runErr[x]
        BY <1>t DEF Accept, CoordTypeOK, Return, EndScan, StartScan
      <3>2. \/ phase'[s] = "done" /\ runErr'[s]
            \/ phase'[s] = "scan" /\ scanAt'[s] = 0
        BY <1>t DEF CoordTypeOK, Return, EndScan, StartScan
      <3> QED
        BY <3>1, <3>2 DEF ScanSound, NilErrorMeansComplete, Done, Child
    <2>3. \A c \in Child : LET r == result[<<Call(s), c>>] IN
             r \in Executed => r = terminal[c] \/ <<Call(s), c>> \in commitErr
      <3> SUFFICES ASSUME NEW c \in Child, result[<<Call(s), c>>] \in Executed
                   PROVE  result[<<Call(s), c>>] = terminal[c] \/ <<Call(s), c>> \in commitErr
        OBVIOUS
      <3>1. <<Call(s), c>> \in Work /\ <<Call(s), c>>[2] = c
        BY <1>c DEF Work
      <3>2. work[<<Call(s), c>>] \in {"todo", "done"}
        BY <1>c DEF Accept, ReplyComplete
      <3> QED
        BY <3>1, <3>2 DEF ResultBacked, Executed
    <2>4. \A c \in Child : result[<<Call(s), c>>] = "skipped" => terminal[c] # "none"
      BY <1>c DEF ResultBacked, Work
    <2>5. \A x \in Submission, c \in Child :
             known'[x][c] = IF x = s THEN Record(known[s][c], result[<<Call(s), c>>])
                                     ELSE known[x][c]
      BY <1>t DEF Accept, CoordTypeOK
    <2>6. UNCHANGED <<terminal, commitErr>>
      BY DEF Accept, storeVars
    <2>7. KnownIsCommitted'
      <3> SUFFICES ASSUME NEW x \in Submission, NEW c \in Child
                   PROVE  \/ known'[x][c] = "none"
                          \/ known'[x][c] = "skipped" /\ terminal[c] # "none"
                          \/ known'[x][c] = terminal[c]
                          \/ \E a \in 1 .. AttemptBudget : <<<<x, a>>, c>> \in commitErr
        BY <2>6 DEF KnownIsCommitted
      <3>1. CASE known'[x][c] = known[x][c]
        BY <3>1 DEF KnownIsCommitted
      <3>2. CASE known'[x][c] # known[x][c]
        <4>1. x = s /\ known'[x][c] = result[<<Call(s), c>>]
              /\ result[<<Call(s), c>>] \in Executed \cup {"skipped"}
          BY <3>2, <2>5 DEF Record, Terminal
        <4>2. CASE result[<<Call(s), c>>] = "skipped"
          BY <4>1, <4>2, <2>4
        <4>3. CASE result[<<Call(s), c>>] \in Executed
          <5>1. CASE result[<<Call(s), c>>] = terminal[c]
            BY <4>1, <5>1
          <5>2. CASE <<Call(s), c>> \in commitErr
            BY <4>1, <5>2, <1>t DEF Call, CoordTypeOK
          <5> QED
            BY <4>3, <2>3, <5>1, <5>2
        <4> QED
          BY <4>1, <4>2, <4>3
      <3> QED
        BY <3>1, <3>2
    <2> QED
      BY <2>1, <2>2, <2>7
  <1>10. CASE Receive(s) \/ ReceiveMismatch(s)
    BY <1>9, <1>10 DEF Receive, ReceiveMismatch
  <1>11. CASE ReceiveInvalid(s)
    <2> USE <1>11 DEF ReceiveInvalid, StartScan
    <2>1. ResultBacked' /\ ReplyComplete'
      BY <1>g, <1>t, <1>c, ResultStable DEF Forget, ReplyComplete, AgentTypeOK, Work
    <2>2. ScanSound' /\ NilErrorMeansComplete'
      <3>1. ScanSound'
        BY <1>t DEF ScanSound, CoordTypeOK, Done, Child
      <3>2. NilErrorMeansComplete'
        BY <1>t DEF ScanSound, NilErrorMeansComplete, CoordTypeOK, Done, Child
      <3> QED
        BY <3>1, <3>2
    <2> QED
      BY <2>1, <2>2, <1>g, KnownStable
  <1>12. CASE CallBroken(s)
    <2> USE <1>12 DEF CallBroken, StartScan
    <2>1. ResultBacked' /\ ReplyComplete'
      BY <1>g, <1>t, <1>c, ResultStable DEF ReplyComplete, AgentTypeOK
    <2>2. ScanSound' /\ NilErrorMeansComplete'
      <3>1. ScanSound'
        BY <1>t DEF ScanSound, CoordTypeOK, Done, Child
      <3>2. NilErrorMeansComplete'
        BY <1>t DEF ScanSound, NilErrorMeansComplete, CoordTypeOK, Done, Child
      <3> QED
        BY <3>1, <3>2
    <2> QED
      BY <2>1, <2>2, <1>g, KnownStable
  <1> QED
    BY <1>1, <1>2, <1>3, <1>4, <1>5, <1>6, <1>7, <1>8, <1>10, <1>11, <1>12 DEF CoordStep

\* Steps of the agent do not touch the coordinator.
LEMMA AgentSafety ==
    ASSUME TypeInv, SafetyInv, Grows, UNCHANGED coordVars, ResultBacked', ReplyComplete'
    PROVE  SafetyInv'
  <1>1. KnownIsCommitted'
    BY KnownStable DEF SafetyInv, coordVars
  <1>2. ScanSound' /\ NilErrorMeansComplete'
    BY DEF SafetyInv, ScanSound, NilErrorMeansComplete, Done, coordVars
  <1> QED
    BY <1>1, <1>2 DEF SafetyInv

\* Steps of a handler: it replies only when every child it was sent is settled.
LEMMA HandlerSafety ==
    ASSUME TypeInv, SafetyInv, NEW h \in Handler, HandlerStep(h) \/ Cancel(h)
    PROVE  SafetyInv'
  <1>t. AgentTypeOK /\ DispatchBound /\ ResultBacked /\ ReplyComplete
    BY DEF TypeInv, TypeOK, SafetyInv
  <1>g. Grows /\ UNCHANGED coordVars
    BY DEF Grows, HandlerStep, Admit, Reject, Drop, Cancel, DispatchCheck, DispatchSend,
           Finish, FinishUnheard, Finished, storeVars
  <1>1. CASE Admit(h) \/ Reject(h) \/ Drop(h) \/ Cancel(h) \/ DispatchCheck(h)
    <2>1. UNCHANGED <<work, result>>
      BY <1>1 DEF Admit, Reject, Drop, Cancel, DispatchCheck
    <2>2. \A x \in Handler : handler'[x] = "replied" => handler[x] = "replied"
      BY <1>1, <1>t DEF Admit, Reject, Drop, Cancel, DispatchCheck, AgentTypeOK
    <2>3. ResultBacked' /\ ReplyComplete'
      BY <1>t, <1>g, <2>1, <2>2, ResultStable DEF ReplyComplete
    <2> QED
      BY <1>g, <2>3, AgentSafety
  <1>2. CASE DispatchSend(h)
    <2> USE <1>2 DEF DispatchSend
    <2>1. next[h] \in Child
      BY <1>t, CountAssumption DEF DispatchBound, AgentTypeOK, Child
    <2>2. \A w \in Work : work'[w] \in {work[w], "lookup"} /\ result'[w] = result[w]
      BY <1>t, <2>1 DEF AgentTypeOK
    <2>3. ResultBacked'
      BY <1>t, <1>g, <2>2, ResultStable
    <2>4. ReplyComplete'
      BY <1>t DEF ReplyComplete, AgentTypeOK
    <2> QED
      BY <1>g, <2>3, <2>4, AgentSafety
  <1>3. CASE Finish(h)
    <2> USE <1>3 DEF Finish, Finished
    <2>1. ResultBacked'
      BY <1>t, <1>g, ResultStable
    <2>2. \A c \in Child : work[<<h, c>>] \in {"todo", "done"}
      BY <1>t DEF Active
    <2>3. ReplyComplete'
      BY <1>t, <2>2 DEF ReplyComplete, AgentTypeOK
    <2> QED
      BY <1>g, <2>1, <2>3, AgentSafety
  <1>4. CASE FinishUnheard(h)
    <2> USE <1>4 DEF FinishUnheard, Finished, Forget
    <2>1. ResultBacked'
      BY <1>t, <1>g, ResultStable
    <2>2. ReplyComplete'
      BY <1>t DEF ReplyComplete, AgentTypeOK, Work
    <2> QED
      BY <1>g, <2>1, <2>2, AgentSafety
  <1> QED
    BY <1>1, <1>2, <1>3, <1>4 DEF HandlerStep

\* A step of runChild: the work item it moves is the only one to look at.
LEMMA StepSafety ==
    ASSUME TypeInv, SafetyInv, Grows, NEW h \in Handler, NEW c \in Child,
           NEW place \in {"execute", "commit", "write", "writeFresh", "done"},
           NEW r \in Result,
           Step(h, c, place, r), handler[h] = "running",
           r = "skipped" => terminal'[c] # "none",
           place \in {"write", "writeFresh"} =>
               Valid(r) /\ (r \in Executed => terminal'[c] = r),
           place = "done" /\ r \in Executed => terminal'[c] = r \/ <<h, c>> \in commitErr'
    PROVE  SafetyInv'
  <1>t. AgentTypeOK /\ ResultBacked /\ ReplyComplete
    BY DEF TypeInv, TypeOK, SafetyInv
  <1>w. <<h, c>> \in Work /\ <<h, c>>[2] = c
    BY DEF Work
  <1>1. \A w \in Work : w[2] \in Child
    BY DEF Work
  <1>2. work'[<<h, c>>] = place /\ result'[<<h, c>>] = r
    BY <1>t, <1>w DEF Step, AgentTypeOK
  <1>3. \A w \in Work \ {<<h, c>>} : work'[w] = work[w] /\ result'[w] = result[w]
    BY <1>t DEF Step, AgentTypeOK
  <1>4. ResultBacked'
    <2> SUFFICES ASSUME NEW w \in Work
                 PROVE  /\ result'[w] = "skipped" => terminal'[w[2]] # "none"
                        /\ work'[w] = "todo" => result'[w] = "unset"
                        /\ work'[w] \in {"write", "writeFresh"} =>
                              /\ Valid(result'[w])
                              /\ result'[w] \in Executed => terminal'[w[2]] = result'[w]
                        /\ work'[w] = "done" /\ result'[w] \in Executed =>
                              terminal'[w[2]] = result'[w] \/ w \in commitErr'
      BY DEF ResultBacked, Valid
    <2>1. CASE w = <<h, c>>
      BY <2>1, <1>2, <1>w
    <2>2. CASE w # <<h, c>>
      BY <2>2, <1>1, <1>3, <1>t DEF ResultBacked, Grows, Executed
    <2> QED
      BY <2>1, <2>2
  <1>5. ReplyComplete'
    BY <1>3, <1>t DEF ReplyComplete, Step, Work
  <1> QED
    BY <1>4, <1>5, AgentSafety DEF Step

\* Every action of runChild leaves its result backed by the store.
LEMMA WorkSafety ==
    ASSUME TypeInv, SafetyInv, NEW h \in Handler, NEW c \in Child,
           StoreStep(h, c) \/ \E r \in Executed \cup {"failed", "mismatch"} : Execute(h, c, r)
    PROVE  SafetyInv' /\ Grows
  <1> USE DEF Result, Valid
  <1>t. StoreTypeOK /\ AgentTypeOK /\ ResultBacked /\ CommitsOutcome
    BY DEF TypeInv, TypeOK, SafetyInv
  <1>w. <<h, c>> \in Work /\ <<h, c>>[2] = c /\ result[<<h, c>>] \in Result
    BY <1>t DEF Work, AgentTypeOK
  <1>1. CASE Lookup(h, c)
    <2> USE <1>1 DEF Lookup, At
    <2>1. Grows
      BY DEF Grows, storeVars
    <2> QED
      BY <2>1, StepSafety DEF storeVars, Executed
  <1>2. ASSUME NEW r \in Executed \cup {"failed", "mismatch"}, Execute(h, c, r)
        PROVE  SafetyInv' /\ Grows
    <2> USE <1>2 DEF Execute, At
    <2>1. Grows
      BY DEF Grows, storeVars
    <2> QED
      BY <2>1, StepSafety DEF Executed
  <1>3. ASSUME At(h, c, "commit")
        PROVE  result[<<h, c>>] \in Executed
    BY <1>3, <1>w, <1>t DEF CommitsOutcome, At
  <1>4. CASE Commit(h, c)
    <2> USE <1>4 DEF Commit
    <2>1. Grows /\ terminal'[c] = result[<<h, c>>]
      BY <1>t DEF Grows, StoreTypeOK
    <2> QED
      BY <2>1, <1>3, <1>w, StepSafety DEF At, Executed
  <1>5. CASE CommitExists(h, c)
    <2> USE <1>5 DEF CommitExists
    <2>1. Grows
      BY <1>t DEF Grows, StoreTypeOK
    <2> QED
      BY <2>1, StepSafety DEF At, Executed
  <1>6. CASE CommitError(h, c)
    <2> USE <1>6 DEF CommitError
    <2>1. Grows
      BY <1>t DEF Grows, StoreTypeOK
    <2> QED
      BY <2>1, <1>3, <1>w, StepSafety DEF At, Executed
  <1>7. CASE WriteAttempt(h, c)
    <2> USE <1>7 DEF WriteAttempt, At
    <2>1. Grows
      BY DEF Grows
    <2>2. /\ result[<<h, c>>] = "skipped" => terminal[c] # "none"
          /\ result[<<h, c>>] \in Executed => terminal[c] = result[<<h, c>>]
      BY <1>t, <1>w DEF ResultBacked
    <2> QED
      BY <2>1, <2>2, <1>w, StepSafety
  <1> QED
    BY <1>1, <1>2, <1>4, <1>5, <1>6, <1>7 DEF StoreStep

\* A crash of the agent loses results, never documents.
LEMMA CrashSafety ==
    ASSUME TypeInv, SafetyInv, Crash
    PROVE  SafetyInv'
  <1> USE DEF Crash
  <1>1. Grows
    BY DEF Grows, storeVars
  <1>2. ResultBacked'
    BY <1>1, ResultStable DEF SafetyInv
  <1>3. ReplyComplete'
    BY DEF ReplyComplete
  <1> QED
    BY <1>1, <1>2, <1>3, AgentSafety

\* Nothing is known and nothing is stored initially.
LEMMA InitSafety == Init => SafetyInv
  BY CountAssumption
     DEF Init, SafetyInv, ResultBacked, ReplyComplete, ScanSound, KnownIsCommitted,
         NilErrorMeansComplete, Done, Valid, Executed

\* Every reachable state satisfies the inductive invariant: results are backed by
\* the store, replies are complete, scans are sound.
THEOREM SafetyCorrect == Spec => []SafetyInv
  <1>1. TypeInv /\ SafetyInv /\ [Next]_vars => SafetyInv'
    <2> SUFFICES ASSUME TypeInv, SafetyInv, [Next]_vars PROVE SafetyInv'
      OBVIOUS
    <2>1. CASE UNCHANGED vars
      <3>1. Grows /\ UNCHANGED coordVars /\ UNCHANGED <<handler, work, result>>
        BY <2>1 DEF Grows, vars, storeVars, agentVars
      <3>2. ResultBacked' /\ ReplyComplete'
        BY <3>1, ResultStable DEF SafetyInv, ReplyComplete
      <3> QED
        BY <3>1, <3>2, AgentSafety
    <2>2. CASE Next
      BY <2>1, <2>2, CoordSafety, HandlerSafety, WorkSafety, CrashSafety DEF Next, Ended
    <2> QED
      BY <2>1, <2>2
  <1> QED
    BY <1>1, InitSafety, TypeCorrect, PTL DEF Spec

\* Whatever is lost, repeated or overtaken, a coordinator's record of a child
\* agrees with the store unless a commit of its own returned an error.
THEOREM KnownIsCommittedHolds == Spec => []KnownIsCommitted
  <1>1. SafetyInv => KnownIsCommitted
    BY DEF SafetyInv
  <1> QED
    BY <1>1, SafetyCorrect, PTL

\* runLease returns no error only with every child accounted for.
THEOREM NilErrorMeansCompleteHolds == Spec => []NilErrorMeansComplete
  <1>1. SafetyInv => NilErrorMeansComplete
    BY DEF SafetyInv
  <1> QED
    BY <1>1, SafetyCorrect, PTL

\* A succeeded run whose own commits returned no error is stored completely.
THEOREM SucceededRunIsStoredHolds == Spec => []SucceededRunIsStored
  <1>1. TypeInv /\ SafetyInv => SucceededRunIsStored
    <2> SUFFICES ASSUME TypeInv, SafetyInv, NEW s \in Submission, NEW c \in Child,
                        RunState(s) = "succeeded", \A w \in commitErr : w[1][1] # s
                 PROVE  terminal[c] # "none"
      BY DEF SucceededRunIsStored
    <2>1. known[s][c] # "none"
      BY DEF RunState
    <2>2. ~ \E a \in 1 .. AttemptBudget : <<<<s, a>>, c>> \in commitErr
      OBVIOUS
    <2> QED
      BY <2>1, <2>2 DEF SafetyInv, KnownIsCommitted
  <1> QED
    BY <1>1, SafetyCorrect, TypeCorrect, PTL

\* Every variable keeps its type: in particular the dispatcher never offers a
\* child outside the lease and no attempt exceeds the budget.
THEOREM TypeOKHolds == Spec => []TypeOK
  <1>1. TypeInv => TypeOK
    BY DEF TypeInv
  <1> QED
    BY <1>1, TypeCorrect, PTL

\* The slot limiter's ledger, as the runs check it.
THEOREM SlotLedgerHolds == Spec => []SlotLedger
  <1>1. TypeInv => SlotLedger
    BY DEF TypeInv
  <1> QED
    BY <1>1, TypeCorrect, PTL

-----------------------------------------------------------------------------
(* The documents refine ResultStore                                         *)

\* Every step creates at most one document, as ResultStore allows, or none.
LEMMA StepRefines ==
    ASSUME TypeInv, SafetyInv, [Next]_vars
    PROVE  [Store!Next]_<<terminal, attempts>>
  <1>t. StoreTypeOK /\ AgentTypeOK /\ ResultBacked /\ CommitsOutcome
    BY DEF TypeInv, TypeOK, SafetyInv
  <1>1. CASE UNCHANGED vars
    BY <1>1 DEF vars, storeVars
  <1>2. ASSUME NEW s \in Submission, Submit(s) \/ CtxDone(s) \/ CoordStep(s)
        PROVE  UNCHANGED <<terminal, attempts>>
    BY <1>2
       DEF CoordStep, Submit, CtxDone, ScanKnown, ScanTerminal, ScanPending, ScanError,
           LeaseComplete, SendAttempt, LeaseExhausted, NextAttempt, Receive, ReceiveMismatch,
           Accept, ReceiveInvalid, CallBroken, storeVars
  <1>3. ASSUME NEW h \in Handler, HandlerStep(h) \/ Cancel(h)
        PROVE  UNCHANGED <<terminal, attempts>>
    BY <1>3 DEF HandlerStep, Admit, Reject, Drop, Cancel, DispatchCheck, DispatchSend,
                Finish, FinishUnheard, Finished, storeVars
  <1>4. ASSUME NEW h \in Handler, NEW c \in Child, StoreStep(h, c)
        PROVE  [Store!Next]_<<terminal, attempts>>
    <2>w. <<h, c>> \in Work /\ <<h, c>>[2] = c /\ h[2] \in 1 .. AttemptBudget
      BY DEF Work, Handler
    <2>1. CASE Lookup(h, c)
      BY <2>1 DEF Lookup, storeVars
    <2>2. CASE Commit(h, c) \/ CommitExists(h, c) \/ CommitError(h, c)
      <3>1. result[<<h, c>>] \in Store!Outcome
        BY <2>2, <2>w, <1>t
           DEF Commit, CommitExists, CommitError, At, CommitsOutcome, Store!Outcome, Executed
      <3>2. UNCHANGED <<terminal, attempts>> \/ Store!CommitTerminalResult(c, result[<<h, c>>])
        BY <2>2 DEF Commit, CommitExists, CommitError, Store!CommitTerminalResult
      <3> QED
        BY <3>1, <3>2 DEF Store!Next
    <2>3. CASE WriteAttempt(h, c)
      <3>1. result[<<h, c>>] \in Store!Report
        BY <2>3, <2>w, <1>t
           DEF WriteAttempt, At, ResultBacked, Valid, AgentTypeOK, Result,
               Store!Report, Store!Outcome
      <3>2. /\ result[<<h, c>>] \in Store!Outcome => terminal[c] = result[<<h, c>>]
            /\ result[<<h, c>>] = "skipped" => terminal[c] # "none"
        BY <2>3, <2>w, <1>t DEF WriteAttempt, At, ResultBacked, Executed, Store!Outcome
      <3>3. \/ UNCHANGED <<terminal, attempts>>
            \/ Store!WriteAttemptResult(c, h[2], result[<<h, c>>])
        BY <2>3, <3>2 DEF WriteAttempt, Store!WriteAttemptResult
      <3> QED
        BY <2>w, <3>1, <3>3 DEF Store!Next
    <2> QED
      BY <1>4, <2>1, <2>2, <2>3 DEF StoreStep
  <1>5. ASSUME NEW h \in Handler, NEW c \in Child,
               NEW r \in Executed \cup {"failed", "mismatch"}, Execute(h, c, r)
        PROVE  UNCHANGED <<terminal, attempts>>
    BY <1>5 DEF Execute, storeVars
  <1>6. CASE Crash
    BY <1>6 DEF Crash, storeVars
  <1> QED
    BY <1>1, <1>2, <1>3, <1>4, <1>5, <1>6 DEF Next, Ended

\* Every document of the result store is created once and never changes, and
\* an attempt document that reports an outcome speaks of the committed one.
THEOREM StoreRefinement == Spec => StoreContract
  <1>1. Init => Store!Init
    BY DEF Init, Store!Init
  <1>2. TypeInv /\ SafetyInv /\ [Next]_vars => [Store!Next]_<<terminal, attempts>>
    BY StepRefines
  <1> QED
    BY <1>1, <1>2, TypeCorrect, SafetyCorrect, PTL DEF Spec, StoreContract, Store!Spec

-----------------------------------------------------------------------------
(* Workers and the slots they run in                                        *)

\* A handler has no more workers than it was admitted with, and none outside RunShard.
Workers(h) ==
    /\ Cardinality(Active(h)) =< ShardSlotDemand
    /\ handler[h] # "running" => Active(h) = {}

WorkersInv == \A h \in Handler : Workers(h)

\* The children of a handler are finitely many.
LEMMA ActiveFinite ==
    ASSUME NEW h PROVE IsFiniteSet(Active(h)) /\ Cardinality(Active(h)) \in Nat
  <1>1. IsFiniteSet(Child)
    BY FS_Interval, CountAssumption DEF Child
  <1>2. Active(h) \in SUBSET Child
    BY DEF Active
  <1> QED
    BY <1>1, <1>2, FS_Subset, FS_CardinalityType

\* A step that gives no handler another child, and ends none with a child at work.
Winds ==
    \A h \in Handler :
        /\ \A c \in Child : work'[<<h, c>>] \notin {"todo", "done"} => work[<<h, c>>] \notin {"todo", "done"}
        /\ handler[h] = "running" =>
              \/ handler'[h] = "running"
              \/ \A c \in Child : work'[<<h, c>>] \in {"todo", "done"}

LEMMA WindsKeeps == ASSUME WorkersInv, Winds PROVE WorkersInv'
  <1> SUFFICES ASSUME NEW h \in Handler PROVE Workers(h)'
    BY DEF WorkersInv
  <1>1. Active(h)' \subseteq Active(h)
    BY DEF Winds, Active
  <1>2. Cardinality(Active(h)') =< Cardinality(Active(h)) /\ Cardinality(Active(h)') \in Nat
    BY <1>1, ActiveFinite, FS_Subset, FS_CardinalityType
  <1>3. Cardinality(Active(h))' =< ShardSlotDemand
    BY <1>2, ActiveFinite, DemandPositive DEF WorkersInv, Workers
  <1>4. handler'[h] # "running" => Active(h)' = {}
    <2>1. CASE handler[h] = "running"
      BY <2>1 DEF Winds, Active
    <2>2. CASE handler[h] # "running"
      BY <1>1, <2>2 DEF WorkersInv, Workers
    <2> QED
      BY <2>1, <2>2
  <1> QED
    BY <1>3, <1>4 DEF Workers

\* Nothing the coordinator does gives the agent work: an answer is taken from a handler
\* that has ended, and a request is sent for an attempt that has none yet.
LEMMA CoordWinds ==
    ASSUME TypeInv, NEW s \in Submission, Submit(s) \/ CtxDone(s) \/ CoordStep(s)
    PROVE  Winds
  <1>t. CoordTypeOK /\ AgentTypeOK
    BY DEF TypeInv, TypeOK
  <1>c. Call(s) \in Handler
    BY CallIsHandler DEF TypeInv
  <1>1. CASE \/ Submit(s) \/ CtxDone(s) \/ ScanKnown(s) \/ ScanTerminal(s) \/ ScanPending(s)
             \/ ScanError(s) \/ LeaseComplete(s) \/ LeaseExhausted(s) \/ NextAttempt(s)
    <2>1. UNCHANGED <<work, handler>>
      BY <1>1 DEF Submit, CtxDone, ScanKnown, ScanTerminal, ScanPending, ScanError, LeaseComplete,
         LeaseExhausted, NextAttempt, agentVars
    <2> QED
      BY <2>1 DEF Winds
  <1>2. CASE SendAttempt(s)
    <2>1. handler[Call(s)] = "none"
      <3>1. Call(s)[1] = s /\ Call(s)[2] = attempt[s] /\ attempt[s] \in Nat
        BY <1>t DEF Call, CoordTypeOK
      <3> QED
        BY <1>2, <1>c, <3>1 DEF TypeInv, AttemptSentOnce, SendAttempt, Scanned
    <2>2. work' = work /\ \A h \in Handler : handler[h] = "running" => handler'[h] = "running"
      BY <1>2, <1>c, <1>t, <2>1 DEF SendAttempt, AgentTypeOK
    <2> QED
      BY <2>2 DEF Winds
  <1>3. CASE CallBroken(s)
    <2>1. work' = work /\ \A h \in Handler : handler[h] = "running" => handler'[h] = "running"
      BY <1>3, <1>c, <1>t DEF CallBroken, AgentTypeOK
    <2> QED
      BY <2>1 DEF Winds
  <1>4. CASE Receive(s) \/ ReceiveMismatch(s) \/ ReceiveInvalid(s)
    <2>1. \A h \in Handler : handler[h] = "running" => handler'[h] = "running"
      BY <1>4, <1>c, <1>t DEF Receive, ReceiveMismatch, ReceiveInvalid, Accept, AgentTypeOK
    <2>2. work' = [w \in Work |-> IF w[1] = Call(s) THEN "todo" ELSE work[w]]
      BY <1>4 DEF Receive, ReceiveMismatch, ReceiveInvalid, Accept, Forget
    <2>3. \A h \in Handler, c \in Child : work'[<<h, c>>] \in {"todo", work[<<h, c>>]}
      BY <2>2 DEF Work
    <2> QED
      BY <2>1, <2>3 DEF Winds
  <1> QED
    BY <1>1, <1>2, <1>3, <1>4 DEF CoordStep

\* A handler gets a child only when a worker is idle, and ends when all are.
LEMMA HandlerWorkers ==
    ASSUME TypeInv, WorkersInv, NEW h \in Handler, HandlerStep(h) \/ Cancel(h)
    PROVE  WorkersInv'
  <1>t. AgentTypeOK
    BY DEF TypeInv, TypeOK
  <1>1. CASE Admit(h) \/ Reject(h) \/ Drop(h) \/ DispatchCheck(h) \/ Cancel(h)
    <2>1. work' = work /\ \A x \in Handler : handler[x] = "running" => handler'[x] = "running"
      BY <1>1, <1>t DEF Admit, Reject, Drop, DispatchCheck, Cancel, AgentTypeOK
    <2> QED
      BY <2>1, WindsKeeps DEF Winds
  <1>2. CASE Finish(h)
    <2>1. work' = work /\ Active(h) = {} /\ \A x \in Handler \ {h} : handler'[x] = handler[x]
      BY <1>2, <1>t DEF Finish, Finished, AgentTypeOK
    <2>2. \A c \in Child : work'[<<h, c>>] \in {"todo", "done"}
      BY <2>1 DEF Active
    <2> QED
      BY <2>1, <2>2, WindsKeeps DEF Winds
  <1>3. CASE FinishUnheard(h)
    <2>1. \A x \in Handler \ {h} : handler'[x] = handler[x]
      BY <1>3, <1>t DEF FinishUnheard, AgentTypeOK
    <2>2. work' = [w \in Work |-> IF w[1] = h THEN "todo" ELSE work[w]]
      BY <1>3 DEF FinishUnheard, Forget
    <2>3. \A x \in Handler, c \in Child : /\ work'[<<x, c>>] \in {"todo", work[<<x, c>>]}
                                          /\ x = h => work'[<<x, c>>] = "todo"
      BY <2>2 DEF Work
    <2> QED
      BY <2>1, <2>3, WindsKeeps DEF Winds
  <1>4. CASE DispatchSend(h)
    <2>1. /\ Cardinality(Active(h)) < ShardSlotDemand /\ handler[h] = "running" /\ handler' = handler
          /\ work' = [work EXCEPT ![<<h, next[h]>>] = "lookup"]
      BY <1>4 DEF DispatchSend
    <2>2. \A x \in Handler, c \in Child :
              work'[<<x, c>>] # work[<<x, c>>] => x = h /\ c = next[h]
      BY <1>t, <2>1 DEF AgentTypeOK, Work
    <2>3. ASSUME NEW x \in Handler \ {h} PROVE Active(x)' = Active(x)
      BY <2>2 DEF Active
    <2>4. Active(h)' \subseteq Active(h) \cup {next[h]}
      BY <2>2 DEF Active
    <2>5. /\ IsFiniteSet(Active(h) \cup {next[h]})
          /\ Cardinality(Active(h) \cup {next[h]}) =< Cardinality(Active(h)) + 1
          /\ Cardinality(Active(h) \cup {next[h]}) \in Nat
      <3>1. /\ IsFiniteSet(Active(h) \cup {next[h]})
            /\ Cardinality(Active(h) \cup {next[h]}) =
                  IF next[h] \in Active(h) THEN Cardinality(Active(h)) ELSE Cardinality(Active(h)) + 1
        BY ActiveFinite, FS_AddElement
      <3>2. Cardinality(Active(h)) \in Nat
        BY ActiveFinite
      <3> QED
        BY <3>1, <3>2
    <2>6. /\ Cardinality(Active(h)') =< Cardinality(Active(h) \cup {next[h]})
          /\ Cardinality(Active(h)') \in Nat
      BY <2>4, <2>5, FS_Subset, FS_CardinalityType
    <2>7. Cardinality(Active(h)') =< ShardSlotDemand
      BY <2>1, <2>5, <2>6, ActiveFinite, DemandPositive
    <2>8. ASSUME NEW x \in Handler PROVE Workers(x)'
      BY <2>1, <2>3, <2>7 DEF WorkersInv, Workers
    <2> QED
      BY <2>8 DEF WorkersInv
  <1> QED
    BY <1>1, <1>2, <1>3, <1>4 DEF HandlerStep

\* A worker goes on with the child it has.
LEMMA WorkWinds ==
    ASSUME TypeInv, NEW h \in Handler, NEW c \in Child,
           StoreStep(h, c) \/ \E r \in Executed \cup {"failed", "mismatch"} : Execute(h, c, r)
    PROVE  Winds
  <1>t. AgentTypeOK
    BY DEF TypeInv, TypeOK
  <1>1. PICK place, r : Step(h, c, place, r)
    BY DEF StoreStep, Lookup, Execute, Commit, CommitExists, CommitError, WriteAttempt
  <1>2. work[<<h, c>>] \notin {"todo", "done"}
    BY DEF StoreStep, Lookup, Execute, Commit, CommitExists, CommitError, WriteAttempt, At
  <1>3. handler' = handler /\ work' = [work EXCEPT ![<<h, c>>] = place]
    BY <1>1 DEF Step
  <1>4. \A x \in Handler, d \in Child : work'[<<x, d>>] # work[<<x, d>>] => x = h /\ d = c
    BY <1>t, <1>3 DEF AgentTypeOK, Work
  <1> QED
    BY <1>2, <1>3, <1>4 DEF Winds

\* No handler ever has more workers than slots, or a worker that outlives it.
LEMMA WorkersAlways == Spec => []WorkersInv
  <1>1. Init => WorkersInv
    <2> SUFFICES ASSUME Init, NEW h \in Handler PROVE Workers(h)
      BY DEF WorkersInv
    <2>1. Active(h) = {}
      BY DEF Init, Active, Work
    <2> QED
      BY <2>1, FS_EmptySet, DemandPositive DEF Workers
  <1>2. TypeInv /\ WorkersInv /\ [Next]_vars => WorkersInv'
    <2> SUFFICES ASSUME TypeInv, WorkersInv, [Next]_vars PROVE WorkersInv'
      OBVIOUS
    <2>1. CASE UNCHANGED vars
      <3>1. UNCHANGED <<work, handler>>
        BY <2>1 DEF vars, agentVars
      <3> QED
        BY <3>1, WindsKeeps DEF Winds
    <2>2. CASE Crash
      <3>1. \A x \in Handler, c \in Child : work'[<<x, c>>] = "todo"
        BY <2>2 DEF Crash, Work
      <3> QED
        BY <3>1, WindsKeeps DEF Winds
    <2> QED
      BY <2>1, <2>2, WindsKeeps, CoordWinds, HandlerWorkers, WorkWinds DEF Next, Ended
  <1> QED
    BY <1>1, <1>2, TypeCorrect, PTL DEF Spec

\* The children at work for a set of handlers.
Busy(H) == {w \in Work : w[1] \in H /\ w[2] \in Active(w[1])}

\* They are at most the slots of those handlers, by induction on their number: the
\* least set with more of them has a handler that has too many itself.
LEMMA BusyBound ==
    ASSUME WorkersInv, NEW H \in SUBSET Handler
    PROVE  IsFiniteSet(Busy(H)) /\ Cardinality(Busy(H)) =< ShardSlotDemand * Cardinality(H)
  <1> DEFINE Fine(S) == IsFiniteSet(Busy(S)) /\ Cardinality(Busy(S)) =< ShardSlotDemand * Cardinality(S)
             Bad == {S \in SUBSET Handler : ~Fine(S)}
             R == StrictSubsetOrdering(Handler)
  <1>1. SUFFICES ASSUME Bad # {} PROVE FALSE
    OBVIOUS
  <1>2. PICK S \in Bad : \A T \in Bad : ~(<<T, S>> \in R)
    <2>1. Bad \subseteq SUBSET Handler
      OBVIOUS
    <2>2. IsWellFoundedOn(R, SUBSET Handler)
      BY HandlerFinite, FS_StrictSubsetOrderingWellFounded, FS_FiniteSubsetsOfFinite
    <2> HIDE DEF Bad, R
    <2> QED
      BY <1>1, <2>1, <2>2, WFMin
  <1>3. S \in SUBSET Handler /\ ~Fine(S)
    BY <1>2
  <1>4. CASE S = {}
    <2>1. Busy(S) = {}
      BY <1>4 DEF Busy
    <2>2. Cardinality(S) = 0 /\ IsFiniteSet(Busy(S)) /\ Cardinality(Busy(S)) = 0
      BY <1>4, <2>1, FS_EmptySet
    <2> QED
      BY <1>3, <2>2, DemandPositive
  <1>5. CASE S # {}
    <2>1. PICK h \in S : TRUE
      BY <1>5
    <2> DEFINE T == S \ {h}
               own == {h} \X Active(h)
    <2>2. T \in SUBSET Handler /\ T \subseteq S /\ T # S /\ h \in Handler
      BY <1>3, <2>1
    <2>3. <<T, S>> \in R
      BY <1>3, <2>2 DEF StrictSubsetOrdering
    <2>4. Fine(T)
      BY <1>2, <2>2, <2>3
    <2>5. IsFiniteSet(S)
      BY <1>3, HandlerFinite, FS_Subset
    <2>6. Cardinality(S) = Cardinality(T) + 1 /\ Cardinality(T) \in Nat
      <3>1. Cardinality(T) = Cardinality(S) - 1 /\ Cardinality(S) \in Nat
        BY <2>1, <2>5, FS_RemoveElement, FS_CardinalityType
      <3>2. IsFiniteSet(T) /\ Cardinality(T) \in Nat
        BY <2>5, FS_RemoveElement, FS_CardinalityType
      <3> QED
        BY <3>1, <3>2
    <2>7. IsFiniteSet(own) /\ Cardinality(own) = 1 * Cardinality(Active(h))
      <3>1. IsFiniteSet({h}) /\ Cardinality({h}) = 1
        BY FS_Singleton
      <3>2. IsFiniteSet(Active(h))
        BY ActiveFinite
      <3>3. /\ IsFiniteSet({h} \X Active(h))
            /\ Cardinality({h} \X Active(h)) = Cardinality({h}) * Cardinality(Active(h))
        BY <3>1, <3>2, FS_Product
      <3> QED
        BY <3>1, <3>3
    <2>8. Busy(S) = Busy(T) \cup own
      <3>1. Active(h) \subseteq Child
        BY DEF Active
      <3> QED
        BY <2>1, <2>2, <3>1 DEF Busy, Work
    <2>9. Busy(T) \cap own = {}
      BY DEF Busy
    <2> HIDE DEF own, T
    <2>10. IsFiniteSet(Busy(T)) /\ Cardinality(Busy(T)) \in Nat
      BY <2>4, FS_CardinalityType
    <2>11. /\ IsFiniteSet(Busy(T) \cup own)
           /\ Cardinality(Busy(T) \cup own) = Cardinality(Busy(T)) + Cardinality(own) - Cardinality({})
      BY <2>7, <2>9, <2>10, FS_Union
    <2>12. Cardinality({}) = 0 /\ Cardinality(own) = Cardinality(Active(h)) /\ Cardinality(Active(h)) \in Nat
      BY <2>7, ActiveFinite, FS_EmptySet
    <2>13. Cardinality(Active(h)) =< ShardSlotDemand
      BY <2>2 DEF WorkersInv, Workers
    <2>14. /\ ShardSlotDemand * (Cardinality(T) + 1) = ShardSlotDemand * Cardinality(T) + ShardSlotDemand
           /\ ShardSlotDemand * Cardinality(T) \in Nat
      BY <2>6, DemandPositive
    <2>15. Cardinality(Busy(T)) =< ShardSlotDemand * Cardinality(T)
      BY <2>4
    <2>16. Cardinality(Busy(S)) =< ShardSlotDemand * Cardinality(S)
      BY <2>6, <2>8, <2>10, <2>11, <2>12, <2>13, <2>14, <2>15, DemandPositive
    <2> QED
      BY <1>3, <2>8, <2>11, <2>16
  <1> QED
    BY <1>4, <1>5

\* For any number of submissions, attempts and children: those executing, in the
\* handlers of abandoned attempts too, never outnumber the slots held, nor these the
\* agent's.
THEOREM ExecutionHoldsSlotsHolds == Spec => []ExecutionHoldsSlots
  <1>1. TypeInv /\ WorkersInv => ExecutionHoldsSlots
    <2> SUFFICES ASSUME TypeInv, WorkersInv PROVE ExecutionHoldsSlots
      OBVIOUS
    <2>1. Executing \subseteq Busy(Running)
      <3> SUFFICES ASSUME NEW w \in Executing PROVE w \in Busy(Running)
        OBVIOUS
      <3>1. w \in Work /\ work[w] \notin {"todo", "done"}
        BY DEF Executing
      <3>2. PICK h \in Handler, c \in Child : w = <<h, c>>
        BY <3>1 DEF Work
      <3>3. c \in Active(h)
        BY <3>1, <3>2 DEF Active
      <3>4. h \in Running
        BY <3>3 DEF WorkersInv, Workers, Running
      <3> QED
        BY <3>1, <3>2, <3>3, <3>4 DEF Busy
    <2>2. Running \in SUBSET Handler
      BY DEF Running
    <2>3. IsFiniteSet(Busy(Running)) /\ Cardinality(Busy(Running)) =< ShardSlotDemand * Cardinality(Running)
      BY <2>2, BusyBound
    <2>4. /\ Cardinality(Executing) =< Cardinality(Busy(Running))
          /\ Cardinality(Executing) \in Nat /\ Cardinality(Busy(Running)) \in Nat
      BY <2>1, <2>3, FS_Subset, FS_CardinalityType
    <2>5. used = ShardSlotDemand * Cardinality(Running) /\ used =< Slots /\ used \in Nat
      BY DEF TypeInv, TypeOK, AgentTypeOK, SlotLedger
    <2> QED
      BY <2>3, <2>4, <2>5 DEF ExecutionHoldsSlots
  <1> QED
    BY <1>1, TypeCorrect, WorkersAlways, PTL

=============================================================================

------------------------ MODULE BootTemplatesProofs ------------------------
(* Proofs about BootTemplates: templates in use are kept, and no orphaned   *)
(* pin is forgotten.                                                        *)
EXTENDS BootTemplates, FiniteSetTheorems, TLAPS

-----------------------------------------------------------------------------
(* The inductive invariant                                                  *)

\* templateMu has one holder.
LockExclusive ==
    \A r \in Request : pc[r] \in LockedAt =>
        /\ maint \notin PassAt
        /\ \A q \in Request : pc[q] \in LockedAt => q = r

\* A save is published under one key at most, never while its build exists,
\* and only after its request has let go of it.
Published ==
    /\ \A k \in Key : entry[k] \notin builds
    /\ \A j, k \in Key : entry[j] = entry[k] /\ entry[k] # None => j = k
    /\ \A r \in Request : pc[r] \in LockedAt \cup {"new"} => \A k \in Key : entry[k] # r

\* What is about to be published is there.
CapturedIsSaved == \A r \in Request : pc[r] = "captured" => r \in saved

\* The pass has removed its victim and will not touch a template in use.
PassSpares ==
    /\ maint = "mark" => victim \in Request \ saved
    /\ maint \in PassAt => \A r \in Request : pc[r] = "using" => entry[key[r]] \notin todo

KeepInv == LockExclusive /\ Published /\ CapturedIsSaved /\ PassSpares /\ InUseKept

-----------------------------------------------------------------------------
(* Type correctness                                                         *)

\* What a request selects under the installed binary is a key.
LEMMA KeyType == ASSUME TypeOK, NEW r \in Request PROVE <<binary, image[r]>> \in Key
BY DEF TypeOK, Key

\* The publication order counts publications.
LEMMA StampType == Cardinality({q \in Request : stamp[q] > 0}) \in Nat
<1>1. IsFiniteSet({q \in Request : stamp[q] > 0})
  BY TemplateAssumption, FS_Subset
<1>2. QED
  BY <1>1, FS_CardinalityType

\* A request of ensureBootTemplate keeps the types.
LEMMA RequestType == ASSUME TypeOK, NEW r \in Request, RequestStep(r) PROVE TypeOK'
<1>1. <<binary, image[r]>> \in Key
  BY KeyType
<1>2. CASE IdentityError(r) \/ CaptureError(r) \/ PublishError(r) \/ CleanupError(r) \/ ReleaseTemplate(r)
  BY <1>2 DEF TypeOK, IdentityError, CaptureError, PublishError, CleanupError, ReleaseTemplate,
     Go, cacheVars, maintVars
<1>3. CASE Hit(r)
  BY <1>1, <1>3 DEF TypeOK, Hit, Identify, Go, cacheVars, maintVars
<1>4. CASE Miss(r) \/ MissError(r)
  <2>1. entry' \in [Key -> Request \cup {None}]
    BY <1>1, <1>4 DEF TypeOK, Miss, MissError
  <2>2. key' \in [Request -> Key]
    BY <1>1, <1>4 DEF TypeOK, Miss, MissError, Identify
  <2>3. CASE Miss(r)
    BY <2>1, <2>2, <2>3 DEF TypeOK, Miss, Go, maintVars
  <2>4. CASE MissError(r)
    BY <2>1, <2>2, <2>4 DEF TypeOK, MissError, Go, maintVars
  <2>5. QED
    BY <1>4, <2>3, <2>4
<1>5. CASE Capture(r) \/ CaptureUnconfirmed(r)
  BY <1>5 DEF TypeOK, Capture, CaptureUnconfirmed, Save, Go, maintVars
<1>6. CASE Publish(r)
  <2>1. stamp' \in [Request -> Nat]
    <3>1. 1 + Cardinality({q \in Request : stamp[q] > 0}) \in Nat
      BY StampType
    <3>2. QED
      BY <1>6, <3>1 DEF TypeOK, Publish
  <2>2. QED
    BY <1>6, <2>1 DEF TypeOK, Publish, Go, maintVars
<1>7. CASE CleanupEmpty(r) \/ Mark(r)
  BY <1>7 DEF TypeOK, CleanupEmpty, Mark, DropBuild, Go, maintVars
<1>8. CASE CleanupSave(r) \/ CleanupCut(r)
  BY <1>8 DEF TypeOK, CleanupSave, CleanupCut, Go, maintVars
<1>9. QED
  BY <1>2, <1>3, <1>4, <1>5, <1>6, <1>7, <1>8 DEF RequestStep

\* The maintenance goroutine keeps the types.
LEMMA MaintType == ASSUME TypeOK, MaintStep PROVE TypeOK'
<1>1. ASSUME NEW known \in BOOLEAN, PassStart(known) PROVE TypeOK'
  <2>1. ASSUME NEW k \in Key, Incomplete(k) \/ Evicted(k, known) PROVE entry[k] \in Request
    BY <2>1 DEF TypeOK, Incomplete, Evicted, Ready
  <2>2. todo' \subseteq Request
    BY <1>1, <2>1 DEF TypeOK, PassStart
  <2>3. QED
    BY <1>1, <2>2 DEF TypeOK, PassStart, reqVars, cacheVars
<1>2. ASSUME NEW r \in Request, PassDelete(r) PROVE TypeOK'
  BY <1>2 DEF TypeOK, PassDelete, DeleteDir, reqVars
<1>3. ASSUME NEW r \in Request, PassRemove(r) \/ PassError(r) \/ PassCut(r) PROVE TypeOK'
  BY <1>3 DEF TypeOK, PassRemove, PassError, PassCut, reqVars, cacheVars
<1>4. CASE PassMark
  BY <1>4 DEF TypeOK, PassMark, DeleteDir, reqVars
<1>5. CASE PassMarkKeeping \/ PassEnd
  BY <1>5 DEF TypeOK, PassMarkKeeping, PassEnd, reqVars, cacheVars
<1>6. CASE CollectStart
  BY <1>6 DEF TypeOK, CollectStart, Orphans, reqVars, cacheVars
<1>7. CASE CollectSkip \/ CollectDone \/ CollectError
  BY <1>7 DEF TypeOK, CollectSkip, CollectDone, CollectError, reqVars, cacheVars
<1>8. QED
  BY <1>1, <1>2, <1>3, <1>4, <1>5, <1>6, <1>7 DEF MaintStep

\* Every reachable state of the cache, of its requests and of the maintenance
\* goroutine is well typed.
THEOREM TypeCorrect == Spec => []TypeOK
<1>1. Init => TypeOK
  BY DEF Init, TypeOK, Key
<1>2. TypeOK /\ [Next]_vars => TypeOK'
  <2>1. SUFFICES ASSUME TypeOK, [Next]_vars PROVE TypeOK'
    OBVIOUS
  <2>2. CASE Crash
    BY <2>1, <2>2 DEF TypeOK, Crash, cacheVars
  <2>3. ASSUME NEW b \in Binary, SwapBinary(b) PROVE TypeOK'
    BY <2>1, <2>3 DEF TypeOK, SwapBinary, reqVars, cacheVars, maintVars
  <2>4. CASE UNCHANGED vars
    BY <2>1, <2>4 DEF TypeOK, vars, reqVars, cacheVars, maintVars
  <2>5. QED
    BY <2>1, <2>2, <2>3, <2>4, RequestType, MaintType DEF Next
<1>3. QED
  BY <1>1, <1>2, PTL DEF Spec

-----------------------------------------------------------------------------
(* No orphan is forgotten                                                   *)

\* Requests only orphan a save on their way to set the flag.
LEMMA RequestPending ==
    ASSUME TypeOK, OrphansArePending, NEW r \in Request, RequestStep(r) PROVE OrphansArePending'
<1>1. CASE IdentityError(r) \/ CaptureError(r) \/ PublishError(r) \/ CleanupError(r) \/ ReleaseTemplate(r)
  BY <1>1 DEF TypeOK, OrphansArePending, Orphans, IdentityError, Arrive, CaptureError, PublishError,
     CleanupError, ReleaseTemplate, Go, cacheVars, maintVars
<1>2. CASE Hit(r) \/ Miss(r) \/ MissError(r)
  BY <1>2 DEF TypeOK, OrphansArePending, Orphans, Hit, Miss, MissError, Identify, Arrive, Go,
     cacheVars, maintVars
<1>3. CASE Capture(r) \/ CaptureUnconfirmed(r)
  BY <1>3 DEF TypeOK, OrphansArePending, Orphans, Capture, CaptureUnconfirmed, Save, Go, maintVars
<1>4. CASE Publish(r) \/ CleanupEmpty(r)
  BY <1>4 DEF TypeOK, OrphansArePending, Orphans, Publish, CleanupEmpty, Go, maintVars
<1>5. CASE CleanupSave(r)
  BY <1>5 DEF TypeOK, OrphansArePending, Orphans, CleanupSave, Go, maintVars
<1>6. CASE Mark(r)
  BY <1>6 DEF OrphansArePending, Mark
<1>7. CASE CleanupCut(r)
  BY <1>7 DEF TypeOK, OrphansArePending, Orphans, CleanupCut, Go, maintVars
<1>8. QED
  BY <1>1, <1>2, <1>3, <1>4, <1>5, <1>6, <1>7 DEF RequestStep

\* The flag is cleared only together with the list of what is collected.
LEMMA MaintPending ==
    ASSUME TypeOK, OrphansArePending, MaintStep PROVE OrphansArePending'
<1>1. ASSUME NEW known \in BOOLEAN, PassStart(known) PROVE OrphansArePending'
  BY <1>1 DEF OrphansArePending, Orphans, PassStart, reqVars, cacheVars
<1>2. ASSUME NEW r \in Request, PassDelete(r) \/ PassRemove(r) \/ PassError(r) \/ PassCut(r)
      PROVE OrphansArePending'
  BY <1>2 DEF TypeOK, OrphansArePending, Orphans, PassDelete, PassRemove, PassError, PassCut, reqVars,
     cacheVars
<1>3. CASE PassMark \/ PassMarkKeeping \/ CollectError
  BY <1>3 DEF OrphansArePending, PassMark, PassMarkKeeping, CollectError
<1>4. CASE PassEnd \/ CollectSkip
  BY <1>4 DEF OrphansArePending, Orphans, PassEnd, CollectSkip, reqVars, cacheVars
<1>5. CASE CollectStart
  BY <1>5 DEF OrphansArePending, Orphans, CollectStart, reqVars, cacheVars
<1>6. CASE CollectDone
  BY <1>6 DEF OrphansArePending, Orphans, CollectDone, reqVars
<1>7. QED
  BY <1>1, <1>2, <1>3, <1>4, <1>5, <1>6 DEF MaintStep

\* Whatever order removals and collections come in, the pin of a removed save
\* is always accounted for: cacheGCPending is never lost.
THEOREM OrphansPendingAlways == Spec => []OrphansArePending
<1>1. Init => OrphansArePending
  BY DEF Init, OrphansArePending, Orphans
<1>2. TypeOK /\ OrphansArePending /\ [Next]_vars => OrphansArePending'
  <2>1. SUFFICES ASSUME TypeOK, OrphansArePending, [Next]_vars PROVE OrphansArePending'
    OBVIOUS
  <2>2. CASE Crash
    BY <2>2 DEF OrphansArePending, Crash
  <2>3. ASSUME NEW b \in Binary, SwapBinary(b) PROVE OrphansArePending'
    BY <2>1, <2>3 DEF OrphansArePending, Orphans, SwapBinary, reqVars, cacheVars, maintVars
  <2>4. CASE UNCHANGED vars
    BY <2>1, <2>4 DEF OrphansArePending, Orphans, vars, reqVars, cacheVars, maintVars
  <2>5. QED
    BY <2>1, <2>2, <2>3, <2>4, RequestPending, MaintPending DEF Next
<1>3. QED
  BY <1>1, <1>2, TypeCorrect, PTL DEF Spec

-----------------------------------------------------------------------------
(* Templates in use are kept                                                *)

\* What a request sees when it holds templateMu.
LEMMA HolderAlone ==
    ASSUME KeepInv, NEW r \in Request, pc[r] \in LockedAt
    PROVE  /\ maint \notin PassAt
           /\ \A q \in Request \ {r} : pc[q] \notin LockedAt
           /\ \A k \in Key : entry[k] # r
BY DEF KeepInv, LockExclusive, Published

\* Requests keep the templates of one another.
LEMMA RequestKeeps ==
    ASSUME TypeOK, KeepInv, NEW r \in Request, RequestStep(r) PROVE KeepInv'
<1> USE DEF LockedAt, PassAt
<1>k. <<binary, image[r]>> \in Key
  BY KeyType
<1>1. CASE IdentityError(r) \/ CaptureError(r) \/ PublishError(r) \/ CleanupError(r) \/ ReleaseTemplate(r)
  BY <1>1 DEF TypeOK, KeepInv, LockExclusive, Published, CapturedIsSaved, PassSpares, InUseKept, Ready,
     IdentityError, Arrive, CaptureError, PublishError, CleanupError, ReleaseTemplate, Go, cacheVars,
     maintVars
<1>2. CASE Hit(r)
  BY <1>k, <1>2 DEF TypeOK, KeepInv, LockExclusive, Published, CapturedIsSaved, PassSpares, InUseKept,
     Ready, Hit, Identify, Arrive, Unlocked, Go, cacheVars, maintVars
<1>3. CASE Miss(r)
  BY <1>k, <1>3, TemplateAssumption DEF TypeOK, KeepInv, LockExclusive, Published, CapturedIsSaved,
     PassSpares, InUseKept, Ready, Miss, Identify, Arrive, Unlocked, Go, maintVars
<1>4. CASE MissError(r)
  BY <1>k, <1>4, TemplateAssumption DEF TypeOK, KeepInv, LockExclusive, Published, CapturedIsSaved,
     PassSpares, InUseKept, Ready, MissError, Identify, Arrive, Unlocked, Go, maintVars
<1>5. CASE Capture(r) \/ CaptureUnconfirmed(r)
  BY <1>5, HolderAlone DEF TypeOK, KeepInv, LockExclusive, Published, CapturedIsSaved, PassSpares,
     InUseKept, Ready, Capture, CaptureUnconfirmed, Save, Go, maintVars
<1>6. CASE Publish(r)
  BY <1>6, HolderAlone, TemplateAssumption DEF TypeOK, KeepInv, LockExclusive, Published,
     CapturedIsSaved, PassSpares, InUseKept, Ready, Publish, Go, maintVars
<1>7. CASE CleanupEmpty(r) \/ Mark(r)
  BY <1>7 DEF TypeOK, KeepInv, LockExclusive, Published, CapturedIsSaved, PassSpares, InUseKept, Ready,
     CleanupEmpty, Mark, DropBuild, Go, maintVars
<1>8. CASE CleanupSave(r) \/ CleanupCut(r)
  BY <1>8, HolderAlone DEF TypeOK, KeepInv, LockExclusive, Published, CapturedIsSaved, PassSpares,
     InUseKept, Ready, CleanupSave, CleanupCut, Go, maintVars
<1>9. QED
  BY <1>1, <1>2, <1>3, <1>4, <1>5, <1>6, <1>7, <1>8 DEF RequestStep

\* A pass keeps what requests use.
LEMMA MaintKeeps == ASSUME TypeOK, KeepInv, MaintStep PROVE KeepInv'
<1> USE DEF LockedAt, PassAt
<1>1. ASSUME NEW known \in BOOLEAN, PassStart(known) PROVE KeepInv'
  <2>1. ASSUME NEW r \in Request, pc[r] = "using", entry[key[r]] \in todo' PROVE FALSE
    <3>1. key[r] \in Key /\ entry[key[r]] \in saved /\ entry[key[r]] \notin builds
      BY <2>1 DEF TypeOK, KeepInv, InUseKept, Ready, Published
    <3>2. PICK j \in Key : (Incomplete(j) \/ Evicted(j, known)) /\ entry[j] = entry[key[r]]
      BY <1>1, <2>1, <3>1 DEF PassStart
    <3>3. j = key[r]
      BY <3>1, <3>2, TemplateAssumption DEF TypeOK, KeepInv, Published
    <3>4. r \in Uses(j)
      BY <2>1, <3>3 DEF Uses
    <3>5. QED
      BY <3>1, <3>2, <3>4 DEF Incomplete, Evicted, Ready
  <2>2. PassSpares'
    BY <1>1, <2>1 DEF PassSpares, PassStart, reqVars, cacheVars
  <2>3. QED
    BY <1>1, <2>2 DEF KeepInv, LockExclusive, Published, CapturedIsSaved, InUseKept, Ready, PassStart,
       Unlocked, reqVars, cacheVars
<1>2. ASSUME NEW r \in Request, PassDelete(r) PROVE KeepInv'
  BY <1>2, TemplateAssumption DEF TypeOK, KeepInv, LockExclusive, Published, CapturedIsSaved, PassSpares,
     InUseKept, Ready, PassDelete, DeleteDir, reqVars
<1>3. ASSUME NEW r \in Request, PassRemove(r) \/ PassError(r) \/ PassCut(r) PROVE KeepInv'
  BY <1>3 DEF TypeOK, KeepInv, LockExclusive, Published, CapturedIsSaved, PassSpares, InUseKept, Ready,
     PassRemove, PassError, PassCut, reqVars, cacheVars
<1>4. CASE PassMark
  BY <1>4, TemplateAssumption DEF TypeOK, KeepInv, LockExclusive, Published, CapturedIsSaved, PassSpares,
     InUseKept, Ready, PassMark, DeleteDir, reqVars
<1>5. CASE PassMarkKeeping \/ PassEnd \/ CollectStart \/ CollectSkip
  BY <1>5 DEF TypeOK, KeepInv, LockExclusive, Published, CapturedIsSaved, PassSpares, InUseKept, Ready,
     PassMarkKeeping, PassEnd, CollectStart, CollectSkip, reqVars, cacheVars
<1>6. CASE CollectDone \/ CollectError
  BY <1>6 DEF TypeOK, KeepInv, LockExclusive, Published, CapturedIsSaved, PassSpares, InUseKept, Ready,
     CollectDone, CollectError, reqVars, cacheVars
<1>7. QED
  BY <1>1, <1>2, <1>3, <1>4, <1>5, <1>6 DEF MaintStep

\* A template is complete from its lease to its release, for any number of
\* requests, binaries and images and any retention count.
THEOREM InUseKeptAlways == Spec => []InUseKept
<1>1. Init => KeepInv
  BY TemplateAssumption DEF Init, KeepInv, LockExclusive, Published, CapturedIsSaved, PassSpares,
     InUseKept, LockedAt, PassAt, Key
<1>2. TypeOK /\ KeepInv /\ [Next]_vars => KeepInv'
  <2>1. SUFFICES ASSUME TypeOK, KeepInv, [Next]_vars PROVE KeepInv'
    OBVIOUS
  <2>2. CASE Crash
    BY <2>1, <2>2 DEF TypeOK, KeepInv, LockExclusive, Published, CapturedIsSaved, PassSpares, InUseKept,
       LockedAt, PassAt, Crash, cacheVars
  <2>3. ASSUME NEW b \in Binary, SwapBinary(b) PROVE KeepInv'
    BY <2>1, <2>3 DEF KeepInv, LockExclusive, Published, CapturedIsSaved, PassSpares, InUseKept, Ready,
       SwapBinary, reqVars, cacheVars, maintVars
  <2>4. CASE UNCHANGED vars
    BY <2>1, <2>4 DEF KeepInv, LockExclusive, Published, CapturedIsSaved, PassSpares, InUseKept, Ready,
       vars, reqVars, cacheVars, maintVars
  <2>5. QED
    BY <2>1, <2>2, <2>3, <2>4, RequestKeeps, MaintKeeps DEF Next
<1>3. KeepInv => InUseKept
  BY DEF KeepInv
<1>4. QED
  BY <1>1, <1>2, <1>3, TypeCorrect, PTL DEF Spec
=============================================================================

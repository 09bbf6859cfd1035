--------------------------- MODULE BootTemplates ---------------------------
(***************************************************************************)
(* The boot template cache of one agent: ensureBootTemplate and the lease   *)
(* on its result, the maintenance goroutine that alternates                 *)
(* ReconcileBootTemplates and CollectCache, and the cacheGCPending flag     *)
(* between removals and collections.                                        *)
(*                                                                          *)
(* templateMu is held by a request from its lookup to its lease and by a    *)
(* pass from start to end, so it is derived from where they are.  A saved   *)
(* spore is named by the request that captured it; the template key is the  *)
(* digest of the spore binary and the image with everything else a request  *)
(* selects.  Removing a save leaves its pin to spore cache gc, as SporeVM   *)
(* after 0.17 does.                                                         *)
(***************************************************************************)
EXTENDS Integers, FiniteSets

CONSTANTS
    Request,    \* POST /runs and POST /sandboxes requests
    Binary,     \* builds of the spore executable
    Image,      \* images with their memory size, backend and host class
    None,       \* no save under this key
    Retain,     \* --template-retain
    Faults      \* what may go wrong

FaultKinds == {"identity", "capture", "remove", "cut", "gc", "crash"}

ASSUME TemplateAssumption == /\ IsFiniteSet(Request) /\ IsFiniteSet(Binary) /\ IsFiniteSet(Image)
                             /\ None \notin Request
                             /\ Retain \in Nat
                             /\ Faults \subseteq FaultKinds

Key == Binary \X Image

VARIABLES
    binary,     \* the installed spore executable
    \* Requests
    pc,         \* "new", "capture", "captured", "cleanup", "mark", "using", "done"
    image,      \* what each request selects
    key,        \* the key it computed
    \* Disk and spore cache
    entry,      \* entry[k]: the save published under key k, or None
    builds,     \* .build- directories
    saved,      \* saves whose directory has a manifest
    stamp,      \* publication order, the mtime of template.json
    pins,       \* saves whose storage is pinned
    \* Maintenance goroutine
    maint,      \* "start", "idle", "remove", "mark", "collect", "gc"
    todo,       \* saves this pass still has to remove
    victim,     \* the one it has just removed, or None
    doomed,     \* orphans the running collection has seen
    gcPending,  \* Runner.cacheGCPending: "yes", "no"
    \* History
    cut         \* saves whose removal took effect and was reported as failed

cacheVars == <<entry, builds, saved, stamp, pins>>
reqVars == <<pc, image, key>>
maintVars == <<maint, todo, victim, doomed>>
vars == <<binary, reqVars, cacheVars, maintVars, gcPending, cut>>

May(fault) == fault \in Faults

LockedAt == {"capture", "captured", "cleanup", "mark"}
PassAt == {"remove", "mark"}

\* templateMu is free.
Unlocked == maint \notin PassAt /\ \A r \in Request : pc[r] \notin LockedAt

\* bootTemplateReady of an entry.
Ready(k) == entry[k] \in saved

\* templateUses: requests that still restore from the template.
Uses(k) == {r \in Request : pc[r] = "using" /\ key[r] = k}

\* Saves that only a collection can still free.
Orphans == pins \ saved

Init ==
    /\ binary \in Binary
    /\ pc = [r \in Request |-> "new"]
    /\ image \in [Request -> Image]
    /\ key = [r \in Request |-> <<binary, image[r]>>]
    /\ entry = [k \in Key |-> None]
    /\ builds = {}
    /\ saved = {}
    /\ stamp = [r \in Request |-> 0]
    /\ pins = {}
    /\ maint = "start" /\ todo = {} /\ victim = None /\ doomed = {}
    /\ gcPending = "yes"
    /\ cut = {}

\* The executable is replaced under the running agent.
SwapBinary(b) ==
    /\ b # binary
    /\ binary' = b
    /\ UNCHANGED <<reqVars, cacheVars, maintVars, gcPending, cut>>

-----------------------------------------------------------------------------
(* ensureBootTemplate                                                       *)

Go(r, place) == pc' = [pc EXCEPT ![r] = place]

\* The agent serves requests after its first pass.
Arrive(r) == pc[r] = "new" /\ maint # "start" /\ Unlocked

\* bootTemplateIdentity: the executable is hashed unless its stat is known.
Identify(r) ==
    /\ Arrive(r)
    /\ key' = [key EXCEPT ![r] = <<binary, image[r]>>]

\* The spore executable cannot be resolved, hashed or asked for its version.
IdentityError(r) ==
    /\ Arrive(r)
    /\ May("identity")
    /\ Go(r, "done")
    /\ UNCHANGED <<binary, image, key, cacheVars, maintVars, gcPending, cut>>

\* A cache hit: the template is leased before the lock is released.
Hit(r) ==
    /\ Identify(r)
    /\ Ready(<<binary, image[r]>>)
    /\ Go(r, "using")
    /\ UNCHANGED <<binary, image, cacheVars, maintVars, gcPending, cut>>

\* A miss: what is left of the entry goes and a build directory is made, ...
Miss(r) ==
    /\ Identify(r)
    /\ ~Ready(<<binary, image[r]>>)
    /\ entry' = [entry EXCEPT ![<<binary, image[r]>>] = None]
    /\ builds' = builds \cup {r}
    /\ Go(r, "capture")
    /\ UNCHANGED <<binary, image, saved, stamp, pins, maintVars, gcPending, cut>>

\* ... or cannot be made.
MissError(r) ==
    /\ Identify(r)
    /\ ~Ready(<<binary, image[r]>>)
    /\ May("identity")
    /\ entry' = [entry EXCEPT ![<<binary, image[r]>>] = None]
    /\ Go(r, "done")
    /\ UNCHANGED <<binary, image, builds, saved, stamp, pins, maintVars, gcPending, cut>>

\* spore run --save
Save(r) ==
    /\ pc[r] = "capture"
    /\ saved' = saved \cup {r}
    /\ pins' = pins \cup {r}
    /\ UNCHANGED <<binary, image, key, entry, builds, stamp, maintVars, gcPending, cut>>

Capture(r) == Save(r) /\ Go(r, "captured")

\* The capture is published and its answer is not accepted, ...
CaptureUnconfirmed(r) == May("capture") /\ Save(r) /\ Go(r, "cleanup")

\* ... or it publishes nothing.
CaptureError(r) ==
    /\ pc[r] = "capture"
    /\ May("capture")
    /\ Go(r, "cleanup")
    /\ UNCHANGED <<binary, image, key, cacheVars, maintVars, gcPending, cut>>

\* template.json is written, the build directory renamed to the entry and the
\* template leased.
Publish(r) ==
    /\ pc[r] = "captured"
    /\ entry' = [entry EXCEPT ![key[r]] = r]
    /\ builds' = builds \ {r}
    /\ stamp' = [stamp EXCEPT ![r] = 1 + Cardinality({q \in Request : stamp[q] > 0})]
    /\ Go(r, "using")
    /\ UNCHANGED <<binary, image, key, saved, pins, maintVars, gcPending, cut>>

\* Neither is possible.
PublishError(r) ==
    /\ pc[r] = "captured"
    /\ May("capture")
    /\ Go(r, "cleanup")
    /\ UNCHANGED <<binary, image, key, cacheVars, maintVars, gcPending, cut>>

\* RemoveAll of the build directory, whose error is dropped.
DropBuild(r) ==
    \/ builds' = builds \ {r}
    \/ May("remove") /\ builds' = builds

\* cleanupTemplateBuild: a build without a save is deleted, ...
CleanupEmpty(r) ==
    /\ pc[r] = "cleanup"
    /\ r \notin saved
    /\ DropBuild(r)
    /\ Go(r, "done")
    /\ UNCHANGED <<binary, image, key, entry, saved, stamp, pins, maintVars,
                   gcPending, cut>>

\* ... a save is removed through spore first, ...
CleanupSave(r) ==
    /\ pc[r] = "cleanup"
    /\ r \in saved
    /\ saved' = saved \ {r}
    /\ Go(r, "mark")
    /\ UNCHANGED <<binary, image, key, entry, builds, stamp, pins, maintVars,
                   gcPending, cut>>

\* ... which sets cacheGCPending when it succeeds, ...
Mark(r) ==
    /\ pc[r] = "mark"
    /\ gcPending' = "yes"
    /\ DropBuild(r)
    /\ Go(r, "done")
    /\ UNCHANGED <<binary, image, key, entry, saved, stamp, pins, maintVars, cut>>

\* Mutant: the build directory is deleted although spore kept the save.
CleanupErrorDeletes(r) ==
    /\ pc[r] = "cleanup"
    /\ r \in saved
    /\ May("remove")
    /\ saved' = saved \ {r}
    /\ builds' = builds \ {r}
    /\ Go(r, "done")
    /\ UNCHANGED <<binary, image, key, entry, stamp, pins, maintVars, gcPending, cut>>

\* ... and a save that cannot be removed stays visible with its build.
CleanupError(r) ==
    /\ pc[r] = "cleanup"
    /\ r \in saved
    /\ May("remove")
    /\ Go(r, "done")
    /\ UNCHANGED <<binary, image, key, cacheVars, maintVars, gcPending, cut>>

\* The removal takes effect and is reported as failed.
CleanupCut(r) ==
    /\ pc[r] = "cleanup"
    /\ r \in saved
    /\ May("cut")
    /\ saved' = saved \ {r}
    /\ cut' = cut \cup {r}
    /\ Go(r, "done")
    /\ UNCHANGED <<binary, image, key, entry, builds, stamp, pins, maintVars, gcPending>>

\* The child is restored, or the command has ended: the lease is returned.
ReleaseTemplate(r) ==
    /\ pc[r] = "using"
    /\ Unlocked
    /\ Go(r, "done")
    /\ UNCHANGED <<binary, image, key, cacheVars, maintVars, gcPending, cut>>

-----------------------------------------------------------------------------
(* ReconcileBootTemplates                                                   *)

\* Mutant: every template looks current.
StaleUnseen(k, known) == FALSE

\* Saved by another binary, as far as the key tells; nobody can select it.
Stale(k, known) == known /\ k[1] # binary

\* Complete templates that compete for the Retain places.
Complete(known) == {k \in Key : Ready(k) /\ ~Stale(k, known)}

\* Older than the newest Retain templates.
Expired(k, known) ==
    /\ k \in Complete(known)
    /\ Cardinality({j \in Complete(known) : stamp[entry[j]] > stamp[entry[k]]}) >= Retain

\* Mutant: templates are evicted without a look at their uses.
EvictedInUse(k, known) == Ready(k) /\ (Stale(k, known) \/ Expired(k, known))

Evicted(k, known) == Ready(k) /\ (Stale(k, known) \/ Expired(k, known)) /\ Uses(k) = {}

\* Entries whose save is gone.
Incomplete(k) == entry[k] # None /\ ~Ready(k)

\* The directory is read and judged.  Without the identity nothing is stale.
PassStart(known) ==
    /\ maint \in {"start", "idle"}
    /\ Unlocked
    /\ known \/ May("identity")
    /\ todo' = builds \cup {entry[k] : k \in {j \in Key : Incomplete(j) \/ Evicted(j, known)}}
    /\ maint' = "remove"
    /\ UNCHANGED <<binary, reqVars, cacheVars, victim, doomed, gcPending, cut>>

\* removeBootTemplateEntry: RemoveAll of the build or the entry of a save.
DeleteDir(r) ==
    /\ builds' = builds \ {r}
    /\ entry' = [k \in Key |-> IF entry[k] = r THEN None ELSE entry[k]]

\* A directory without a save is deleted at once.
PassDelete(r) ==
    /\ maint = "remove"
    /\ r \in todo \ saved
    /\ todo' = todo \ {r}
    /\ DeleteDir(r)
    /\ UNCHANGED <<binary, reqVars, saved, stamp, pins, maint, victim, doomed,
                   gcPending, cut>>

\* A save is removed through spore, ...
PassRemove(r) ==
    /\ maint = "remove"
    /\ r \in todo \cap saved
    /\ todo' = todo \ {r}
    /\ saved' = saved \ {r}
    /\ victim' = r
    /\ maint' = "mark"
    /\ UNCHANGED <<binary, reqVars, entry, builds, stamp, pins, doomed, gcPending, cut>>

\* ... cacheGCPending is set, and the directory deleted.
PassMark ==
    /\ maint = "mark"
    /\ gcPending' = "yes"
    /\ DeleteDir(victim)
    /\ victim' = None
    /\ maint' = "remove"
    /\ UNCHANGED <<binary, reqVars, saved, stamp, pins, todo, doomed, cut>>

\* Only the deletion fails.
PassMarkKeeping ==
    /\ maint = "mark"
    /\ May("remove")
    /\ gcPending' = "yes"
    /\ victim' = None
    /\ maint' = "remove"
    /\ UNCHANGED <<binary, reqVars, cacheVars, todo, doomed, cut>>

\* The removal fails and the pass goes on with the next directory.
PassError(r) ==
    /\ maint = "remove"
    /\ r \in todo
    /\ May("remove")
    /\ todo' = todo \ {r}
    /\ UNCHANGED <<binary, reqVars, cacheVars, maint, victim, doomed, gcPending, cut>>

\* It takes effect and is reported as failed.
PassCut(r) ==
    /\ maint = "remove"
    /\ r \in todo \cap saved
    /\ May("cut")
    /\ todo' = todo \ {r}
    /\ saved' = saved \ {r}
    /\ cut' = cut \cup {r}
    /\ UNCHANGED <<binary, reqVars, entry, builds, stamp, pins, maint, victim, doomed,
                   gcPending>>

PassEnd ==
    /\ maint = "remove"
    /\ todo = {}
    /\ maint' = "collect"
    /\ UNCHANGED <<binary, reqVars, cacheVars, todo, victim, doomed, gcPending, cut>>

-----------------------------------------------------------------------------
(* CollectCache                                                             *)

\* The flag is cleared before spore cache gc starts.
CollectStart ==
    /\ maint = "collect"
    /\ gcPending = "yes"
    /\ gcPending' = "no"
    /\ doomed' = Orphans
    /\ maint' = "gc"
    /\ UNCHANGED <<binary, reqVars, cacheVars, todo, victim, cut>>

\* Nothing was removed since the last collection.
CollectSkip ==
    /\ maint = "collect"
    /\ gcPending = "no"
    /\ maint' = "idle"
    /\ UNCHANGED <<binary, reqVars, cacheVars, todo, victim, doomed, gcPending, cut>>

\* Mutant: the flag is cleared again when the collection is over.
CollectDoneClears ==
    /\ maint = "gc"
    /\ pins' = pins \ doomed
    /\ gcPending' = "no"
    /\ doomed' = {}
    /\ maint' = "idle"
    /\ UNCHANGED <<binary, reqVars, entry, builds, saved, stamp, todo, victim, cut>>

\* The pins of the orphans it has seen are gone.
CollectDone ==
    /\ maint = "gc"
    /\ pins' = pins \ doomed
    /\ doomed' = {}
    /\ maint' = "idle"
    /\ UNCHANGED <<binary, reqVars, entry, builds, saved, stamp, todo, victim,
                   gcPending, cut>>

\* Mutant: a collection that failed is not tried again.
CollectErrorForgets ==
    /\ maint = "gc"
    /\ May("gc")
    /\ doomed' = {}
    /\ maint' = "idle"
    /\ UNCHANGED <<binary, reqVars, cacheVars, todo, victim, gcPending, cut>>

\* It fails, and is tried again after the next pass.
CollectError ==
    /\ maint = "gc"
    /\ May("gc")
    /\ gcPending' = "yes"
    /\ doomed' = {}
    /\ maint' = "idle"
    /\ UNCHANGED <<binary, reqVars, cacheVars, todo, victim, cut>>

\* The agent dies; it starts again with nothing in memory and the flag set.
Crash ==
    /\ May("crash")
    /\ pc' = [r \in Request |-> IF pc[r] = "new" THEN "new" ELSE "done"]
    /\ maint' = "start" /\ todo' = {} /\ victim' = None /\ doomed' = {}
    /\ gcPending' = "yes"
    /\ UNCHANGED <<binary, image, key, cacheVars, cut>>

-----------------------------------------------------------------------------
RequestStep(r) ==
    \/ IdentityError(r) \/ Hit(r) \/ Miss(r) \/ MissError(r)
    \/ Capture(r) \/ CaptureUnconfirmed(r) \/ CaptureError(r)
    \/ Publish(r) \/ PublishError(r)
    \/ CleanupEmpty(r) \/ CleanupSave(r) \/ Mark(r) \/ CleanupError(r) \/ CleanupCut(r)
    \/ ReleaseTemplate(r)

MaintStep ==
    \/ \E known \in BOOLEAN : PassStart(known)
    \/ \E r \in Request : PassDelete(r) \/ PassRemove(r) \/ PassError(r) \/ PassCut(r)
    \/ PassMark \/ PassMarkKeeping \/ PassEnd
    \/ CollectStart \/ CollectSkip \/ CollectDone \/ CollectError

Next ==
    \/ \E r \in Request : RequestStep(r)
    \/ MaintStep
    \/ \E b \in Binary : SwapBinary(b)
    \/ Crash

Spec == Init /\ [][Next]_vars

\* The ticker fires for ever, and every spore command ends: passes and
\* collections have timeouts, requests the deadline of their caller.  A request
\* that waits for templateMu gets it (sync.Mutex hands itself to a starved
\* waiter), so returning a lease is strongly fair.
FairSpec ==
    /\ Spec
    /\ WF_vars(MaintStep)
    /\ \A r \in Request : WF_vars(RequestStep(r)) /\ SF_vars(ReleaseTemplate(r))

-----------------------------------------------------------------------------
(* Properties                                                               *)

TypeOK ==
    /\ binary \in Binary
    /\ pc \in [Request -> {"new", "capture", "captured", "cleanup", "mark", "using", "done"}]
    /\ image \in [Request -> Image]
    /\ key \in [Request -> Key]
    /\ entry \in [Key -> Request \cup {None}]
    /\ builds \subseteq Request /\ saved \subseteq Request /\ pins \subseteq Request
    /\ stamp \in [Request -> Nat]
    /\ maint \in {"start", "idle", "remove", "mark", "collect", "gc"}
    /\ todo \subseteq Request /\ doomed \subseteq Request
    /\ victim \in Request \cup {None}
    /\ gcPending \in {"yes", "no"}
    /\ cut \subseteq Request

\* design.md: a pass "skips templates currently restoring a child".  A template
\* in use is complete, whichever pass, failed build or replaced binary comes
\* between its lease and its release.
InUseKept == \A r \in Request : pc[r] = "using" => Ready(key[r])

\* What a removal leaves to the collection is never forgotten: the flag is
\* set, the running collection has seen it, or whoever removed it is about to
\* set the flag.  The flag is set after the removal and cleared before the
\* collection, and either order could be wrong.
OrphansArePending ==
    \A o \in Orphans \ cut :
        \/ gcPending = "yes"
        \/ maint = "gc" /\ o \in doomed
        \/ maint = "mark" /\ victim = o
        \/ pc[o] = "mark"

\* Passes and collections stop failing, after any number of failures.  A pass
\* without the identity fails if that makes a difference.
Failure ==
    \/ Crash \/ CollectError \/ PassMarkKeeping
    \/ PassStart(FALSE) /\ ~PassStart(TRUE)
    \/ \E r \in Request : PassError(r) \/ PassCut(r)
Quiet == <>[][~Failure]_vars

\* Storage comes back: whatever failed before, the pin of a removed save is
\* collected once passes and collections succeed.  A removal reported as failed
\* sets no flag, so its orphan waits for a flag set by anything else: another
\* removal, a failed collection or a restart of the agent.
Collectable(r) == r \in Orphans /\ (r \notin cut \/ gcPending = "yes")
OrphansCollected == Quiet => \A r \in Request : Collectable(r) ~> r \notin pins

\* A template no request can select any more does not stay for ever, even if
\* it is in use when the binary is replaced and Retain has room for it.
StaleEvicted ==
    Quiet => \A k \in Key : Ready(k) /\ k[1] # binary ~> k[1] = binary \/ ~Ready(k)
=============================================================================

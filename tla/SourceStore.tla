----------------------------- MODULE SourceStore -----------------------------
(***************************************************************************)
(* The source store of source-acquisition/src: content-identified entries  *)
(* shared by all Lando processes, sessions that lease the entries they     *)
(* use, lockfiles that pin entries beyond a session, and the collector     *)
(* that removes what nothing uses (storage.ts, gc*.ts).                    *)
(*                                                                         *)
(* A session is a process of its own.  The store lock is the lock of       *)
(* LockContract, with a dead owner's lock reclaimed at once.  Ages are     *)
(* abstracted to "last used before the running collection's cutoff".       *)
(* Index records (npm, ref), staging leftovers and transports are left     *)
(* out: a key stands for a git commit, pinned by its lockfile directly.    *)
(***************************************************************************)
EXTENDS Naturals, FiniteSets

CONSTANTS
  Session,       \* processes that acquire sources
  Key,           \* content identities
  Root,          \* lockfile paths
  Collector,     \* the process running meta:sources:gc --prune
  NoOwner,        \* no lock holder
  Thresholds,    \* kinds of --older-than: TRUE exceeds any session's life, as the default of
                 \* 30 days does, so what a session still going touched is recent; FALSE is any
  MaxRuns,       \* bound: collections
  MaxDeaths,    \* bound: processes that die
  MaxMeddles     \* bound: entries damaged, lockfiles deleted or corrupted by others

ASSUME NamesAssumption == /\ Collector \notin Session
                          /\ NoOwner \notin Session \cup {Collector}
ASSUME KeyAssumption == Key # {}
ASSUME ThresholdAssumption == Thresholds \subseteq BOOLEAN
ASSUME StoreBoundsAssumption == MaxRuns \in Nat /\ MaxDeaths \in Nat /\ MaxMeddles \in Nat

VARIABLES
  long,       \* does --older-than exceed any session's life?  It stays as it is.
  entry,      \* the entry published under each key
  recent,     \* keys whose entry was used since the collection's cutoff
  roots,      \* lockfiles with a root record
  status,     \* each lockfile: "missing", "ok" or "corrupt"
  pins,       \* the keys each lockfile pins
  leaseFiles, \* sessions with a lease file
  keys,       \* keys each session has leased, in memory and in its lease file
  phase,      \* lease lifecycle of each session, and "dead"
  reg,        \* lockfiles each session has registered
  sessionStep, hand, kept,   \* each session: step, key at hand, entry it moved aside
  storeLock,  \* holder of the store lock
  gpc, goal, subject,   \* the collector: step, purpose of its pass, lockfile or key at hand
  toRead, toList,       \* lockfiles and leases it still has to read
  guarded, doubt, live, \* what it has seen: keys in use, anything unreadable, a live lease
  report,     \* guarded and doubt of the report pass
  left, leftRoots,      \* keys and root records it has not dealt with
  torn,       \* history: keys whose replacement was cut short by a death
  runs, sessionDeaths, meddles

store == <<entry, recent, roots>>
files == <<status, pins>>
lease == <<leaseFiles, keys, phase, reg>>
atHand == <<sessionStep, hand, kept>>
view == <<guarded, doubt, live>>
gc == <<gpc, goal, subject, toRead, toList, view, report, left, leftRoots>>
storeSpent == <<runs, sessionDeaths, meddles>>
storeVars == <<long, store, files, lease, atHand, storeLock, gc, torn, storeSpent>>

NoReport == [guarded |-> {}, doubt |-> FALSE]
AnyKey == CHOOSE k \in Key : TRUE

StoreInit ==
  /\ long \in Thresholds
  /\ entry = [k \in Key |-> "none"] /\ recent = {} /\ roots = {}
  /\ status = [r \in Root |-> "missing"] /\ pins = [r \in Root |-> {}]
  /\ leaseFiles = {} /\ keys = [s \in Session |-> {}]
  /\ phase = [s \in Session |-> "absent"] /\ reg = [s \in Session |-> {}]
  /\ sessionStep = [s \in Session |-> "idle"] /\ hand = [s \in Session |-> AnyKey]
  /\ kept = [s \in Session |-> "none"]
  /\ storeLock = NoOwner
  /\ gpc = "idle" /\ goal = "report" /\ subject = AnyKey /\ toRead = {} /\ toList = {}
  /\ guarded = {} /\ doubt = FALSE /\ live = FALSE /\ report = NoReport
  /\ left = {} /\ leftRoots = {} /\ torn = {}
  /\ runs = 0 /\ sessionDeaths = 0 /\ meddles = 0

Alive(s) == phase[s] = "open"
Valid(k) == entry[k] \in {"good", "tampered"}   \* readEntry and inspectEntry accept it
SessionGoes(s, step) == sessionStep' = [sessionStep EXCEPT ![s] = step]
Unlock(s) == SessionGoes(s, "idle") /\ storeLock' = NoOwner

-----------------------------------------------------------------------------
(* Sessions.                                                                *)

\* leaseTransitions "initialize": the empty lease is written without the store lock.
Initialize(s) ==
  /\ phase[s] = "absent"
  /\ phase' = [phase EXCEPT ![s] = "open"]
  /\ leaseFiles' = leaseFiles \cup {s}
  /\ UNCHANGED <<store, files, keys, reg, atHand, storeLock, gc, torn, storeSpent>>

\* The scope closes; the lease file goes without the store lock.
ReleaseLease(s) ==
  /\ Alive(s) /\ sessionStep[s] = "idle"
  /\ phase' = [phase EXCEPT ![s] = "released"]
  /\ leaseFiles' = leaseFiles \ {s}
  /\ UNCHANGED <<store, files, keys, reg, atHand, storeLock, gc, torn, storeSpent>>

\* Under the lock from its check to its write, before the first remote include is acquired.
RegisterRoot(s, r) ==
  /\ Alive(s) /\ sessionStep[s] = "idle" /\ storeLock = NoOwner
  /\ r \notin reg[s]
  /\ roots' = roots \cup {r}
  /\ reg' = [reg EXCEPT ![s] = @ \cup {r}]
  /\ UNCHANGED <<entry, recent, files, leaseFiles, keys, phase, atHand, storeLock, gc, torn, storeSpent>>

\* A key the session holds already opens without the lock and changes nothing.
Open(s, k) ==
  /\ Alive(s) /\ sessionStep[s] = "idle" /\ storeLock = NoOwner
  /\ k \notin keys[s] /\ Valid(k)
  /\ storeLock' = s
  /\ hand' = [hand EXCEPT ![s] = k]
  /\ SessionGoes(s, "touch")
  /\ UNCHANGED <<store, files, lease, kept, gc, torn, storeSpent>>

\* The staged tree is complete; readEntry decides under the lock whether it goes into place.
Publish(s, k) ==
  /\ Alive(s) /\ sessionStep[s] = "idle" /\ storeLock = NoOwner
  /\ storeLock' = s
  /\ hand' = [hand EXCEPT ![s] = k]
  /\ \E repair \in BOOLEAN :
       SessionGoes(s, IF Valid(k) /\ ~(repair /\ entry[k] = "tampered") THEN "touch" ELSE "swapOut")
  /\ UNCHANGED <<store, files, lease, kept, gc, torn, storeSpent>>

SwapOut(s) ==
  LET k == hand[s] IN
  /\ sessionStep[s] = "swapOut"
  /\ kept' = [kept EXCEPT ![s] = entry[k]]
  /\ entry' = [entry EXCEPT ![k] = "none"]
  /\ SessionGoes(s, "swapIn")
  /\ UNCHANGED <<recent, roots, files, lease, hand, storeLock, gc, torn, storeSpent>>

\* entry.json was written before the lock was taken: before or after the cutoff.
SwapIn(s) ==
  LET k == hand[s] IN
  /\ sessionStep[s] = "swapIn"
  /\ entry' = [entry EXCEPT ![k] = "good"]
  /\ recent' \in {recent \cup {k}} \cup IF long THEN {} ELSE {recent \ {k}}
  /\ torn' = torn \ {k}
  /\ kept' = [kept EXCEPT ![s] = "none"]
  /\ SessionGoes(s, "touch")
  /\ UNCHANGED <<roots, files, lease, hand, storeLock, gc, storeSpent>>

\* The rename into place fails: what was there is put back.
SwapFails(s) ==
  LET k == hand[s] IN
  /\ sessionStep[s] = "swapIn"
  /\ entry' = [entry EXCEPT ![k] = kept[s]]
  /\ kept' = [kept EXCEPT ![s] = "none"]
  /\ Unlock(s)
  /\ UNCHANGED <<recent, roots, files, lease, hand, gc, torn, storeSpent>>

Touch_KeepsAge(s) ==
  /\ sessionStep[s] = "touch"
  /\ IF hand[s] \in keys[s] THEN Unlock(s) ELSE SessionGoes(s, "lease") /\ UNCHANGED storeLock
  /\ UNCHANGED <<store, files, lease, hand, kept, gc, torn, storeSpent>>

\* register: nothing to do for a key the session holds.
Touch(s) ==
  LET k == hand[s] IN
  /\ sessionStep[s] = "touch"
  /\ IF k \in keys[s]
       THEN Unlock(s) /\ UNCHANGED recent
       ELSE /\ entry[k] # "none"
            /\ recent' = recent \cup {k}
            /\ SessionGoes(s, "lease") /\ UNCHANGED storeLock
  /\ UNCHANGED <<entry, roots, files, lease, hand, kept, gc, torn, storeSpent>>

\* The rename of the lease file commits the key in the file and in memory.
WriteLease(s) ==
  /\ sessionStep[s] = "lease"
  /\ keys' = [keys EXCEPT ![s] = @ \cup {hand[s]}]
  /\ Unlock(s)
  /\ UNCHANGED <<store, files, leaseFiles, phase, reg, hand, kept, gc, torn, storeSpent>>

\* utimes or the lease write fails: the operation fails and leases nothing.
RegisterFails(s) ==
  /\ sessionStep[s] \in {"touch", "lease"} /\ hand[s] \notin keys[s]
  /\ Unlock(s)
  /\ UNCHANGED <<store, files, lease, hand, kept, gc, torn, storeSpent>>

\* writeLockEntries: a scoped update keeps the other pins.  It fails on a lockfile it cannot
\* read.  Its caller keeps the session open until it is done.
WriteLockfile(s, r) ==
  /\ Alive(s) /\ sessionStep[s] = "idle" /\ r \in reg[s]
  /\ status[r] # "corrupt"
  /\ \E used \in SUBSET keys[s], others \in {{}, pins[r]} : pins' = [pins EXCEPT ![r] = used \cup others]
  /\ status' = [status EXCEPT ![r] = "ok"]
  /\ UNCHANGED <<store, lease, atHand, storeLock, gc, torn, storeSpent>>

\* A dead process keeps its lease file; nobody but the collector removes it.
SessionDies(s) ==
  /\ Alive(s) /\ sessionDeaths < MaxDeaths
  /\ sessionDeaths' = sessionDeaths + 1
  /\ phase' = [phase EXCEPT ![s] = "dead"]
  /\ storeLock' = IF storeLock = s THEN NoOwner ELSE storeLock
  /\ torn' = IF sessionStep[s] = "swapIn" THEN torn \cup {hand[s]} ELSE torn
  /\ SessionGoes(s, "idle")
  /\ UNCHANGED <<store, files, leaseFiles, keys, reg, hand, kept, gc, runs, meddles>>

-----------------------------------------------------------------------------
(* The collector: one report pass without the lock, then a pass under the   *)
(* lock for every candidate, each reading lockfiles and leases one by one.  *)

Collecting == UNCHANGED <<files, lease, atHand, torn>>
NewView == guarded' = {} /\ doubt' = FALSE /\ live' = FALSE

\* Keys touched by a session that is still going.
InSession == {k \in Key : \E s \in Session : \/ Alive(s) /\ k \in keys[s]
                                             \/ sessionStep[s] = "lease" /\ hand[s] = k}

\* The cutoff is now less the threshold.
GcStart ==
  /\ gpc = "idle" /\ runs < MaxRuns
  /\ runs' = runs + 1
  /\ recent' \in {R \in SUBSET Key : long => InSession \subseteq R}
  /\ goal' = "report" /\ gpc' = "refs" /\ toRead' = roots /\ NewView
  /\ leftRoots' = roots
  /\ UNCHANGED <<entry, roots, storeLock, subject, toList, report, left, sessionDeaths, meddles>> /\ Collecting

\* reachability: an unreadable lockfile makes it incomplete, a missing one pins nothing.
GcReadLockfile(r) ==
  /\ gpc = "refs" /\ r \in toRead
  /\ toRead' = toRead \ {r}
  /\ guarded' = IF status[r] = "ok" THEN guarded \cup pins[r] ELSE guarded
  /\ doubt' = (doubt \/ status[r] = "corrupt")
  /\ UNCHANGED <<store, storeLock, gpc, goal, subject, toList, live, report, left, leftRoots, storeSpent>>
  /\ Collecting

GcListLeases ==
  /\ gpc = "refs" /\ toRead = {}
  /\ toList' = leaseFiles
  /\ gpc' = "leases"
  /\ UNCHANGED <<store, storeLock, goal, subject, toRead, view, report, left, leftRoots, storeSpent>>
  /\ Collecting

\* A lease that went between the listing and its read counts as live and unreadable.
GcReadLease(s) ==
  /\ gpc = "leases" /\ s \in toList
  /\ toList' = toList \ {s}
  /\ guarded' = IF s \in leaseFiles /\ Alive(s) THEN guarded \cup keys[s] ELSE guarded
  /\ live' = (live \/ s \notin leaseFiles \/ Alive(s))
  /\ doubt' = (doubt \/ s \notin leaseFiles)
  /\ UNCHANGED <<store, storeLock, gpc, goal, subject, toRead, report, left, leftRoots, storeSpent>>
  /\ Collecting

LeasesRead == gpc = "leases" /\ toList = {}

GcReportDone ==
  /\ LeasesRead /\ goal = "report"
  /\ report' = [guarded |-> guarded, doubt |-> doubt]
  /\ left' = {k \in Key : entry[k] # "none"}
  /\ gpc' = "inventory" /\ NewView
  /\ UNCHANGED <<store, storeLock, goal, subject, toRead, toList, leftRoots, storeSpent>> /\ Collecting

\* describeEntry: only entries without a guard, old or invalid.
Eligible(k, seen, unsure) == /\ entry[k] # "none" /\ k \notin seen /\ ~unsure
                             /\ (Valid(k) => k \notin recent)

GcSkip(k) ==
  /\ gpc = "inventory" /\ k \in left
  /\ ~Eligible(k, report.guarded, report.doubt)
  /\ left' = left \ {k}
  /\ UNCHANGED <<store, storeLock, gpc, goal, subject, toRead, toList, view, report, leftRoots, storeSpent>>
  /\ Collecting

\* A candidate of the report: retire takes the lock and looks at everything again.
GcPick(k) ==
  /\ gpc = "inventory" /\ k \in left
  /\ Eligible(k, report.guarded, report.doubt)
  /\ storeLock = NoOwner
  /\ storeLock' = Collector
  /\ goal' = "entry" /\ subject' = k /\ gpc' = "refs" /\ toRead' = roots /\ NewView
  /\ left' = left \ {k}
  /\ UNCHANGED <<store, toList, report, leftRoots, storeSpent>> /\ Collecting

GcDecide_OnReport ==
  /\ LeasesRead /\ goal = "entry"
  /\ IF Eligible(subject, report.guarded, report.doubt)
       THEN gpc' = "rename" /\ UNCHANGED storeLock
       ELSE gpc' = "inventory" /\ storeLock' = NoOwner
  /\ UNCHANGED <<store, goal, subject, toRead, toList, view, report, left, leftRoots, storeSpent>>
  /\ Collecting

GcDecide ==
  /\ LeasesRead /\ goal = "entry"
  /\ IF Eligible(subject, guarded, doubt)
       THEN gpc' = "rename" /\ UNCHANGED storeLock
       ELSE gpc' = "inventory" /\ storeLock' = NoOwner
  /\ UNCHANGED <<store, goal, subject, toRead, toList, view, report, left, leftRoots, storeSpent>>
  /\ Collecting

\* Renamed aside under the lock; erasing the aside copy changes nothing anybody sees.
GcRename ==
  /\ gpc = "rename"
  /\ entry' = [entry EXCEPT ![subject] = "none"]
  /\ gpc' = "inventory" /\ storeLock' = NoOwner
  /\ UNCHANGED <<recent, roots, goal, subject, toRead, toList, view, report, left, leftRoots, storeSpent>>
  /\ Collecting

\* cleanup, after the entries: a root record is retired when, under the lock, no lease is
\* live and then its lockfile is missing.
GcPickRoot(r) ==
  /\ gpc = "inventory" /\ left = {} /\ r \in leftRoots
  /\ storeLock = NoOwner
  /\ storeLock' = Collector
  /\ goal' = "root" /\ subject' = r /\ gpc' = "leases" /\ toList' = leaseFiles /\ NewView
  /\ leftRoots' = leftRoots \ {r}
  /\ UNCHANGED <<store, toRead, report, left, storeSpent>> /\ Collecting

GcRetireRoot_EvenLive ==
  /\ LeasesRead /\ goal = "root"
  /\ roots' = IF status[subject] = "missing" THEN roots \ {subject} ELSE roots
  /\ gpc' = "inventory" /\ storeLock' = NoOwner
  /\ UNCHANGED <<entry, recent, goal, subject, toRead, toList, view, report, left, leftRoots, storeSpent>>
  /\ Collecting

GcRetireRoot ==
  /\ LeasesRead /\ goal = "root"
  /\ roots' = IF ~live /\ status[subject] = "missing" THEN roots \ {subject} ELSE roots
  /\ gpc' = "inventory" /\ storeLock' = NoOwner
  /\ UNCHANGED <<entry, recent, goal, subject, toRead, toList, view, report, left, leftRoots, storeSpent>>
  /\ Collecting

\* The lease of a dead process, looked at again under the lock and renamed aside.
GcRemoveDeadLease(s) ==
  /\ gpc = "inventory" /\ left = {} /\ leftRoots = {} /\ storeLock = NoOwner
  /\ s \in leaseFiles /\ phase[s] = "dead"
  /\ leaseFiles' = leaseFiles \ {s}
  /\ UNCHANGED <<store, files, keys, phase, reg, atHand, storeLock, gc, torn, storeSpent>>

GcFinish ==
  /\ gpc = "inventory" /\ left = {} /\ leftRoots = {}
  /\ gpc' = "idle" /\ report' = NoReport
  /\ UNCHANGED <<store, storeLock, goal, subject, toRead, toList, view, left, leftRoots, storeSpent>>
  /\ Collecting

GcCrash ==
  /\ gpc # "idle" /\ sessionDeaths < MaxDeaths
  /\ sessionDeaths' = sessionDeaths + 1
  /\ storeLock' = IF storeLock = Collector THEN NoOwner ELSE storeLock
  /\ gpc' = "idle" /\ toRead' = {} /\ toList' = {} /\ left' = {} /\ leftRoots' = {}
  /\ report' = NoReport /\ NewView
  /\ UNCHANGED <<store, goal, subject, runs, meddles>> /\ Collecting

-----------------------------------------------------------------------------
(* Others.                                                                  *)

DamageEntry(k) ==
  /\ meddles < MaxMeddles /\ Valid(k)
  /\ meddles' = meddles + 1
  /\ \E how \in {"tampered", "bad"} : entry' = [entry EXCEPT ![k] = how]
  /\ UNCHANGED <<recent, roots, files, lease, atHand, storeLock, gc, torn, runs, sessionDeaths>>

\* An app is deleted, or a lockfile is mangled, say by a merge, and mended.
LoseLockfile(r) ==
  /\ meddles < MaxMeddles /\ status[r] # "missing"
  /\ meddles' = meddles + 1
  /\ \/ /\ status' = [status EXCEPT ![r] = "missing"]
        /\ pins' = [pins EXCEPT ![r] = {}]
     \/ /\ status' = [status EXCEPT ![r] = IF @ = "ok" THEN "corrupt" ELSE "ok"]
        /\ UNCHANGED pins
  /\ UNCHANGED <<store, lease, atHand, storeLock, gc, torn, runs, sessionDeaths>>

Acquiring(s) ==
  \/ Initialize(s) \/ ReleaseLease(s)
  \/ \E r \in Root : RegisterRoot(s, r) \/ WriteLockfile(s, r)
  \/ \E k \in Key : Open(s, k) \/ Publish(s, k)
  \/ SwapOut(s) \/ SwapIn(s) \/ SwapFails(s) \/ Touch(s) \/ WriteLease(s) \/ RegisterFails(s)

Gc ==
  \/ GcStart \/ GcListLeases \/ GcReportDone \/ GcDecide \/ GcRename \/ GcRetireRoot \/ GcFinish
  \/ \E r \in Root : GcReadLockfile(r) \/ GcPickRoot(r)
  \/ \E s \in Session : GcReadLease(s) \/ GcRemoveDeadLease(s)
  \/ \E k \in Key : GcSkip(k) \/ GcPick(k)
  \/ GcCrash

StoreNext ==
  /\ UNCHANGED long
  /\ \/ \E s \in Session : Acquiring(s) \/ SessionDies(s)
     \/ Gc
     \/ \E k \in Key : DamageEntry(k)
     \/ \E r \in Root : LoseLockfile(r)

StoreSpec == StoreInit /\ [][StoreNext]_storeVars

-----------------------------------------------------------------------------
(* Properties.                                                              *)

\* Every variable has its type, and a session between two steps of an operation is the one
\* that holds the store lock (storage.ts locked).
StoreTypeOK ==
  /\ long \in BOOLEAN
  /\ entry \in [Key -> {"none", "good", "tampered", "bad"}]
  /\ recent \subseteq Key /\ roots \subseteq Root
  /\ status \in [Root -> {"missing", "ok", "corrupt"}] /\ pins \in [Root -> SUBSET Key]
  /\ leaseFiles \subseteq Session /\ keys \in [Session -> SUBSET Key]
  /\ phase \in [Session -> {"absent", "open", "released", "dead"}]
  /\ reg \in [Session -> SUBSET Root]
  /\ sessionStep \in [Session -> {"idle", "touch", "swapOut", "swapIn", "lease"}]
  /\ hand \in [Session -> Key] /\ kept \in [Session -> {"none", "good", "tampered", "bad"}]
  /\ storeLock \in Session \cup {Collector, NoOwner}
  /\ \A s \in Session : storeLock = s <=> sessionStep[s] # "idle"
  /\ gpc \in {"idle", "refs", "leases", "inventory", "rename"}
  /\ goal \in {"report", "entry", "root"} /\ subject \in Key \cup Root
  /\ toRead \subseteq Root /\ toList \subseteq Session
  /\ guarded \subseteq Key /\ doubt \in BOOLEAN /\ live \in BOOLEAN
  /\ report \in [guarded : SUBSET Key, doubt : BOOLEAN]
  /\ left \subseteq Key /\ leftRoots \subseteq Root /\ torn \subseteq Key
  /\ runs \in 0..MaxRuns /\ sessionDeaths \in 0..MaxDeaths /\ meddles \in 0..MaxMeddles

\* An entry leased by a live session stays in place, except while a publication replaces it
\* and after a death in the middle of that (register under the lock, gc-prune.ts retire).
LeasedPresent ==
  \A s \in Session : \A k \in keys[s] :
    Alive(s) /\ entry[k] = "none"
      => k \in torn \/ \E t \in Session : sessionStep[t] = "swapIn" /\ hand[t] = k

\* A registered lockfile is protected before the entries it pins exist: neither a root a live
\* session registered nor one whose lockfile exists is retired (gc-cleanup.ts).
RootsHeld ==
  \A r \in Root :
    status[r] # "missing" \/ (\E s \in Session : Alive(s) /\ r \in reg[s]) => r \in roots

Takes(k) == gpc = "rename" /\ subject = k /\ Valid(k) /\ entry'[k] = "none"

\* "Entries pinned by any registered .lando.lock.yml are never removed": not those that can be
\* used, by the collector, whatever its threshold.
PinnedAlwaysKept == [][\A k \in Key : Takes(k) => \A r \in roots : k \notin pins[r]]_storeVars

\* With a threshold longer than any session that holds (gc-prune.ts).
PinnedKept == [][\A k \in Key : Takes(k) => ~long \/ \A r \in roots : k \notin pins[r]]_storeVars
=============================================================================

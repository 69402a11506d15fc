--------------------------- MODULE StoresProofs -----------------------------
(***************************************************************************)
(* What the source store keeps for its users, for any number of sessions,  *)
(* keys, lockfiles, collections, deaths and damages; and what commands     *)
(* leave of scratch apps, for any number of commands, apps and accidents.  *)
(***************************************************************************)
EXTENDS SourceStore, ScratchApps, TLAPS

-----------------------------------------------------------------------------
(* The source store.                                                        *)

\* The collector holds the store lock exactly during a pass for a candidate.
PassUnderLock ==
  /\ storeLock = Collector <=> goal \in {"entry", "root"} /\ gpc \in {"refs", "leases", "rename"}
  /\ gpc = "rename" => goal = "entry"

\* A session works and leases only while it is open, and then it has a lease file.
LifeCycle ==
  \A s \in Session : /\ sessionStep[s] # "idle" => Alive(s)
                     /\ Alive(s) => s \in leaseFiles
                     /\ phase[s] = "absent" => keys[s] = {} /\ reg[s] = {}

MissingPinsNothing == \A r \in Root : status[r] = "missing" => pins[r] = {}

TypeInv == StoreTypeOK /\ PassUnderLock /\ LifeCycle /\ MissingPinsNothing

\* What keeps a leased entry in place: the session at "lease" has seen it, whoever swaps puts
\* it back, and the collector has seen every lease that could name its candidate.
Seen == \A s \in Session : sessionStep[s] = "lease" => entry[hand[s]] # "none"
PutBack ==
  \A t \in Session :
    sessionStep[t] = "swapIn" /\ kept[t] = "none"
      => hand[t] \in torn \/ \A s \in Session : Alive(s) => hand[t] \notin keys[s]
LeasesLooked ==
  \A s \in Session : Alive(s) =>
    /\ gpc = "leases" /\ goal = "entry" /\ s \notin toList => keys[s] \subseteq guarded
    /\ gpc = "rename" => subject \notin keys[s]
PresentInv == LeasedPresent /\ Seen /\ PutBack /\ LeasesLooked

\* A live session the collector has passed in its look for a root record has registered none.
RootsLooked ==
  gpc = "leases" /\ goal = "root" /\ ~live
    => \A s \in Session : Alive(s) /\ s \notin toList => reg[s] = {}
RootInv == RootsHeld /\ RootsLooked

\* With a long threshold a key some session has touched is recent, and a pin the collector
\* has not seen names a recent key.
SessionsRecent == long /\ gpc # "idle" => InSession \subseteq recent
PinsLooked ==
  /\ gpc = "leases" /\ goal = "entry" => toRead = {}
  /\ long /\ goal = "entry" /\ gpc \in {"refs", "leases"} /\ ~doubt
       => \A r \in roots \ toRead : pins[r] \subseteq guarded \cup recent
  /\ long /\ gpc = "rename" /\ Valid(subject)
       => subject \notin recent /\ \A r \in roots : subject \notin pins[r]
PinInv == SessionsRecent /\ PinsLooked

-----------------------------------------------------------------------------
(* Types, the store lock and the life cycle of sessions.                    *)

LEMMA TypeInit == StoreInit => TypeInv
<1> SUFFICES ASSUME StoreInit PROVE TypeInv
  OBVIOUS
<1>1. AnyKey \in Key
  BY KeyAssumption DEF KeyAssumption, AnyKey
<1>2. /\ long \in BOOLEAN /\ report \in [guarded : SUBSET Key, doubt : BOOLEAN]
      /\ entry \in [Key -> {"none", "good", "tampered", "bad"}]
      /\ status \in [Root -> {"missing", "ok", "corrupt"}] /\ pins \in [Root -> SUBSET Key]
  BY ThresholdAssumption DEF ThresholdAssumption, StoreInit, NoReport
<1>3. /\ keys \in [Session -> SUBSET Key] /\ reg \in [Session -> SUBSET Root]
      /\ phase \in [Session -> {"absent", "open", "released", "dead"}]
      /\ sessionStep \in [Session -> {"idle", "touch", "swapOut", "swapIn", "lease"}]
      /\ hand \in [Session -> Key] /\ kept \in [Session -> {"none", "good", "tampered", "bad"}]
  BY <1>1 DEF StoreInit
<1>4. /\ recent \subseteq Key /\ roots \subseteq Root /\ leaseFiles \subseteq Session
      /\ storeLock \in Session \cup {Collector, NoOwner}
      /\ \A s \in Session : storeLock = s <=> sessionStep[s] # "idle"
      /\ storeLock # Collector
  BY NamesAssumption DEF NamesAssumption, StoreInit
<1>5. /\ gpc \in {"idle", "refs", "leases", "inventory", "rename"}
      /\ goal \in {"report", "entry", "root"} /\ subject \in Key \cup Root
      /\ toRead \subseteq Root /\ toList \subseteq Session
      /\ guarded \subseteq Key /\ doubt \in BOOLEAN /\ live \in BOOLEAN
      /\ left \subseteq Key /\ leftRoots \subseteq Root /\ torn \subseteq Key
  BY <1>1 DEF StoreInit
<1>6. runs \in 0..MaxRuns /\ sessionDeaths \in 0..MaxDeaths /\ meddles \in 0..MaxMeddles
  <2>1. runs = 0 /\ sessionDeaths = 0 /\ meddles = 0
    BY DEF StoreInit
  <2> QED BY <2>1, StoreBoundsAssumption DEF StoreBoundsAssumption
<1>7. PassUnderLock /\ LifeCycle /\ MissingPinsNothing
  BY <1>4 DEF StoreInit, PassUnderLock, LifeCycle, MissingPinsNothing, Alive
<1> QED
  BY <1>2, <1>3, <1>4, <1>5, <1>6, <1>7 DEF TypeInv, StoreTypeOK

\* What a session does: it holds the lock between the first and the last step of an operation.
LEMMA TypeSession ==
  ASSUME TypeInv, UNCHANGED long, NEW s \in Session, Acquiring(s) \/ SessionDies(s)
  PROVE  TypeInv'
<1> USE NamesAssumption DEF NamesAssumption
<1> USE DEF TypeInv, StoreTypeOK, PassUnderLock, LifeCycle, MissingPinsNothing, Alive, SessionGoes, Unlock,
            store, files, lease, atHand, view, gc, storeSpent
<1>1. CASE Initialize(s)
  BY <1>1 DEF Initialize
<1>2. CASE ReleaseLease(s)
  BY <1>2 DEF ReleaseLease
<1>3. CASE SwapOut(s)
  BY <1>3 DEF SwapOut
<1>4. CASE SwapIn(s)
  BY <1>4 DEF SwapIn
<1>5. CASE SwapFails(s)
  BY <1>5 DEF SwapFails
<1>6. CASE Touch(s)
  BY <1>6 DEF Touch
<1>7. CASE WriteLease(s)
  BY <1>7 DEF WriteLease
<1>8. CASE RegisterFails(s)
  BY <1>8 DEF RegisterFails
<1>9. ASSUME NEW r \in Root, RegisterRoot(s, r) PROVE TypeInv'
  BY <1>9 DEF RegisterRoot
<1>10. ASSUME NEW r \in Root, WriteLockfile(s, r) PROVE TypeInv'
  BY <1>10 DEF WriteLockfile
<1>11. ASSUME NEW k \in Key, Open(s, k) PROVE TypeInv'
  BY <1>11 DEF Open
<1>12. ASSUME NEW k \in Key, Publish(s, k) PROVE TypeInv'
  BY <1>12 DEF Publish
<1>13. CASE SessionDies(s)
  BY <1>13, StoreBoundsAssumption DEF SessionDies, StoreBoundsAssumption
<1> QED BY <1>1, <1>2, <1>3, <1>4, <1>5, <1>6, <1>7, <1>8, <1>9, <1>10, <1>11, <1>12, <1>13 DEF Acquiring

LEMMA TypeCollector == TypeInv /\ UNCHANGED long /\ Gc => TypeInv'
<1> SUFFICES ASSUME TypeInv, UNCHANGED long, Gc PROVE TypeInv'
  OBVIOUS
<1> USE NamesAssumption DEF NamesAssumption
<1> USE DEF TypeInv, StoreTypeOK, PassUnderLock, LifeCycle, MissingPinsNothing, Alive, SessionGoes, Collecting,
            NewView, NoReport, store, files, lease, atHand, view, gc, storeSpent
<1>1. CASE GcListLeases
  BY <1>1 DEF GcListLeases, LeasesRead
<1>2. CASE GcReportDone
  BY <1>2 DEF GcReportDone, LeasesRead
<1>3. CASE GcDecide
  BY <1>3 DEF GcDecide, LeasesRead
<1>4. CASE GcRename
  <2>1. entry' \in [Key -> {"none", "good", "tampered", "bad"}]
    BY <1>4 DEF GcRename
  <2>2. gpc = "rename" /\ storeLock = Collector /\ storeLock' = NoOwner /\ gpc' = "inventory"
    BY <1>4 DEF GcRename
  <2> QED BY <1>4, <2>1, <2>2 DEF GcRename
<1>5. CASE GcRetireRoot
  BY <1>5 DEF GcRetireRoot, LeasesRead
<1>6. CASE GcFinish
  BY <1>6 DEF GcFinish, LeasesRead
<1>7. CASE GcStart
  <2>1. runs' \in 0..MaxRuns /\ recent' \subseteq Key
    BY <1>7, StoreBoundsAssumption DEF GcStart, StoreBoundsAssumption
  <2>2. gpc = "idle" /\ gpc' = "refs" /\ goal' = "report" /\ storeLock' = storeLock
    BY <1>7 DEF GcStart
  <2> QED BY <1>7, <2>1, <2>2 DEF GcStart
<1>8. CASE GcCrash
  <2>1. sessionDeaths' \in 0..MaxDeaths /\ report' \in [guarded : SUBSET Key, doubt : BOOLEAN]
    BY <1>8, StoreBoundsAssumption DEF GcCrash, StoreBoundsAssumption
  <2>2. gpc' = "idle" /\ storeLock' # Collector
    BY <1>8 DEF GcCrash
  <2>3. /\ UNCHANGED <<entry, recent, roots, files, lease, atHand, goal, subject, torn, runs, meddles>>
        /\ toRead' = {} /\ toList' = {} /\ left' = {} /\ leftRoots' = {}
        /\ guarded' = {} /\ doubt' = FALSE /\ live' = FALSE
    BY <1>8 DEF GcCrash
  <2>4. StoreTypeOK'
    <3>1. storeLock' \in Session \cup {NoOwner} /\ \A s \in Session : storeLock' = s <=> storeLock = s
      BY <1>8 DEF GcCrash
    <3> QED BY <2>1, <2>2, <2>3, <3>1
  <2>5. PassUnderLock' /\ LifeCycle' /\ MissingPinsNothing'
    BY <2>2, <2>3
  <2> QED BY <2>4, <2>5
<1>9. ASSUME NEW r \in Root, GcReadLockfile(r) PROVE TypeInv'
  BY <1>9 DEF GcReadLockfile
<1>10. ASSUME NEW r \in Root, GcPickRoot(r) PROVE TypeInv'
  BY <1>10 DEF GcPickRoot
<1>11. ASSUME NEW s \in Session, GcReadLease(s) PROVE TypeInv'
  BY <1>11 DEF GcReadLease
<1>12. ASSUME NEW s \in Session, GcRemoveDeadLease(s) PROVE TypeInv'
  BY <1>12 DEF GcRemoveDeadLease
<1>13. ASSUME NEW k \in Key, GcSkip(k) PROVE TypeInv'
  BY <1>13 DEF GcSkip
<1>14. ASSUME NEW k \in Key, GcPick(k) PROVE TypeInv'
  BY <1>14 DEF GcPick
<1> QED BY <1>1, <1>2, <1>3, <1>4, <1>5, <1>6, <1>7, <1>8, <1>9, <1>10, <1>11, <1>12, <1>13, <1>14 DEF Gc

LEMMA TypeNext == TypeInv /\ [StoreNext]_storeVars => TypeInv'
<1> SUFFICES ASSUME TypeInv, [StoreNext]_storeVars PROVE TypeInv'
  OBVIOUS
<1>1. ASSUME UNCHANGED long, NEW k \in Key, DamageEntry(k) PROVE TypeInv'
  BY <1>1, StoreBoundsAssumption
  DEF StoreBoundsAssumption, TypeInv, StoreTypeOK, PassUnderLock, LifeCycle, MissingPinsNothing, Alive,
      DamageEntry, store, files, lease, atHand, view, gc, storeSpent
<1>2. ASSUME UNCHANGED long, NEW r \in Root, LoseLockfile(r) PROVE TypeInv'
  BY <1>2, StoreBoundsAssumption
  DEF StoreBoundsAssumption, TypeInv, StoreTypeOK, PassUnderLock, LifeCycle, MissingPinsNothing, Alive,
      LoseLockfile, store, files, lease, atHand, view, gc, storeSpent
<1>3. CASE UNCHANGED storeVars
  BY <1>3 DEF storeVars, TypeInv, StoreTypeOK, PassUnderLock, LifeCycle, MissingPinsNothing, Alive,
              store, files, lease, atHand, view, gc, storeSpent
<1> QED BY <1>1, <1>2, <1>3, TypeSession, TypeCollector DEF StoreNext

\* Types hold, and a session in the middle of an operation is the one lock holder.
THEOREM TypeCorrect == StoreSpec => []StoreTypeOK
<1>1. TypeInv => StoreTypeOK
  BY DEF TypeInv
<1> QED BY <1>1, TypeInit, TypeNext, PTL DEF StoreSpec

-----------------------------------------------------------------------------
(* Leased entries.                                                          *)

LEMMA PresentSession ==
  ASSUME TypeInv, TypeInv', PresentInv, UNCHANGED long, NEW s \in Session, Acquiring(s) \/ SessionDies(s)
  PROVE  PresentInv'
<1> USE NamesAssumption DEF NamesAssumption
<1> USE DEF TypeInv, StoreTypeOK, PassUnderLock, LifeCycle, Alive, SessionGoes, Unlock, Collecting,
            NewView, store, files, lease, atHand, view, gc, storeSpent,
            PresentInv, LeasedPresent, Seen, PutBack, LeasesLooked, Eligible, Valid
<1>1. CASE Initialize(s)
  BY <1>1 DEF Initialize
<1>2. CASE ReleaseLease(s)
  BY <1>2 DEF ReleaseLease
<1>3. CASE SwapOut(s)
  BY <1>3 DEF SwapOut
<1>4. CASE SwapIn(s)
  BY <1>4 DEF SwapIn
<1>5. CASE SwapFails(s)
  BY <1>5 DEF SwapFails
<1>6. CASE Touch(s)
  BY <1>6 DEF Touch
<1>7. CASE WriteLease(s)
  BY <1>7 DEF WriteLease
<1>8. CASE RegisterFails(s)
  BY <1>8 DEF RegisterFails
<1>9. ASSUME NEW r \in Root, RegisterRoot(s, r) PROVE PresentInv'
  BY <1>9 DEF RegisterRoot
<1>10. ASSUME NEW r \in Root, WriteLockfile(s, r) PROVE PresentInv'
  BY <1>10 DEF WriteLockfile
<1>11. ASSUME NEW k \in Key, Open(s, k) PROVE PresentInv'
  BY <1>11 DEF Open
<1>12. ASSUME NEW k \in Key, Publish(s, k) PROVE PresentInv'
  BY <1>12 DEF Publish
<1>13. CASE SessionDies(s)
  BY <1>13 DEF SessionDies
<1> QED BY <1>1, <1>2, <1>3, <1>4, <1>5, <1>6, <1>7, <1>8, <1>9, <1>10, <1>11, <1>12, <1>13 DEF Acquiring

LEMMA PresentCollector == TypeInv /\ TypeInv' /\ PresentInv /\ UNCHANGED long /\ Gc => PresentInv'
<1> SUFFICES ASSUME TypeInv, TypeInv', PresentInv, UNCHANGED long, Gc PROVE PresentInv'
  OBVIOUS
<1> USE NamesAssumption DEF NamesAssumption
<1> USE DEF TypeInv, StoreTypeOK, PassUnderLock, LifeCycle, Alive, SessionGoes, Unlock, Collecting,
            NewView, store, files, lease, atHand, view, gc, storeSpent,
            PresentInv, LeasedPresent, Seen, PutBack, LeasesLooked, Eligible, Valid
<1>1. CASE GcStart
  BY <1>1 DEF GcStart, LeasesRead
<1>2. CASE GcListLeases
  BY <1>2 DEF GcListLeases, LeasesRead
<1>3. CASE GcReportDone
  BY <1>3 DEF GcReportDone, LeasesRead
<1>4. CASE GcDecide
  BY <1>4 DEF GcDecide, LeasesRead
<1>5. CASE GcRename
  BY <1>5 DEF GcRename, LeasesRead
<1>6. CASE GcRetireRoot
  BY <1>6 DEF GcRetireRoot, LeasesRead
<1>7. CASE GcFinish
  BY <1>7 DEF GcFinish, LeasesRead
<1>8. CASE GcCrash
  BY <1>8 DEF GcCrash, LeasesRead
<1>9. ASSUME NEW r \in Root, GcReadLockfile(r) PROVE PresentInv'
  BY <1>9 DEF GcReadLockfile
<1>10. ASSUME NEW r \in Root, GcPickRoot(r) PROVE PresentInv'
  BY <1>10 DEF GcPickRoot
<1>11. ASSUME NEW s \in Session, GcReadLease(s) PROVE PresentInv'
  BY <1>11 DEF GcReadLease
<1>12. ASSUME NEW s \in Session, GcRemoveDeadLease(s) PROVE PresentInv'
  BY <1>12 DEF GcRemoveDeadLease
<1>13. ASSUME NEW k \in Key, GcSkip(k) PROVE PresentInv'
  BY <1>13 DEF GcSkip
<1>14. ASSUME NEW k \in Key, GcPick(k) PROVE PresentInv'
  BY <1>14 DEF GcPick
<1> QED BY <1>1, <1>2, <1>3, <1>4, <1>5, <1>6, <1>7, <1>8, <1>9, <1>10, <1>11, <1>12, <1>13, <1>14 DEF Gc

LEMMA PresentNext == TypeInv /\ TypeInv' /\ PresentInv /\ [StoreNext]_storeVars => PresentInv'
<1> SUFFICES ASSUME TypeInv, TypeInv', PresentInv, [StoreNext]_storeVars PROVE PresentInv'
  OBVIOUS
<1>1. ASSUME UNCHANGED long, NEW k \in Key, DamageEntry(k) PROVE PresentInv'
  BY <1>1 DEF TypeInv, StoreTypeOK, PassUnderLock, LifeCycle, Alive, SessionGoes, Unlock, Collecting,
            NewView, store, files, lease, atHand, view, gc, storeSpent,
            PresentInv, LeasedPresent, Seen, PutBack, LeasesLooked, Eligible, Valid, DamageEntry
<1>2. ASSUME UNCHANGED long, NEW r \in Root, LoseLockfile(r) PROVE PresentInv'
  BY <1>2 DEF TypeInv, StoreTypeOK, PassUnderLock, LifeCycle, Alive, SessionGoes, Unlock, Collecting,
            NewView, store, files, lease, atHand, view, gc, storeSpent,
            PresentInv, LeasedPresent, Seen, PutBack, LeasesLooked, Eligible, Valid, LoseLockfile
<1>3. CASE UNCHANGED storeVars
  BY <1>3 DEF TypeInv, StoreTypeOK, PassUnderLock, LifeCycle, Alive, SessionGoes, Unlock, Collecting,
            NewView, store, files, lease, atHand, view, gc, storeSpent,
            PresentInv, LeasedPresent, Seen, PutBack, LeasesLooked, Eligible, Valid, storeVars
<1> QED BY <1>1, <1>2, <1>3, PresentSession, PresentCollector DEF StoreNext

\* No collector, publication, failed rename or damage takes an entry from a session that
\* leases it, unless the process replacing it dies between its two renames.
THEOREM LeasesKept == StoreSpec => []LeasedPresent
<1>1. StoreInit => PresentInv
  BY DEF StoreInit, PresentInv, LeasedPresent, Seen, PutBack, LeasesLooked, Alive
<1>2. PresentInv => LeasedPresent
  BY DEF PresentInv
<1> QED BY <1>1, <1>2, PresentNext, TypeInit, TypeNext, PTL DEF StoreSpec

-----------------------------------------------------------------------------
(* Root records.                                                            *)

LEMMA RootSession ==
  ASSUME TypeInv, TypeInv', RootInv, UNCHANGED long, NEW s \in Session, Acquiring(s) \/ SessionDies(s)
  PROVE  RootInv'
<1> USE NamesAssumption DEF NamesAssumption
<1> USE DEF TypeInv, StoreTypeOK, PassUnderLock, LifeCycle, MissingPinsNothing, Alive, SessionGoes, Unlock,
            Collecting, NewView, store, files, lease, atHand, view, gc, storeSpent,
            RootInv, RootsHeld, RootsLooked
<1>1. CASE Initialize(s)
  BY <1>1 DEF Initialize
<1>2. CASE ReleaseLease(s)
  BY <1>2 DEF ReleaseLease
<1>3. CASE SwapOut(s)
  BY <1>3 DEF SwapOut
<1>4. CASE SwapIn(s)
  BY <1>4 DEF SwapIn
<1>5. CASE SwapFails(s)
  BY <1>5 DEF SwapFails
<1>6. CASE Touch(s)
  BY <1>6 DEF Touch
<1>7. CASE WriteLease(s)
  BY <1>7 DEF WriteLease
<1>8. CASE RegisterFails(s)
  BY <1>8 DEF RegisterFails
<1>9. ASSUME NEW r \in Root, RegisterRoot(s, r) PROVE RootInv'
  BY <1>9 DEF RegisterRoot
<1>10. ASSUME NEW r \in Root, WriteLockfile(s, r) PROVE RootInv'
  BY <1>10 DEF WriteLockfile
<1>11. ASSUME NEW k \in Key, Open(s, k) PROVE RootInv'
  BY <1>11 DEF Open
<1>12. ASSUME NEW k \in Key, Publish(s, k) PROVE RootInv'
  BY <1>12 DEF Publish
<1>13. CASE SessionDies(s)
  BY <1>13 DEF SessionDies
<1> QED BY <1>1, <1>2, <1>3, <1>4, <1>5, <1>6, <1>7, <1>8, <1>9, <1>10, <1>11, <1>12, <1>13 DEF Acquiring

LEMMA RootCollector == TypeInv /\ TypeInv' /\ RootInv /\ UNCHANGED long /\ Gc => RootInv'
<1> SUFFICES ASSUME TypeInv, TypeInv', RootInv, UNCHANGED long, Gc PROVE RootInv'
  OBVIOUS
<1> USE NamesAssumption DEF NamesAssumption
<1> USE DEF TypeInv, StoreTypeOK, PassUnderLock, LifeCycle, MissingPinsNothing, Alive, SessionGoes, Unlock,
            Collecting, NewView, store, files, lease, atHand, view, gc, storeSpent,
            RootInv, RootsHeld, RootsLooked
<1>1. CASE GcStart
  BY <1>1 DEF GcStart, LeasesRead
<1>2. CASE GcListLeases
  BY <1>2 DEF GcListLeases, LeasesRead
<1>3. CASE GcReportDone
  BY <1>3 DEF GcReportDone, LeasesRead
<1>4. CASE GcDecide
  BY <1>4 DEF GcDecide, LeasesRead
<1>5. CASE GcRename
  BY <1>5 DEF GcRename, LeasesRead
<1>6. CASE GcRetireRoot
  BY <1>6 DEF GcRetireRoot, LeasesRead
<1>7. CASE GcFinish
  BY <1>7 DEF GcFinish, LeasesRead
<1>8. CASE GcCrash
  BY <1>8 DEF GcCrash, LeasesRead
<1>9. ASSUME NEW r \in Root, GcReadLockfile(r) PROVE RootInv'
  BY <1>9 DEF GcReadLockfile
<1>10. ASSUME NEW r \in Root, GcPickRoot(r) PROVE RootInv'
  BY <1>10 DEF GcPickRoot
<1>11. ASSUME NEW s \in Session, GcReadLease(s) PROVE RootInv'
  BY <1>11 DEF GcReadLease
<1>12. ASSUME NEW s \in Session, GcRemoveDeadLease(s) PROVE RootInv'
  BY <1>12 DEF GcRemoveDeadLease
<1>13. ASSUME NEW k \in Key, GcSkip(k) PROVE RootInv'
  BY <1>13 DEF GcSkip
<1>14. ASSUME NEW k \in Key, GcPick(k) PROVE RootInv'
  BY <1>14 DEF GcPick
<1> QED BY <1>1, <1>2, <1>3, <1>4, <1>5, <1>6, <1>7, <1>8, <1>9, <1>10, <1>11, <1>12, <1>13, <1>14 DEF Gc

LEMMA RootNext == TypeInv /\ TypeInv' /\ RootInv /\ [StoreNext]_storeVars => RootInv'
<1> SUFFICES ASSUME TypeInv, TypeInv', RootInv, [StoreNext]_storeVars PROVE RootInv'
  OBVIOUS
<1>1. ASSUME UNCHANGED long, NEW k \in Key, DamageEntry(k) PROVE RootInv'
  BY <1>1 DEF TypeInv, StoreTypeOK, PassUnderLock, LifeCycle, MissingPinsNothing, Alive, SessionGoes, Unlock,
            Collecting, NewView, store, files, lease, atHand, view, gc, storeSpent,
            RootInv, RootsHeld, RootsLooked, DamageEntry
<1>2. ASSUME UNCHANGED long, NEW r \in Root, LoseLockfile(r) PROVE RootInv'
  BY <1>2 DEF TypeInv, StoreTypeOK, PassUnderLock, LifeCycle, MissingPinsNothing, Alive, SessionGoes, Unlock,
            Collecting, NewView, store, files, lease, atHand, view, gc, storeSpent,
            RootInv, RootsHeld, RootsLooked, LoseLockfile
<1>3. CASE UNCHANGED storeVars
  BY <1>3 DEF TypeInv, StoreTypeOK, PassUnderLock, LifeCycle, MissingPinsNothing, Alive, SessionGoes, Unlock,
            Collecting, NewView, store, files, lease, atHand, view, gc, storeSpent,
            RootInv, RootsHeld, RootsLooked, storeVars
<1> QED BY <1>1, <1>2, <1>3, RootSession, RootCollector DEF StoreNext

\* A root registered by a live session, or with a lockfile, keeps its record.
THEOREM RootsKept == StoreSpec => []RootsHeld
<1>1. StoreInit => RootInv
  BY DEF StoreInit, RootInv, RootsHeld, RootsLooked, Alive
<1>2. RootInv => RootsHeld
  BY DEF RootInv
<1> QED BY <1>1, <1>2, RootNext, TypeInit, TypeNext, PTL DEF StoreSpec

-----------------------------------------------------------------------------
(* Pinned entries.                                                          *)

LEMMA PinSession ==
  ASSUME TypeInv, RootsHeld, TypeInv', PinInv, UNCHANGED long, NEW s \in Session, Acquiring(s) \/ SessionDies(s)
  PROVE  PinInv'
<1> USE NamesAssumption DEF NamesAssumption
<1> USE DEF TypeInv, StoreTypeOK, PassUnderLock, LifeCycle, MissingPinsNothing, Alive, SessionGoes, Unlock,
            Collecting, NewView, store, files, lease, atHand, view, gc, storeSpent,
            RootsHeld, PinInv, SessionsRecent, PinsLooked, InSession, Eligible, Valid
<1>1. CASE Initialize(s)
  BY <1>1 DEF Initialize
<1>2. CASE ReleaseLease(s)
  BY <1>2 DEF ReleaseLease
<1>3. CASE SwapOut(s)
  BY <1>3 DEF SwapOut
<1>4. CASE SwapIn(s)
  BY <1>4 DEF SwapIn
<1>5. CASE SwapFails(s)
  BY <1>5 DEF SwapFails
<1>6. CASE Touch(s)
  BY <1>6 DEF Touch
<1>7. CASE WriteLease(s)
  BY <1>7 DEF WriteLease
<1>8. CASE RegisterFails(s)
  BY <1>8 DEF RegisterFails
<1>9. ASSUME NEW r \in Root, RegisterRoot(s, r) PROVE PinInv'
  BY <1>9 DEF RegisterRoot
<1>10. ASSUME NEW r \in Root, WriteLockfile(s, r) PROVE PinInv'
  BY <1>10 DEF WriteLockfile
<1>11. ASSUME NEW k \in Key, Open(s, k) PROVE PinInv'
  BY <1>11 DEF Open
<1>12. ASSUME NEW k \in Key, Publish(s, k) PROVE PinInv'
  BY <1>12 DEF Publish
<1>13. CASE SessionDies(s)
  BY <1>13 DEF SessionDies
<1> QED BY <1>1, <1>2, <1>3, <1>4, <1>5, <1>6, <1>7, <1>8, <1>9, <1>10, <1>11, <1>12, <1>13 DEF Acquiring

LEMMA PinCollector == TypeInv /\ RootsHeld /\ TypeInv' /\ PinInv /\ UNCHANGED long /\ Gc => PinInv'
<1> SUFFICES ASSUME TypeInv, RootsHeld, TypeInv', PinInv, UNCHANGED long, Gc PROVE PinInv'
  OBVIOUS
<1> USE NamesAssumption DEF NamesAssumption
<1> USE DEF TypeInv, StoreTypeOK, PassUnderLock, LifeCycle, MissingPinsNothing, Alive, SessionGoes, Unlock,
            Collecting, NewView, store, files, lease, atHand, view, gc, storeSpent,
            RootsHeld, PinInv, SessionsRecent, PinsLooked, InSession, Eligible, Valid
<1>1. CASE GcStart
  BY <1>1 DEF GcStart, LeasesRead
<1>2. CASE GcListLeases
  BY <1>2 DEF GcListLeases, LeasesRead
<1>3. CASE GcReportDone
  BY <1>3 DEF GcReportDone, LeasesRead
<1>4. CASE GcDecide
  <2>1. UNCHANGED <<long, entry, recent, roots, pins, subject, goal, toRead, guarded, doubt>>
    BY <1>4 DEF GcDecide
  <2>2. gpc = "leases" /\ goal = "entry" /\ gpc' \in {"rename", "inventory"}
    BY <1>4 DEF GcDecide, LeasesRead
  <2>3. SessionsRecent'
    BY <1>4, <2>1, <2>2 DEF GcDecide
  <2>4. gpc' = "rename" => Eligible(subject, guarded, doubt)
    BY <1>4 DEF GcDecide
  <2>5. ASSUME long, gpc' = "rename", Valid(subject)
        PROVE  subject \notin recent /\ \A r \in roots : subject \notin pins[r]
    BY <2>2, <2>4, <2>5
  <2> QED BY <2>1, <2>2, <2>3, <2>5
<1>5. CASE GcRename
  BY <1>5 DEF GcRename, LeasesRead
<1>6. CASE GcRetireRoot
  BY <1>6 DEF GcRetireRoot, LeasesRead
<1>7. CASE GcFinish
  BY <1>7 DEF GcFinish, LeasesRead
<1>8. CASE GcCrash
  BY <1>8 DEF GcCrash, LeasesRead
<1>9. ASSUME NEW r \in Root, GcReadLockfile(r) PROVE PinInv'
  BY <1>9 DEF GcReadLockfile
<1>10. ASSUME NEW r \in Root, GcPickRoot(r) PROVE PinInv'
  BY <1>10 DEF GcPickRoot
<1>11. ASSUME NEW s \in Session, GcReadLease(s) PROVE PinInv'
  BY <1>11 DEF GcReadLease
<1>12. ASSUME NEW s \in Session, GcRemoveDeadLease(s) PROVE PinInv'
  BY <1>12 DEF GcRemoveDeadLease
<1>13. ASSUME NEW k \in Key, GcSkip(k) PROVE PinInv'
  BY <1>13 DEF GcSkip
<1>14. ASSUME NEW k \in Key, GcPick(k) PROVE PinInv'
  BY <1>14 DEF GcPick
<1> QED BY <1>1, <1>2, <1>3, <1>4, <1>5, <1>6, <1>7, <1>8, <1>9, <1>10, <1>11, <1>12, <1>13, <1>14 DEF Gc

LEMMA PinNext == TypeInv /\ RootsHeld /\ TypeInv' /\ PinInv /\ [StoreNext]_storeVars => PinInv'
<1> SUFFICES ASSUME TypeInv, RootsHeld, TypeInv', PinInv, [StoreNext]_storeVars PROVE PinInv'
  OBVIOUS
<1>1. ASSUME UNCHANGED long, NEW k \in Key, DamageEntry(k) PROVE PinInv'
  BY <1>1 DEF TypeInv, StoreTypeOK, PassUnderLock, LifeCycle, MissingPinsNothing, Alive, SessionGoes, Unlock,
            Collecting, NewView, store, files, lease, atHand, view, gc, storeSpent,
            RootsHeld, PinInv, SessionsRecent, PinsLooked, InSession, Eligible, Valid, DamageEntry
<1>2. ASSUME UNCHANGED long, NEW r \in Root, LoseLockfile(r) PROVE PinInv'
  BY <1>2 DEF TypeInv, StoreTypeOK, PassUnderLock, LifeCycle, MissingPinsNothing, Alive, SessionGoes, Unlock,
            Collecting, NewView, store, files, lease, atHand, view, gc, storeSpent,
            RootsHeld, PinInv, SessionsRecent, PinsLooked, InSession, Eligible, Valid, LoseLockfile
<1>3. CASE UNCHANGED storeVars
  BY <1>3 DEF TypeInv, StoreTypeOK, PassUnderLock, LifeCycle, MissingPinsNothing, Alive, SessionGoes, Unlock,
            Collecting, NewView, store, files, lease, atHand, view, gc, storeSpent,
            RootsHeld, PinInv, SessionsRecent, PinsLooked, InSession, Eligible, Valid, storeVars
<1> QED BY <1>1, <1>2, <1>3, PinSession, PinCollector DEF StoreNext

\* With a threshold longer than any session, no collection takes a usable entry that a
\* registered lockfile pins.
THEOREM PinsKept == StoreSpec => PinnedKept
<1>1. StoreInit => PinInv
  BY DEF StoreInit, PinInv, SessionsRecent, PinsLooked
<1>2. RootInv => RootsHeld
  BY DEF RootInv
<1>3. PinInv => [\A k \in Key : Takes(k) => ~long \/ \A r \in roots : k \notin pins[r]]_storeVars
  BY DEF PinInv, PinsLooked, Takes
<1>4. StoreInit => RootInv
  BY DEF StoreInit, RootInv, RootsHeld, RootsLooked, Alive
<1> QED BY <1>1, <1>2, <1>3, <1>4, PinNext, RootNext, TypeInit, TypeNext, PTL DEF StoreSpec, PinnedKept

-----------------------------------------------------------------------------
(* Scratch apps.                                                            *)

(* What exists, is known or is worked on has an id that was taken.          *)
Busy(c) == run[c].step \notin {"rest", "directories", "labels", "next"}
KnownIds ==
  \A c \in Runner :
    /\ run[c].app \in born \cup {None} /\ (Busy(c) => run[c].app \in App)
    /\ run[c].directories \subseteq born /\ run[c].candidates \subseteq born
    /\ run[c].step \in {"directories", "labels"} =>
         /\ run[c].entries \in [App -> Entry \cup {None}]
         /\ \A a \in App : run[c].entries[a] # None => a \in born
BornFirst ==
  /\ dirs \subseteq born /\ plans \subseteq born /\ storage \subseteq born /\ containers \subseteq born
  /\ \A a \in App : registry[a] # None => a \in born
  /\ KnownIds

ScratchTypeInv == ScratchTypeOK /\ BornFirst

\* Of the volumes of an app nothing is left but what the user kept.
Released(a) == a \notin containers /\ (a \in storage => a \in spared)

\* Who acquires an app is alone with it, and its entry is there.
AloneWith(a) ==
  \A c \in Runner : run[c].app = a /\ run[c].step \in AcquireSteps =>
    /\ registry[a] # None /\ \A o \in Runner \ {c} : run[o].app # a
    /\ run[c].step \in {"materialize", "plan"} => a \notin containers /\ a \notin storage
    /\ run[c].step \in {"volumes", "containers", "mark"} => a \in plans
\* The cached plan is there as long as there is something to destroy with it.
PlanTells(a) == (a \in containers => a \in plans) /\ (a \in storage => a \in plans \/ a \in spared)
\* A reaper without a plan has nothing to destroy, and one past its destroy has destroyed it.
ReapTells(a) ==
  \A c \in Runner : run[c].app = a =>
    /\ run[c].step \in {"reap", "scan", "stop", "destroy"} /\ ~run[c].plan => Released(a)
    /\ run[c].step \in {"rm", "unlink"} => Released(a)
    /\ run[c].step = "unlink" => a \notin dirs
GoneTells(a) == registry[a] = None => a \notin dirs /\ Released(a)

Tells(a) == AloneWith(a) /\ PlanTells(a) /\ ReapTells(a) /\ GoneTells(a)
ReapInv == \A a \in born \ crossed : Tells(a)
ScratchInv == ScratchTypeInv /\ ReapInv

-----------------------------------------------------------------------------
LEMMA ScratchStart == ScratchInit => ScratchInv
<1> SUFFICES ASSUME ScratchInit PROVE ScratchInv
  OBVIOUS
<1>1. Resting \in Command
  BY DEF Resting, Command, NothingSeen, AcquireSteps
<1>2. ScratchTypeOK
  BY <1>1 DEF ScratchInit, ScratchTypeOK
<1>3. BornFirst
  BY DEF ScratchInit, BornFirst, KnownIds, Busy, Resting
<1> QED
  BY <1>2, <1>3 DEF ScratchInv, ScratchTypeInv, ReapInv, ScratchInit

-----------------------------------------------------------------------------
\* One command changes; this is what the invariant needs of it.
LEMMA RunKeeps ==
  ASSUME ScratchTypeInv, NEW c \in Runner, NEW r \in Command, run' = [run EXCEPT ![c] = r],
         born \subseteq born', 
         r.app \in born' \cup {None},
         r.step \notin {"rest", "directories", "labels", "next"} => r.app \in App,
         r.directories \subseteq born', r.candidates \subseteq born',
         r.step \in {"directories", "labels"} =>
           /\ r.entries \in [App -> Entry \cup {None}]
           /\ \A a \in App : r.entries[a] # None => a \in born'
  PROVE run' \in [Runner -> Command] /\ KnownIds'
<1>1. run' \in [Runner -> Command]
  BY DEF ScratchTypeInv, ScratchTypeOK
<1>2. run'[c] = r /\ \A o \in Runner : o # c => run'[o] = run[o]
  BY DEF ScratchTypeInv, ScratchTypeOK
<1>3. ASSUME NEW o \in Runner
      PROVE /\ run'[o].app \in born' \cup {None} /\ (Busy(o)' => run'[o].app \in App)
            /\ run'[o].directories \subseteq born' /\ run'[o].candidates \subseteq born'
            /\ run'[o].step \in {"directories", "labels"} =>
                 /\ run'[o].entries \in [App -> Entry \cup {None}]
                 /\ \A a \in App : run'[o].entries[a] # None => a \in born'
  <2>1. CASE o = c
    BY <1>2, <2>1 DEF Busy
  <2>2. CASE o # c
    BY <1>2, <2>2 DEF ScratchTypeInv, BornFirst, KnownIds, Busy
  <2> QED
    BY <2>1, <2>2
<1> QED
  BY <1>1, <1>3 DEF KnownIds

\* A step to another line of the same task.
LEMMA TurnKeeps ==
  ASSUME ScratchTypeInv, NEW c \in Runner, Busy(c), NEW step, Turn(c, step), born' = born,
         step \in AcquireSteps \cup {"held", "close", "reap", "scan", "stop", "destroy", "rm", "unlink"}
  PROVE /\ run' \in [Runner -> Command] /\ KnownIds'
        /\ run'[c].step = step /\ run'[c].app = run[c].app /\ run'[c].plan = run[c].plan
        /\ \A o \in Runner : o # c => run'[o] = run[o]
<1> DEFINE r == [run[c] EXCEPT !.step = step]
<1>1. r \in Command /\ r.step = step /\ r.app = run[c].app /\ r.plan = run[c].plan
      /\ r.directories = run[c].directories /\ r.candidates = run[c].candidates
  BY DEF ScratchTypeInv, ScratchTypeOK, Command
<1>2. run' = [run EXCEPT ![c] = r]
  BY DEF Turn
<1>3. r.app \in born' \cup {None} /\ r.app \in App /\ r.directories \subseteq born' /\ r.candidates \subseteq born'
  BY <1>1 DEF ScratchTypeInv, BornFirst, KnownIds, Busy
<1>4. run' \in [Runner -> Command] /\ KnownIds'
  BY <1>1, <1>2, <1>3, RunKeeps, r.step \notin {"directories", "labels"} DEF AcquireSteps
<1> QED
  BY <1>1, <1>2, <1>4 DEF ScratchTypeInv, ScratchTypeOK

LEMMA LeaveKeeps ==
  ASSUME ScratchTypeInv, NEW c \in Runner, Leave(c), born' = born
  PROVE /\ run' \in [Runner -> Command] /\ KnownIds' /\ run'[c] = Resting
        /\ \A o \in Runner : o # c => run'[o] = run[o]
<1>1. Resting \in Command
  BY DEF Resting, Command, NothingSeen, AcquireSteps
<1>2. run' \in [Runner -> Command] /\ KnownIds'
  BY <1>1, RunKeeps DEF Leave, Resting
<1> QED
  BY <1>2 DEF Leave, ScratchTypeInv, ScratchTypeOK

LEMMA AccidentKeeps ==
  ASSUME ScratchTypeInv, Accident \/ UNCHANGED counts
  PROVE  born' = born /\ accidents' \in Nat
BY DEF Accident, counts, ScratchTypeInv, ScratchTypeOK

LEMMA BusyApp ==
  ASSUME ScratchTypeInv, NEW c \in Runner, Busy(c)
  PROVE  run[c].app \in born /\ run[c].app \in App /\ run[c].app # None
  BY ScratchAssumption DEF ScratchAssumption, ScratchTypeInv, BornFirst, KnownIds

LEMMA MakeRootKeeps ==
  ASSUME ScratchInv, NEW c \in Runner, MakeRoot(c), alone' \in Runner \cup {None}
  PROVE  ScratchInv'
<1> USE DEF ScratchInv
<1>0. run[c].app \in born /\ run[c].app \in App
  BY BusyApp DEF MakeRoot, At, Busy, AcquireSteps
<1>1. /\ run' \in [Runner -> Command] /\ KnownIds'
      /\ run'[c].step = "plan" /\ run'[c].app = run[c].app /\ run'[c].plan = run[c].plan
      /\ \A o \in Runner : o # c => run'[o] = run[o]
  BY TurnKeeps DEF MakeRoot, counts, At, Busy, AcquireSteps
<1>2. ScratchTypeInv'
  BY <1>1, <1>0 DEF ScratchTypeInv, ScratchTypeOK, BornFirst, counts, provider, disk, KnownIds, Busy, At,
       MakeRoot
<1>3. ASSUME NEW a \in born \ crossed' PROVE Tells(a)'
  <2>1. a \in App /\ a # None
    BY ScratchAssumption DEF ScratchAssumption, ScratchTypeInv, ScratchTypeOK
  <2> QED
    BY <2>1, <1>1 DEF ReapInv, Tells, AloneWith, PlanTells, ReapTells, GoneTells, Released, provider, disk,
         counts, At, AcquireSteps, ScratchTypeInv, ScratchTypeOK, MakeRoot
<1> QED
  BY <1>2, <1>3 DEF ReapInv, MakeRoot, counts

LEMMA WritePlanKeeps ==
  ASSUME ScratchInv, NEW c \in Runner, WritePlan(c), alone' \in Runner \cup {None}
  PROVE  ScratchInv'
<1> USE DEF ScratchInv
<1>0. run[c].app \in born /\ run[c].app \in App
  BY BusyApp DEF WritePlan, At, Busy, AcquireSteps
<1>1. /\ run' \in [Runner -> Command] /\ KnownIds'
      /\ run'[c].step = "volumes" /\ run'[c].app = run[c].app /\ run'[c].plan = run[c].plan
      /\ \A o \in Runner : o # c => run'[o] = run[o]
  BY TurnKeeps DEF WritePlan, counts, At, Busy, AcquireSteps
<1>2. ScratchTypeInv'
  BY <1>1, <1>0 DEF ScratchTypeInv, ScratchTypeOK, BornFirst, counts, provider, disk, KnownIds, Busy, At,
       WritePlan
<1>3. ASSUME NEW a \in born \ crossed' PROVE Tells(a)'
  <2>1. a \in App /\ a # None
    BY ScratchAssumption DEF ScratchAssumption, ScratchTypeInv, ScratchTypeOK
  <2> QED
    BY <2>1, <1>1 DEF ReapInv, Tells, AloneWith, PlanTells, ReapTells, GoneTells, Released, provider, disk,
         counts, At, AcquireSteps, ScratchTypeInv, ScratchTypeOK, WritePlan
<1> QED
  BY <1>2, <1>3 DEF ReapInv, WritePlan, counts

LEMMA CreateVolumesKeeps ==
  ASSUME ScratchInv, NEW c \in Runner, CreateVolumes(c), alone' \in Runner \cup {None}
  PROVE  ScratchInv'
<1> USE DEF ScratchInv
<1>0. run[c].app \in born /\ run[c].app \in App
  BY BusyApp DEF CreateVolumes, At, Busy, AcquireSteps
<1>1. /\ run' \in [Runner -> Command] /\ KnownIds'
      /\ run'[c].step = "containers" /\ run'[c].app = run[c].app /\ run'[c].plan = run[c].plan
      /\ \A o \in Runner : o # c => run'[o] = run[o]
  BY TurnKeeps DEF CreateVolumes, counts, At, Busy, AcquireSteps
<1>2. ScratchTypeInv'
  BY <1>1, <1>0 DEF ScratchTypeInv, ScratchTypeOK, BornFirst, counts, provider, disk, KnownIds, Busy, At,
       CreateVolumes
<1>3. ASSUME NEW a \in born \ crossed' PROVE Tells(a)'
  <2>1. a \in App /\ a # None
    BY ScratchAssumption DEF ScratchAssumption, ScratchTypeInv, ScratchTypeOK
  <2> QED
    BY <2>1, <1>1 DEF ReapInv, Tells, AloneWith, PlanTells, ReapTells, GoneTells, Released, provider, disk,
         counts, At, AcquireSteps, ScratchTypeInv, ScratchTypeOK, CreateVolumes
<1> QED
  BY <1>2, <1>3 DEF ReapInv, CreateVolumes, counts

LEMMA StartContainersKeeps ==
  ASSUME ScratchInv, NEW c \in Runner, StartContainers(c), alone' \in Runner \cup {None}
  PROVE  ScratchInv'
<1> USE DEF ScratchInv
<1>0. run[c].app \in born /\ run[c].app \in App
  BY BusyApp DEF StartContainers, At, Busy, AcquireSteps
<1>1. /\ run' \in [Runner -> Command] /\ KnownIds'
      /\ run'[c].step = "mark" /\ run'[c].app = run[c].app /\ run'[c].plan = run[c].plan
      /\ \A o \in Runner : o # c => run'[o] = run[o]
  BY TurnKeeps DEF StartContainers, counts, At, Busy, AcquireSteps
<1>2. ScratchTypeInv'
  BY <1>1, <1>0 DEF ScratchTypeInv, ScratchTypeOK, BornFirst, counts, provider, disk, KnownIds, Busy, At,
       StartContainers
<1>3. ASSUME NEW a \in born \ crossed' PROVE Tells(a)'
  <2>1. a \in App /\ a # None
    BY ScratchAssumption DEF ScratchAssumption, ScratchTypeInv, ScratchTypeOK
  <2> QED
    BY <2>1, <1>1 DEF ReapInv, Tells, AloneWith, PlanTells, ReapTells, GoneTells, Released, provider, disk,
         counts, At, AcquireSteps, ScratchTypeInv, ScratchTypeOK, StartContainers
<1> QED
  BY <1>2, <1>3 DEF ReapInv, StartContainers, counts

LEMMA StopKeeps ==
  ASSUME ScratchInv, NEW c \in Runner, Stop(c), alone' \in Runner \cup {None}
  PROVE  ScratchInv'
<1> USE DEF ScratchInv
<1>1. /\ run' \in [Runner -> Command] /\ KnownIds'
      /\ run'[c].step = "destroy" /\ run'[c].app = run[c].app /\ run'[c].plan = run[c].plan
      /\ \A o \in Runner : o # c => run'[o] = run[o]
  BY TurnKeeps DEF Stop, counts, At, Busy, AcquireSteps
<1>2. ScratchTypeInv'
  BY <1>1 DEF ScratchTypeInv, ScratchTypeOK, BornFirst, counts, provider, disk, KnownIds, Busy, At, Stop
<1>3. ASSUME NEW a \in born \ crossed' PROVE Tells(a)'
  <2>1. a \in App /\ a # None
    BY ScratchAssumption DEF ScratchAssumption, ScratchTypeInv, ScratchTypeOK
  <2> QED
    BY <2>1, <1>1 DEF ReapInv, Tells, AloneWith, PlanTells, ReapTells, GoneTells, Released, provider, disk,
         counts, At, AcquireSteps, ScratchTypeInv, ScratchTypeOK, Stop
<1> QED
  BY <1>2, <1>3 DEF ReapInv, Stop, counts

LEMMA DestroyKeeps ==
  ASSUME ScratchInv, NEW c \in Runner, Destroy(c), alone' \in Runner \cup {None}
  PROVE  ScratchInv'
<1> USE DEF ScratchInv
<1>1. /\ run' \in [Runner -> Command] /\ KnownIds'
      /\ run'[c].step = "rm" /\ run'[c].app = run[c].app /\ run'[c].plan = run[c].plan
      /\ \A o \in Runner : o # c => run'[o] = run[o]
  BY TurnKeeps DEF Destroy, counts, At, Busy, AcquireSteps
<1>2. ScratchTypeInv'
  BY <1>1 DEF ScratchTypeInv, ScratchTypeOK, BornFirst, counts, provider, disk, KnownIds, Busy, At, Destroy
<1>3. ASSUME NEW a \in born \ crossed' PROVE Tells(a)'
  <2>1. a \in App /\ a # None
    BY ScratchAssumption DEF ScratchAssumption, ScratchTypeInv, ScratchTypeOK
  <2> QED
    BY <2>1, <1>1 DEF ReapInv, Tells, AloneWith, PlanTells, ReapTells, GoneTells, Released, provider, disk,
         counts, At, AcquireSteps, ScratchTypeInv, ScratchTypeOK, Destroy
<1> QED
  BY <1>2, <1>3 DEF ReapInv, Destroy, counts

LEMMA RemoveRootKeeps ==
  ASSUME ScratchInv, NEW c \in Runner, RemoveRoot(c), alone' \in Runner \cup {None}
  PROVE  ScratchInv'
<1> USE DEF ScratchInv
<1>1. /\ run' \in [Runner -> Command] /\ KnownIds'
      /\ run'[c].step = "unlink" /\ run'[c].app = run[c].app /\ run'[c].plan = run[c].plan
      /\ \A o \in Runner : o # c => run'[o] = run[o]
  BY TurnKeeps DEF RemoveRoot, counts, At, Busy, AcquireSteps
<1>2. ScratchTypeInv'
  BY <1>1 DEF ScratchTypeInv, ScratchTypeOK, BornFirst, counts, provider, disk, KnownIds, Busy, At,
       RemoveRoot
<1>3. ASSUME NEW a \in born \ crossed' PROVE Tells(a)'
  <2>1. a \in App /\ a # None
    BY ScratchAssumption DEF ScratchAssumption, ScratchTypeInv, ScratchTypeOK
  <2> QED
    BY <2>1, <1>1 DEF ReapInv, Tells, AloneWith, PlanTells, ReapTells, GoneTells, Released, provider, disk,
         counts, At, AcquireSteps, ScratchTypeInv, ScratchTypeOK, RemoveRoot
<1> QED
  BY <1>2, <1>3 DEF ReapInv, RemoveRoot, counts

LEMMA EndReapKeeps ==
  ASSUME ScratchTypeInv, NEW c \in Runner, EndReap(c), born' = born
  PROVE  /\ run' \in [Runner -> Command] /\ KnownIds'
         /\ run'[c].step \in {"rest", "next"} /\ run'[c].app = None
         /\ \A o \in Runner : o # c => run'[o] = run[o]
<1>1. CASE run[c].kind = "gc"
  <2> DEFINE r == [Resting EXCEPT !.kind = "gc", !.step = "next", !.candidates = run[c].candidates]
  <2>1. run[c].candidates \subseteq born /\ run[c].candidates \subseteq App
    BY DEF ScratchTypeInv, ScratchTypeOK, BornFirst, KnownIds
  <2>2. r \in Command /\ r.step = "next" /\ r.app = None /\ r.directories = {}
        /\ r.candidates = run[c].candidates
    BY <2>1 DEF Resting, Command, NothingSeen, AcquireSteps
  <2>3. run' = [run EXCEPT ![c] = r]
    BY <1>1 DEF EndReap
  <2>4. run' \in [Runner -> Command] /\ KnownIds'
    BY <2>1, <2>2, <2>3, RunKeeps
  <2> QED
    BY <2>2, <2>3, <2>4 DEF ScratchTypeInv, ScratchTypeOK
<1>2. CASE run[c].kind # "gc"
  BY <1>2, LeaveKeeps DEF EndReap, Resting
<1> QED
  BY <1>1, <1>2

LEMMA UpsertKeeps ==
  ASSUME registry \in [App -> Entry \cup {None}], NEW a \in App, NEW owner \in Runner \cup {None},
         NEW step \in {"mark-running", "detach", "mark-pending-cleanup"},
         Legal(step, a), Upsert(step, a, owner)
  PROVE  /\ registry' \in [App -> Entry \cup {None}] /\ registry'[a] # None
         /\ \A b \in App : b # a => registry'[b] = registry[b]
<1> DEFINE e == [status |-> CASE step = "mark-running" -> "running"
                              [] step = "detach" -> registry[a].status
                              [] step = "mark-pending-cleanup" -> "destroyed-pending-cleanup",
                 detached |-> step = "detach" \/ registry[a].detached, owner |-> owner]
<1>1. registry[a].status \in {"acquiring", "running", "destroyed-pending-cleanup"}
      /\ registry[a].detached \in BOOLEAN
  BY DEF Legal, Entry
<1>2. e \in Entry
  <2>1. CASE step = "mark-running"
    BY <1>1, <2>1 DEF Entry
  <2>2. CASE step = "detach"
    BY <1>1, <2>2 DEF Entry
  <2>3. CASE step = "mark-pending-cleanup"
    BY <1>1, <2>3 DEF Entry
  <2> QED
    BY <2>1, <2>2, <2>3
<1>3. registry' = [registry EXCEPT ![a] = e]
  BY DEF Upsert
<1>4. None \notin Entry
  BY ScratchAssumption DEF ScratchAssumption
<1> HIDE DEF e
<1> QED
  BY <1>2, <1>3, <1>4

LEMMA UnlinkKeeps ==
  ASSUME ScratchInv, NEW c \in Runner, Unlink(c), alone' \in Runner \cup {None}
  PROVE  ScratchInv'
<1> USE DEF ScratchInv
<1>0. run[c].app \in born /\ run[c].app \in App
  BY BusyApp DEF Unlink, At, Busy, AcquireSteps
<1>1. /\ run' \in [Runner -> Command] /\ KnownIds'
      /\ run'[c].step \in {"rest", "next"} /\ run'[c].app = None
      /\ \A o \in Runner : o # c => run'[o] = run[o]
  BY EndReapKeeps DEF Unlink, counts, Accident
<1>2. ScratchTypeInv'
  BY <1>1, <1>0 DEF ScratchTypeInv, ScratchTypeOK, BornFirst, counts, provider, disk, KnownIds, Busy, At,
       Unlink
<1>3. ASSUME NEW a \in born \ crossed' PROVE Tells(a)'
  <2>1. a \in App /\ a # None
    BY ScratchAssumption DEF ScratchAssumption, ScratchTypeInv, ScratchTypeOK
  <2> QED
    BY <2>1, <1>1, <1>0 DEF ReapInv, Tells, AloneWith, PlanTells, ReapTells, GoneTells, Released, provider,
         disk, counts, At, AcquireSteps, ScratchTypeInv, ScratchTypeOK, Unlink
<1> QED
  BY <1>2, <1>3 DEF ReapInv, Unlink, counts

LEMMA ReapRefusedKeeps ==
  ASSUME ScratchInv, NEW c \in Runner, ReapRefused(c), alone' \in Runner \cup {None}
  PROVE  ScratchInv'
<1> USE DEF ScratchInv
<1>4. born' = born /\ accidents' \in Nat
  BY AccidentKeeps DEF ReapRefused
<1>1. /\ run' \in [Runner -> Command] /\ KnownIds'
      /\ run'[c].step \in {"rest", "next"} /\ run'[c].app = None
      /\ \A o \in Runner : o # c => run'[o] = run[o]
  BY EndReapKeeps DEF ReapRefused, counts, Accident
<1>2. ScratchTypeInv'
  BY <1>1, <1>4 DEF ScratchTypeInv, ScratchTypeOK, BornFirst, counts, provider, disk, KnownIds, Busy, At,
       ReapRefused
<1>3. ASSUME NEW a \in born \ crossed' PROVE Tells(a)'
  <2>1. a \in App /\ a # None
    BY ScratchAssumption DEF ScratchAssumption, ScratchTypeInv, ScratchTypeOK
  <2> QED
    BY <2>1, <1>1, <1>4 DEF ReapInv, Tells, AloneWith, PlanTells, ReapTells, GoneTells, Released, provider,
         disk, counts, At, AcquireSteps, ScratchTypeInv, ScratchTypeOK, ReapRefused
<1> QED
  BY <1>2, <1>3, <1>4 DEF ReapInv, ReapRefused, counts

LEMMA ReapFailsKeeps ==
  ASSUME ScratchInv, NEW c \in Runner, ReapFails(c), alone' \in Runner \cup {None}
  PROVE  ScratchInv'
<1> USE DEF ScratchInv
<1>0. run[c].app \in born /\ run[c].app \in App
  BY BusyApp DEF ReapFails, At, Busy, AcquireSteps
<1>4. born' = born /\ accidents' \in Nat
  BY AccidentKeeps DEF ReapFails
<1>5. /\ registry' \in [App -> Entry \cup {None}]
      /\ \A b \in App : registry'[b] = None <=> registry[b] = None
  <2>1. CASE run[c].entry # None /\ Legal("mark-pending-cleanup", run[c].app)
               /\ Upsert("mark-pending-cleanup", run[c].app, run[c].entry.owner)
    <3>1. run[c].entry.owner \in Runner \cup {None}
      BY <2>1 DEF ScratchTypeInv, ScratchTypeOK, Command, Entry
    <3> QED
      BY <1>0, <2>1, <3>1, UpsertKeeps DEF Legal, ScratchTypeInv, ScratchTypeOK
  <2>2. CASE UNCHANGED registry
    BY <2>2 DEF ScratchTypeInv, ScratchTypeOK
  <2> QED
    BY <2>1, <2>2 DEF ReapFails
<1>1. /\ run' \in [Runner -> Command] /\ KnownIds'
      /\ run'[c].step \in {"rest", "next"} /\ run'[c].app = None
      /\ \A o \in Runner : o # c => run'[o] = run[o]
  BY EndReapKeeps DEF ReapFails, counts, Accident
<1>2. ScratchTypeInv'
  BY <1>1, <1>0, <1>4, <1>5 DEF ScratchTypeInv, ScratchTypeOK, BornFirst, counts, provider, disk, KnownIds,
       Busy, At, ReapFails
<1>3. ASSUME NEW a \in born \ crossed' PROVE Tells(a)'
  <2>1. a \in App /\ a # None
    BY ScratchAssumption DEF ScratchAssumption, ScratchTypeInv, ScratchTypeOK
  <2> QED
    BY <2>1, <1>1, <1>4, <1>5 DEF ReapInv, Tells, AloneWith, PlanTells, ReapTells, GoneTells, Released,
         provider, disk, counts, At, AcquireSteps, ScratchTypeInv, ScratchTypeOK, ReapFails
<1> QED
  BY <1>2, <1>3, <1>4 DEF ReapInv, ReapFails, counts

LEMMA InspectKeeps ==
  ASSUME ScratchInv, NEW c \in Runner, Inspect(c), alone' \in Runner \cup {None}
  PROVE  ScratchInv'
<1> USE DEF ScratchInv
<1>0. run[c].app \in born /\ run[c].app \in App
  BY BusyApp DEF Inspect, At, Busy, AcquireSteps
<1>1. /\ run' \in [Runner -> Command] /\ KnownIds'
      /\ \/ run'[c].step \in {"rest", "next"} /\ run'[c].app = None
         \/ run'[c].step \in {"stop", "scan"} /\ run'[c].app = run[c].app /\ run'[c].plan = run[c].plan
      /\ \A o \in Runner : o # c => run'[o] = run[o]
  <2>1. CASE run[c].failed /\ registry[run[c].app] = None
    BY <2>1, EndReapKeeps DEF Inspect, counts
  <2>2. CASE ~(run[c].failed /\ registry[run[c].app] = None)
    <3> DEFINE r == [run[c] EXCEPT !.entry = registry[run[c].app],
                                   !.step = IF run[c].plan THEN "stop" ELSE "scan"]
    <3>1. r \in Command /\ r.step \in {"stop", "scan"} /\ r.app = run[c].app /\ r.plan = run[c].plan
          /\ r.directories = run[c].directories /\ r.candidates = run[c].candidates
      <4>1. run[c] \in Command /\ registry[run[c].app] \in Entry \cup {None}
        BY <1>0 DEF ScratchTypeInv, ScratchTypeOK
      <4>2. run[c].plan \in BOOLEAN
        BY <4>1 DEF Command
      <4> QED
        BY <4>1, <4>2 DEF Command
    <3>2. run' = [run EXCEPT ![c] = r]
      BY <2>2 DEF Inspect, ScratchTypeInv, ScratchTypeOK
    <3>3. born' = born /\ r.app \in born /\ r.app \in App
          /\ r.directories \subseteq born /\ r.candidates \subseteq born
      BY <1>0, <3>1 DEF ScratchTypeInv, BornFirst, KnownIds, Inspect, counts
    <3>4. run' \in [Runner -> Command] /\ KnownIds'
      BY <3>1, <3>2, <3>3, RunKeeps
    <3> HIDE DEF r
    <3> QED
      BY <3>1, <3>2, <3>4 DEF ScratchTypeInv, ScratchTypeOK
  <2> QED
    BY <2>1, <2>2
<1>2. ScratchTypeInv'
  BY <1>1 DEF ScratchTypeInv, ScratchTypeOK, BornFirst, counts, provider, disk, KnownIds, Busy, At, Inspect
<1>3. ASSUME NEW a \in born \ crossed' PROVE Tells(a)'
  <2>1. a \in App /\ a # None
    BY ScratchAssumption DEF ScratchAssumption, ScratchTypeInv, ScratchTypeOK
  <2> QED
    BY <2>1, <1>1 DEF ReapInv, Tells, AloneWith, PlanTells, ReapTells, GoneTells, Released, provider, disk,
         counts, At, AcquireSteps, ScratchTypeInv, ScratchTypeOK, Inspect
<1> QED
  BY <1>2, <1>3 DEF ReapInv, Inspect, counts

LEMMA ScanKeeps ==
  ASSUME ScratchInv, NEW c \in Runner, Scan(c), alone' \in Runner \cup {None}
  PROVE  ScratchInv'
<1> USE DEF ScratchInv
<1>0. run[c].app \in born /\ run[c].app \in App
  BY BusyApp DEF Scan, At, Busy, AcquireSteps
<1>4. born' = born /\ accidents' \in Nat
  BY AccidentKeeps DEF Scan
<1>1. /\ run' \in [Runner -> Command] /\ KnownIds'
      /\ run'[c].step = "stop" /\ run'[c].app = run[c].app /\ run'[c].plan = run[c].plan
      /\ \A o \in Runner : o # c => run'[o] = run[o]
  <2>1. PICK away \in BOOLEAN :
          run' = [run EXCEPT ![c].step = "stop", ![c].seen =
            [containers |-> ~away /\ run[c].app \in containers,
             storage |-> ~away /\ run[c].app \in storage /\ ~run[c].keepVolumes]]
    BY DEF Scan
  <2> DEFINE seen == [containers |-> ~away /\ run[c].app \in containers,
                     storage |-> ~away /\ run[c].app \in storage /\ ~run[c].keepVolumes]
             r == [run[c] EXCEPT !.step = "stop", !.seen = seen]
  <2>2. r \in Command /\ r.step = "stop" /\ r.app = run[c].app /\ r.plan = run[c].plan
        /\ r.directories = run[c].directories /\ r.candidates = run[c].candidates
    <3>1. run[c] \in Command
      BY DEF ScratchTypeInv, ScratchTypeOK
    <3>2. seen \in [containers : BOOLEAN, storage : BOOLEAN]
      OBVIOUS
    <3> HIDE DEF seen
    <3> QED
      BY <3>1, <3>2 DEF Command
  <2>3. run' = [run EXCEPT ![c] = r]
    BY <2>1 DEF ScratchTypeInv, ScratchTypeOK
  <2>4. r.app \in born /\ r.app \in App /\ r.directories \subseteq born /\ r.candidates \subseteq born
    BY <1>0, <2>2 DEF ScratchTypeInv, BornFirst, KnownIds
  <2>5. run' \in [Runner -> Command] /\ KnownIds'
    BY <1>4, <2>2, <2>3, <2>4, RunKeeps
  <2> HIDE DEF r
  <2> QED
    BY <2>2, <2>3, <2>5 DEF ScratchTypeInv, ScratchTypeOK
<1>2. ScratchTypeInv'
  BY <1>1, <1>4 DEF ScratchTypeInv, ScratchTypeOK, BornFirst, counts, provider, disk, KnownIds, Busy, At,
       Scan
<1>3. ASSUME NEW a \in born \ crossed' PROVE Tells(a)'
  <2>1. a \in App /\ a # None
    BY ScratchAssumption DEF ScratchAssumption, ScratchTypeInv, ScratchTypeOK
  <2> QED
    BY <2>1, <1>1, <1>4 DEF ReapInv, Tells, AloneWith, PlanTells, ReapTells, GoneTells, Released, provider,
         disk, counts, At, AcquireSteps, ScratchTypeInv, ScratchTypeOK, Scan
<1> QED
  BY <1>2, <1>3, <1>4 DEF ReapInv, Scan, counts

\* A command takes up another task on an app whose id is taken.
LEMMA TaskKeeps ==
  ASSUME ScratchTypeInv, NEW c \in Runner, NEW r \in Command, run' = [run EXCEPT ![c] = r], born' = born,
         r.app \in born, r.app \in App, r.directories \subseteq born, r.candidates \subseteq born,
         r.step \notin {"directories", "labels"}
  PROVE  /\ run' \in [Runner -> Command] /\ KnownIds'
         /\ run'[c] = r /\ \A o \in Runner : o # c => run'[o] = run[o]
<1>1. run' \in [Runner -> Command] /\ KnownIds'
  BY RunKeeps
<1> QED
  BY <1>1 DEF ScratchTypeInv, ScratchTypeOK

LEMMA HoldingTask ==
  ASSUME NEW a \in App
  PROVE  /\ Holding(a) \in Command /\ Holding(a).step = "held" /\ Holding(a).app = a
         /\ Holding(a).directories = {} /\ Holding(a).candidates = {}
BY DEF Holding, Resting, Command, NothingSeen, AcquireSteps

LEMMA CleaningTask ==
  ASSUME NEW a \in App, NEW failed \in BOOLEAN, NEW plan \in BOOLEAN
  PROVE  LET r == Cleaning(a, failed, plan)
         IN  /\ r \in Command /\ r.step = "reap" /\ r.app = a /\ r.plan = plan
             /\ r.directories = {} /\ r.candidates = {}
BY DEF Cleaning, Resting, Command, NothingSeen, AcquireSteps

LEMMA MarkRunningKeeps ==
  ASSUME ScratchInv, NEW c \in Runner, MarkRunning(c), alone' \in Runner \cup {None}
  PROVE  ScratchInv'
<1> USE DEF ScratchInv
<1>0. run[c].app \in born /\ run[c].app \in App
  BY BusyApp DEF MarkRunning, At, Busy, AcquireSteps
<1>1. /\ run' \in [Runner -> Command] /\ KnownIds'
      /\ run'[c].step \in {"rest", "held"} /\ run'[c].app \in {None, run[c].app}
      /\ \A o \in Runner : o # c => run'[o] = run[o]
  <2>1. CASE run[c].detached
    BY <2>1, LeaveKeeps DEF MarkRunning, counts, Resting
  <2>2. CASE ~run[c].detached
    <3>1. run' = [run EXCEPT ![c] = Holding(run[c].app)] /\ born' = born
      BY <2>2 DEF MarkRunning, counts
    <3> QED
      BY <1>0, <3>1, HoldingTask, TaskKeeps
  <2> QED
    BY <2>1, <2>2
<1>5. /\ registry' \in [App -> Entry \cup {None}]
      /\ \A b \in App : registry'[b] = None <=> registry[b] = None
  BY <1>0, UpsertKeeps DEF MarkRunning, Legal, ScratchTypeInv, ScratchTypeOK
<1>2. ScratchTypeInv'
  BY <1>1, <1>0, <1>5 DEF ScratchTypeInv, ScratchTypeOK, BornFirst, counts, provider, disk, KnownIds, Busy,
       At, MarkRunning
<1>3. ASSUME NEW a \in born \ crossed' PROVE Tells(a)'
  <2>1. a \in App /\ a # None
    BY ScratchAssumption DEF ScratchAssumption, ScratchTypeInv, ScratchTypeOK
  <2> QED
    BY <2>1, <1>1, <1>5 DEF ReapInv, Tells, AloneWith, PlanTells, ReapTells, GoneTells, Released, provider,
         disk, counts, At, AcquireSteps, ScratchTypeInv, ScratchTypeOK, MarkRunning
<1> QED
  BY <1>2, <1>3 DEF ReapInv, MarkRunning, counts

LEMMA AcquireFailsKeeps ==
  ASSUME ScratchInv, NEW c \in Runner, AcquireFails(c), alone' \in Runner \cup {None}
  PROVE  ScratchInv'
<1> USE DEF ScratchInv
<1>0. run[c].app \in born /\ run[c].app \in App
  BY BusyApp DEF AcquireFails, At, Busy, AcquireSteps
<1>4. born' = born /\ accidents' \in Nat
  BY AccidentKeeps DEF AcquireFails
<1>1. /\ run' \in [Runner -> Command] /\ KnownIds'
      /\ \/ run'[c].step = "rest" /\ run'[c].app = None
         \/ /\ run'[c].step = "reap" /\ run'[c].app = run[c].app
            /\ ~run'[c].plan => run[c].step \in {"materialize", "plan"}
      /\ \A o \in Runner : o # c => run'[o] = run[o]
  <2>1. CASE run[c].keepOnFailure
    BY <1>4, <2>1, LeaveKeeps DEF AcquireFails, GiveUp, Resting
  <2>2. CASE ~run[c].keepOnFailure
    <3>1. PICK plan \in BOOLEAN :
            /\ plan = FALSE => run[c].step \in {"materialize", "plan"}
            /\ run' = [run EXCEPT ![c] = Cleaning(run[c].app, TRUE, plan)]
      BY <2>2 DEF AcquireFails, GiveUp
    <3>2. CASE plan = TRUE
      BY <1>0, <1>4, <3>1, <3>2, CleaningTask, TaskKeeps
    <3>3. CASE plan = FALSE
      BY <1>0, <1>4, <3>1, <3>3, CleaningTask, TaskKeeps
    <3> QED
      BY <3>2, <3>3
  <2> QED
    BY <2>1, <2>2
<1>2. ScratchTypeInv'
  BY <1>1, <1>4 DEF ScratchTypeInv, ScratchTypeOK, BornFirst, counts, provider, disk, KnownIds, Busy, At,
       AcquireFails
<1>3. ASSUME NEW a \in born \ crossed' PROVE Tells(a)'
  <2>1. a \in App /\ a # None
    BY ScratchAssumption DEF ScratchAssumption, ScratchTypeInv, ScratchTypeOK
  <2> QED
    BY <2>1, <1>1, <1>4 DEF ReapInv, Tells, AloneWith, PlanTells, ReapTells, GoneTells, Released, provider,
         disk, counts, At, AcquireSteps, ScratchTypeInv, ScratchTypeOK, AcquireFails
<1> QED
  BY <1>2, <1>3, <1>4 DEF ReapInv, AcquireFails, counts

LEMMA CloseScopeKeeps ==
  ASSUME ScratchInv, NEW c \in Runner, CloseScope(c), alone' \in Runner \cup {None}
  PROVE  ScratchInv'
<1> USE DEF ScratchInv
<1>0. run[c].app \in born /\ run[c].app \in App
  BY BusyApp DEF CloseScope, At, Busy, AcquireSteps
<1>4. born' = born /\ accidents' \in Nat
  BY AccidentKeeps DEF CloseScope
<1>1. /\ run' \in [Runner -> Command] /\ KnownIds'
      /\ \/ run'[c].step = "rest" /\ run'[c].app = None
         \/ run'[c].step = "reap" /\ run'[c].app = run[c].app /\ run'[c].plan
      /\ \A o \in Runner : o # c => run'[o] = run[o]
  <2>1. CASE Leave(c)
    BY <1>4, <2>1, LeaveKeeps DEF Resting
  <2>2. CASE run' = [run EXCEPT ![c] = Cleaning(run[c].app, FALSE, TRUE)]
    BY <1>0, <1>4, <2>2, CleaningTask, TaskKeeps
  <2> QED
    BY <2>1, <2>2 DEF CloseScope
<1>2. ScratchTypeInv'
  BY <1>1, <1>4 DEF ScratchTypeInv, ScratchTypeOK, BornFirst, counts, provider, disk, KnownIds, Busy, At,
       CloseScope
<1>3. ASSUME NEW a \in born \ crossed' PROVE Tells(a)'
  <2>1. a \in App /\ a # None
    BY ScratchAssumption DEF ScratchAssumption, ScratchTypeInv, ScratchTypeOK
  <2> QED
    BY <2>1, <1>1, <1>4 DEF ReapInv, Tells, AloneWith, PlanTells, ReapTells, GoneTells, Released, provider,
         disk, counts, At, AcquireSteps, ScratchTypeInv, ScratchTypeOK, CloseScope
<1> QED
  BY <1>2, <1>3, <1>4 DEF ReapInv, CloseScope, counts

LEMMA DetachKeeps ==
  ASSUME ScratchInv, NEW c \in Runner, Detach(c), alone' \in Runner \cup {None}
  PROVE  ScratchInv'
<1> USE DEF ScratchInv
<1>0. run[c].app \in born /\ run[c].app \in App
  BY BusyApp DEF Detach, At, Busy, AcquireSteps
<1>4. born' = born /\ accidents' \in Nat
  BY AccidentKeeps DEF Detach
<1>1. /\ run' \in [Runner -> Command] /\ KnownIds'
      /\ run'[c].step = "close" /\ run'[c].app = run[c].app
      /\ \A o \in Runner : o # c => run'[o] = run[o]
  <2>1. CASE Turn(c, "close")
    BY <1>4, <2>1, TurnKeeps DEF Detach, At, Busy
  <2>2. CASE run' = [run EXCEPT ![c].step = "close", ![c].retained = TRUE]
    <3> DEFINE r == [run[c] EXCEPT !.step = "close", !.retained = TRUE]
    <3>1. /\ r \in Command /\ r.step = "close" /\ r.app = run[c].app
          /\ r.directories = run[c].directories /\ r.candidates = run[c].candidates
      <4>1. run[c] \in Command
        BY DEF ScratchTypeInv, ScratchTypeOK
      <4> QED
        BY <4>1 DEF Command
    <3>2. run' = [run EXCEPT ![c] = r]
      BY <2>2 DEF ScratchTypeInv, ScratchTypeOK
    <3>3. r.directories \subseteq born /\ r.candidates \subseteq born
      BY <3>1 DEF ScratchTypeInv, BornFirst, KnownIds
    <3> HIDE DEF r
    <3> QED
      BY <1>0, <1>4, <3>1, <3>2, <3>3, TaskKeeps
  <2> QED
    BY <2>1, <2>2 DEF Detach
<1>5. /\ registry' \in [App -> Entry \cup {None}]
      /\ \A b \in App : registry'[b] = None <=> registry[b] = None
  <2>1. CASE Legal("detach", run[c].app) /\ Upsert("detach", run[c].app, None)
    BY <1>0, <2>1, UpsertKeeps DEF Legal, ScratchTypeInv, ScratchTypeOK
  <2>2. CASE UNCHANGED registry
    BY <2>2 DEF ScratchTypeInv, ScratchTypeOK
  <2> QED
    BY <2>1, <2>2 DEF Detach
<1>2. ScratchTypeInv'
  BY <1>1, <1>0, <1>4, <1>5 DEF ScratchTypeInv, ScratchTypeOK, BornFirst, counts, provider, disk, KnownIds,
       Busy, At, Detach
<1>3. ASSUME NEW a \in born \ crossed' PROVE Tells(a)'
  <2>1. a \in App /\ a # None
    BY ScratchAssumption DEF ScratchAssumption, ScratchTypeInv, ScratchTypeOK
  <2> QED
    BY <2>1, <1>1, <1>4, <1>5 DEF ReapInv, Tells, AloneWith, PlanTells, ReapTells, GoneTells, Released,
         provider, disk, counts, At, AcquireSteps, ScratchTypeInv, ScratchTypeOK, Detach
<1> QED
  BY <1>2, <1>3, <1>4 DEF ReapInv, Detach, counts

LEMMA TargetKeeps ==
  ASSUME ScratchInv, NEW c \in Runner, run[c].step \in {"rest", "next"}, NEW a \in App, a \in born,
         NEW task \in Command, task.directories \subseteq born, task.candidates \subseteq born, Target(c, a, task),
         UNCHANGED <<registry, disk, provider, counts, spared>>, alone' \in Runner \cup {None}
  PROVE  ScratchInv'
<1> DEFINE r == [task EXCEPT !.step = "reap", !.app = a, !.plan = a \in plans]
<1>1. r \in Command /\ r.step = "reap" /\ r.app = a /\ r.plan = (a \in plans)
      /\ r.directories = task.directories /\ r.candidates = task.candidates
  <2>1. (a \in plans) \in BOOLEAN
    OBVIOUS
  <2> QED
    BY <2>1 DEF Command
<1>2. run' = [run EXCEPT ![c] = r] /\ born' = born
  BY DEF Target, counts
<1> HIDE DEF r
<1>3. /\ run' \in [Runner -> Command] /\ KnownIds' /\ run'[c] = r
      /\ \A o \in Runner : o # c => run'[o] = run[o]
  BY <1>1, <1>2, TaskKeeps DEF ScratchInv
<1>4. crossed \subseteq crossed' /\ crossed' \subseteq App
      /\ (a \notin crossed' => \A o \in Runner \ {c} : ~(run[o].app = a /\ run[o].step \in AcquireSteps))
  BY DEF Target, ScratchInv, ScratchTypeInv, ScratchTypeOK
<1>5. ScratchTypeInv'
  BY <1>2, <1>3, <1>4 DEF ScratchInv, ScratchTypeInv, ScratchTypeOK, BornFirst, disk, provider, counts
<1>6. ASSUME NEW b \in born \ crossed' PROVE Tells(b)'
  <2>1. Tells(b)
    BY <1>4, <1>6 DEF ScratchInv, ReapInv
  <2>2. AloneWith(b)' /\ PlanTells(b)' /\ GoneTells(b)'
    BY <1>1, <1>3, <1>4, <1>6, <2>1
       DEF Tells, AloneWith, PlanTells, GoneTells, Released, disk, provider, counts, AcquireSteps
  <2>3. ~run'[c].plan /\ b = a => Released(b)
    BY <1>1, <1>3, <2>1 DEF Tells, PlanTells, Released
  <2>4. ReapTells(b)'
    BY <1>1, <1>3, <2>1, <2>3 DEF Tells, ReapTells, Released, disk, provider, counts
  <2> QED
    BY <2>2, <2>4 DEF Tells
<1> QED
  BY <1>2, <1>5, <1>6 DEF ScratchInv, ReapInv

LEMMA BeginDestroyKeeps ==
  ASSUME ScratchInv, NEW c \in Runner, NEW a \in App, BeginDestroy(c, a), alone' \in Runner \cup {None}
  PROVE  ScratchInv'
<1>1. PICK keepVolumes \in BOOLEAN :
        /\ registry[a] # None \/ (a \in containers /\ ~keepVolumes)
        /\ Target(c, a, [Resting EXCEPT !.kind = "destroy", !.keepVolumes = keepVolumes])
  BY DEF BeginDestroy
<1> DEFINE task == [Resting EXCEPT !.kind = "destroy", !.keepVolumes = keepVolumes]
<1>2. task \in Command /\ task.directories = {} /\ task.candidates = {}
  BY DEF Resting, Command, NothingSeen, AcquireSteps
<1>3. a \in born
  BY <1>1 DEF ScratchInv, ScratchTypeInv, BornFirst
<1>4. Target(c, a, task)
  BY <1>1
<1> HIDE DEF task
<1> QED
  BY <1>2, <1>3, <1>4, TargetKeeps DEF BeginDestroy, At

LEMMA NextCandidateKeeps ==
  ASSUME ScratchInv, NEW c \in Runner, NextCandidate(c), alone' \in Runner \cup {None}
  PROVE  ScratchInv'
<1>1. CASE Leave(c) /\ UNCHANGED crossed
  <2>1. born' = born
    BY DEF NextCandidate, counts
  <2>2. /\ run' \in [Runner -> Command] /\ KnownIds'
        /\ run'[c].step = "rest" /\ run'[c].app = None
        /\ \A o \in Runner : o # c => run'[o] = run[o]
    BY <1>1, <2>1, LeaveKeeps DEF Resting, ScratchInv
  <2>3. ScratchTypeInv'
    BY <1>1, <2>2 DEF NextCandidate, ScratchInv, ScratchTypeInv, ScratchTypeOK, BornFirst, disk, provider,
         counts
  <2>4. ASSUME NEW a \in born \ crossed' PROVE Tells(a)'
    <3>1. a \in App /\ a # None
      BY ScratchAssumption DEF ScratchAssumption, ScratchInv, ScratchTypeInv, ScratchTypeOK
    <3> QED
      BY <1>1, <2>2, <3>1 DEF ScratchInv, ReapInv, Tells, AloneWith, PlanTells, ReapTells, GoneTells,
           Released,
         disk, provider, counts, AcquireSteps, NextCandidate
  <2> QED
    BY <2>1, <2>3, <2>4 DEF ScratchInv, ReapInv
<1>2. ASSUME NEW a \in run[c].candidates, Target(c, a, [run[c] EXCEPT !.candidates = @ \ {a}])
      PROVE  ScratchInv'
  <2> DEFINE task == [run[c] EXCEPT !.candidates = @ \ {a}]
  <2>1. /\ run[c] \in Command /\ run[c].candidates \subseteq born /\ run[c].directories \subseteq born
        /\ a \in born /\ a \in App
    BY DEF ScratchInv, ScratchTypeInv, ScratchTypeOK, BornFirst, KnownIds
  <2>2. task \in Command /\ task.directories \subseteq born /\ task.candidates \subseteq born
    BY <2>1 DEF Command
  <2>3. Target(c, a, task)
    BY <1>2
  <2> HIDE DEF task
  <2> QED
    BY <2>1, <2>2, <2>3, TargetKeeps DEF NextCandidate, At
<1> QED
  BY <1>1, <1>2 DEF NextCandidate

LEMMA BeginGcKeeps ==
  ASSUME ScratchInv, NEW c \in Runner, BeginGc(c), alone' \in Runner \cup {None}
  PROVE  ScratchInv'
<1> USE DEF ScratchInv
<1>1. /\ run' \in [Runner -> Command] /\ KnownIds'
      /\ run'[c].step = "directories" /\ run'[c].app = run[c].app
      /\ \A o \in Runner : o # c => run'[o] = run[o]
  <2> DEFINE r == [run[c] EXCEPT !.kind = "gc", !.step = "directories", !.entries = registry]
  <2>1. /\ r \in Command /\ r.step = "directories" /\ r.app = run[c].app /\ r.entries = registry
        /\ r.directories = run[c].directories /\ r.candidates = run[c].candidates
    <3>1. run[c] \in Command /\ registry \in [App -> Entry \cup {None}]
      BY DEF ScratchTypeInv, ScratchTypeOK
    <3> QED
      BY <3>1 DEF Command
  <2>2. run' = [run EXCEPT ![c] = r] /\ born' = born
    BY DEF BeginGc, counts
  <2>3. /\ run[c].app \in born \cup {None} /\ run[c].directories \subseteq born
        /\ run[c].candidates \subseteq born
        /\ registry \in [App -> Entry \cup {None}] /\ \A a \in App : registry[a] # None => a \in born
    BY DEF ScratchTypeInv, ScratchTypeOK, BornFirst, KnownIds
  <2>4. run' \in [Runner -> Command] /\ KnownIds'
    BY <2>1, <2>2, <2>3, RunKeeps
  <2> HIDE DEF r
  <2> QED
    BY <2>1, <2>2, <2>4 DEF ScratchTypeInv, ScratchTypeOK
<1>2. ScratchTypeInv'
  BY <1>1 DEF ScratchTypeInv, ScratchTypeOK, BornFirst, counts, provider, disk, KnownIds, Busy, At, BeginGc
<1>3. ASSUME NEW a \in born \ crossed' PROVE Tells(a)'
  <2>1. a \in App /\ a # None
    BY ScratchAssumption DEF ScratchAssumption, ScratchTypeInv, ScratchTypeOK
  <2> QED
    BY <2>1, <1>1 DEF ReapInv, Tells, AloneWith, PlanTells, ReapTells, GoneTells, Released, provider, disk,
         counts, At, AcquireSteps, ScratchTypeInv, ScratchTypeOK, BeginGc
<1> QED
  BY <1>2, <1>3 DEF ReapInv, BeginGc, counts

LEMMA ListDirectoriesKeeps ==
  ASSUME ScratchInv, NEW c \in Runner, ListDirectories(c), alone' \in Runner \cup {None}
  PROVE  ScratchInv'
<1> USE DEF ScratchInv
<1>1. /\ run' \in [Runner -> Command] /\ KnownIds'
      /\ run'[c].step = "labels" /\ run'[c].app = run[c].app
      /\ \A o \in Runner : o # c => run'[o] = run[o]
  <2> DEFINE r == [run[c] EXCEPT !.step = "labels", !.directories = dirs]
  <2>1. /\ r \in Command /\ r.step = "labels" /\ r.app = run[c].app /\ r.entries = run[c].entries
        /\ r.directories = dirs /\ r.candidates = run[c].candidates
    <3>1. run[c] \in Command /\ dirs \in SUBSET App
      BY DEF ScratchTypeInv, ScratchTypeOK
    <3> QED
      BY <3>1 DEF Command
  <2>2. run' = [run EXCEPT ![c] = r] /\ born' = born
    BY DEF ListDirectories, counts
  <2>3. /\ run[c].app \in born \cup {None} /\ dirs \subseteq born
        /\ run[c].candidates \subseteq born
        /\ run[c].entries \in [App -> Entry \cup {None}]
        /\ \A a \in App : run[c].entries[a] # None => a \in born
    BY DEF ScratchTypeInv, ScratchTypeOK, BornFirst, KnownIds, ListDirectories, At
  <2>4. run' \in [Runner -> Command] /\ KnownIds'
    BY <2>1, <2>2, <2>3, RunKeeps
  <2> HIDE DEF r
  <2> QED
    BY <2>1, <2>2, <2>4 DEF ScratchTypeInv, ScratchTypeOK
<1>2. ScratchTypeInv'
  BY <1>1 DEF ScratchTypeInv, ScratchTypeOK, BornFirst, counts, provider, disk, KnownIds, Busy, At,
       ListDirectories
<1>3. ASSUME NEW a \in born \ crossed' PROVE Tells(a)'
  <2>1. a \in App /\ a # None
    BY ScratchAssumption DEF ScratchAssumption, ScratchTypeInv, ScratchTypeOK
  <2> QED
    BY <2>1, <1>1 DEF ReapInv, Tells, AloneWith, PlanTells, ReapTells, GoneTells, Released, provider, disk,
         counts, At, AcquireSteps, ScratchTypeInv, ScratchTypeOK, ListDirectories
<1> QED
  BY <1>2, <1>3 DEF ReapInv, ListDirectories, counts

LEMMA ListLabelsKeeps ==
  ASSUME ScratchInv, NEW c \in Runner, ListLabels(c), alone' \in Runner \cup {None}
  PROVE  ScratchInv'
<1> USE DEF ScratchInv
<1>4. born' = born /\ accidents' \in Nat
  BY AccidentKeeps DEF ListLabels
<1>1. /\ run' \in [Runner -> Command] /\ KnownIds'
      /\ run'[c].step = "next" /\ run'[c].app = None
      /\ \A o \in Runner : o # c => run'[o] = run[o]
  <2>1. PICK labels \in {containers \cup storage, {}} :
          run' = [run EXCEPT ![c] = [Resting EXCEPT !.kind = "gc", !.step = "next",
                    !.candidates = Candidates(run[c].entries, run[c].directories, labels)]]
    BY DEF ListLabels
  <2> DEFINE found == Candidates(run[c].entries, run[c].directories, labels)
             r == [Resting EXCEPT !.kind = "gc", !.step = "next", !.candidates = found]
  <2>2. found \subseteq born /\ found \subseteq App
    BY DEF Candidates, ListLabels, At, ScratchTypeInv, ScratchTypeOK, BornFirst, KnownIds
  <2>3. run' = [run EXCEPT ![c] = r]
    BY <2>1
  <2> HIDE DEF found
  <2>4. r \in Command /\ r.step = "next" /\ r.app = None /\ r.directories = {} /\ r.candidates = found
    BY <2>2 DEF Resting, Command, NothingSeen, AcquireSteps
  <2> HIDE DEF r
  <2>5. run' \in [Runner -> Command] /\ KnownIds'
    BY <1>4, <2>2, <2>3, <2>4, RunKeeps
  <2> QED
    BY <2>3, <2>4, <2>5 DEF ScratchTypeInv, ScratchTypeOK
<1>2. ScratchTypeInv'
  BY <1>1, <1>4 DEF ScratchTypeInv, ScratchTypeOK, BornFirst, counts, provider, disk, KnownIds, Busy, At,
       ListLabels
<1>3. ASSUME NEW a \in born \ crossed' PROVE Tells(a)'
  <2>1. a \in App /\ a # None
    BY ScratchAssumption DEF ScratchAssumption, ScratchTypeInv, ScratchTypeOK
  <2> QED
    BY <2>1, <1>1, <1>4 DEF ReapInv, Tells, AloneWith, PlanTells, ReapTells, GoneTells, Released, provider,
         disk, counts, At, AcquireSteps, ScratchTypeInv, ScratchTypeOK, ListLabels
<1> QED
  BY <1>2, <1>3, <1>4 DEF ReapInv, ListLabels, counts

LEMMA DieKeeps ==
  ASSUME ScratchInv, NEW c \in Runner, Die(c), alone' \in Runner \cup {None}
  PROVE  ScratchInv'
<1> USE DEF ScratchInv
<1>4. born' = born /\ accidents' \in Nat
  BY AccidentKeeps DEF Die
<1>1. /\ run' \in [Runner -> Command] /\ KnownIds'
      /\ run'[c].step = "rest" /\ run'[c].app = None
      /\ \A o \in Runner : o # c => run'[o] = run[o]
  BY <1>4, LeaveKeeps DEF Die, Resting
<1>2. ScratchTypeInv'
  BY <1>1, <1>4 DEF ScratchTypeInv, ScratchTypeOK, BornFirst, counts, provider, disk, KnownIds, Busy, At,
       Die
<1>3. ASSUME NEW a \in born \ crossed' PROVE Tells(a)'
  <2>1. a \in App /\ a # None
    BY ScratchAssumption DEF ScratchAssumption, ScratchTypeInv, ScratchTypeOK
  <2> QED
    BY <2>1, <1>1, <1>4 DEF ReapInv, Tells, AloneWith, PlanTells, ReapTells, GoneTells, Released, provider,
         disk, counts, At, AcquireSteps, ScratchTypeInv, ScratchTypeOK, Die
<1> QED
  BY <1>2, <1>3, <1>4 DEF ReapInv, Die, counts

LEMMA RegisterKeeps ==
  ASSUME ScratchInv, NEW c \in Runner, NEW id \in App, Register(c, id), alone' \in Runner \cup {None}
  PROVE  ScratchInv'
<1> USE DEF ScratchInv
<1>1. /\ run' \in [Runner -> Command] /\ KnownIds'
      /\ run'[c].step = "materialize" /\ run'[c].app = id
      /\ \A o \in Runner : o # c => run'[o] = run[o]
  <2>1. PICK detached \in BOOLEAN, keepOnFailure \in BOOLEAN :
          run' = [run EXCEPT ![c] = [@ EXCEPT !.kind = "acquire", !.step = "materialize", !.app = id,
                                              !.detached = detached, !.keepOnFailure = keepOnFailure]]
    BY DEF Register
  <2> DEFINE r == [run[c] EXCEPT !.kind = "acquire", !.step = "materialize", !.app = id,
                                 !.detached = detached, !.keepOnFailure = keepOnFailure]
  <2>2. /\ r \in Command /\ r.step = "materialize" /\ r.app = id
        /\ r.directories = run[c].directories /\ r.candidates = run[c].candidates
    <3>1. run[c] \in Command
      BY DEF ScratchTypeInv, ScratchTypeOK
    <3> QED
      BY <3>1 DEF Command, AcquireSteps
  <2>3. run' = [run EXCEPT ![c] = r]
    BY <2>1 DEF ScratchTypeInv, ScratchTypeOK
  <2>4. /\ born' = born \cup {id} /\ run[c].directories \subseteq born /\ run[c].candidates \subseteq born
    BY DEF Register, ScratchTypeInv, BornFirst, KnownIds
  <2> HIDE DEF r
  <2>5. run' \in [Runner -> Command] /\ KnownIds'
    BY <2>2, <2>3, <2>4, RunKeeps
  <2> QED
    BY <2>2, <2>3, <2>5 DEF ScratchTypeInv, ScratchTypeOK
<1>5. /\ registry' \in [App -> Entry \cup {None}] /\ registry'[id] # None
      /\ \A b \in App : b # id => registry'[b] = registry[b]
  <2>1. PICK detached \in BOOLEAN :
          registry' = [registry EXCEPT ![id] =
            [status |-> "acquiring", detached |-> detached, owner |-> IF detached THEN None ELSE c]]
    BY DEF Register
  <2> DEFINE e == [status |-> "acquiring", detached |-> detached, owner |-> IF detached THEN None ELSE c]
  <2>2. e \in Entry /\ e # None
    BY ScratchAssumption DEF ScratchAssumption, Entry
  <2>3. registry' = [registry EXCEPT ![id] = e]
    BY <2>1
  <2> HIDE DEF e
  <2> QED
    BY <2>2, <2>3 DEF ScratchTypeInv, ScratchTypeOK
<1>6. \A o \in Runner : run[o].app # id
  BY ScratchAssumption DEF ScratchAssumption, Register, ScratchTypeInv, BornFirst, KnownIds
<1>2. ScratchTypeInv'
  BY <1>1, <1>5 DEF ScratchTypeInv, ScratchTypeOK, BornFirst, counts, provider, disk, KnownIds, Busy, At,
       Register
<1>3. ASSUME NEW a \in born' \ crossed' PROVE Tells(a)'
  <2>1. a \in App /\ a # None
    BY ScratchAssumption DEF ScratchAssumption, ScratchTypeInv, ScratchTypeOK, Register
  <2>2. CASE a = id
    <3>1. a \notin containers /\ a \notin storage /\ a \notin dirs
      BY <2>2 DEF Register, ScratchTypeInv, BornFirst
    <3> QED
      BY <1>1, <1>5, <1>6, <2>2, <3>1 DEF Tells, AloneWith, PlanTells, ReapTells, GoneTells, Released,
           provider, disk, AcquireSteps, Register
  <2>3. CASE a # id
    <3>1. Tells(a) /\ registry'[a] = registry[a]
      BY <1>5, <2>1, <2>3 DEF Register, ReapInv
    <3> QED
      BY <1>1, <2>3, <3>1 DEF Tells, AloneWith, PlanTells, ReapTells, GoneTells, Released, provider, disk,
           AcquireSteps, Register
  <2> QED
    BY <2>2, <2>3
<1> QED
  BY <1>2, <1>3 DEF ReapInv, Register, counts

LEMMA LoseRegistryKeeps ==
  ASSUME ScratchInv, LoseRegistry, alone' \in Runner \cup {None}
  PROVE  ScratchInv'
<1> USE DEF ScratchInv
<1>1. /\ born' = born /\ accidents' \in Nat /\ registry' = [a \in App |-> None]
      /\ crossed' = crossed \cup {a \in App : registry[a] # None}
      /\ UNCHANGED <<dirs, plans, storage, containers, run, spared>>
  BY AccidentKeeps DEF LoseRegistry, disk, provider
<1>2. ScratchTypeInv'
  BY <1>1 DEF ScratchTypeInv, ScratchTypeOK, BornFirst, KnownIds, Busy
<1>3. ASSUME NEW a \in born \ crossed' PROVE Tells(a)'
  <2>1. a \in App /\ a \notin crossed /\ registry[a] = None /\ registry'[a] = None
    BY <1>1 DEF ScratchTypeInv, ScratchTypeOK
  <2> QED
    BY <1>1, <2>1 DEF ReapInv, Tells, AloneWith, PlanTells, ReapTells, GoneTells, Released
<1> QED
  BY <1>1, <1>2, <1>3 DEF ReapInv

LEMMA ScratchStep == ScratchInv /\ [ScratchNext]_scratchVars => ScratchInv'
<1> SUFFICES ASSUME ScratchInv, [ScratchNext]_scratchVars PROVE ScratchInv'
  OBVIOUS
<1>1. CASE UNCHANGED scratchVars
  BY <1>1 DEF scratchVars, disk, provider, counts, ScratchInv, ScratchTypeInv, ScratchTypeOK, BornFirst,
     KnownIds, Busy, ReapInv, Tells, AloneWith, PlanTells, ReapTells, GoneTells, Released
<1>2. ASSUME NEW c \in Runner, BeginGc(c) /\ alone' = c PROVE ScratchInv'
  BY <1>2, BeginGcKeeps
<1>3. ASSUME NEW c \in Runner, Work(c),
             alone' = IF alone = c /\ UNCHANGED accidents /\ run'[c].kind = "gc" THEN c ELSE None
      PROVE  ScratchInv'
  <2>1. alone' \in Runner \cup {None}
    BY <1>3
  <2>2. CASE MakeRoot(c) \/ WritePlan(c) \/ CreateVolumes(c) \/ StartContainers(c)
    BY <2>1, <2>2, MakeRootKeeps, WritePlanKeeps, CreateVolumesKeeps, StartContainersKeeps
  <2>3. CASE MarkRunning(c) \/ AcquireFails(c) \/ Detach(c) \/ CloseScope(c)
    BY <2>1, <2>3, MarkRunningKeeps, AcquireFailsKeeps, DetachKeeps, CloseScopeKeeps
  <2>4. CASE Inspect(c) \/ Scan(c) \/ Stop(c) \/ Destroy(c)
    BY <2>1, <2>4, InspectKeeps, ScanKeeps, StopKeeps, DestroyKeeps
  <2>5. CASE RemoveRoot(c) \/ Unlink(c) \/ ReapRefused(c) \/ ReapFails(c)
    BY <2>1, <2>5, RemoveRootKeeps, UnlinkKeeps, ReapRefusedKeeps, ReapFailsKeeps
  <2>6. CASE ListDirectories(c) \/ ListLabels(c) \/ NextCandidate(c)
    BY <2>1, <2>6, ListDirectoriesKeeps, ListLabelsKeeps, NextCandidateKeeps
  <2> QED
    BY <1>3, <2>2, <2>3, <2>4, <2>5, <2>6 DEF Work
<1>4. ASSUME NEW c \in Runner, NEW a \in App, Register(c, a) \/ BeginDestroy(c, a), alone' = None
      PROVE  ScratchInv'
  BY <1>4, RegisterKeeps, BeginDestroyKeeps
<1>5. ASSUME NEW c \in Runner, Die(c), alone' = None PROVE ScratchInv'
  BY <1>5, DieKeeps
<1>6. CASE LoseRegistry /\ alone' = None
  BY <1>6, LoseRegistryKeeps
<1> QED
  BY <1>1, <1>2, <1>3, <1>4, <1>5, <1>6 DEF ScratchNext

THEOREM ScratchInvariant == ScratchSpec => []ScratchInv
BY ScratchStart, ScratchStep, PTL DEF ScratchSpec

\* Every variable of the scratch apps keeps its type.
THEOREM ScratchTypes == ScratchSpec => []ScratchTypeOK
<1>1. ScratchInv => ScratchTypeOK
  BY DEF ScratchInv, ScratchTypeInv
<1> QED
  BY <1>1, ScratchInvariant, PTL

\* Whatever fails, dies or is lost: an app whose entry is gone has nothing left but what its user
\* kept, unless another command went for it while it was acquired or its entry was lost.
THEOREM EntryGoesLast == ScratchSpec => []UnlinkedLast
<1>1. ScratchInv => UnlinkedLast
  BY DEF ScratchInv, ScratchTypeInv, ReapInv, Tells, GoneTells, Released, UnlinkedLast
<1> QED
  BY <1>1, ScratchInvariant, PTL

-----------------------------------------------------------------------------
(* One collection with nothing else going on.                               *)

\* What the collector leaves alone: an app of which nothing is left, or one that is whole.
Sound(a) ==
  a \in dirs \/ a \in containers \/ a \in storage \/ registry[a] # None =>
    /\ a \in dirs /\ registry[a] # None /\ registry[a].status # "destroyed-pending-cleanup"
    /\ ~OwnerDead(a, registry[a])

ReapSteps == {"reap", "scan", "stop", "destroy", "rm", "unlink"}

\* What the collector has read is still so, and what it has not dealt with are its candidates.
ReadsTell(r) ==
  /\ r.kind = "gc" /\ r.step \in ReapSteps \cup {"directories", "labels", "next"}
  /\ r.step \in {"directories", "labels"} => r.entries = registry
  /\ r.step = "labels" => r.directories = dirs
  /\ r.step = "next" => r.failed = FALSE /\ r.keepVolumes = FALSE /\ \A a \in App : a \in r.candidates \/ Sound(a)
  /\ r.step \in ReapSteps =>
       r.failed = FALSE /\ r.keepVolumes = FALSE /\ \A a \in App : a = r.app \/ a \in r.candidates \/ Sound(a)
\* The reaper at work sees what there is, and has removed what its steps so far remove.
WorkTells(r) ==
  /\ r.step = "stop" /\ ~r.plan =>
       (r.seen.containers <=> r.app \in containers) /\ (r.seen.storage <=> r.app \in storage)
  /\ r.step = "destroy" => r.app \notin containers /\ (~r.plan => (r.seen.storage <=> r.app \in storage))
  /\ r.step \in {"rm", "unlink"} => r.app \notin containers /\ r.app \notin storage
  /\ r.step = "unlink" => r.app \notin dirs

AloneInv == alone # None => ReadsTell(run[alone]) /\ WorkTells(run[alone])

LEMMA AloneStart == ScratchInit => AloneInv
BY DEF ScratchInit, AloneInv

\* Who sees another app than the one at work sees no change, as long as the collector stays one.
LEMMA SoundKept ==
  ASSUME ScratchTypeInv, NEW c \in Runner, NEW a \in App, Sound(a),
         run[c].kind # "acquire", run'[c].kind # "acquire", \A o \in Runner : o # c => run'[o] = run[o],
         registry'[a] = registry[a], a \in dirs' <=> a \in dirs,
         a \in containers' <=> a \in containers, a \in storage' <=> a \in storage
  PROVE  Sound(a)'
<1>1. registry[a] # None /\ registry[a].owner # None => registry[a].owner \in Runner
  BY DEF ScratchTypeInv, ScratchTypeOK, Entry
<1>2. registry[a] # None => (OwnerDead(a, registry[a])' <=> OwnerDead(a, registry[a]))
  <2>1. CASE registry[a] # None /\ registry[a].owner # None /\ registry[a].owner = c
    BY <2>1 DEF OwnerDead
  <2>2. CASE registry[a] # None /\ registry[a].owner # None /\ registry[a].owner # c
    BY <1>1, <2>2 DEF OwnerDead
  <2>3. CASE registry[a] # None /\ registry[a].owner = None
    BY <2>3 DEF OwnerDead
  <2> QED
    BY <2>1, <2>2, <2>3
<1> QED
  BY <1>2 DEF Sound

Alone(c) ==
  /\ c \in Runner /\ ScratchTypeInv /\ alone = c /\ UNCHANGED accidents
  /\ ReadsTell(run[c]) /\ WorkTells(run[c])

LEMMA NoAccident == ASSUME ScratchTypeInv, UNCHANGED accidents PROVE ~Accident
BY DEF ScratchTypeInv, ScratchTypeOK, Accident

\* The reap of one app: what it does to that app leaves the others as they are.
LEMMA ReapStepTells ==
  ASSUME NEW c, Alone(c), run[c].step \in ReapSteps, NEW r \in Command, run' = [run EXCEPT ![c] = r],
         r.kind = "gc", r.step \in ReapSteps, r.app = run[c].app, r.candidates = run[c].candidates,
         r.failed = FALSE, r.keepVolumes = FALSE,
         \A a \in App \ {run[c].app} :
           /\ registry'[a] = registry[a] /\ (a \in dirs' <=> a \in dirs)
           /\ (a \in containers' <=> a \in containers) /\ (a \in storage' <=> a \in storage)
  PROVE  ReadsTell(run[c])' /\ run'[c] = r
<1>1. run'[c] = r /\ \A o \in Runner : o # c => run'[o] = run[o]
  BY DEF Alone, ScratchTypeInv, ScratchTypeOK
<1>2. ASSUME NEW a \in App PROVE a = r.app \/ a \in r.candidates \/ Sound(a)'
  <2>1. CASE a # run[c].app /\ a \notin run[c].candidates
    <3>1. Sound(a) /\ run[c].kind # "acquire"
      BY <2>1 DEF Alone, ReadsTell
    <3> QED
      BY <1>1, <2>1, <3>1, SoundKept DEF Alone
  <2> QED
    BY <2>1
<1> QED
  BY <1>1, <1>2 DEF ReadsTell, ReapSteps

LEMMA InspectTells ==
  ASSUME NEW c, Alone(c), Inspect(c) PROVE ReadsTell(run[c])' /\ WorkTells(run[c])'
<1>1. run[c].app \in App /\ c \in Runner
  BY BusyApp DEF Alone, Inspect, At, Busy
<1> DEFINE r == [run[c] EXCEPT !.entry = registry[run[c].app],
                               !.step = IF run[c].plan THEN "stop" ELSE "scan"]
<1>2. run[c] \in Command /\ registry[run[c].app] \in Entry \cup {None} /\ run[c].plan \in BOOLEAN
  BY <1>1 DEF Alone, ScratchTypeInv, ScratchTypeOK, Command
<1>3. r \in Command /\ r.step = (IF run[c].plan THEN "stop" ELSE "scan") /\ r.app = run[c].app
      /\ r.kind = run[c].kind /\ r.plan = run[c].plan /\ r.candidates = run[c].candidates
      /\ r.failed = run[c].failed /\ r.keepVolumes = run[c].keepVolumes
  BY <1>2 DEF Command
<1>4. run[c].failed = FALSE /\ run[c].keepVolumes = FALSE /\ run[c].kind = "gc" /\ run[c].step = "reap"
  BY DEF Alone, ReadsTell, Inspect, At, ReapSteps
<1>5. run' = [run EXCEPT ![c] = r]
  BY <1>1, <1>4 DEF Inspect, Alone, ScratchTypeInv, ScratchTypeOK
<1> HIDE DEF r
<1>6. r.step \in ReapSteps /\ run[c].step \in ReapSteps /\ (r.step = "stop" => r.plan)
  BY <1>3, <1>4 DEF ReapSteps
<1>8. \A a \in App \ {run[c].app} :
        /\ registry'[a] = registry[a] /\ (a \in dirs' <=> a \in dirs)
        /\ (a \in containers' <=> a \in containers) /\ (a \in storage' <=> a \in storage)
  BY DEF Inspect, disk, provider
<1>7. ReadsTell(run[c])' /\ run'[c] = r
  BY <1>3, <1>4, <1>5, <1>6, <1>8, ReapStepTells
<1> QED
  BY <1>3, <1>6, <1>7 DEF WorkTells

LEMMA ScanTells ==
  ASSUME NEW c, Alone(c), Scan(c) PROVE ReadsTell(run[c])' /\ WorkTells(run[c])'
<1>1. run[c].app \in App /\ c \in Runner
  BY BusyApp DEF Alone, Scan, At, Busy
<1>2. run[c] \in Command
  BY <1>1 DEF Alone, ScratchTypeInv, ScratchTypeOK
<1>3. run[c].failed = FALSE /\ run[c].keepVolumes = FALSE /\ run[c].kind = "gc" /\ run[c].step = "scan"
  BY DEF Alone, ReadsTell, Scan, At, ReapSteps
<1> DEFINE seen == [containers |-> run[c].app \in containers, storage |-> run[c].app \in storage]
           r == [run[c] EXCEPT !.step = "stop", !.seen = seen]
<1>4. run' = [run EXCEPT ![c].step = "stop", ![c].seen = seen]
  <2>1. PICK away \in BOOLEAN :
          /\ IF away THEN Accident ELSE UNCHANGED counts
          /\ run' = [run EXCEPT ![c].step = "stop", ![c].seen =
               [containers |-> ~away /\ run[c].app \in containers,
                storage |-> ~away /\ run[c].app \in storage /\ ~run[c].keepVolumes]]
    BY DEF Scan
  <2>2. ~away
    BY <2>1, NoAccident DEF Alone
  <2>3. [containers |-> ~away /\ run[c].app \in containers,
         storage |-> ~away /\ run[c].app \in storage /\ ~run[c].keepVolumes] = seen
    BY <1>3, <2>2
  <2> QED
    BY <2>1, <2>3
<1>5. seen \in [containers : BOOLEAN, storage : BOOLEAN]
  OBVIOUS
<1>10. (seen.containers <=> run[c].app \in containers) /\ (seen.storage <=> run[c].app \in storage)
  OBVIOUS
<1> HIDE DEF seen
<1>6. r \in Command /\ r.step = "stop" /\ r.app = run[c].app /\ r.seen = seen
      /\ r.kind = run[c].kind /\ r.candidates = run[c].candidates
      /\ r.failed = run[c].failed /\ r.keepVolumes = run[c].keepVolumes
  BY <1>2, <1>5 DEF Command
<1>7. run' = [run EXCEPT ![c] = r]
  BY <1>4 DEF Alone, ScratchTypeInv, ScratchTypeOK
<1> HIDE DEF r
<1>8. r.step \in ReapSteps /\ run[c].step \in ReapSteps
  BY <1>3, <1>6 DEF ReapSteps
<1>11. \A a \in App \ {run[c].app} :
        /\ registry'[a] = registry[a] /\ (a \in dirs' <=> a \in dirs)
        /\ (a \in containers' <=> a \in containers) /\ (a \in storage' <=> a \in storage)
  BY DEF Scan, disk, provider
<1>9. ReadsTell(run[c])' /\ run'[c] = r
  BY <1>3, <1>6, <1>7, <1>8, <1>11, ReapStepTells
<1> QED
  BY <1>10, <1>6, <1>9 DEF WorkTells, Scan, provider, disk

\* Stop, Destroy and RemoveRoot go on to the next line.
LEMMA LineTells ==
  ASSUME NEW c, Alone(c), run[c].step \in ReapSteps, NEW step \in ReapSteps, Turn(c, step),
         \A a \in App \ {run[c].app} :
           /\ registry'[a] = registry[a] /\ (a \in dirs' <=> a \in dirs)
           /\ (a \in containers' <=> a \in containers) /\ (a \in storage' <=> a \in storage)
  PROVE  /\ ReadsTell(run[c])' /\ run'[c].step = step /\ run'[c].app = run[c].app
         /\ run'[c].plan = run[c].plan /\ run'[c].seen = run[c].seen
<1> DEFINE r == [run[c] EXCEPT !.step = step]
<1>1. run[c] \in Command
  BY DEF Alone, ScratchTypeInv, ScratchTypeOK
<1>2. r \in Command /\ r.step = step /\ r.app = run[c].app /\ r.seen = run[c].seen /\ r.plan = run[c].plan
      /\ r.kind = run[c].kind /\ r.candidates = run[c].candidates
      /\ r.failed = run[c].failed /\ r.keepVolumes = run[c].keepVolumes
  BY <1>1 DEF Command, ReapSteps
<1>3. run' = [run EXCEPT ![c] = r]
  BY DEF Turn
<1>4. run[c].failed = FALSE /\ run[c].keepVolumes = FALSE /\ run[c].kind = "gc"
  BY DEF Alone, ReadsTell
<1> HIDE DEF r
<1>5. ReadsTell(run[c])' /\ run'[c] = r
  BY <1>2, <1>3, <1>4, ReapStepTells
<1> QED
  BY <1>2, <1>5

LEMMA StopTells ==
  ASSUME NEW c, Alone(c), Stop(c) PROVE ReadsTell(run[c])' /\ WorkTells(run[c])'
<1>1. /\ ReadsTell(run[c])' /\ run'[c].step = "destroy" /\ run'[c].app = run[c].app
      /\ run'[c].plan = run[c].plan /\ run'[c].seen = run[c].seen
  BY LineTells DEF Stop, At, ReapSteps, disk
<1> QED
  BY <1>1 DEF Alone, WorkTells, Stop, At

LEMMA DestroyTells ==
  ASSUME NEW c, Alone(c), Destroy(c) PROVE ReadsTell(run[c])' /\ WorkTells(run[c])'
<1>1. /\ ReadsTell(run[c])' /\ run'[c].step = "rm" /\ run'[c].app = run[c].app
  BY LineTells DEF Destroy, At, ReapSteps, disk
<1>2. run[c].keepVolumes = FALSE
  BY DEF Alone, ReadsTell, Destroy, At, ReapSteps
<1> QED
  BY <1>1, <1>2 DEF Alone, WorkTells, Destroy, At

LEMMA RemoveRootTells ==
  ASSUME NEW c, Alone(c), RemoveRoot(c) PROVE ReadsTell(run[c])' /\ WorkTells(run[c])'
<1>1. /\ ReadsTell(run[c])' /\ run'[c].step = "unlink" /\ run'[c].app = run[c].app
  BY LineTells DEF RemoveRoot, At, ReapSteps, provider
<1> QED
  BY <1>1 DEF Alone, WorkTells, RemoveRoot, At, provider

LEMMA UnlinkTells ==
  ASSUME NEW c, Alone(c), Unlink(c) PROVE ReadsTell(run[c])' /\ WorkTells(run[c])'
<1>1. run[c].app \in App /\ c \in Runner /\ run[c].kind = "gc" /\ run[c].step \in ReapSteps
  BY BusyApp DEF Alone, Unlink, At, Busy, ReadsTell, ReapSteps
<1> DEFINE r == [Resting EXCEPT !.kind = "gc", !.step = "next", !.candidates = run[c].candidates]
<1>2. r.kind = "gc" /\ r.step = "next" /\ r.candidates = run[c].candidates /\ r.failed = FALSE /\ r.keepVolumes = FALSE
  BY DEF Resting
<1>3. run' = [run EXCEPT ![c] = r]
  BY <1>1 DEF Unlink, EndReap
<1> HIDE DEF r
<1>4. run'[c] = r /\ \A o \in Runner : o # c => run'[o] = run[o]
  BY <1>3 DEF Alone, ScratchTypeInv, ScratchTypeOK
<1>5. registry'[run[c].app] = None /\ \A a \in App : a # run[c].app => registry'[a] = registry[a]
  BY <1>1 DEF Unlink, Alone, ScratchTypeInv, ScratchTypeOK
<1>6. ASSUME NEW a \in App PROVE a \in r.candidates \/ Sound(a)'
  <2>1. CASE a = run[c].app
    BY <1>5, <2>1 DEF Sound, Alone, WorkTells, Unlink, At, disk, provider
  <2>2. CASE a # run[c].app /\ a \notin run[c].candidates
    <3>1. Sound(a)
      BY <1>1, <2>2 DEF Alone, ReadsTell
    <3> QED
      BY <1>1, <1>2, <1>4, <1>5, <2>2, <3>1, SoundKept DEF Alone, Unlink, disk, provider
  <2> QED
    BY <1>2, <2>1, <2>2
<1> QED
  BY <1>2, <1>4, <1>6 DEF ReadsTell, WorkTells, ReapSteps

LEMMA BeginGcTells ==
  ASSUME NEW c \in Runner, ScratchTypeInv, BeginGc(c) PROVE ReadsTell(run[c])' /\ WorkTells(run[c])'
<1>1. run[c] \in Command
  BY DEF ScratchTypeInv, ScratchTypeOK
<1> DEFINE r == [run[c] EXCEPT !.kind = "gc", !.step = "directories", !.entries = registry]
<1>2. r.kind = "gc" /\ r.step = "directories" /\ r.entries = registry
  BY <1>1 DEF Command
<1>3. run'[c] = r /\ registry' = registry
  BY DEF BeginGc, ScratchTypeInv, ScratchTypeOK
<1> HIDE DEF r
<1> QED
  BY <1>2, <1>3 DEF ReadsTell, WorkTells, ReapSteps

LEMMA ListDirectoriesTells ==
  ASSUME NEW c, Alone(c), ListDirectories(c) PROVE ReadsTell(run[c])' /\ WorkTells(run[c])'
<1>1. run[c] \in Command
  BY DEF Alone, ScratchTypeInv, ScratchTypeOK
<1> DEFINE r == [run[c] EXCEPT !.step = "labels", !.directories = dirs]
<1>2. r.kind = run[c].kind /\ r.step = "labels" /\ r.entries = run[c].entries /\ r.directories = dirs
  BY <1>1 DEF Command
<1>3. run'[c] = r /\ registry' = registry /\ dirs' = dirs
  BY DEF ListDirectories, disk, Alone, ScratchTypeInv, ScratchTypeOK
<1>4. run[c].kind = "gc" /\ run[c].entries = registry
  BY DEF Alone, ReadsTell, ListDirectories, At
<1> HIDE DEF r
<1> QED
  BY <1>2, <1>3, <1>4 DEF ReadsTell, WorkTells, ReapSteps

LEMMA ListLabelsTells ==
  ASSUME NEW c, Alone(c), ListLabels(c) PROVE ReadsTell(run[c])' /\ WorkTells(run[c])'
<1> DEFINE found == Candidates(registry, dirs, containers \cup storage)
           r == [Resting EXCEPT !.kind = "gc", !.step = "next", !.candidates = found]
<1>1. run[c].kind = "gc" /\ run[c].entries = registry /\ run[c].directories = dirs
  BY DEF Alone, ReadsTell, ListLabels, At
<1>2. run' = [run EXCEPT ![c] = r]
  <2>1. PICK labels \in {containers \cup storage, {}} :
          /\ IF labels # containers \cup storage THEN Accident ELSE UNCHANGED counts
          /\ run' = [run EXCEPT ![c] = [Resting EXCEPT !.kind = "gc", !.step = "next",
               !.candidates = Candidates(run[c].entries, run[c].directories, labels)]]
    BY DEF ListLabels
  <2>2. labels = containers \cup storage
    BY <2>1, NoAccident DEF Alone
  <2> QED
    BY <1>1, <2>1, <2>2
<1>3. r.kind = "gc" /\ r.step = "next" /\ r.candidates = found /\ r.failed = FALSE /\ r.keepVolumes = FALSE
  BY DEF Resting
<1>4. \A a \in App : a \in found \/ Sound(a)
  BY DEF Candidates, Sound
<1> HIDE DEF found
<1> HIDE DEF r
<1>5. run'[c] = r /\ \A o \in Runner : o # c => run'[o] = run[o]
  BY <1>2 DEF Alone, ScratchTypeInv, ScratchTypeOK
<1>6. ASSUME NEW a \in App PROVE a \in r.candidates \/ Sound(a)'
  BY <1>1, <1>3, <1>4, <1>5, SoundKept DEF Alone, ListLabels, disk, provider
<1> QED
  BY <1>3, <1>5, <1>6 DEF ReadsTell, WorkTells, ReapSteps

LEMMA NextCandidateTells ==
  ASSUME NEW c, Alone(c), NextCandidate(c), run'[c].kind = "gc"
  PROVE  ReadsTell(run[c])' /\ WorkTells(run[c])'
<1>1. run[c] \in Command /\ c \in Runner
  BY DEF Alone, ScratchTypeInv, ScratchTypeOK
<1>2. ~Leave(c)
  BY <1>1 DEF Leave, Resting, Alone, ScratchTypeInv, ScratchTypeOK
<1>3. PICK a \in run[c].candidates : Target(c, a, [run[c] EXCEPT !.candidates = @ \ {a}])
  BY <1>2 DEF NextCandidate
<1> DEFINE task == [run[c] EXCEPT !.candidates = @ \ {a}]
           r == [task EXCEPT !.step = "reap", !.app = a, !.plan = a \in plans]
<1>4. run'[c] = r /\ \A o \in Runner : o # c => run'[o] = run[o]
  BY <1>3 DEF Target, Alone, ScratchTypeInv, ScratchTypeOK
<1>5. r.step = "reap" /\ r.app = a /\ r.candidates = run[c].candidates \ {a}
      /\ r.kind = run[c].kind /\ r.failed = run[c].failed /\ r.keepVolumes = run[c].keepVolumes
  BY <1>1 DEF Command
<1> HIDE DEF r
<1>6. run[c].kind = "gc" /\ run[c].failed = FALSE /\ run[c].keepVolumes = FALSE
      /\ \A b \in App : b \in run[c].candidates \/ Sound(b)
  BY DEF Alone, ReadsTell, NextCandidate, At
<1>7. ASSUME NEW b \in App PROVE b = r.app \/ b \in r.candidates \/ Sound(b)'
  <2>1. CASE b # a /\ b \notin run[c].candidates
    BY <1>4, <1>5, <1>6, <2>1, SoundKept DEF Alone, NextCandidate, disk, provider
  <2> QED
    BY <1>5, <2>1
<1> QED
  BY <1>4, <1>5, <1>6, <1>7 DEF ReadsTell, WorkTells, ReapSteps

\* The collector's own steps, while nothing fails.
LEMMA WorkTellsOn ==
  ASSUME NEW c, Alone(c), Work(c), run'[c].kind = "gc" PROVE ReadsTell(run[c])' /\ WorkTells(run[c])'
<1>1. run[c].step \in ReapSteps \cup {"directories", "labels", "next"}
  BY DEF Alone, ReadsTell
<1>2. ~(MakeRoot(c) \/ WritePlan(c) \/ CreateVolumes(c) \/ StartContainers(c) \/ MarkRunning(c))
  BY <1>1 DEF MakeRoot, WritePlan, CreateVolumes, StartContainers, MarkRunning, At, ReapSteps
<1>3. ~(AcquireFails(c) \/ Detach(c) \/ CloseScope(c))
  BY <1>1 DEF AcquireFails, Detach, CloseScope, At, ReapSteps, AcquireSteps
<1>4. ~(ReapRefused(c) \/ ReapFails(c))
  BY NoAccident DEF Alone, ReapRefused, ReapFails
<1>5. CASE Inspect(c) \/ Scan(c) \/ Stop(c) \/ Destroy(c)
  BY <1>5, InspectTells, ScanTells, StopTells, DestroyTells
<1>6. CASE RemoveRoot(c) \/ Unlink(c) \/ ListDirectories(c)
  BY <1>6, RemoveRootTells, UnlinkTells, ListDirectoriesTells
<1>7. CASE ListLabels(c) \/ NextCandidate(c)
  BY <1>7, ListLabelsTells, NextCandidateTells
<1> QED
  BY <1>2, <1>3, <1>4, <1>5, <1>6, <1>7 DEF Work

LEMMA AloneStep == ScratchInv /\ AloneInv /\ [ScratchNext]_scratchVars => AloneInv'
<1> SUFFICES ASSUME ScratchInv, AloneInv, [ScratchNext]_scratchVars PROVE AloneInv'
  OBVIOUS
<1>0. ScratchTypeInv /\ \A c \in Runner : c # None
  BY ScratchAssumption DEF ScratchAssumption, ScratchInv
<1>1. CASE UNCHANGED scratchVars
  BY <1>1 DEF scratchVars, disk, provider, AloneInv, ReadsTell, WorkTells, Sound, OwnerDead
<1>2. ASSUME NEW c \in Runner, BeginGc(c) /\ alone' = c PROVE AloneInv'
  BY <1>0, <1>2, BeginGcTells DEF AloneInv
<1>3. ASSUME NEW c \in Runner, Work(c),
             alone' = IF alone = c /\ UNCHANGED accidents /\ run'[c].kind = "gc" THEN c ELSE None
      PROVE  AloneInv'
  <2>1. CASE alone = c /\ UNCHANGED accidents /\ run'[c].kind = "gc"
    <3>1. Alone(c) /\ alone' = c
      BY <1>0, <1>3, <2>1 DEF Alone, AloneInv
    <3> QED
      BY <1>3, <2>1, <3>1, WorkTellsOn DEF AloneInv
  <2>2. CASE ~(alone = c /\ UNCHANGED accidents /\ run'[c].kind = "gc")
    BY <1>3, <2>2 DEF AloneInv
  <2> QED
    BY <2>1, <2>2
<1>4. CASE alone' = None
  BY <1>4 DEF AloneInv
<1> QED
  BY <1>1, <1>2, <1>3, <1>4 DEF ScratchNext

\* A step of one command leaves those of the others alone.
LEMMA OthersRest ==
  ASSUME ScratchTypeInv, NEW c \in Runner, NEW o \in Runner, o # c,
         \/ Work(o) \/ BeginGc(o) \/ Die(o)
         \/ \E a \in App : Register(o, a) \/ BeginDestroy(o, a)
  PROVE  run'[c] = run[c]
<1> USE DEF ScratchTypeInv, ScratchTypeOK, Turn, Leave
<1>1. CASE MakeRoot(o) \/ WritePlan(o) \/ CreateVolumes(o) \/ StartContainers(o)
  BY <1>1 DEF MakeRoot, WritePlan, CreateVolumes, StartContainers
<1>2. CASE MarkRunning(o)
  BY <1>2 DEF MarkRunning
<1>3. CASE AcquireFails(o)
  BY <1>3 DEF AcquireFails, GiveUp
<1>4. CASE Detach(o)
  BY <1>4 DEF Detach
<1>5. CASE CloseScope(o)
  BY <1>5 DEF CloseScope
<1>6. CASE Inspect(o) \/ Unlink(o) \/ ReapRefused(o) \/ ReapFails(o)
  <2>1. CASE EndReap(o)
    BY <2>1 DEF EndReap
  <2>2. CASE ~EndReap(o)
    BY <1>6, <2>2 DEF Inspect, Unlink, ReapRefused, ReapFails
  <2> QED
    BY <2>1, <2>2
<1>7. CASE Scan(o) \/ Stop(o) \/ Destroy(o) \/ RemoveRoot(o)
  BY <1>7 DEF Scan, Stop, Destroy, RemoveRoot
<1>8. CASE ListDirectories(o) \/ ListLabels(o)
  BY <1>8 DEF ListDirectories, ListLabels
<1>9. CASE NextCandidate(o) \/ \E a \in App : BeginDestroy(o, a)
  BY <1>9 DEF NextCandidate, BeginDestroy, Target
<1>10. CASE BeginGc(o) \/ Die(o) \/ \E a \in App : Register(o, a)
  BY <1>10 DEF BeginGc, Die, Register
<1> QED
  BY <1>1, <1>2, <1>3, <1>4, <1>5, <1>6, <1>7, <1>8, <1>9, <1>10 DEF Work

LEMMA CollectionStep ==
  ScratchInv /\ AloneInv /\ [ScratchNext]_scratchVars =>
    \A c \in Runner :
      alone = c /\ At(c, "next") /\ run'[c] = Resting /\ UNCHANGED accidents =>
        \A a \in born : a \in dirs \cup containers \cup storage \/ registry[a] # None =>
          /\ a \in dirs /\ registry[a] # None
          /\ registry[a].status # "destroyed-pending-cleanup"
          /\ ~OwnerDead(a, registry[a])
<1> SUFFICES ASSUME ScratchInv, AloneInv, [ScratchNext]_scratchVars, NEW c \in Runner,
                    alone = c, At(c, "next"), run'[c] = Resting, UNCHANGED accidents, NEW a \in born,
                    a \in dirs \cup containers \cup storage \/ registry[a] # None
             PROVE  /\ a \in dirs /\ registry[a] # None
                    /\ registry[a].status # "destroyed-pending-cleanup"
                    /\ ~OwnerDead(a, registry[a])
  OBVIOUS
<1>1. a \in App /\ c # None /\ run \in [Runner -> Command]
  BY ScratchAssumption DEF ScratchAssumption, ScratchInv, ScratchTypeInv, ScratchTypeOK
<1>2. a \in run[c].candidates \/ Sound(a)
  BY <1>1 DEF AloneInv, ReadsTell, At
<1>3. run[c].candidates = {}
  <2>1. ScratchTypeInv /\ run'[c] # run[c]
    BY DEF ScratchInv, At, Resting
  <2>2. ~LoseRegistry /\ \A o \in Runner : ~Die(o)
    BY <2>1, NoAccident DEF LoseRegistry, Die
  <2>3. \/ Work(c) \/ BeginGc(c) \/ \E b \in App : Register(c, b) \/ BeginDestroy(c, b)
    BY <2>1, <2>2, OthersRest DEF ScratchNext, scratchVars
  <2>4. Work(c)
    BY <2>3 DEF BeginGc, Register, BeginDestroy, At
  <2>5. NextCandidate(c)
    <3>1. run[c].step = "next"
      BY DEF At
    <3>2. ~(MakeRoot(c) \/ WritePlan(c) \/ CreateVolumes(c) \/ StartContainers(c) \/ MarkRunning(c))
      BY <3>1 DEF MakeRoot, WritePlan, CreateVolumes, StartContainers, MarkRunning, At
    <3>3. ~(AcquireFails(c) \/ Detach(c) \/ CloseScope(c))
      BY <3>1 DEF AcquireFails, Detach, CloseScope, At, AcquireSteps
    <3>4. ~(Inspect(c) \/ Scan(c) \/ Stop(c) \/ Destroy(c) \/ RemoveRoot(c) \/ Unlink(c))
      BY <3>1 DEF Inspect, Scan, Stop, Destroy, RemoveRoot, Unlink, At
    <3>5. ~(ReapRefused(c) \/ ReapFails(c) \/ ListDirectories(c) \/ ListLabels(c))
      BY <3>1 DEF ReapRefused, ReapFails, ListDirectories, ListLabels, At
    <3> QED
      BY <2>4, <3>2, <3>3, <3>4, <3>5 DEF Work
  <2>6. ASSUME NEW b \in run[c].candidates, Target(c, b, [run[c] EXCEPT !.candidates = @ \ {b}])
        PROVE  FALSE
    <3>1. run[c] \in Command
      BY <2>1 DEF ScratchTypeInv, ScratchTypeOK
    <3>2. run'[c].step = "reap"
      BY <1>1, <2>6, <3>1 DEF Target, Command
    <3> QED
      BY <3>2 DEF Resting
  <2> QED
    BY <2>5, <2>6 DEF NextCandidate
<1> QED
  BY <1>2, <1>3 DEF Sound

\* Whatever came before it: a collection during which nobody else acts and nothing fails leaves
\* only apps with an entry, a directory, and a living owner or none.
THEOREM CollectionLeavesNothing == ScratchSpec => GcLeavesNothing
<1>1. ScratchSpec => [](ScratchInv /\ AloneInv)
  BY ScratchStart, ScratchStep, AloneStart, AloneStep, PTL DEF ScratchSpec
<1> QED
  BY <1>1, CollectionStep, PTL DEF ScratchSpec, GcLeavesNothing
=============================================================================

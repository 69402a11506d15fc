------------------------ MODULE VolumeInitialization ------------------------
(***************************************************************************)
(* The claim to fill a freshly created volume, one record per physical     *)
(* volume (state-store/src/volume-initialization.ts), with the recorder    *)
(* that writes it when a provider reports a creation                       *)
(* (engine/src/lifecycle/volume-initialization.ts).                        *)
(*                                                                         *)
(* A volume that is deleted and made again has a new generation.  Every    *)
(* record write is one bucket.mutate, atomic by StateBucket's promise.     *)
(* The callers that seed are taken to hold no lock at all, which allows    *)
(* more than they do.                                                      *)
(***************************************************************************)
EXTENDS Naturals, FiniteSets

CONSTANTS
  Process,          \* Lando commands
  Owner,            \* app roots
  NoHolder,           \* no lock holder
  NoVolume,         \* no volume of that name
  NoRecord,         \* the record file does not exist
  MaxGenerations    \* bound: volumes made

ASSUME GenerationsAssumption == MaxGenerations \in Nat
ASSUME DistinctAssumption == NoHolder \notin Process

Identity == [gen : 1..MaxGenerations, owner : Owner, origin : {"created", "adopted"}]
Phase == {"fresh", "in-progress", "seeded", "failed"}
Record == [id : Identity, phase : Phase, op : Process \cup {NoHolder}]
ASSUME NoneAssumption == NoVolume \notin Identity /\ NoRecord \notin Record

VARIABLES
  volume,     \* what the provider has under the volume's name
  made,       \* generations made so far
  initRecord, \* the durable initialization record
  volumeLock, \* the volume coordination lock
  claimStep, id, baseline,    \* each process: step, identity it works on, record read on opening
  claims      \* history: accepted claims, pairs <<identity, process>>

claimsVars == <<volume, made, initRecord, volumeLock, claimStep, id, baseline, claims>>

ClaimsInit ==
  /\ volume = NoVolume /\ made = 0 /\ initRecord = NoRecord /\ volumeLock = NoHolder
  /\ claimStep = [p \in Process |-> "idle"]
  /\ id = [p \in Process |-> NoVolume]
  /\ baseline = [p \in Process |-> NoRecord]
  /\ claims = {}

-----------------------------------------------------------------------------
(* planVolumeInitializationWrite.  An operation settled in the current      *)
(* phase keeps the record, as a refused one does.                          *)

ClaimEdge_Restart == [operation \in {"record-creation", "begin", "finish-seeded", "finish-failed"} |->
  CASE operation = "record-creation" -> [from |-> {"absent", "failed"}, to |-> "fresh"]
    [] operation = "begin"           -> [from |-> {"fresh"}, to |-> "in-progress"]
    [] operation = "finish-seeded"   -> [from |-> {"in-progress"}, to |-> "seeded"]
    [] operation = "finish-failed"   -> [from |-> {"in-progress"}, to |-> "failed"]]

ClaimEdge == [operation \in {"record-creation", "begin", "finish-seeded", "finish-failed"} |->
  CASE operation = "record-creation" -> [from |-> {"absent"}, to |-> "fresh"]
    [] operation = "begin"           -> [from |-> {"fresh"}, to |-> "in-progress"]
    [] operation = "finish-seeded"   -> [from |-> {"in-progress"}, to |-> "seeded"]
    [] operation = "finish-failed"   -> [from |-> {"in-progress"}, to |-> "failed"]]

Matches(identity) == initRecord # NoRecord /\ initRecord.id = identity

\* Only a created volume can be claimed, only the claimer can finish.
MeetsPreconditions(p, operation, identity) ==
  IF operation \in {"record-creation", "begin"}
    THEN identity.origin = "created"
    ELSE initRecord # NoRecord /\ initRecord.op = p

Generation(r) == IF r = NoRecord THEN 0 ELSE r.id.gen
OwnerOf(r) == IF r = NoRecord THEN NoRecord ELSE r.id.owner

\* The record is of another generation than the one read when the handle was opened.
BaselineDrifted(p, identity) ==
  \/ Generation(initRecord) = identity.gen
  \/ Generation(initRecord) # Generation(baseline[p])
  \/ OwnerOf(initRecord) # OwnerOf(baseline[p])

Allowed(p, operation, identity) ==
  /\ MeetsPreconditions(p, operation, identity)
  /\ operation = "record-creation" => Matches(identity) \/ ~BaselineDrifted(p, identity)

PhaseFor(identity) == IF Matches(identity) THEN initRecord.phase ELSE "absent"
Advances(p, operation, identity) ==
  Allowed(p, operation, identity) /\ PhaseFor(identity) \in ClaimEdge[operation].from

\* A refused or settled operation keeps the record.
Write(p, operation) ==
  initRecord' = IF Advances(p, operation, id[p])
              THEN [id |-> id[p], phase |-> ClaimEdge[operation].to,
                    op |-> IF operation = "record-creation" THEN NoHolder ELSE p]
              ELSE initRecord

-----------------------------------------------------------------------------
(* The recorder of created volumes.                                         *)

Proceed(p, step) == claimStep' = [claimStep EXCEPT ![p] = step]
Leave(p) ==
  /\ Proceed(p, "idle")
  /\ id' = [id EXCEPT ![p] = NoVolume]
  /\ baseline' = [baseline EXCEPT ![p] = NoRecord]
  /\ volumeLock' = IF volumeLock = p THEN NoHolder ELSE volumeLock

\* The provider makes the volume and reports it; the first locateVolume follows.
CreateVolume(p) ==
  /\ claimStep[p] = "idle" /\ volume = NoVolume /\ made < MaxGenerations
  /\ \E o \in Owner :
       volume' = [gen |-> made + 1, owner |-> o, origin |-> "created"]
  /\ made' = made + 1
  /\ id' = [id EXCEPT ![p] = volume']
  /\ Proceed(p, "locate")
  /\ UNCHANGED <<initRecord, volumeLock, baseline, claims>>

Locate(p) ==
  /\ claimStep[p] = "locate"
  /\ IF volume = id[p] THEN Proceed(p, "lock") /\ UNCHANGED <<id, baseline, volumeLock>> ELSE Leave(p)
  /\ UNCHANGED <<volume, made, initRecord, claims>>

CoordinationLock_None(p) ==
  /\ claimStep[p] = "lock"
  /\ Proceed(p, "verify")
  /\ UNCHANGED <<volume, made, initRecord, volumeLock, id, baseline, claims>>

CoordinationLock(p) ==
  /\ claimStep[p] = "lock" /\ volumeLock = NoHolder
  /\ volumeLock' = p
  /\ Proceed(p, "verify")
  /\ UNCHANGED <<volume, made, initRecord, id, baseline, claims>>

LockTimesOut(p) ==
  /\ claimStep[p] = "lock" /\ volumeLock # NoHolder
  /\ Leave(p)
  /\ UNCHANGED <<volume, made, initRecord, claims>>

Verify(p) ==
  /\ claimStep[p] = "verify"
  /\ IF volume = id[p] THEN Proceed(p, "open") /\ UNCHANGED <<id, baseline, volumeLock>> ELSE Leave(p)
  /\ UNCHANGED <<volume, made, initRecord, claims>>

OpenForCreation(p) ==
  /\ claimStep[p] = "open"
  /\ baseline' = [baseline EXCEPT ![p] = initRecord]
  /\ Proceed(p, "record")
  /\ UNCHANGED <<volume, made, initRecord, volumeLock, id, claims>>

\* recordCreation; a refusal fails the apply.  The same receipt may come again.
RecordCreation(p) ==
  /\ claimStep[p] = "record"
  /\ Write(p, "record-creation")
  /\ \/ Leave(p)
     \/ /\ Proceed(p, "locate")
        /\ volumeLock' = IF volumeLock = p THEN NoHolder ELSE volumeLock
        /\ baseline' = [baseline EXCEPT ![p] = NoRecord]
        /\ UNCHANGED id
  /\ UNCHANGED <<volume, made, claims>>

-----------------------------------------------------------------------------
(* A seeding operation, which names itself by its process.                  *)

OpenHandle(p) ==
  /\ claimStep[p] = "idle" /\ volume # NoVolume
  /\ id' = [id EXCEPT ![p] = volume]
  /\ baseline' = [baseline EXCEPT ![p] = initRecord]
  /\ Proceed(p, "opened")
  /\ UNCHANGED <<volume, made, initRecord, volumeLock, claims>>

BeginClaim(p) ==
  /\ claimStep[p] = "opened"
  /\ Write(p, "begin")
  /\ IF Advances(p, "begin", id[p])
       THEN /\ Proceed(p, "seeding") /\ UNCHANGED <<id, baseline, volumeLock>>
            /\ claims' = claims \cup {<<id[p], p>>}
       ELSE Leave(p) /\ UNCHANGED claims
  /\ UNCHANGED <<volume, made>>

\* Called by anybody with a handle, and more than once: the record decides.
Finish(p) ==
  /\ claimStep[p] \in {"opened", "seeding"}
  /\ \E operation \in {"finish-seeded", "finish-failed"} : Write(p, operation)
  /\ UNCHANGED <<volume, made, volumeLock, claimStep, id, baseline, claims>>

\* A command ends or dies at any point.
GiveUp(p) ==
  /\ claimStep[p] # "idle"
  /\ Leave(p)
  /\ UNCHANGED <<volume, made, initRecord, claims>>

-----------------------------------------------------------------------------
(* The runtime's user.                                                      *)

DeleteVolume ==
  /\ volume # NoVolume
  /\ volume' = NoVolume
  /\ UNCHANGED <<made, initRecord, volumeLock, claimStep, id, baseline, claims>>

\* A volume made without Lando.
AdoptVolume ==
  /\ volume = NoVolume /\ made < MaxGenerations
  /\ \E o \in Owner : volume' = [gen |-> made + 1, owner |-> o, origin |-> "adopted"]
  /\ made' = made + 1
  /\ UNCHANGED <<initRecord, volumeLock, claimStep, id, baseline, claims>>

Recording(p) == \/ CreateVolume(p) \/ Locate(p) \/ CoordinationLock(p) \/ LockTimesOut(p)
                \/ Verify(p) \/ OpenForCreation(p) \/ RecordCreation(p)
Seeding(p) == OpenHandle(p) \/ BeginClaim(p) \/ Finish(p)

ClaimsNext ==
  (\E p \in Process : Recording(p) \/ Seeding(p) \/ GiveUp(p)) \/ DeleteVolume \/ AdoptVolume

ClaimsSpec == ClaimsInit /\ [][ClaimsNext]_claimsVars

-----------------------------------------------------------------------------
(* Properties.                                                              *)

\* Types; a process between the two verifications and the record write holds the lock.
ClaimsTypeOK ==
  /\ volume \in Identity \cup {NoVolume} /\ made \in 0..MaxGenerations
  /\ initRecord \in Record \cup {NoRecord}
  /\ volumeLock \in Process \cup {NoHolder}
  /\ claimStep \in [Process -> {"idle", "locate", "lock", "verify", "open", "record", "opened",
                                "seeding"}]
  /\ id \in [Process -> Identity \cup {NoVolume}]
  /\ baseline \in [Process -> Record \cup {NoRecord}]
  /\ claims \subseteq Identity \X Process
  /\ \A p \in Process : /\ claimStep[p] # "idle" => id[p] # NoVolume
                        /\ volumeLock = p <=> claimStep[p] \in {"verify", "open", "record"}

\* A generation is filled by one operation at most, however handles, deletions, re-creations
\* and repeated creation receipts interleave (the point of the claim: schema comment "its
\* single initialization claim").
OneClaimPerGeneration ==
  \A c, d \in claims : c[1].gen = d[1].gen => c = d

\* An outcome belongs to the operation that claimed that very volume.
OutcomeByClaimer ==
  initRecord # NoRecord /\ initRecord.phase # "fresh" => <<initRecord.id, initRecord.op>> \in claims

\* The record only goes forward, first by generation, then by phase, and an outcome is final:
\* a command that still works on a volume deleted since cannot replace its successor's record
\* (baselineDrifted, and the second locateVolume under the coordination lock), and repeated
\* receipts do not make a claimed volume claimable again.
Rank(p) == CASE p = "fresh" -> 1 [] p = "in-progress" -> 2 [] OTHER -> 3
RecordNeverRegresses ==
  [][initRecord # NoRecord =>
       /\ initRecord' # NoRecord
       /\ \/ initRecord'.id.gen > initRecord.id.gen
          \/ initRecord' = initRecord
          \/ initRecord'.id = initRecord.id /\ Rank(initRecord.phase) < Rank(initRecord'.phase)]_claimsVars
=============================================================================

---------------------------- MODULE ManagedFiles ----------------------------
(***************************************************************************)
(* The managed-file service and its ledger (managed-file/src: service,     *)
(* ledger, marker; engine/src/plugins/context): files in the user's app    *)
(* that Lando and its plugins generate, and that the user may edit, take   *)
(* over or delete at any time, with no lock at all.                        *)
(*                                                                         *)
(* A caller holds the ledger's lock from its first look at the ledger to   *)
(* the ledger's new value.  The lock is the lock of LockContract, a dead   *)
(* owner's taken as reclaimed at once.  A checksum is the content itself.  *)
(***************************************************************************)
EXTENDS Naturals, Sequences, FiniteSets

CONSTANTS
  FileOwner, Core,      \* who generates files: plugins, which see the service through a view, and Core
  Caller, ActsFor,  \* processes and subscribers that call the service, each for one owner
  MarkerOf,         \* the ownership marker in each owner's files
  Path,
  Body,          \* contents Lando generates
  Batches,       \* the sequences of files an apply is called with
  NoCaller, NoFile, NoMark, NoText, NoEntry,
  MaxCalls, MaxEdits, MaxCuts, MaxLosses   \* bounds: calls, changes by the user, calls cut short,
                                           \* ledgers lost

\* What a file says: its marker or fence, the text under it, and, around a block, the user's
\* text.  A user's text is the number of the edit it was written by.
Word == 1..MaxEdits
Mark == {MarkerOf[o] : o \in FileOwner}
Content == [mark : Mark \cup {NoMark}, own : Body \cup Word \cup {NoText}, rest : SUBSET (Body \cup Word)]
Entry == [owner : FileOwner, mark : Mark, sum : Content, state : {"managed", "adopted"}]

ASSUME ManagedFilesAssumption ==
  /\ Core \in FileOwner /\ ActsFor \in [Caller -> FileOwner] /\ NoCaller \notin Caller
  /\ IsFiniteSet(Path) /\ Batches \subseteq Seq([path : Path, body : Body])
  /\ {MaxCalls, MaxEdits, MaxCuts, MaxLosses} \subseteq Nat
  /\ Body \cap Word = {} /\ NoText \notin Body \cup Word
  /\ NoMark \notin Mark /\ NoFile \notin Content /\ NoEntry \notin Entry

VARIABLES
  kind,          \* of each path: Lando owns a "file", one whose format has no slot for a marker
                 \* (a JSON array, "bare"), or a fenced "block" in the user's file.  It stays as it is.
  tree,          \* the content of each path, or NoFile
  saved,         \* the user's texts that backups hold
  ledger,        \* the durable entry of each path, or NoEntry
  holder,        \* of the ledger's lock
  at, call,      \* each caller: step, and the call it makes
  todo,          \* what it has not yet decided on
  draft,         \* the ledger it is going to record
  jobs,          \* the file operations it has decided on, in order
  strayed,       \* history: paths whose file the user changed, or a call cut short left behind
  calls, edits, cuts, losses   \* spent bounds

caller == <<at, call, todo, draft, jobs>>
filesVars == <<kind, tree, saved, ledger, holder, caller, strayed, calls, edits, cuts, losses>>

NoCall == [op |-> "none", files |-> <<>>, paths |-> {}]
Blank == [p \in Path |-> NoEntry]

Call == [op : {"apply"}, files : Batches, paths : {{}}]
        \cup [op : {"remove"}, files : {<<>>}, paths : {Path} \cup {{p} : p \in Path}]
        \cup [op : {"adopt", "release"}, files : {<<>>}, paths : {{p} : p \in Path}]

FilesInit ==
  /\ kind \in [Path -> {"file", "bare", "block"}]
  /\ tree \in [Path -> {NoFile} \cup [mark : {NoMark}, own : {NoText}, rest : {{}}]]
  /\ saved = {} /\ ledger = Blank /\ holder = NoCaller
  /\ at = [c \in Caller |-> "idle"] /\ call = [c \in Caller |-> NoCall]
  /\ todo = [c \in Caller |-> <<>>] /\ draft = [c \in Caller |-> Blank]
  /\ jobs = [c \in Caller |-> <<>>]
  /\ strayed = {} /\ calls = 0 /\ edits = 0 /\ cuts = 0 /\ losses = 0

-----------------------------------------------------------------------------
(* Contents.                                                               *)

\* The part of a file a checksum is of: the fenced block, or all of it.
Summed(p, content) == IF kind[p] = "block" THEN [content EXCEPT !.rest = {}] ELSE content

Desired(p, o, body) ==
  [mark |-> IF kind[p] = "bare" THEN NoMark ELSE MarkerOf[o], own |-> body, rest |-> {}]

\* A new block goes where the old one was.
Placed(p, old, new) == IF kind[p] = "block" /\ old # NoFile THEN [new EXCEPT !.rest = old.rest] ELSE new

Texts(content) == IF content = NoFile THEN {} ELSE content.rest \cup ({content.own} \ {NoText})
Words(content) == Texts(content) \cap Word

\* A file without its marker, or with the text of its block left in place of the fences.
Stripped(p, content, mark) ==
  IF kind[p] = "bare" \/ content.mark # mark THEN content
  ELSE IF kind[p] = "block" THEN [mark |-> NoMark, own |-> NoText, rest |-> Texts(content)]
  ELSE [content EXCEPT !.mark = NoMark]

Adopted(e) == e # NoEntry /\ e.state = "adopted"
Managed(e) == e # NoEntry /\ e.state = "managed"

\* Mutant: the ledger vouches for every file.
Claimed_ByLedger(p, content, mark, e) == content.mark = mark \/ Managed(e)

\* The file bears its owner's marker, or, where there is no room for one, the ledger vouches for it.
Claimed(p, content, mark, e) == IF kind[p] = "bare" THEN Managed(e) ELSE content.mark = mark

\* Mutant: any file Lando has an entry of.
Unedited_AnyEntry(p, content, e) == e # NoEntry

\* It is still what Lando wrote last.
Unedited(p, content, e) == e # NoEntry /\ Summed(p, content) = e.sum

-----------------------------------------------------------------------------
(* A plugin's view looks for paths of other owners in the ledger, without  *)
(* its lock, and fails; otherwise it hands the call to the service, which  *)
(* Core calls itself.                                                      *)

Named(r) == IF r.op = "apply" THEN {r.files[i].path : i \in DOMAIN r.files}
            ELSE IF r.op = "remove" /\ r.paths = Path THEN {} ELSE r.paths

\* assertNoForeignPath.
PassView(c) ==
  /\ ActsFor[c] # Core /\ at[c] = "idle" /\ calls < MaxCalls
  /\ \E r \in Call :
       /\ \A p \in Named(r) : ledger[p] # NoEntry => ledger[p].owner = ActsFor[c]
       /\ call' = [call EXCEPT ![c] = r]
  /\ at' = [at EXCEPT ![c] = "wait"]
  /\ calls' = calls + 1
  /\ UNCHANGED <<kind, tree, saved, ledger, holder, todo, draft, jobs, strayed, edits, cuts, losses>>

\* The entries a call is about: what a selector matches (matchesRemoveSelector), in the ledger's
\* order, which is any.
Selected(c, r) ==
  IF r.op = "remove" THEN {p \in r.paths : Managed(ledger[p]) /\ ledger[p].owner = ActsFor[c]} ELSE r.paths
Orders(S) == {s \in [1..Cardinality(S) -> S] : \A i, j \in DOMAIN s : s[i] = s[j] => i = j}

TakeLedger(c) ==
  /\ holder = NoCaller
  /\ \E r \in Call :
       /\ \/ at[c] = "wait" /\ r = call[c] /\ UNCHANGED <<call, calls>>
          \/ /\ at[c] = "idle" /\ ActsFor[c] = Core /\ calls < MaxCalls
             /\ call' = [call EXCEPT ![c] = r]
             /\ calls' = calls + 1
       /\ \E s \in Orders(Selected(c, r)) :
            todo' = [todo EXCEPT ![c] = r.files \o [i \in DOMAIN s |-> [path |-> s[i], body |-> NoText]]]
  /\ holder' = c
  /\ at' = [at EXCEPT ![c] = "work"]
  /\ draft' = [draft EXCEPT ![c] = ledger]
  /\ UNCHANGED <<kind, tree, saved, ledger, jobs, strayed, edits, cuts, losses>>

\* The call returns; what it did not record is forgotten.
Return(c) ==
  /\ holder' = NoCaller
  /\ at' = [at EXCEPT ![c] = "idle"]
  /\ call' = [call EXCEPT ![c] = NoCall]
  /\ todo' = [todo EXCEPT ![c] = <<>>]
  /\ draft' = [draft EXCEPT ![c] = Blank]
  /\ jobs' = [jobs EXCEPT ![c] = <<>>]

Fail(c) ==
  /\ Return(c)
  /\ strayed' = strayed \cup {p \in Path : \/ draft[c][p] # ledger[p]
                                          \/ \E i \in DOMAIN jobs[c] : jobs[c][i].path = p}

-----------------------------------------------------------------------------
(* Decisions.  An apply decides on all its files before it writes the      *)
(* first one; the other calls deal with one path after the other.          *)

Decides(c, ops) ==
  /\ at[c] = "work" /\ todo[c] # <<>> /\ call[c].op \in ops
  /\ call[c].op # "apply" => jobs[c] = <<>>

\* What a path will hold when the jobs decided on are done (pendingDisk).
PendingDisk(c, p) ==
  LET mine == {i \in DOMAIN jobs[c] : jobs[c][i].path = p}
  IN IF mine = {} THEN tree[p] ELSE jobs[c][CHOOSE i \in mine : \A j \in mine : j <= i].write

\* seen is the content the decision was taken on; a backup is due before the write.
Job(p, seen, write, backup) == [path |-> p, seen |-> seen, write |-> write, backup |-> backup]

Decided(c, e, new) ==
  /\ todo' = [todo EXCEPT ![c] = Tail(@)]
  /\ draft' = [draft EXCEPT ![c][Head(todo[c]).path] = e]
  /\ jobs' = [jobs EXCEPT ![c] = @ \o new]
  /\ UNCHANGED <<kind, tree, saved, ledger, holder, at, call, calls, edits, cuts, losses>>

\* decideFile and decideBlock.
DecideApply(c) ==
  /\ Decides(c, {"apply"})
  /\ LET p == Head(todo[c]).path
         o == ActsFor[c]
         e == draft[c][p]
         now == PendingDisk(c, p)
         want == Desired(p, o, Head(todo[c]).body)
         entry == [owner |-> o, mark |-> MarkerOf[o], sum |-> want, state |-> "managed"]
         claimed == now # NoFile /\ Claimed(p, now, MarkerOf[o], e)
         same == claimed /\ Summed(p, now) = want /\ (kind[p] = "bare" => Unedited(p, now, e))
         write(backup) == <<Job(p, now, Placed(p, now, want), backup)>>
     IN \/ /\ Adopted(e)
           /\ Decided(c, e, <<>>) /\ UNCHANGED strayed
        \/ /\ ~Adopted(e) /\ now = NoFile
           /\ Decided(c, entry, write(FALSE)) /\ UNCHANGED strayed
        \/ \* the user's own file, or one the user took over by removing the marker (the
           \* checksum of an adopted entry is not read again)
           /\ ~Adopted(e) /\ now # NoFile /\ ~claimed
           /\ Decided(c, [entry EXCEPT !.sum = Summed(p, now), !.state = "adopted"], <<>>)
           /\ UNCHANGED strayed
        \/ /\ ~Adopted(e) /\ same
           /\ Decided(c, entry, <<>>)
           /\ strayed' = strayed \ {p}
        \/ /\ ~Adopted(e) /\ claimed /\ ~same /\ Unedited(p, now, e)
           /\ Decided(c, entry, write(FALSE)) /\ UNCHANGED strayed
        \/ \* a conflict: overwrite (onConflict, force), skip or fail, as the caller asked
           /\ ~Adopted(e) /\ claimed /\ ~same /\ ~Unedited(p, now, e)
           /\ \/ Decided(c, entry, write(TRUE)) /\ UNCHANGED strayed
              \/ Decided(c, e, <<>>) /\ UNCHANGED strayed
              \/ Fail(c) /\ UNCHANGED <<kind, tree, saved, ledger, calls, edits, cuts, losses>>

\* What remove leaves of a file: the text around its block, or nothing.
Remainder(p, content) ==
  IF kind[p] = "block" THEN [mark |-> NoMark, own |-> NoText, rest |-> content.rest] ELSE NoFile

DecideRemove(c) ==
  /\ Decides(c, {"remove"})
  /\ LET p == Head(todo[c]).path
         e == draft[c][p]
         now == tree[p]
         claimed == now # NoFile /\ Claimed(p, now, e.mark, e)
     IN \/ ~claimed /\ Decided(c, NoEntry, <<>>)
        \/ /\ claimed /\ Unedited(p, now, e)
           /\ Decided(c, NoEntry, <<Job(p, now, Remainder(p, now), FALSE)>>)
        \/ claimed /\ ~Unedited(p, now, e) /\ Decided(c, e, <<>>)
  /\ UNCHANGED strayed

DecideHandover(c) ==
  /\ Decides(c, {"adopt", "release"})
  /\ LET p == Head(todo[c]).path
         e == draft[c][p]
         now == tree[p]
         next == IF Managed(e) THEN [e EXCEPT !.state = "adopted"] ELSE e
         changes == /\ call[c].op = "adopt" /\ e # NoEntry /\ now # NoFile
                    /\ Stripped(p, now, e.mark) # now
     IN Decided(c, next, IF changes THEN <<Job(p, now, Stripped(p, now, e.mark), FALSE)>> ELSE <<>>)
  /\ UNCHANGED strayed

-----------------------------------------------------------------------------
(* Writes, each of them atomic (writeFileAtomicScoped), and the ledger.    *)

Works(c) == /\ at[c] = "work" /\ jobs[c] # <<>>
            /\ call[c].op = "apply" => todo[c] = <<>>

Backup(c) ==
  /\ Works(c) /\ Head(jobs[c]).backup
  /\ LET job == Head(jobs[c])
     IN /\ saved' = saved \cup Words(Summed(job.path, job.seen))
        /\ jobs' = [jobs EXCEPT ![c][1].backup = FALSE]
  /\ UNCHANGED <<kind, tree, ledger, holder, at, call, todo, draft, strayed, calls, edits, cuts, losses>>

WriteFile(c) ==
  /\ Works(c) /\ ~Head(jobs[c]).backup
  /\ LET job == Head(jobs[c])
     IN /\ tree' = [tree EXCEPT ![job.path] = job.write]
        /\ strayed' = strayed \ {job.path}
  /\ jobs' = [jobs EXCEPT ![c] = Tail(@)]
  /\ UNCHANGED <<kind, saved, ledger, holder, at, call, todo, draft, calls, edits, cuts, losses>>

\* Mutant: the ledger before the files.
RecordLedger_First(c) ==
  /\ at[c] = "work" /\ todo[c] = <<>>
  /\ ledger' = draft[c]
  /\ Return(c)
  /\ UNCHANGED <<kind, tree, saved, strayed, calls, edits, cuts, losses>>

RecordLedger(c) ==
  /\ at[c] = "work" /\ todo[c] = <<>> /\ jobs[c] = <<>>
  /\ ledger' = draft[c]
  /\ Return(c)
  /\ UNCHANGED <<kind, tree, saved, strayed, calls, edits, cuts, losses>>

\* The process dies, or a read or a write fails: the ledger stays as it was.
CutShort(c) ==
  /\ at[c] = "work" /\ cuts < MaxCuts
  /\ cuts' = cuts + 1
  /\ Fail(c)
  /\ UNCHANGED <<kind, tree, saved, ledger, calls, edits, losses>>

-----------------------------------------------------------------------------
(* The user and the world.                                                 *)

\* What an editor can make of a path: a new text in the file, in the block or around it, the
\* marker or the fences gone, a file deleted or made anew.
Edits(p, word) ==
  IF tree[p] = NoFile
  THEN {[mark |-> NoMark, own |-> IF kind[p] = "block" THEN NoText ELSE word,
         rest |-> IF kind[p] = "block" THEN {word} ELSE {}]}
  ELSE {NoFile}
       \cup (IF kind[p] = "block" /\ tree[p].mark = NoMark THEN {} ELSE {[tree[p] EXCEPT !.own = word]})
       \cup (IF kind[p] = "block" THEN {[tree[p] EXCEPT !.rest = @ \cup {word}]} ELSE {})
       \cup {Stripped(p, tree[p], tree[p].mark)}

EditByUser(p) ==
  /\ edits < MaxEdits
  /\ edits' = edits + 1
  /\ \E content \in Edits(p, edits + 1) : content # tree[p] /\ tree' = [tree EXCEPT ![p] = content]
  /\ strayed' = strayed \cup {p}
  /\ UNCHANGED <<kind, saved, ledger, holder, caller, calls, cuts, losses>>

\* The ledger's file is damaged: the next call quarantines it and begins with an empty one.
QuarantineLedger ==
  /\ losses < MaxLosses /\ holder = NoCaller
  /\ losses' = losses + 1
  /\ ledger' = Blank
  /\ UNCHANGED <<kind, tree, saved, holder, caller, strayed, calls, edits, cuts>>

FilesNext ==
  \/ \E c \in Caller :
       \/ PassView(c) \/ TakeLedger(c)
       \/ DecideApply(c) \/ DecideRemove(c) \/ DecideHandover(c)
       \/ Backup(c) \/ WriteFile(c) \/ RecordLedger(c) \/ CutShort(c)
  \/ \E p \in Path : EditByUser(p)
  \/ QuarantineLedger

FilesSpec == FilesInit /\ [][FilesNext]_filesVars

-----------------------------------------------------------------------------
FilesTypeOK ==
  /\ kind \in [Path -> {"file", "bare", "block"}]
  /\ tree \in [Path -> Content \cup {NoFile}] /\ saved \subseteq Word
  /\ ledger \in [Path -> Entry \cup {NoEntry}] /\ holder \in Caller \cup {NoCaller}
  /\ at \in [Caller -> {"idle", "wait", "work"}]
  /\ draft \in [Caller -> [Path -> Entry \cup {NoEntry}]]
  /\ strayed \subseteq Path

ByCaller == edits' = edits

\* "refuses to silently clobber a user edit" (service.ts): what the user had written by the time
\* a call looked at a file is in the file or in a backup after the call changed it, whatever
\* calls, deaths, lost ledgers and other edits went before.
EditsSpared ==
  [][\A c \in Caller : \A p \in Path :
       ByCaller /\ holder = c /\ tree'[p] # tree[p]
         => Words(Head(jobs[c]).seen) \subseteq Texts(tree'[p]) \cup saved']_filesVars

\* "Managed by Lando; delete this line to adopt this file" (marker.ts): no call but adopt changes
\* a file whose entry is adopted, and none changes a file it found without a marker.
HandsOff ==
  [][\A c \in Caller : \A p \in Path :
       ByCaller /\ holder = c /\ tree'[p] # tree[p]
         => /\ Adopted(ledger[p]) => call[c].op = "adopt"
            /\ LET seen == Head(jobs[c]).seen
               IN kind[p] # "bare" /\ seen # NoFile => seen.mark # NoMark]_filesVars

\* The ledger describes what is on disk: between calls a managed path holds what its entry says,
\* unless the user changed the file since or a call that wrote it was cut short.  A conflict
\* Lando reports is therefore one of those.
LedgerTellsTruth ==
  holder = NoCaller =>
    \A p \in Path \ strayed : Managed(ledger[p]) => tree[p] # NoFile /\ Unedited(p, tree[p], ledger[p])

\* "managedFiles MUST prevent cross-owner remove, adopt, or release operations"
\* (spec/10-plugins.md): a plugin's call to one of them changes no other owner's file or entry.
OwnersApart ==
  [][\A c \in Caller : \A p \in Path :
       /\ ByCaller /\ losses' = losses /\ holder = c
       /\ ActsFor[c] # Core /\ call[c].op # "apply"
       /\ tree'[p] # tree[p] \/ ledger'[p] # ledger[p]
       => ledger[p] = NoEntry \/ ledger[p].owner = ActsFor[c]]_filesVars
=============================================================================

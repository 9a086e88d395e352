---------------------------- MODULE ShippedJournal ----------------------------
(***************************************************************************)
(* The shipped journal as a file: an identity header, one line per shipped  *)
(* transaction, appended without a sync, compacted by a rename, given back  *)
(* or purged when a poller starts.  The mutex makes every operation atomic  *)
(* but for a kill or a failed write in the middle of an append, which may   *)
(* leave a line without its end; the next append continues that line.       *)
(*                                                                          *)
(* The pipeline records from the moment the process runs; the poller tells  *)
(* the journal its identity only once it has read the genesis hash and      *)
(* loaded the checkpoint.  A restart may be configured for another target.  *)
(*                                                                          *)
(* The module composes the journal with the checkpoint that vouches for it: *)
(* it is given back below a loaded checkpoint of its own target, and        *)
(* compacted once a checkpoint is saved.  Both lie in one directory.  The   *)
(* process may be killed and the host may crash between any two steps.      *)
(***************************************************************************)
EXTENDS Checkpoint, Naturals, Sequences, SequencesExt, Selection

CONSTANTS
    Transaction,  \* the transactions that ship
    SlotOf,       \* SlotOf[t]: the slot of transaction t
    FaultLimit    \* bound: kills of the process, crashes of the host, failed writes

ASSUME JournalAssumption ==
    /\ SlotOf \in [Transaction -> Nat \ {0}]
    /\ FaultLimit \in Nat

VARIABLES
    lines,      \* durable: the lines of the file; <<>> when it is empty or absent
    cut,        \* durable: whether the last line lacks its end
    target,     \* the target this process is configured for
    pc,         \* "starting", "running" or "parked"; the steps of a save in between
    identity,   \* JournalState.identity
    opened,     \* JournalState.file
    written,    \* JournalState.written
    restored,   \* what restore gave the poller of this process
    shipped,    \* history: shipped[g]: what processes of target g have shipped
    unclaimed,  \* history: recorded without the target's own header
    promised,   \* history: promised[g]: recorded whole by g below its own header
    glued,      \* history: recorded onto a line without its end
    faults      \* history: kills and failed writes so far

file     == <<lines, cut>>
process  == <<target, pc, identity, opened, written, restored>>
history  == <<shipped, unclaimed, promised, glued>>
vars     == <<file, checkpoint, process, history, faults>>

Header(g)      == [kind |-> "header", target |-> g]
Entry(t, slot) == [kind |-> "entry", tx |-> t, slot |-> slot]
Junk           == [kind |-> "junk"]

Line == [kind : {"header"}, target : Target \cup {Nobody}]
        \cup [kind : {"entry"}, tx : Transaction, slot : Nat]
        \cup [kind : {"junk"}]

NonePromised == [g \in Target |-> {}]

TypeOK ==
    /\ lines \in Seq(Line) /\ cut \in BOOLEAN
    /\ cut => lines # <<>>
    /\ CheckpointTypeOK
    /\ target \in Target
    /\ pc \in {"starting", "running", "written", "renamed", "parked"}
    /\ identity \in {Nobody, target}
    /\ opened \in BOOLEAN
    /\ written \subseteq Transaction /\ restored \subseteq Transaction
    /\ shipped \in [Target -> SUBSET Transaction]
    /\ promised \in [Target -> SUBSET Transaction]
    /\ unclaimed \subseteq Transaction /\ glued \subseteq Transaction
    /\ faults \in Nat

Init ==
    /\ lines = <<>> /\ cut = FALSE
    /\ CheckpointInit
    /\ target \in Target
    /\ pc = "starting" /\ identity = Nobody
    /\ opened = FALSE /\ written = {} /\ restored = {}
    /\ shipped = [g \in Target |-> {}]
    /\ promised = NonePromised
    /\ unclaimed = {} /\ glued = {}
    /\ faults = 0

-------------------------------------------------------------------------------
(* Reading the file. *)

\* The target of the first line, if that is a header.
HeaderOf(ls) == IF ls # <<>> /\ ls[1].kind = "header" THEN ls[1].target ELSE Nobody

HasHeader(ls) == ls # <<>> /\ ls[1].kind = "header"

\* Every line below the header that parses is an entry.
EntriesIn(ls) == {l \in ToSet(ls) : l.kind = "entry"}

TransactionsIn(ls) == {l.tx : l \in EntriesIn(ls)}

-------------------------------------------------------------------------------
(* Appending. *)

\* Text that continues a line without its end makes one line of the two: a header
\* nobody's identity equals, or no entry at all.
Continued(line) == IF line.kind = "header" THEN Header(Nobody) ELSE Junk

Write(ls, isCut, line) ==
    IF isCut THEN [ls EXCEPT ![Len(ls)] = Continued(@)] ELSE Append(ls, line)

\* What the first bytes of a line read as: nothing, a header or a slot cut short,
\* or the line itself without its end.
Fragments(line) ==
    CASE line.kind = "header" -> {Junk, Header(Nobody), line}
      [] line.kind = "entry"  -> {Junk, Entry(line.tx, 0), line}
      [] line.kind = "junk"   -> {Junk}

Journal == [lines |-> lines, cut |-> cut]

\* The file after a line, and after a first part of it.
Put(f, line) == [lines |-> Write(f.lines, f.cut, line), cut |-> FALSE]

CutOff(f, line) ==
    {[lines |-> Write(f.lines, f.cut, fragment), cut |-> TRUE] : fragment \in Fragments(line)}

\* A file opened empty is stamped, once the identity is known.
Stamps == ~opened /\ lines = <<>> /\ identity # Nobody

Stamped == IF Stamps THEN Put(Journal, Header(identity)) ELSE Journal

Appended(t) == Put(Stamped, Entry(t, SlotOf[t]))

\* The file after a first part of the header, or of the header and the entry.
Interrupted(t) ==
    {Journal, Stamped} \cup (IF Stamps THEN CutOff(Journal, Header(identity)) ELSE {})
                      \cup CutOff(Stamped, Entry(t, SlotOf[t]))

Becomes(f) == lines' = f.lines /\ cut' = f.cut

\* The entry whose line an append would continue.
Unended == IF cut THEN TransactionsIn(<<Last(lines)>>) ELSE {}

\* t has shipped, and some of its line may stand below another header, or none.
Claim(t) ==
    /\ shipped' = [shipped EXCEPT ![target] = @ \cup {t}]
    /\ unclaimed' = IF HeaderOf(lines') = target THEN unclaimed ELSE unclaimed \cup {t}

\* A transaction has been logged; it is journaled once.
Record(t) ==
    /\ t \notin written
    /\ Becomes(Appended(t))
    /\ opened' = TRUE
    /\ written' = written \cup {t}
    /\ Claim(t)
    /\ promised' = IF HeaderOf(lines') = target
                   THEN [promised EXCEPT ![target] = @ \cup {t}] ELSE promised
    /\ glued' = IF cut THEN glued \cup Unended \cup {t} ELSE glued
    /\ UNCHANGED <<checkpoint, target, pc, identity, restored, faults>>

\* Mutant: the entry whose write failed is remembered as written.
WrittenAnyway(t) == written \cup {t}

\* An entry whose write failed may be tried again.
WrittenAfterFailure(t) == written

\* A header that is not written whole leaves the file to be opened again.
HeaderWritten == Len(lines') > 1 \/ (lines' # <<>> /\ ~cut')

\* The open fails, or the write part of the way, a full disk for one.
RecordFails(t) ==
    /\ t \notin written
    /\ faults < FaultLimit
    /\ faults' = faults + 1
    /\ \E f \in Interrupted(t) : Becomes(f)
    /\ IF UNCHANGED file THEN opened' \in {opened, opened \/ ~Stamps}
                         ELSE opened' = (~Stamps \/ HeaderWritten)
    /\ written' = WrittenAfterFailure(t)
    /\ glued' = glued \cup Unended
    /\ Claim(t)
    /\ UNCHANGED <<checkpoint, target, pc, identity, restored, promised>>

-------------------------------------------------------------------------------
(* Starting a poller. *)

\* Mutant: the end of the last line is still missing from an emptied file.
PurgeLines == lines' = <<>> /\ opened' = FALSE /\ UNCHANGED cut

\* The file is removed, or else truncated, or stays.
Purge ==
    /\ \/ lines' = <<>> /\ cut' = FALSE
       \/ UNCHANGED file
    /\ opened' = FALSE

\* Mutant: any header will do.
AnyHeader == HasHeader(lines)

OwnHeader == HeaderOf(lines) = target

Loaded == Whole(named) /\ named.target = target

\* The checkpoint of this target was loaded.  The entries are given back below its
\* own header only, and any other journal is purged.
Restore ==
    /\ pc = "starting"
    /\ Loaded
    /\ pc' = "running"
    /\ identity' = target
    /\ IF OwnHeader
         THEN /\ restored' = TransactionsIn(lines)
              /\ UNCHANGED <<file, opened, promised>>
         ELSE /\ restored' = {}
              /\ promised' = NonePromised
              /\ Purge
    /\ written' = restored'
    /\ UNCHANGED <<checkpoint, target, shipped, unclaimed, glued, faults>>

\* The file cannot be read: nothing is given back and the file stays.
RestoreUnreadable ==
    /\ pc = "starting"
    /\ Loaded
    /\ lines # <<>>
    /\ pc' = "running"
    /\ identity' = target
    /\ restored' = {} /\ written' = {}
    /\ UNCHANGED <<file, checkpoint, target, opened, history, faults>>

\* There is no checkpoint, or a corrupt one has been moved aside, or it belongs to
\* another target and recovery is parked: no journal is vouched for.
Discard ==
    /\ pc = "starting"
    /\ ~Loaded
    /\ IF Whole(named) THEN UNCHANGED checkpoint
       ELSE named' = NoFile /\ older' = {} /\ UNCHANGED temporary
    /\ pc' = IF Whole(named) /\ named # NoFile THEN "parked" ELSE "running"
    /\ identity' = target
    /\ Purge
    /\ written' = {} /\ restored' = {}
    /\ promised' = NonePromised
    /\ UNCHANGED <<target, shipped, unclaimed, glued, faults>>

\* The checkpoint cannot be read, or a corrupt one not be moved aside or its directory
\* not synced.  The load is tried again, and after a few attempts recovery is parked
\* before the journal knows its identity.
LoadFails ==
    /\ pc = "starting"
    /\ \/ named # NoFile /\ UNCHANGED checkpoint
       \/ MoveAside
    /\ pc' \in {"starting", "parked"}
    /\ UNCHANGED <<file, target, identity, opened, written, restored, history, faults>>

-------------------------------------------------------------------------------
(* Saving the checkpoint, and compacting after a save. *)

SaveStep(from, to) ==
    /\ pc = from /\ pc' = to
    /\ UNCHANGED <<target, identity, restored, shipped, unclaimed, glued>>

\* A save is due; the write in the background may fail.
BeginSave ==
    /\ SaveStep("running", "written")
    /\ \/ WriteTemporary(target, FALSE) /\ UNCHANGED faults
       \/ /\ faults < FaultLimit
          /\ WriteTemporary(target, TRUE)
          /\ faults' = faults + 1
    /\ UNCHANGED <<file, opened, written, promised>>

InstallSave ==
    /\ SaveStep("written", "renamed")
    /\ InstallTemporary
    /\ UNCHANGED <<file, opened, written, promised, faults>>

\* One of the steps fails: nothing is reported as saved.
SaveFails ==
    /\ faults < FaultLimit
    /\ faults' = faults + 1
    /\ \E from \in {"written", "renamed"} : SaveStep(from, "running")
    /\ Kept
    /\ UNCHANGED <<file, opened, written, promised>>

Above(slot) == {l \in EntriesIn(lines) : l.slot > slot}

Retained(slot) == Only(lines, Above(slot))

\* Mutant: the header is not carried over.
RewrittenBare(slot) == Retained(slot)

\* The new file: the old header, and what parses and is above the slot.
Rewritten(slot) == (IF HasHeader(lines) THEN <<lines[1]>> ELSE <<>>) \o Retained(slot)

\* The directory is synced and the checkpoint reported as saved; then the journal is
\* compacted.  Its file is replaced only if an entry goes.
Compact(slot) ==
    /\ SaveStep("renamed", "running")
    /\ SyncDirectory
    /\ IF Above(slot) = EntriesIn(lines)
         THEN UNCHANGED <<file, opened, written>>
         ELSE /\ lines' = Rewritten(slot)
              /\ cut' = FALSE
              /\ opened' = FALSE
              /\ written' = {l.tx : l \in Above(slot)}
    /\ promised' = [g \in Target |-> {t \in promised[g] : SlotOf[t] > slot}]
    /\ UNCHANGED faults

\* The journal cannot be rewritten: until the rename the old file is the journal.
CompactFails ==
    /\ SaveStep("renamed", "running")
    /\ SyncDirectory
    /\ UNCHANGED <<file, opened, written, promised, faults>>

-------------------------------------------------------------------------------
(* The process is killed, perhaps in the middle of an append, or the host        *)
(* crashes, and it starts again, perhaps for another target.                     *)
Kill(f) ==
    /\ faults < FaultLimit
    /\ faults' = faults + 1
    /\ Becomes(f)
    /\ target' \in Target
    /\ pc' = "starting" /\ identity' = Nobody
    /\ opened' = FALSE /\ written' = {} /\ restored' = {}

Crash == Kill(Journal) /\ Kept /\ UNCHANGED history

CrashRecording(t) ==
    /\ t \notin written
    /\ \E f \in Interrupted(t) : Kill(f)
    /\ Kept
    /\ Claim(t)
    /\ glued' = glued \cup Unended
    /\ UNCHANGED promised

\* No append is synced: any first part of the file may be left of it.
Remains(f) ==
    {f} \cup {[lines |-> SubSeq(f.lines, 1, n - 1), cut |-> FALSE] : n \in DOMAIN f.lines}
        \cup UNION {{[lines |-> Append(SubSeq(f.lines, 1, n - 1), fragment), cut |-> TRUE] :
                         fragment \in Fragments(f.lines[n])} : n \in DOMAIN f.lines}

HostCrash ==
    /\ \E f \in Remains(Journal) : Kill(f)
    /\ LostUnlessSynced
    /\ promised' = NonePromised
    /\ UNCHANGED <<shipped, unclaimed, glued>>

Next ==
    \/ \E t \in Transaction : Record(t) \/ RecordFails(t) \/ CrashRecording(t)
    \/ Restore
    \/ RestoreUnreadable
    \/ Discard
    \/ LoadFails
    \/ BeginSave
    \/ InstallSave
    \/ SaveFails
    \/ \E slot \in {0} \cup {SlotOf[t] : t \in Transaction} : Compact(slot)
    \/ CompactFails
    \/ Crash
    \/ HostCrash

Spec == Init /\ [][Next]_vars

-------------------------------------------------------------------------------
(* Properties. *)

\* What a process will not journal again is in the file, unless it was appended to
\* a line without its end.
WrittenIsInFile == written \subseteq TransactionsIn(lines) \cup glued

\* What a target recorded whole below its own header, and no compaction dropped, a
\* restart of that target gets back: across kills in the middle of an append,
\* failed writes and failed compactions, and again but for those lines.
JournaledIsRestorable ==
    \A g \in Target :
        promised[g] \ glued # {} =>
            HeaderOf(lines) = g /\ promised[g] \subseteq TransactionsIn(lines) \cup glued

\* The checkpoint is found whole, as it was before a save or as it was after it,
\* wherever the process is killed and the host crashes: a torn one would be moved
\* aside, and with it the slots since (README.md:240, "an atomic checkpoint").
\* Except one whose write failed unreported.
CheckpointIsFoundWhole == named.content # "torn"

\* The journal forgets an entry only for a checkpoint that is there to stay: whatever a
\* crash of the host leaves of it is a document of this target.
ForgottenForDurable ==
    [][pc # "starting" /\ pc' # "starting"
         /\ ~(TransactionsIn(lines) \ glued' \subseteq TransactionsIn(lines')) =>
       \A f \in older' \cup {named'} : \A left \in AfterHostCrash(f) :
           left.target = target /\ (Whole(left) \/ left.content = "short")]_vars

\* A poller suppresses what its own target shipped, or what a process recorded that
\* had not given the journal its own header.
ForeignOnlyIfUnclaimed == restored \subseteq shipped[target] \cup unclaimed

\* No poller suppresses what only another target shipped (shipped.rs, "cannot
\* suppress another target's transactions, because its header no longer matches").
NoForeignSuppression == restored \subseteq shipped[target]

\* A kill in the middle of an append costs the entry it cut and no other
\* (shipped.rs, "dropping it only costs the duplicate suppression for that one
\* transaction").
OnlyTheCutEntryIsLost ==
    \A g \in Target : HeaderOf(lines) = g => promised[g] \subseteq TransactionsIn(lines)
===============================================================================

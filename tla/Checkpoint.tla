------------------------------ MODULE Checkpoint ------------------------------
(***************************************************************************)
(* The recovery checkpoint as a file.  A save writes the document to a     *)
(* temporary file beside it, syncs that, renames it over the checkpoint    *)
(* and syncs the directory; only then it is reported as saved.  A kill of  *)
(* the process leaves the files as they are named; a crash of the host     *)
(* loses what no sync has made durable, of a file and of the directory.    *)
(*                                                                         *)
(* Of a document only the target it belongs to matters here, and whether   *)
(* it is whole.                                                            *)
(***************************************************************************)
CONSTANT Target  \* the deployment targets: cluster, program and addresses

\* The identity no target has.
Nobody == "nobody"

ASSUME NobodyAssumption == Nobody \notin Target

VARIABLES
    temporary,  \* the temporary checkpoint that is being written
    named,      \* the file that the checkpoint's path names
    older       \* the files it may name again after a crash of the host

checkpoint == <<temporary, named, older>>

\* A file that is whole and written, but not synced, may be torn by a crash of the
\* host.  One whose write failed is short.
CheckpointFile == [target : Target, content : {"cached", "synced", "torn", "short"}]

NoFile == [target |-> Nobody, content |-> "synced"]

Whole(f) == f.content \in {"cached", "synced"}

CheckpointTypeOK ==
    /\ temporary \in CheckpointFile \union {NoFile}
    /\ named \in CheckpointFile \union {NoFile}
    /\ older \subseteq CheckpointFile \union {NoFile}

CheckpointInit == temporary = NoFile /\ named = NoFile /\ older = {}

-------------------------------------------------------------------------------
(* A save, step by step. *)

\* Mutant: the temporary file is not synced.
StillCached == "cached"

AfterSync == "synced"

\* The document is written and synced.  Tokio writes in the background: a write that
\* fails, for want of space say, is not reported by the sync that follows it.
WriteTemporary(target, fails) ==
    /\ temporary' = [target |-> target, content |-> IF fails THEN "short" ELSE AfterSync]
    /\ UNCHANGED <<named, older>>

\* Until the directory is synced the path may name the old file again.
Rename(f) == named' = f /\ older' = older \union {named}

InstallTemporary == Rename(temporary) /\ temporary' = NoFile

\* Mutant: the directory is not synced before the save is reported.
DirectoryStays == UNCHANGED older

DirectorySynced == older' = {}

SyncDirectory == DirectorySynced /\ UNCHANGED <<temporary, named>>

\* `quarantine_corrupt`: a file that is not a whole document is moved aside.
MoveAside == ~Whole(named) /\ Rename(NoFile) /\ UNCHANGED temporary

\* The process ends; a temporary file that is left is truncated by the next save.
Kept == temporary' = NoFile /\ UNCHANGED <<named, older>>

\* What a crash of the host makes of a file.
AfterHostCrash(f) ==
    {[f EXCEPT !.content = c] : c \in IF f.content = "cached" THEN {"synced", "torn"} ELSE {f.content}}

LostUnlessSynced ==
    /\ named' \in UNION {AfterHostCrash(f) : f \in older \union {named}}
    /\ older' = {} /\ temporary' = NoFile
===============================================================================

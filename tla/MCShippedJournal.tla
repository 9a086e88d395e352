--------------------------- MODULE MCShippedJournal ---------------------------
(* Two transactions in consecutive slots, two targets that nothing tells apart. *)
EXTENDS ShippedJournal, TLC

MCTransaction == 1..2
MCSlotOf == [t \in MCTransaction |-> t]

Interchangeable == Permutations(Target)

\* Nothing fails: no open, read, write, sync or removal, and nothing is recorded before
\* the journal has been restored or purged.  The process may be killed, in the middle of
\* an append too.
OnlyKills ==
    \/ identity # Nobody /\ \E t \in Transaction : Record(t) \/ CrashRecording(t)
    \/ Restore /\ (OwnHeader \/ lines' = <<>>)
    \/ Discard /\ lines' = <<>>
    \/ BeginSave /\ UNCHANGED faults
    \/ InstallSave
    \/ \E slot \in {0} \cup {SlotOf[t] : t \in Transaction} : Compact(slot)
    \/ Crash

KillsSpec == Init /\ [][OnlyKills]_vars
===============================================================================

------------------------------- MODULE Records --------------------------------
(***************************************************************************)
(* The structured records the pipeline logs for one transaction: those of  *)
(* the program's instructions and of the events they emit, and those of    *)
(* the activity of the configured multisig.                                *)
(*                                                                         *)
(* A transaction is the sequence of its instructions in execution order.   *)
(* An instruction has                                                      *)
(*   path     its absolute path in the transaction,                        *)
(*   program  "monitored", "v3", "v4", "v5" or "other",                    *)
(*   kind     what it decodes to; of the 90 Squads instructions only those *)
(*            that are treated differently are told apart,                 *)
(*   account  the account at the kind's multisig, settings or consensus    *)
(*            account position,                                            *)
(*   applied  the settings actions among its arguments,                    *)
(*   logs     the payloads of the "Program data:" lines of its own frame,  *)
(*   payload  the event of a self-CPI.                                     *)
(* A payload that is "garbage" gives no event: a log line that does not    *)
(* decode, or an event of a self-CPI that serializes to no object.  The    *)
(* kind "undecodable" is that of a monitored instruction that the          *)
(* generated decoder does not know, a self-CPI whose event it does not     *)
(* know among them.                                                        *)
(***************************************************************************)
EXTENDS Integers, Sequences, SequencesExt, Selection

\* None of an Option<Pubkey>.
NoAccount == "none"

-------------------------------------------------------------------------------
(* The Squads programs, by version. *)

\* The kinds that have no multisig account: those on the whole program, and the
\* creation of a multisig where its address is not among the named accounts.
ProgramWide ==
    [v3 |-> {},
     v4 |-> {"program_config", "create"},
     v5 |-> {"program_config", "create", "log_event"}]

\* `actions`: what an instruction of each kind is reported as.
ActionsOfKind ==
    [approve |-> <<"proposal_approved">>,
     add_member |-> <<"member_added">>,
     add_member_and_change_threshold |-> <<"member_added", "threshold_changed">>,
     create |-> <<"multisig_created">>,
     program_config |-> <<"program_treasury_changed">>,
     log_event |-> <<"event_logged">>,
     execute_settings_sync |-> <<"settings_transaction_executed">>]

Version == DOMAIN ProgramWide

\* An instruction on a Squads program is of one of the kinds above.
Instruction ==
    {ix \in [path : Seq(Nat), program : {"monitored", "other"} \union Version, kind : STRING,
             account : STRING, applied : Seq(STRING), logs : Seq(STRING), payload : STRING] :
        ix.path # <<>> /\ (ix.program \in Version => ix.kind \in DOMAIN ActionsOfKind)}

StateAddress(version, ix) ==
    IF ix.kind \in ProgramWide[version] THEN NoAccount ELSE ix.account

\* `applied_settings_actions`: a synchronous v5 settings transaction also reports
\* every change it applies.
AppliedSettingsActions(version, ix) ==
    IF version = "v5" /\ ix.kind = "execute_settings_sync" THEN ix.applied ELSE <<>>

Actions(version, ix) ==
    ActionsOfKind[ix.kind] \o AppliedSettingsActions(version, ix)

\* `AddressResolver::match_state`.
MatchesState(multisig, ix) == StateAddress(multisig.version, ix) = multisig.state

\* The vault that a state account has under a version; distinct for all of them.
DefaultVault(version, state) == <<"vault", version, state>>

\* `verify`: whether the configured vault is the one that the state account has.
Verified(multisig) == DefaultVault(multisig.version, multisig.state) = multisig.vault

-------------------------------------------------------------------------------
(* Records.  Two of them are the same line exactly when they are equal. *)

\* Mutant: the position among the siblings and the depth, as in the two other fields.
IndexAndHeight(ix) == <<Last(ix.path), Len(ix.path)>>

OccurrencePath(ix) == ix.path

Record(tx, ix, kind, name, source) ==
    [signature |-> tx, path |-> OccurrencePath(ix), kind |-> kind, name |-> name,
     source |-> source]

Children(calls, ix) ==
    Only(calls, {child \in ToSet(calls) :
                    Len(child.path) = Len(ix.path) + 1 /\ IsPrefix(ix.path, child.path)})

\* `CpiEvent::decode` and the generated decoder: whether they know an instruction.
Decodes(ix) == ix.kind # "undecodable"

\* `decode_logs` and `decode_child_events`: the payloads an instruction emitted,
\* in the logs of its frame and by its own program's children.  A child that
\* decodes to no event is passed over in silence.
LogPayloads(ix) == ix.logs

ChildPayloads(calls, ix) ==
    LET events == Only(Children(calls, ix), {child \in ToSet(calls) :
                           child.program = ix.program /\ child.kind = "cpi_event"})
    IN [i \in 1..Len(events) |-> events[i].payload]

Decoded(payloads)  == Only(payloads, ToSet(payloads) \ {"garbage"})
Rejected(payloads) == Only(payloads, {"garbage"})

\* The events that an instruction emitted; the synthetic event instruction emits
\* none itself, and payloads that give no event are reported, once per source and
\* without a path.
EventRecords(tx, calls, ix) ==
    LET sources == [log |-> LogPayloads(ix), cpi |-> ChildPayloads(calls, ix)]
        Failure(source) ==
            IF Rejected(sources[source]) = <<>> THEN <<>>
            ELSE <<[Record(tx, ix, "event_decode_failure", ix.kind, source) EXCEPT !.path = <<>>]>>
        Events(source) ==
            LET decoded == Decoded(sources[source])
            IN [i \in 1..Len(decoded) |-> Record(tx, ix, "program_event", decoded[i], source)]
    IN IF ix.kind = "cpi_event" THEN <<>>
       ELSE Failure("log") \o Failure("cpi") \o Events("log") \o Events("cpi")

\* `EventProcessor::process`.
ProgramRecords(tx, calls, ix) ==
    <<Record(tx, ix, "program_instruction", ix.kind, "none")>> \o EventRecords(tx, calls, ix)

\* `common::process`: one record for every action, if the state account is the
\* configured one.
MultisigRecords(tx, multisig, ix) ==
    IF ~MatchesState(multisig, ix) THEN <<>>
    ELSE LET actions == Actions(multisig.version, ix)
         IN [i \in 1..Len(actions) |-> Record(tx, ix, "multisig_activity", actions[i], "none")]

\* The pipes of `with_instruction_pipes`: the program's decoder, and that of the
\* configured version's Squads program.
InstructionRecords(tx, calls, multisig, ix) ==
    CASE ix.program = "monitored" /\ Decodes(ix) -> ProgramRecords(tx, calls, ix)
      [] ix.program = multisig.version            -> MultisigRecords(tx, multisig, ix)
      [] OTHER                                    -> <<>>

\* All the records of a transaction.
TransactionRecords(tx, calls, multisig) ==
    FlattenSeq([i \in 1..Len(calls) |-> InstructionRecords(tx, calls, multisig, calls[i])])
===============================================================================

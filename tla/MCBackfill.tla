------------------------------ MODULE MCBackfill ------------------------------
(* An instance of the backfill: a ledger whose transactions hold every case *)
(* that the records tell apart.                                             *)
EXTENDS Backfill

Ix(path, program, kind) ==
    [path |-> path, program |-> program, kind |-> kind, account |-> NoAccount,
     applied |-> <<>>, logs |-> <<>>, payload |-> "garbage"]

Act(path, version, kind, account) == [Ix(path, version, kind) EXCEPT !.account = account]

Emit(path, payload) == [Ix(path, "monitored", "cpi_event") EXCEPT !.payload = payload]

\* The program called twice at the same position and depth, under two parents.
Twice == <<Ix(<<0>>, "other", "other"), Ix(<<0, 0>>, "monitored", "deposit"),
           Ix(<<1>>, "other", "other"), Ix(<<1, 0>>, "monitored", "deposit")>>

\* Events in the logs and by self-CPI, two of them equal but from two instructions,
\* and one that the decoder does not know.
Events == <<[Ix(<<0>>, "monitored", "swap") EXCEPT !.logs = <<"filled", "garbage">>],
            Emit(<<0, 0>>, "settled"), Ix(<<0, 1>>, "monitored", "undecodable"),
            Ix(<<1>>, "monitored", "swap"), Emit(<<1, 0>>, "settled")>>

\* One instruction on each Squads program, those of the other versions not decoded.
Squads == <<Act(<<0>>, "v3", "add_member_and_change_threshold", "state"),
            Act(<<1>>, "v4", "approve", "state"), Act(<<2>>, "v4", "approve", "stranger"),
            [Act(<<3>>, "v5", "execute_settings_sync", "state") EXCEPT
                !.applied = <<"member_added", "threshold_changed">>]>>

\* Instructions that name no multisig account, and one that executes the program.
Wide == <<Act(<<0>>, "v4", "program_config", NoAccount), Act(<<1>>, "v5", "log_event", NoAccount),
          Act(<<2>>, "v3", "create", "state"), Ix(<<2, 0>>, "monitored", "deposit")>>

Tx(time, listed, touches, calls) ==
    [time |-> time, listed |-> listed, touches |-> touches, calls |-> calls]

SmallLedger ==
    <<Tx(1, 1, {"program", "state"}, Twice),         \* beyond the cutoff
      Tx(3, Nothing, {"program"}, Twice),            \* beyond it, but listed without a time
      Tx(4, 4, {"program", "state"}, Wide),          \* at the cutoff, on both addresses
      Tx(7, 7, {"program"}, Events),
      Tx(7, 7, {"state"}, Squads),
      Tx(9, 9, {"program"}, Twice)>>                 \* confirmed during the backfill

\* The vault belongs to the pair of one version and the state account.
Configured(version, home) ==
    [version |-> version, state |-> "state", vault |-> DefaultVault(home, "state")]

\* The limits as shipped, a retention below the age limit, and no limit at all.
Shipped   == [reject |-> TRUE, maxAge |-> 8, retention |-> 8]
ShortKept == [reject |-> TRUE, maxAge |-> 8, retention |-> 5]
Unlimited == [reject |-> FALSE, maxAge |-> 1, retention |-> 0]

\* Every version of the multisig, one whose version is not that of its vault, and
\* a Loki that keeps less than the backfill is to load.
SomeSettings ==
    {[multisig |-> Configured("v3", "v3"), limits |-> Shipped],
     [multisig |-> Configured("v4", "v4"), limits |-> Shipped],
     [multisig |-> Configured("v5", "v5"), limits |-> Unlimited],
     [multisig |-> Configured("v4", "v5"), limits |-> Shipped],
     [multisig |-> Configured("v5", "v5"), limits |-> ShortKept]}
===============================================================================

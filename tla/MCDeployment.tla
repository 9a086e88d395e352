----------------------------- MODULE MCDeployment -----------------------------
(* An instance of the deployment, in units of five seconds: six revisions, some *)
(* of which cannot be applied.                                                  *)
EXTENDS Deployment

Actions4 == [v4 |-> {"proposal_approved", "member_added"}]

Condition(field, operator, value) == [field |-> field, operator |-> operator, value |-> value]

Many == Text(<<100>>)
Us   == Text(<<101>>)
Usdc == Text(<<101, 102>>)

Alert(kind, name, match, conditions, channels) ==
    [kind |-> kind, name |-> name, match |-> match, conditions |-> conditions,
     severity |-> "error", channels |-> channels, lookback |-> {}, interval |-> {}]

\* An amount or a currency: the one is a number, the other a text, either may be missing.
Filled == Alert("event", "filled", "any",
                <<Condition("amount", "gte", Integer(8)), Condition("amount", "ne", Integer(3)),
                  Condition("currency", "eq", Usdc)>>, {"slack"})

Slow(alert) == [alert EXCEPT !.lookback = {9}, !.interval = {4}]

Approved == Alert("multisig", "proposal_approved", "all", <<>>, {"slack"})

\* An exact number beyond what floats hold, and a comparison at the limit.
Deposit == Alert("instruction", "deposit", "all",
                 <<Condition("amount", "eq", Text(<<17>>)), Condition("currency", "exists", Unset),
                   Condition("currency", "contains", Us)>>, {})
Limit == Alert("instruction", "deposit", "all", <<Condition("amount", "lte", Integer(16))>>, {})

WithEvents == [event |-> {"filled"}, instruction |-> {"deposit"}]
NoEvents == [event |-> {}, instruction |-> {"deposit"}]

Squads(vault) == [version |-> "v4", vault |-> vault, state |-> "state"]

Streaming(alerts) ==
    [program |-> "program", multisig |-> Squads(DefaultVault("v4", "state")),
     mode |-> "yellowstone", pollInterval |-> 7, sustained |-> 9, pending |-> 60,
     unmatchedWindow |-> 720, lookback |-> 12, interval |-> 2, alerts |-> alerts]

Polling(alerts) ==
    [Streaming(alerts) EXCEPT !.mode = "rpc", !.multisig = Unset, !.pollInterval = 1]

Declares(url, ref, idl, config, endpoints) ==
    [url |-> url, ref |-> ref, idl |-> idl, config |-> config, cloud |-> FALSE,
     endpoints |-> endpoints, secrets |-> {"slack"}]

SixBundles ==
    <<Declares("a", {}, WithEvents, Streaming({Filled, Approved}), {"geyser", "rpc"}),
      Declares("a", {2}, NoEvents, Polling({Deposit, Limit}), {"rpc"}),
      Declares("b", {}, WithEvents, Streaming({Slow(Filled)}), {"geyser"}),
      [Declares("a", {}, WithEvents, Streaming({}), {"geyser"}) EXCEPT !.cloud = TRUE],
      Declares("a", {1}, WithEvents, [Streaming({}) EXCEPT !.multisig.vault = "mine"], {"geyser"}),
      Declares("a", {}, WithEvents,
               [Streaming({[Filled EXCEPT !.lookback = {1}]}) EXCEPT !.pending = 6], {"geyser"})>>

Fields(amount, currency) == [amount |-> amount, currency |-> currency]
RecordOf(kind, name, failed, fields) ==
    [kind |-> kind, name |-> name, failed |-> failed, fields |-> fields]

SmallSamples ==
    {RecordOf("event", "filled", FALSE, Fields(amount, currency)) :
        amount \in {Unset, Many, Integer(3), Integer(8)}, currency \in {Unset, Usdc, Us}}
    \union {RecordOf("instruction", "deposit", TRUE, Fields(amount, currency)) :
        amount \in {Unset, Integer(16), Integer(17), Integer(18)},
        currency \in {Text(<<>>), Usdc}}
    \union {RecordOf("multisig", "proposal_approved", failed, Fields(Unset, Unset)) :
        failed \in BOOLEAN}

TwoUrls == {"a", "b"}

TwoGaps == {1, 13}
===============================================================================

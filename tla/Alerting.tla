------------------------------- MODULE Alerting -------------------------------
(***************************************************************************)
(* From the configuration to the document Grafana is provisioned with:     *)
(* what a configuration must satisfy, the rules generated from it, their   *)
(* identities, their timing and what their queries match, and the          *)
(* deletions a document carries for what earlier documents had             *)
(* provisioned.                                                            *)
(*                                                                         *)
(* A configuration is [program, multisig, mode, pollInterval, sustained,   *)
(* pending, unmatchedWindow, lookback, interval, alerts]; an alert is      *)
(* [kind, name, match, conditions, severity, channels, lookback,           *)
(* interval], a condition [field, operator, value].  An optional lookback  *)
(* or interval is a set of at most one value.  Durations are in units of   *)
(* the model; the seconds of the code are constants.  Wording, links and   *)
(* the scope of a query (the program or the vault of this deployment) are  *)
(* left out.                                                               *)
(***************************************************************************)
EXTENDS Integers, Sequences, SequencesExt

CONSTANTS
    SchedulerInterval,     \* GRAFANA_SCHEDULER_INTERVAL_SECONDS
    HealthInterval,        \* RPC_HEALTH_EVALUATION_INTERVAL_SECONDS
    HealthLogWindow,       \* HEALTH_LOG_WINDOW_SECONDS
    InterruptionWindow,    \* STREAM_INTERRUPTION_WINDOW_SECONDS
    StreamTimeout,         \* STREAM_TIMEOUT of the Yellowstone datasource
    GapWindow,             \* YELLOWSTONE_GAP_WINDOW_SECONDS
    DeliveryWindow,        \* the 10m of `log_delivery_rules`
    FailureWindow,         \* RPC_POLL_FAILURE_WINDOW_SECONDS
    PollIntervalLimit,     \* MAX_RPC_POLL_INTERVAL_SECONDS
    MaxExactInteger,       \* MAX_EXACT_LOKI_INTEGER
    ActionNames            \* `action_names`: what each multisig version can emit

ASSUME AlertingAssumption ==
    /\ {SchedulerInterval, HealthInterval, HealthLogWindow, InterruptionWindow, StreamTimeout,
        GapWindow, DeliveryWindow, FailureWindow, PollIntervalLimit} \subseteq Nat \ {0}
    /\ MaxExactInteger \in Nat /\ \E n \in 2..53 : MaxExactInteger = 2 ^ n

\* STREAM_INTERRUPTION_THRESHOLD
InterruptionThreshold == 5

\* The window holds more timeouts than the threshold lets pass: 900 and 120 seconds.
ASSUME WindowAssumption == (InterruptionThreshold + 1) * StreamTimeout <= InterruptionWindow

\* A configuration without a multisig, a condition without a value, a record
\* without a field.
Unset == [type |-> "unset"]

Integer(n) == [type |-> "integer", number |-> n]
Text(s)    == [type |-> "text", text |-> s]

\* What a field of a record and the value of a condition can be.  Texts are sequences of
\* numbers, so that a number's text is a sequence as well.
Value == {Unset} \union [type : {"integer"}, number : Nat] \union [type : {"text"}, text : Seq(Nat)]

ParsedCondition ==
    [field : STRING, value : Value,
     operator : {"exists", "contains", "eq", "ne", "gt", "gte", "lt", "lte"}]

UnwrapOr(option, default) == IF option = {} THEN default ELSE CHOOSE value \in option : TRUE

-------------------------------------------------------------------------------
(* Validation. *)

Lookback(config, alert) == UnwrapOr(alert.lookback, config.lookback)
Interval(config, alert) == UnwrapOr(alert.interval, config.interval)

\* Mutant: the lookback may be shorter than the interval.
TimingUnrelated(lookback, interval) ==
    lookback > 0 /\ interval > 0 /\ interval % SchedulerInterval = 0

\* `validate_timing`.
ValidTiming(lookback, interval) ==
    /\ lookback > 0 /\ interval > 0
    /\ interval % SchedulerInterval = 0
    /\ lookback >= interval

\* A larger integer matches its neighbours, as Loki compares numbers as floats.
ExactInteger(condition) ==
    condition.value.type = "integer" => condition.value.number <= MaxExactInteger

\* `AlertCondition::validate`.  Numbers with a fraction, which no bound applies to, and
\* booleans, which are quoted like texts, are left out.
ValidCondition(condition) ==
    /\ ExactInteger(condition)
    /\ condition.operator = "exists" <=> condition.value = Unset
    /\ condition.operator = "contains" => condition.value.type = "text" /\ condition.value.text # <<>>
    /\ condition.operator \in {"gt", "gte", "lt", "lte"} => condition.value.type = "integer"

\* `AlertRule::validate`; channels are a set, so none is named twice.
ValidAlert(config, alert) ==
    /\ \A i \in DOMAIN alert.conditions :
           /\ ValidCondition(alert.conditions[i])
           /\ ~(alert.kind = "multisig" /\ alert.conditions[i].field = "failed")
    /\ ValidTiming(Lookback(config, alert), Interval(config, alert))

\* The signals a deployment can emit: those of the IDL and of the multisig version.
KnownNames(config, idl, kind) ==
    IF kind = "multisig" THEN ActionNames[config.multisig.version] ELSE idl[kind]

\* `Config::validate`.  That keys and field paths parse, that the IDL is a file and
\* the bounds of the replay window are left out: nothing here depends on them.
ValidConfig(config, idl) ==
    /\ config.pollInterval \in 1..PollIntervalLimit
    /\ ValidTiming(config.lookback, config.interval)
    /\ config.sustained \in 1..FailureWindow
    /\ config.pending > 0 /\ config.unmatchedWindow > 0
    /\ \A alert \in config.alerts :
           /\ alert.kind = "multisig" => config.multisig # Unset
           /\ ValidAlert(config, alert)
           /\ alert.name \in KnownNames(config, idl, alert.kind)

-------------------------------------------------------------------------------
(* Health rules, one for each channel some alert uses.  A rule is evaluated    *)
(* every `interval`, and fires once its condition has held for `pending`: for  *)
(* as long as a gauge does ("state"), or while its window holds more lines or  *)
(* increments than its threshold ("lines", "increase").                        *)

\* `configured_channels` and `health_channel_names`.
Channels(config) == UNION {alert.channels : alert \in config.alerts}
HealthChannels(config) == IF Channels(config) = {} THEN {"none"} ELSE Channels(config)

HealthRule(name, channel, counts, window, threshold, pending) ==
    [uid |-> [rule |-> name, channel |-> channel], kind |-> "datasource", interval |-> HealthInterval,
     counts |-> counts, window |-> window, threshold |-> threshold, pending |-> pending]

\* Mutant: the pending period of a rule on log lines is not capped.
UncappedPending(pending, window) == pending

\* A rule pends only while its condition holds, so a rule on log lines pends for at
\* most half its window.
LogPending(pending, window) == IF pending < window \div 2 THEN pending ELSE window \div 2

\* `loki_health_rule`.
LogRule(name, channel, window, threshold, pending) ==
    HealthRule(name, channel, "lines", window, threshold, LogPending(pending, window))

\* `prometheus_health_rule`, on what a counter gained and on a gauge.
IncreaseRule(name, channel, window, threshold, pending) ==
    HealthRule(name, channel, "increase", window, threshold, pending)
GaugeRule(name, channel, pending) ==
    HealthRule(name, channel, "state", 0, 0, pending)

\* `rpc_recovery_degraded_rules`.
RecoveryRules(channel, pending) ==
    {GaugeRule("rpc_recovery_disabled", channel, pending),
     GaugeRule("rpc_checkpoint_corrupt", channel, pending)}

\* `datasource_drop_rules`.
DropRules(channel, pending) ==
    {LogRule("datasource_updates_dropped", channel, HealthLogWindow, 0, pending)}

\* `yellowstone_health_rules`.
YellowstoneRules(channel, pending) ==
    {LogRule("yellowstone_stream_interrupted", channel, InterruptionWindow,
             InterruptionThreshold, pending),
     IncreaseRule("yellowstone_gap_unrecovered", channel, GapWindow, 0, pending),
     GaugeRule("yellowstone_endpoint_unreachable", channel, pending)}

\* `log_delivery_rules`: transactions were decoded, and no line was sent in that time.
DeliveryRules(channel, pending) ==
    {IncreaseRule("log_delivery_stalled", channel, DeliveryWindow, 0, pending)}

\* `multisig_health_rules`.
MultisigRules(config, channel) ==
    {IncreaseRule("multisig_unmatched_state", channel, config.unmatchedWindow, 0, config.pending)}

\* Mutant: the poll after the one that completes the configured duration.
OnePollMore(config) == config.sustained \div config.pollInterval + 1

\* As many failures as an unbroken outage of the configured duration produces.
FailureThreshold(config) ==
    (config.sustained + config.pollInterval - 1) \div config.pollInterval

\* `rpc_health_rules`.
PollRules(config, channel) ==
    {GaugeRule(name, channel, config.pending) :
        name \in {"rpc_poll_stale", "rpc_poll_lag", "rpc_checkpoint_stale",
                  "rpc_transaction_quarantined"}}
    \union {IncreaseRule("rpc_poll_failing", channel, FailureWindow,
                         FailureThreshold(config) - 1, config.pending)}

\* `polls_rpc`: the poller runs on its own or behind a stream.
PollsRpc(config, rpcUrl) == config.mode = "rpc" \/ rpcUrl

\* The health rules of `provisioning_document`.
HealthRules(config, rpcUrl) ==
    UNION {RecoveryRules(channel, config.pending)
           \union DropRules(channel, config.pending)
           \union (IF config.mode = "yellowstone" THEN YellowstoneRules(channel, config.pending) ELSE {})
           \union DeliveryRules(channel, config.pending)
           \union (IF config.multisig # Unset THEN MultisigRules(config, channel) ELSE {})
           \union (IF PollsRpc(config, rpcUrl) THEN PollRules(config, channel) ELSE {}) :
           channel \in HealthChannels(config)}

-------------------------------------------------------------------------------
(* Activity rules and the document. *)

\* What a rule's uid is a digest of; its timing is not part of it.
RuleUid(config, alert, channel) ==
    [program |-> config.program, kind |-> alert.kind, name |-> alert.name, match |-> alert.match,
     conditions |-> alert.conditions, severity |-> alert.severity, channel |-> channel]

\* Mutant: `any` is a disjunction of filters in one branch.
OneBranch(alert) ==
    {[join |-> IF alert.match = "any" THEN "or" ELSE "and", filters |-> alert.conditions]}

\* The branches of `logql_query`: one for all conditions, or one for each if any is
\* enough.
Branches(alert) ==
    IF alert.match = "any" /\ Len(alert.conditions) > 1
    THEN {[join |-> "and", filters |-> <<alert.conditions[i]>>] : i \in DOMAIN alert.conditions}
    ELSE {[join |-> "and", filters |-> alert.conditions]}

\* `logql_query`: multisig alerts count successful activity only.
Query(alert) ==
    [kind |-> alert.kind, signal |-> alert.name, onlySuccess |-> alert.kind = "multisig",
     branches |-> Branches(alert)]

\* Mutant: whatever is no multisig activity is in the event panel.
EventsOrMultisig(kind) == IF kind = "multisig" THEN {8} ELSE {6}

\* `log_panel_id`: the panel a rule's notification links to, if any.
LogPanel(kind) == CASE kind = "event" -> {6} [] kind = "multisig" -> {8} [] OTHER -> {}

\* `grafana_rule`: it fires as soon as its query counts a record.
GrafanaRule(config, alert, channel) ==
    [uid |-> RuleUid(config, alert, channel), kind |-> alert.kind,
     interval |-> Interval(config, alert), lookback |-> Lookback(config, alert),
     query |-> Query(alert), panel |-> LogPanel(alert.kind)]

\* An alert without a channel is evaluated, and routed to a muted receiver.
ActivityRules(config) ==
    UNION {{GrafanaRule(config, alert, channel) :
               channel \in IF alert.channels = {} THEN {"none"} ELSE alert.channels} :
           alert \in config.alerts}

\* `provisioning_document`; the muted receiver is always there.
ProvisioningDocument(config, rpcUrl) ==
    [rules |-> HealthRules(config, rpcUrl) \union ActivityRules(config),
     contacts |-> {"noop"} \union Channels(config)]

Uids(rules) == {rule.uid : rule \in rules}

\* Mutant: only what the last document declared is deleted.
DeclaredBefore(previous, deleted, desired) == previous \ desired

\* `add_resource_deletions`: what the last document declared or deleted and this
\* one does not declare.  A document may be replaced before Grafana has read it.
Deletions(previous, deleted, desired) == (previous \union deleted) \ desired

NoDocument == [rules |-> {}, contacts |-> {}, deleteRules |-> {}, deleteContacts |-> {}]

\* `validate_contact_point_credentials`.
HasCredentials(config, secrets) == Channels(config) \subseteq secrets

\* `generate`: the document that replaces the previous one.
Generate(config, rpcUrl, previous) ==
    LET document == ProvisioningDocument(config, rpcUrl)
    IN [rules |-> document.rules, contacts |-> document.contacts,
        deleteRules |-> Deletions(Uids(previous.rules), previous.deleteRules, Uids(document.rules)),
        deleteContacts |-> Deletions(previous.contacts, previous.deleteContacts, document.contacts)]

-------------------------------------------------------------------------------
(* Grafana, external: when a rule that counts fires on n occurrences, one every *)
(* `gap`.  That Prometheus extrapolates an increase is left out.                *)

OccurredBy(n, gap, t) ==
    IF t < 0 THEN 0 ELSE IF n < t \div gap THEN n ELSE t \div gap

InWindow(window, n, gap, t) == OccurredBy(n, gap, t) - OccurredBy(n, gap, t - window)

\* The evaluations after the first until a rule has pended for long enough.
Evaluations(rule) == (rule.pending + rule.interval - 1) \div rule.interval

\* At the evaluation at `tick` the condition holds, and did at those before it for as
\* long as the rule pends.
FiresAt(rule, n, gap, tick) ==
    \A k \in 0..Evaluations(rule) :
        InWindow(rule.window, n, gap, tick - k * rule.interval) > rule.threshold

-------------------------------------------------------------------------------
(* Loki, external: the label a field is extracted into, and how filters on it *)
(* evaluate.  A missing field and an empty text are both an empty label.      *)

\* Above the largest exact integer only even numbers are floats, and ties go to
\* the multiple of four.
AsFloat(n) ==
    IF n <= MaxExactInteger \/ n % 2 = 0 THEN n ELSE IF n % 4 = 3 THEN n + 1 ELSE n - 1

Compare(operator, a, b) ==
    CASE operator = "eq"  -> a = b
      [] operator = "ne"  -> a # b
      [] operator = "gt"  -> a > b
      [] operator = "gte" -> a >= b
      [] operator = "lt"  -> a < b
      [] operator = "lte" -> a <= b

\* The text of a label, which a quoted value is compared with.
LabelText(label) ==
    CASE label = Unset -> <<>> [] label.type = "integer" -> <<label.number>> [] OTHER -> label.text

IsPart(part, text) == \E i \in 1..Len(text) + 1 : IsPrefix(part, SubSeq(text, i, Len(text)))

Verdict(holds) == IF holds THEN "keep" ELSE "drop"

\* `condition_filter`, as Loki evaluates it: comparing a label that is no number with
\* a number keeps the line, marked with an error.
Filter(condition, label) ==
    LET operator == condition.operator
        value    == condition.value
    IN IF value.type = "integer" THEN
           IF label.type # "integer" THEN "error"
           ELSE Verdict(Compare(operator, AsFloat(label.number), AsFloat(value.number)))
       ELSE Verdict(
           CASE operator = "exists"   -> LabelText(label) # <<>>
             [] operator = "contains" -> IsPart(value.text, LabelText(label))
             [] operator = "ne"       -> LabelText(label) \notin {<<>>, value.text}
             [] operator = "eq"       -> LabelText(label) = value.text)

\* Filters are evaluated in order until one decides; a line that is kept with an
\* error is not counted.
CountedBy(branch, record) ==
    LET verdict == [i \in DOMAIN branch.filters |->
                       Filter(branch.filters[i], record.fields[branch.filters[i].field])]
    IN IF branch.join = "and"
       THEN \A i \in DOMAIN verdict : verdict[i] = "keep"
       ELSE \E i \in DOMAIN verdict :
                verdict[i] = "keep" /\ \A j \in 1..i - 1 : verdict[j] = "drop"

\* Whether a rule's query counts a record.
Counts(query, record) ==
    /\ record.kind = query.kind /\ record.name = query.signal
    /\ query.onlySuccess => ~record.failed
    /\ \E branch \in query.branches : CountedBy(branch, record)
===============================================================================

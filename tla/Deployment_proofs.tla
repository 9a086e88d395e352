--------------------------- MODULE Deployment_proofs ---------------------------
(***************************************************************************)
(* What is marked as applied runs, starts and alerts as declared, for any   *)
(* set of revisions and however often manifests are published, branches    *)
(* move, reconciliations are stopped and containers die.  And the rules     *)
(* that are generated from any configuration that is accepted see every     *)
(* record in time, whichever phase Grafana's scheduler has.                 *)
(***************************************************************************)
EXTENDS Deployment, SequenceLemmas

-------------------------------------------------------------------------------
(* Evaluations. *)

\* The evaluations of a rule, one every interval, leave no record out that Loki has
\* within what the lookback exceeds the interval by: the first that is late enough to
\* see the record is early enough to have it in its window.
LEMMA SomeEvaluationSees ==
    ASSUME NEW interval \in Nat \ {0}, NEW lookback \in Nat, lookback >= interval,
           NEW delay \in 0..lookback - interval, NEW phase \in 0..interval - 1
    PROVE  \E n \in 0..lookback \div interval :
               LET tick == phase + n * interval
               IN delay <= tick /\ tick < lookback
<1>1. CASE delay <= phase
  <2>1. lookback \div interval \in Nat
    BY Quotient
  <2>2. 0 \in 0..lookback \div interval
    BY <2>1
  <2>3. phase + 0 * interval = phase
    OBVIOUS
  <2> QED
    BY <1>1, <2>2, <2>3
<1>2. CASE delay > phase
  <2> DEFINE late == delay - phase + interval - 1
             n    == late \div interval
  <2>1. late \in Nat
    BY <1>2
  <2>2. n \in Nat /\ interval * n <= late /\ late < interval * n + interval
    BY <2>1, Quotient
  <2> HIDE DEF n
  <2>3. interval * n \in Nat /\ n * interval = interval * n
    BY <2>2
  <2>4. delay <= phase + n * interval /\ phase + n * interval < lookback
    BY <2>2, <2>3
  <2>5. n * interval < lookback
    BY <2>4, <2>3
  <2>6. /\ lookback \div interval \in Nat
        /\ lookback < interval * (lookback \div interval) + interval
    BY Quotient
  <2>7. n <= lookback \div interval
    BY <2>2, <2>5, <2>6, Multiples
  <2>8. n \in 0..lookback \div interval
    BY <2>2, <2>6, <2>7
  <2> QED
    BY <2>4, <2>8
<1> QED
  BY <1>1, <1>2

-------------------------------------------------------------------------------
(* The rules of a document. *)

\* The durations of a parsed configuration.
TypedTiming(config) ==
    /\ {config.lookback, config.interval, config.pending, config.unmatchedWindow} \subseteq Nat
    /\ \A alert \in config.alerts :
           /\ alert.kind \in {"instruction", "event", "multisig"}
           /\ alert.lookback \subseteq Nat /\ alert.interval \subseteq Nat

WellTimedActivity(rule) ==
    /\ rule.interval \in Nat \ {0} /\ rule.lookback \in Nat
    /\ rule.lookback >= rule.interval

WellTimedHealth(rule) ==
    /\ rule.interval = HealthInterval
    /\ rule.window \in Nat /\ rule.pending \in Nat
    /\ rule.counts = "lines" => rule.pending <= rule.window \div 2

WellTimed(rule) ==
    IF rule.kind = "datasource" THEN WellTimedHealth(rule) ELSE WellTimedActivity(rule)

LEMMA CappedPending ==
    ASSUME NEW pending \in Nat, NEW window \in Nat
    PROVE  LogPending(pending, window) \in Nat /\ LogPending(pending, window) <= window \div 2
<1>1. window \div 2 \in Nat
  BY Quotient
<1> QED
  BY <1>1 DEF LogPending

LEMMA LogRuleIsWellTimed ==
    ASSUME NEW name, NEW channel, NEW threshold, NEW pending \in Nat,
           NEW window \in {HealthLogWindow, InterruptionWindow}
    PROVE  WellTimed(LogRule(name, channel, window, threshold, pending))
<1>1. window \in Nat
  BY AlertingAssumption
<1>2. LogPending(pending, window) \in Nat /\ LogPending(pending, window) <= window \div 2
  BY <1>1, CappedPending
<1> QED
  BY <1>1, <1>2 DEF LogRule, HealthRule, WellTimed, WellTimedHealth

LEMMA OtherRulesAreWellTimed ==
    ASSUME NEW name, NEW channel, NEW threshold, NEW pending \in Nat, NEW window \in Nat
    PROVE  /\ WellTimed(IncreaseRule(name, channel, window, threshold, pending))
           /\ WellTimed(GaugeRule(name, channel, pending))
  BY DEF IncreaseRule, GaugeRule, HealthRule, WellTimed, WellTimedHealth

LEMMA HealthIsWellTimed ==
    ASSUME NEW config, TypedTiming(config), NEW rpcUrl, NEW rule \in HealthRules(config, rpcUrl)
    PROVE  WellTimed(rule)
<1>1. /\ config.pending \in Nat /\ config.unmatchedWindow \in Nat
      /\ GapWindow \in Nat /\ DeliveryWindow \in Nat /\ FailureWindow \in Nat
  BY AlertingAssumption DEF TypedTiming
<1>2. PICK channel \in HealthChannels(config) :
          \/ rule \in RecoveryRules(channel, config.pending)
          \/ rule \in DropRules(channel, config.pending)
          \/ rule \in YellowstoneRules(channel, config.pending)
          \/ rule \in DeliveryRules(channel, config.pending)
          \/ rule \in MultisigRules(config, channel)
          \/ rule \in PollRules(config, channel)
  BY DEF HealthRules
<1>3. CASE rule \in RecoveryRules(channel, config.pending)
  BY <1>1, <1>3, OtherRulesAreWellTimed DEF RecoveryRules
<1>4. CASE rule \in DropRules(channel, config.pending)
  BY <1>1, <1>4, LogRuleIsWellTimed DEF DropRules
<1>5. CASE rule \in YellowstoneRules(channel, config.pending)
  BY <1>1, <1>5, LogRuleIsWellTimed, OtherRulesAreWellTimed DEF YellowstoneRules
<1>6. CASE rule \in DeliveryRules(channel, config.pending)
  BY <1>1, <1>6, OtherRulesAreWellTimed DEF DeliveryRules
<1>7. CASE rule \in MultisigRules(config, channel)
  BY <1>1, <1>7, OtherRulesAreWellTimed DEF MultisigRules
<1>8. CASE rule \in PollRules(config, channel)
  BY <1>1, <1>8, OtherRulesAreWellTimed DEF PollRules
<1> QED
  BY <1>2, <1>3, <1>4, <1>5, <1>6, <1>7, <1>8

LEMMA ActivityIsWellTimed ==
    ASSUME NEW config, TypedTiming(config), NEW idl, ValidConfig(config, idl),
           NEW rule \in ActivityRules(config)
    PROVE  WellTimed(rule)
<1>0. PICK alert \in config.alerts : \E channel : rule = GrafanaRule(config, alert, channel)
  BY DEF ActivityRules
<1>1. PICK channel : rule = GrafanaRule(config, alert, channel)
  BY <1>0
<1>2. ValidTiming(Lookback(config, alert), Interval(config, alert))
  BY DEF ValidConfig, ValidAlert
<1>3. Lookback(config, alert) \in Nat /\ Interval(config, alert) \in Nat
  BY DEF Lookback, Interval, UnwrapOr, TypedTiming
<1>4. rule.kind # "datasource"
  BY <1>1 DEF GrafanaRule, TypedTiming
<1> QED
  BY <1>1, <1>2, <1>3, <1>4 DEF GrafanaRule, ValidTiming, WellTimed, WellTimedActivity

\* Every rule that is generated from an accepted configuration is well timed, the
\* alert's own lookback and interval or the defaults.
LEMMA DocumentIsWellTimed ==
    ASSUME NEW config, TypedTiming(config), NEW idl, ValidConfig(config, idl), NEW rpcUrl,
           NEW rule \in ProvisioningDocument(config, rpcUrl).rules
    PROVE  WellTimed(rule)
  BY HealthIsWellTimed, ActivityIsWellTimed DEF ProvisioningDocument

-------------------------------------------------------------------------------
(* The inductive invariant says how far the host has come with the revision it *)
(* is at: the one that is applied, or else the one that is reconciled.          *)

Current == IF Applied THEN host.applied ELSE run.revision
CurrentBundle == Bundle[Current]

\* The steps still before the reconciler once it has passed the one that is named.
AfterGrafana  == {"probe", "mark"}
AfterIndexer  == {"grafana"} \union AfterGrafana
AfterAlerting == {"dashboard", "indexer"} \union AfterIndexer
AfterBuild    == {"stack"} \union AfterAlerting
AfterCompose  == {"build", "record"} \union AfterBuild
AfterEnv      == {"compose"} \union AfterCompose
AfterConfig   == {"env"} \union AfterEnv
AfterCheckout == {"config"} \union AfterConfig
AfterFetch    == {"checkout", "move"} \union AfterCheckout

\* An applied revision has passed them all.
Reached(steps) == Applied \/ run.pc \in steps

\* The fields of each record.
Shapes ==
    /\ run = [pc |-> run.pc, revision |-> run.revision, commit |-> run.commit,
              fresh |-> run.fresh]
    /\ host = [applied |-> host.applied, inputs |-> host.inputs, config |-> host.config,
               env |-> host.env]
    /\ repository = [git |-> repository.git, url |-> repository.url, head |-> repository.head,
                     tree |-> repository.tree, locked |-> repository.locked]
    /\ indexer = [phase |-> indexer.phase, image |-> indexer.image, env |-> indexer.env,
                  config |-> indexer.config]
    /\ grafana = [up |-> grafana.up, rules |-> grafana.rules, contacts |-> grafana.contacts]

\* Nothing is applied while a reconciliation runs, and what runs was published.
OneAtATime ==
    /\ manifest \in Revision
    /\ Applied => At("idle")
    /\ ~At("idle") => run.revision \in Revision
    /\ Applied => host.applied \in Revision

\* The checkout is at the commit of the revision; its files are whole, torn or absent.
CheckoutFollows ==
    /\ run.pc \in AfterFetch => Declared.ref \subseteq {run.commit}
    /\ run.pc \in AfterCheckout => repository.head = run.commit
    /\ Reached(AfterCheckout) => CurrentBundle.ref \subseteq {repository.head}
    /\ repository.tree \in {repository.head, None, Torn}
    /\ run.pc \in AfterCompose => repository.tree # None

FilesFollow ==
    /\ Reached(AfterConfig) => host.config = Current
    /\ Reached(AfterEnv) => host.env = Current

CurrentInputs ==
    [commit |-> repository.head, idl |-> CurrentBundle.idl,
     program |-> CurrentBundle.config.program]

\* The image is the one that is recorded, or about to be; or a build was cut off, or
\* made from a torn checkout.
ImageFollows ==
    /\ Reached(AfterBuild) => host.inputs = CurrentInputs
    /\ \/ image.commit = Torn
       \/ At("record") /\ image = CurrentInputs
       \/ ~At("record") /\ (image = host.inputs \/ cutOff)

IndexerFollows ==
    Reached(AfterIndexer) =>
        indexer.image = image /\ indexer.env = Current /\ indexer.config \in {None, Current}

\* The document that is in Grafana's volume is the one of the revision.
DocumentFollows ==
    Reached(AfterAlerting) /\ ~CurrentBundle.cloud =>
        /\ Accepts(Current, image, Current)
        /\ LET declared == ProvisioningDocument(CurrentBundle.config,
                                                "rpc" \in CurrentBundle.endpoints)
           IN document.rules = declared.rules /\ document.contacts = declared.contacts

\* Whatever Grafana's database holds, the document declares or deletes: also what only
\* documents declared that Grafana never read.
DocumentKnows ==
    /\ Uids(grafana.rules) \subseteq Uids(document.rules) \union document.deleteRules
    /\ grafana.contacts \subseteq document.contacts \union document.deleteContacts

GrafanaFollows ==
    Reached(AfterGrafana) /\ ~CurrentBundle.cloud =>
        grafana.rules = document.rules /\ grafana.contacts = document.contacts

IInv ==
    /\ Shapes /\ OneAtATime /\ CheckoutFollows /\ FilesFollow /\ ImageFollows
    /\ IndexerFollows /\ DocumentFollows /\ DocumentKnows /\ GrafanaFollows

-------------------------------------------------------------------------------
(* The invariant holds. *)

LEMMA Base == Init => IInv
  BY DeploymentAssumption
     DEF Init, Idle, NoRepository, NoImage, NoDocument, Uids, At, IInv, Shapes, OneAtATime,
         CheckoutFollows, FilesFollow, ImageFollows, IndexerFollows, DocumentFollows,
         DocumentKnows, GrafanaFollows, Reached, Applied, AfterGrafana, AfterIndexer,
         AfterAlerting, AfterBuild, AfterCompose, AfterEnv, AfterConfig, AfterCheckout,
         AfterFetch

\* A Grafana that starts is left with what its document declares.
LEMMA Provisioning ==
    ASSUME DocumentKnows
    PROVE  /\ Provisioned.rules = document.rules
           /\ Provisioned.contacts = document.contacts
           /\ Provisioned = [up |-> Provisioned.up, rules |-> Provisioned.rules,
                             contacts |-> Provisioned.contacts]
<1>1. \A rule \in grafana.rules : rule.uid \in document.deleteRules \union Uids(document.rules)
  BY DEF DocumentKnows, Uids
<1> QED
  BY <1>1 DEF DocumentKnows, Provisioned

\* Whatever a command that is killed leaves of the checkout, its files are those of HEAD,
\* torn or absent.
LEMMA RemainingCheckout ==
    ASSUME Shapes, CheckoutFollows, NEW left \in Remains
    PROVE  /\ left = [git |-> left.git, url |-> left.url, head |-> left.head,
                      tree |-> left.tree, locked |-> left.locked]
           /\ left.tree \in {left.head, None, Torn}
<1>1. \/ left \in {repository, Debris, Unreadable, [Cloned EXCEPT !.head = None],
                   [repository EXCEPT !.git = "damaged"], [repository EXCEPT !.locked = TRUE]}
  BY DEF Remains
<1> QED
  BY <1>1 DEF Shapes, CheckoutFollows, Debris, Unreadable, Cloned, NoRepository

LEMMA Induction == IInv /\ [Next]_vars => IInv'
<1> SUFFICES ASSUME IInv, [Next]_vars PROVE IInv'
  OBVIOUS
<1> USE DEF IInv, Shapes, OneAtATime, CheckoutFollows, FilesFollow, ImageFollows, IndexerFollows,
            DocumentFollows, DocumentKnows, GrafanaFollows, Reached, Current, CurrentBundle,
            CurrentInputs, Applied, At, Declared, AfterGrafana, AfterIndexer, AfterAlerting,
            AfterBuild, AfterCompose, AfterEnv, AfterConfig, AfterCheckout, AfterFetch
<1>1. CASE Reconcile
  BY <1>1 DEF Reconcile, GoTo, NeedsReconcile, ClearMarker, Idle
<1>2. CASE StartDiscard \/ FinishDiscard
  <2>1. CASE StartDiscard
    BY <2>1 DEF StartDiscard, GoTo
  <2>2. CASE FinishDiscard
    BY <2>2 DEF FinishDiscard, WithoutFiles, GoTo, NoRepository
  <2> QED
    BY <1>2, <2>1, <2>2
<1>3. CASE Fetch
  <2>1. Declared.ref \subseteq {Resolved(Declared)}
    BY <1>3, DeploymentAssumption DEF Fetch, Resolved, UnwrapOr
  <2> QED
    BY <1>3, <2>1 DEF Fetch, Cloned, NoRepository, Idle
<1>4. CASE StartCheckout
  BY <1>4 DEF StartCheckout, GoTo
<1>5. CASE FinishCheckout
  BY <1>5 DEF FinishCheckout, GoTo
<1>6. CASE SkipCheckout
  BY <1>6 DEF SkipCheckout, NeedsCheckout, GoTo
<1>7. CASE InstallConfig
  BY <1>7 DEF InstallConfig, GoTo
<1>8. CASE InstallEnv
  BY <1>8 DEF InstallEnv, GoTo
<1>9. CASE CheckCompose
  BY <1>9 DEF CheckCompose, GoTo
<1>10. CASE Build
  BY <1>10 DEF Build, GoTo
<1>11. CASE SkipBuild
  BY <1>11 DEF SkipBuild, GoTo, NeedsBuild, BuildInputs
<1>12. CASE RecordInputs
  BY <1>12 DEF RecordInputs, GoTo, BuildInputs
<1>13. CASE GenerateAlerting
  <2> DEFINE declared == ProvisioningDocument(Declared.config, "rpc" \in Declared.endpoints)
  <2>1. host.config = run.revision /\ host.env = run.revision
    BY <1>13 DEF GenerateAlerting
  <2>2. document' = Generate(Declared.config, "rpc" \in Declared.endpoints, document)
    BY <1>13, <2>1 DEF GenerateAlerting
  <2>3. document'.rules = declared.rules /\ document'.contacts = declared.contacts
    BY <2>2 DEF Generate
  <2>4. /\ Uids(document.rules) \union document.deleteRules
               \subseteq Uids(document'.rules) \union document'.deleteRules
        /\ document.contacts \union document.deleteContacts
               \subseteq document'.contacts \union document'.deleteContacts
    BY <2>2 DEF Generate, Deletions
  <2>5. DocumentKnows'
    BY <1>13, <2>4 DEF GenerateAlerting
  <2>6. Accepts(run.revision, image, run.revision)
    BY <1>13, <2>1 DEF GenerateAlerting
  <2> HIDE DEF declared
  <2>7. DocumentFollows'
    BY <1>13, <2>3, <2>6 DEF GenerateAlerting, GoTo, declared
  <2>8. (Shapes /\ OneAtATime /\ CheckoutFollows /\ FilesFollow /\ ImageFollows
           /\ IndexerFollows /\ GrafanaFollows)'
    BY <1>13 DEF GenerateAlerting, GoTo
  <2> QED
    BY <2>5, <2>7, <2>8
<1>14. CASE GenerateDashboard
  BY <1>14 DEF GenerateDashboard, GoTo
<1>15. CASE RemoveLocalStack
  BY <1>15 DEF RemoveLocalStack, GoTo
<1>16. CASE RecreateIndexer
  BY <1>16 DEF RecreateIndexer, GoTo
<1>17. CASE RecreateGrafana
  <2>1. grafana'.rules = document.rules /\ grafana'.contacts = document.contacts
    BY <1>17, Provisioning DEF RecreateGrafana
  <2>2. DocumentKnows' /\ GrafanaFollows'
    BY <1>17, <2>1 DEF RecreateGrafana
  <2> QED
    BY <1>17, <2>2, Provisioning DEF RecreateGrafana, GoTo
<1>18. CASE Probe
  BY <1>18 DEF Probe, GoTo
<1>19. CASE MarkApplied
  BY <1>19 DEF MarkApplied, GoTo, Idle
<1>20. CASE Fails
  BY <1>20 DEF Fails, GoTo, Idle
<1>21. CASE IndexerLoads
  BY <1>21 DEF IndexerLoads, GoTo
<1>22. CASE IndexerStarts
  BY <1>22 DEF IndexerStarts, GoTo
<1>23. CASE IndexerRestarts
  BY <1>23 DEF IndexerRestarts, GoTo
<1>24. CASE Stop
  <2>1. repository' \in Remains
    BY <1>24 DEF Stop
  <2>2. /\ repository' = [git |-> repository'.git, url |-> repository'.url,
                          head |-> repository'.head, tree |-> repository'.tree,
                          locked |-> repository'.locked]
        /\ repository'.tree \in {repository'.head, None, Torn}
    BY <2>1, RemainingCheckout
  <2>3. host' \in {host, WithoutFiles(host)}
    BY <1>24 DEF Stop
  <2> QED
    BY <1>24, <2>2, <2>3 DEF Stop, WithoutFiles, Idle
<1>25. CASE IndexerDies
  BY <1>25 DEF IndexerDies, GoTo
<1>26. CASE GrafanaRestarts
  <2>1. grafana'.rules = document.rules /\ grafana'.contacts = document.contacts
    BY <1>26, Provisioning DEF GrafanaRestarts
  <2>2. DocumentKnows' /\ GrafanaFollows'
    BY <1>26, <2>1 DEF GrafanaRestarts
  <2> QED
    BY <1>26, <2>2, Provisioning DEF GrafanaRestarts
<1>27. CASE Publish
  BY <1>27 DEF Publish, GoTo
<1>28. CASE BranchMoves
  BY <1>28 DEF BranchMoves, GoTo
<1>29. CASE UNCHANGED vars
  BY <1>29 DEF vars
<1>q. QED
  BY <1>1, <1>2, <1>3, <1>4, <1>5, <1>6, <1>7, <1>8, <1>9, <1>10, <1>11, <1>12, <1>13, <1>14,
     <1>15, <1>16, <1>17, <1>18, <1>19, <1>20, <1>21, <1>22, <1>23, <1>24,
     <1>25, <1>26, <1>27, <1>28, <1>29
  DEF Next, Reconciler, Indexer

LEMMA Invariance == Spec => []IInv
  BY Base, Induction, PTL DEF Spec

-------------------------------------------------------------------------------
(* Types. *)

\* What a branch has moved by is counted.
TypedBranches ==
    /\ count = [published |-> count.published, moves |-> count.moves, stops |-> count.stops,
                deaths |-> count.deaths]
    /\ count.moves \in 0..MoveLimit
    /\ upstream \in [Urls -> 1..count.moves + 1]

\* A reconciliation that has fetched has a repository, and a commit of it.
Checkout ==
    [git : {"whole", "damaged"}, url : Urls, head : Commit \union {None},
     tree : Commit \union {None, Torn}, locked : BOOLEAN]

TypedRepository ==
    /\ repository \in {NoRepository, Debris, Unreadable} \union Checkout
    /\ run.pc \in AfterFetch => run.commit \in Commit /\ repository \in Checkout

TypedFiles ==
    /\ manifest \in Revision
    /\ host.applied \in Revision \union {None}
    /\ host.config \in Revision \union {None} /\ host.env \in Revision \union {None}

TypedRun ==
    /\ At("idle") <=> run = Idle
    /\ ~At("idle") => run.revision \in Revision /\ host.applied = None

TypedIndexer ==
    /\ indexer.phase \in {"none", "starting", "serving", "started", "down"}
    /\ indexer.phase \in {"serving", "started"} => indexer.config \in Revision

TypedGrafana ==
    /\ document.rules = {} \/ "noop" \in document.contacts
    /\ DOMAIN grafana = {"up", "rules", "contacts"}

Typed ==
    /\ TypedBranches /\ TypedRepository /\ TypedFiles /\ TypedRun /\ TypedIndexer /\ TypedGrafana
    /\ cutOff \in BOOLEAN

LEMMA TypedBase == Init => Typed
<1> SUFFICES ASSUME Init PROVE Typed
  OBVIOUS
<1>1. MoveLimit \in Nat /\ First \in Revision
  BY DeploymentAssumption
<1>2. TypedBranches
  BY <1>1 DEF Init, TypedBranches
<1>3. TypedRepository
  BY DEF Init, Idle, TypedRepository, AfterFetch, AfterCheckout, AfterConfig, AfterEnv, AfterCompose,
         AfterBuild, AfterAlerting, AfterIndexer, AfterGrafana
<1>4. TypedFiles /\ TypedRun /\ TypedIndexer /\ TypedGrafana
  BY <1>1 DEF Init, Idle, At, NoDocument, TypedFiles, TypedRun, TypedIndexer, TypedGrafana
<1> QED
  BY <1>2, <1>3, <1>4 DEF Init, Typed

LEMMA BranchesStep == TypedBranches /\ [Next]_vars => TypedBranches'
<1> SUFFICES ASSUME TypedBranches, [Next]_vars PROVE TypedBranches'
  OBVIOUS
<1>1. MoveLimit \in Nat
  BY DeploymentAssumption
<1>2. CASE BranchMoves
  <2>1. count'.moves = count.moves + 1 /\ count'.moves \in 0..MoveLimit
    BY <1>1, <1>2 DEF BranchMoves, TypedBranches
  <2>2. upstream' \in [Urls -> 1..count'.moves + 1]
    <3> DEFINE url == Bundle[manifest].url
    <3>1. upstream' = [upstream EXCEPT ![url] = @ + 1]
      BY <1>2 DEF BranchMoves
    <3> HIDE DEF url
    <3>2. \A u \in Urls : upstream'[u] \in {upstream[u], upstream[u] + 1}
      BY <3>1 DEF TypedBranches
    <3>3. \A u \in Urls : upstream'[u] \in 1..count'.moves + 1
      BY <2>1, <3>2 DEF TypedBranches
    <3>4. DOMAIN upstream' = Urls /\ upstream' = [u \in Urls |-> upstream'[u]]
      BY <3>1 DEF TypedBranches
    <3> QED
      BY <3>3, <3>4
  <2> QED
    BY <1>2, <2>1, <2>2 DEF BranchMoves, TypedBranches
<1>3. CASE UNCHANGED upstream /\ (Stop \/ IndexerDies \/ GrafanaRestarts \/ Publish)
  BY <1>3 DEF Stop, IndexerDies, GrafanaRestarts, Publish, TypedBranches
<1>4. CASE UNCHANGED <<upstream, count>>
  BY <1>4 DEF TypedBranches
<1>5. \/ BranchMoves \/ UNCHANGED <<upstream, count>>
      \/ UNCHANGED upstream /\ (Stop \/ IndexerDies \/ GrafanaRestarts \/ Publish)
  BY DEF Next, Reconciler, Indexer, vars, Reconcile, StartDiscard, FinishDiscard, Fetch,
         StartCheckout, FinishCheckout, SkipCheckout, InstallConfig, InstallEnv, CheckCompose, Build, SkipBuild, RecordInputs,
         GenerateAlerting, GenerateDashboard, RemoveLocalStack, RecreateIndexer, RecreateGrafana,
         Probe, MarkApplied, Fails, IndexerLoads, IndexerStarts, IndexerRestarts, Stop,
         IndexerDies, GrafanaRestarts, Publish
<1> QED
  BY <1>2, <1>3, <1>4, <1>5

LEMMA UpstreamIsCommit == TypedBranches => upstream \in [Urls -> Commit]
  BY DeploymentAssumption DEF TypedBranches, Commit

LEMMA RepositoryStep ==
    IInv /\ TypedBranches /\ TypedRepository /\ [Next]_vars => TypedRepository'
<1> SUFFICES ASSUME IInv, TypedBranches, TypedRepository, [Next]_vars PROVE TypedRepository'
  OBVIOUS
<1> USE DEF IInv, Shapes, OneAtATime, TypedRepository, At, AfterGrafana, AfterIndexer, AfterAlerting,
            AfterBuild, AfterCompose, AfterEnv, AfterConfig, AfterCheckout, AfterFetch
<1>1. CASE StartDiscard \/ FinishDiscard
  <2>1. run'.pc \notin AfterFetch
    BY <1>1 DEF StartDiscard, FinishDiscard, GoTo
  <2>2. CASE StartDiscard /\ repository \in Checkout
    BY <2>1, <2>2 DEF StartDiscard, Checkout
  <2>3. CASE StartDiscard /\ repository \in {NoRepository, Debris, Unreadable}
    <3>1. repository.tree = None
      BY <2>3 DEF NoRepository, Debris, Unreadable
    <3>2. repository' = repository
      BY <2>3, <3>1 DEF StartDiscard
    <3> QED
      BY <2>1, <2>3, <3>2
  <2>4. CASE FinishDiscard
    BY <2>1, <2>4 DEF FinishDiscard
  <2> QED
    BY <1>1, <2>2, <2>3, <2>4
<1>2. CASE Fetch
  <2>1. run.revision \in Revision
    BY <1>2 DEF Fetch
  <2>2. Declared.url \in Urls /\ Declared.ref \subseteq Commit
    BY <2>1, DeploymentAssumption DEF Declared
  <2>3. upstream[Declared.url] \in Commit
    BY <2>2, UpstreamIsCommit
  <2>4. Resolved(Declared) \in Commit
    BY <2>2, <2>3 DEF Resolved, UnwrapOr
  <2>5. repository' \in Checkout
    <3>1. CASE repository.git = "absent"
      <4>1. repository' = Cloned
        BY <1>2, <3>1 DEF Fetch, IsCheckout
      <4> QED
        BY <2>2, <2>3, <4>1 DEF Cloned, NoRepository, Checkout
    <3>2. CASE IsCheckout /\ repository.url = Declared.url
      <4>1. repository' = repository
        BY <1>2, <3>2 DEF Fetch
      <4>2. repository \notin {NoRepository, Debris}
        BY <3>2 DEF IsCheckout, NoRepository, Debris
      <4>3. repository # Unreadable \/ repository \in Checkout
        BY <2>2, <3>2 DEF Unreadable, NoRepository, Checkout
      <4> QED
        BY <4>1, <4>2, <4>3
    <3> QED
      BY <1>2, <3>1, <3>2 DEF Fetch
  <2>6. run' = Idle \/ run'.commit = Resolved(Declared)
    BY <1>2 DEF Fetch
  <2> QED
    BY <2>4, <2>5, <2>6 DEF Idle
<1>3. CASE StartCheckout
  BY <1>3 DEF StartCheckout, GoTo, Checkout
<1>4. CASE FinishCheckout
  BY <1>4 DEF FinishCheckout, GoTo, Checkout
<1>5. CASE UNCHANGED <<repository, run>> \/ (UNCHANGED repository /\ run'.pc \notin AfterFetch)
  BY <1>5
<1>6. CASE UNCHANGED repository /\ run.pc \in AfterFetch /\ run'.commit = run.commit
  BY <1>6
<1>7. CASE \/ SkipCheckout \/ InstallConfig \/ InstallEnv \/ CheckCompose \/ Build \/ SkipBuild
           \/ RecordInputs \/ GenerateAlerting \/ GenerateDashboard \/ RemoveLocalStack
           \/ RecreateIndexer \/ RecreateGrafana \/ Probe
  <2>1. run.pc \in AfterFetch
    BY <1>7 DEF SkipCheckout, InstallConfig, InstallEnv, CheckCompose, Build, SkipBuild,
         RecordInputs, GenerateAlerting, GenerateDashboard, RemoveLocalStack, RecreateIndexer,
         RecreateGrafana, Probe
  <2>2. UNCHANGED repository /\ \E pc : GoTo(pc)
    BY <1>7 DEF SkipCheckout, InstallConfig, InstallEnv, CheckCompose, Build, SkipBuild,
         RecordInputs, GenerateAlerting, GenerateDashboard, RemoveLocalStack, RecreateIndexer,
         RecreateGrafana, Probe
  <2> QED
    BY <1>6, <2>1, <2>2 DEF GoTo
<1>8. CASE Reconcile \/ MarkApplied \/ Fails
  <2>1. UNCHANGED repository
    BY <1>8 DEF Reconcile, MarkApplied, Fails
  <2>2. CASE Reconcile
    <3>1. run' = [Idle EXCEPT !.pc = "fetch", !.revision = manifest]
      BY <2>2 DEF Reconcile
    <3>2. run'.pc = "fetch"
      BY <3>1 DEF Idle
    <3> QED
      BY <1>5, <2>1, <3>2
  <2>3. CASE run' = Idle
    <3>1. run'.pc = "idle"
      BY <2>3 DEF Idle
    <3> QED
      BY <1>5, <2>1, <3>1
  <2> QED
    BY <1>8, <2>2, <2>3 DEF MarkApplied, Fails
<1>10. CASE Stop
  <2>1. repository' \in Remains /\ run'.pc = "idle"
    BY <1>10 DEF Stop, Idle
  <2>2. CASE repository' = repository
    BY <2>1, <2>2
  <2>3. CASE repository' = [Cloned EXCEPT !.head = None] /\ At("fetch")
    <3>1. Declared.url \in Urls
      BY <2>3, DeploymentAssumption DEF Declared
    <3> QED
      BY <2>1, <2>3, <3>1 DEF Cloned, NoRepository, Checkout
  <2>4. CASE repository' \in {Debris, Unreadable}
    BY <2>1, <2>4
  <2>5. CASE repository' = [repository EXCEPT !.git = "damaged"]
    BY <2>1, <2>5 DEF Checkout, NoRepository, Debris, Unreadable
  <2>6. CASE repository' = [repository EXCEPT !.locked = TRUE] /\ At("move")
    BY <2>1, <2>6 DEF Checkout
  <2> QED
    BY <2>1, <2>2, <2>3, <2>4, <2>5, <2>6 DEF Remains
<1>9. CASE Indexer \/ IndexerDies \/ GrafanaRestarts \/ Publish \/ BranchMoves \/ UNCHANGED vars
  BY <1>5, <1>9 DEF Indexer, IndexerLoads, IndexerStarts, IndexerRestarts, IndexerDies,
         GrafanaRestarts, Publish, BranchMoves, vars
<1> QED
  BY <1>1, <1>2, <1>3, <1>4, <1>7, <1>8, <1>9, <1>10 DEF Next, Reconciler

LEMMA FilesStep == IInv /\ TypedFiles /\ [Next]_vars => TypedFiles'
<1> SUFFICES ASSUME IInv, TypedFiles, [Next]_vars PROVE TypedFiles'
  OBVIOUS
<1> USE DEF IInv, Shapes, OneAtATime, TypedFiles, At
<1>1. CASE Reconcile \/ FinishDiscard \/ Stop
  BY <1>1 DEF Reconcile, FinishDiscard, Stop, WithoutFiles, ClearMarker
<1>2. CASE InstallConfig \/ InstallEnv \/ MarkApplied
  BY <1>2 DEF InstallConfig, InstallEnv, MarkApplied
<1>3. CASE RecordInputs \/ Publish
  BY <1>3 DEF RecordInputs, Publish
<1>4. CASE UNCHANGED <<manifest, host>>
  BY <1>4
<1>5. \/ Reconcile \/ FinishDiscard \/ Stop \/ InstallConfig \/ InstallEnv \/ MarkApplied
      \/ RecordInputs \/ Publish \/ UNCHANGED <<manifest, host>>
  BY DEF Next, Reconciler, Indexer, vars, StartDiscard, Fetch, StartCheckout, FinishCheckout,
         SkipCheckout, CheckCompose, Build, SkipBuild, GenerateAlerting, GenerateDashboard,
         RemoveLocalStack, RecreateIndexer, RecreateGrafana,
         Probe, Fails, IndexerLoads, IndexerStarts, IndexerRestarts,
         IndexerDies, GrafanaRestarts, BranchMoves
<1> QED
  BY <1>1, <1>2, <1>3, <1>4, <1>5

LEMMA RunStep == IInv /\ TypedRun /\ [Next]_vars => TypedRun'
<1> SUFFICES ASSUME IInv, TypedRun, [Next]_vars PROVE TypedRun'
  OBVIOUS
<1> USE DEF IInv, Shapes, OneAtATime, TypedRun, At
<1>1. CASE Reconcile
  BY <1>1 DEF Reconcile, ClearMarker, Idle
<1>2. CASE Fetch
  BY <1>2 DEF Fetch, Idle
<1>3. CASE run' = Idle
  BY <1>3 DEF Idle
<1>4. CASE /\ UNCHANGED <<host>> \/ host'.applied = host.applied
           /\ run' = run \/ (~At("idle") /\ run'.pc # "idle" /\ run'.revision = run.revision)
  BY <1>4 DEF Idle
<1>5. \/ Reconcile \/ Fetch \/ run' = Idle
      \/ /\ UNCHANGED <<host>> \/ host'.applied = host.applied
         /\ run' = run \/ (~At("idle") /\ run'.pc # "idle" /\ run'.revision = run.revision)
  BY DEF Next, Reconciler, Indexer, vars, GoTo, StartDiscard, FinishDiscard, WithoutFiles,
         StartCheckout, FinishCheckout,
         SkipCheckout, InstallConfig, InstallEnv, CheckCompose, Build, SkipBuild, RecordInputs,
         GenerateAlerting, GenerateDashboard, RemoveLocalStack, RecreateIndexer, RecreateGrafana,
         Probe, MarkApplied, Fails, IndexerLoads, IndexerStarts, IndexerRestarts, Stop,
         IndexerDies, GrafanaRestarts, Publish, BranchMoves
<1> QED
  BY <1>1, <1>2, <1>3, <1>4, <1>5

LEMMA IndexerStep == IInv /\ TypedFiles /\ TypedIndexer /\ [Next]_vars => TypedIndexer'
<1> SUFFICES ASSUME IInv, TypedFiles, TypedIndexer, [Next]_vars PROVE TypedIndexer'
  OBVIOUS
<1> USE DEF IInv, Shapes, TypedIndexer, TypedFiles
<1>1. CASE IndexerLoads
  BY <1>1 DEF IndexerLoads, Loads
<1>2. CASE IndexerStarts \/ IndexerRestarts \/ IndexerDies
  BY <1>2 DEF IndexerStarts, IndexerRestarts, IndexerDies
<1>3. CASE RecreateIndexer
  BY <1>3 DEF RecreateIndexer
<1>4. CASE UNCHANGED indexer
  BY <1>4
<1>5. \/ IndexerLoads \/ IndexerStarts \/ IndexerRestarts \/ IndexerDies \/ RecreateIndexer
      \/ UNCHANGED indexer
  BY DEF Next, Reconciler, Indexer, vars, Reconcile, StartDiscard, FinishDiscard, Fetch,
         StartCheckout, FinishCheckout, SkipCheckout, InstallConfig, InstallEnv, CheckCompose, Build, SkipBuild, RecordInputs,
         GenerateAlerting, GenerateDashboard, RemoveLocalStack, RecreateGrafana,
         Probe, MarkApplied, Fails, Stop, GrafanaRestarts, Publish, BranchMoves
<1> QED
  BY <1>1, <1>2, <1>3, <1>4, <1>5

LEMMA GrafanaStep == IInv /\ TypedGrafana /\ [Next]_vars => TypedGrafana'
<1> SUFFICES ASSUME IInv, TypedGrafana, [Next]_vars PROVE TypedGrafana'
  OBVIOUS
<1> USE DEF IInv, Shapes, TypedGrafana
<1>1. CASE GenerateAlerting
  BY <1>1 DEF GenerateAlerting, Generate, ProvisioningDocument
<1>2. CASE RecreateGrafana \/ GrafanaRestarts
  BY <1>2 DEF RecreateGrafana, GrafanaRestarts, Provisioned
<1>3. CASE RemoveLocalStack
  BY <1>3 DEF RemoveLocalStack
<1>4. CASE UNCHANGED <<document, grafana>>
  BY <1>4
<1>5. \/ GenerateAlerting \/ RecreateGrafana \/ GrafanaRestarts \/ RemoveLocalStack
      \/ UNCHANGED <<document, grafana>>
  BY DEF Next, Reconciler, Indexer, vars, Reconcile, StartDiscard, FinishDiscard, Fetch,
         StartCheckout, FinishCheckout, SkipCheckout, InstallConfig, InstallEnv, CheckCompose, Build, SkipBuild, RecordInputs,
         GenerateDashboard, RecreateIndexer, Probe, MarkApplied, Fails, IndexerLoads,
         IndexerStarts, IndexerRestarts, Stop, IndexerDies, Publish, BranchMoves
<1> QED
  BY <1>1, <1>2, <1>3, <1>4, <1>5

LEMMA CutOffStep == cutOff \in BOOLEAN /\ [Next]_vars => cutOff' \in BOOLEAN
<1> SUFFICES ASSUME cutOff \in BOOLEAN, [Next]_vars PROVE cutOff' \in BOOLEAN
  OBVIOUS
<1>1. Stop \/ cutOff' = FALSE \/ cutOff' = cutOff
  BY DEF Next, Reconciler, Indexer, vars, Reconcile, StartDiscard, FinishDiscard, Fetch,
         StartCheckout, FinishCheckout, SkipCheckout, InstallConfig, InstallEnv, CheckCompose, Build, SkipBuild, RecordInputs,
         GenerateAlerting, GenerateDashboard, RemoveLocalStack, RecreateIndexer, RecreateGrafana,
         Probe, MarkApplied, Fails, IndexerLoads, IndexerStarts, IndexerRestarts,
         IndexerDies, GrafanaRestarts, Publish, BranchMoves
<1> QED
  BY <1>1 DEF Stop

LEMMA TypedStep == IInv /\ Typed /\ [Next]_vars => Typed'
  BY BranchesStep, RepositoryStep, FilesStep, RunStep, IndexerStep, GrafanaStep, CutOffStep DEF Typed

\* The host's state is well formed: one reconciliation at a time, a checkout at a commit of
\* its repository, an indexer that serves with a configuration it has read.
THEOREM TypeCorrect == Spec => []TypeOK
<1>1. Typed => TypeOK
  BY UpstreamIsCommit
     DEF Typed, TypedRepository, Checkout, IsCheckout, TypedFiles, TypedRun, TypedIndexer, TypedGrafana, TypeOK
<1> QED
  BY <1>1, TypedBase, TypedStep, Invariance, PTL DEF Spec

-------------------------------------------------------------------------------

\* What is marked as applied is what runs: its files are installed, the recorded inputs
\* are its own, the image is the one that was built from them and the indexer was made
\* from that image -- but for a build that was cut off before its record, or made from a
\* checkout that was stopped half way (deploy-microscope.sh).
THEOREM AppliedRuns == Spec => []AppliedRunsItsInputs
<1>1. IInv => AppliedRunsItsInputs
  BY DEF IInv, OneAtATime, CheckoutFollows, FilesFollow, ImageFollows, IndexerFollows, Reached,
         Current, CurrentBundle, CurrentInputs, Applied, AppliedBundle, At, AppliedRunsItsInputs
<1> QED
  BY <1>1, Invariance, PTL

\* No revision whose configuration the indexer refuses is ever marked as applied on a
\* local stack, although the probe would let it pass.
THEOREM AppliedStarts == Spec => []AppliedConfigStarts
<1>1. IInv => AppliedConfigStarts
  BY DeploymentAssumption
     DEF IInv, OneAtATime, FilesFollow, IndexerFollows, DocumentFollows, Reached, Current,
         CurrentBundle, Applied, AppliedBundle, Accepts, Starts, HasEndpoint, AppliedConfigStarts
<1> QED
  BY <1>1, Invariance, PTL

\* Grafana holds exactly what the applied configuration declares, whatever documents were
\* replaced before Grafana had read them.
THEOREM GrafanaFollowsApplied == Spec => []GrafanaFollowsConfig
<1>1. IInv => GrafanaFollowsConfig
  BY DEF IInv, DocumentFollows, GrafanaFollows, Reached, Current, CurrentBundle, Applied,
         AppliedBundle, GrafanaFollowsConfig
<1> QED
  BY <1>1, Invariance, PTL

-------------------------------------------------------------------------------
(* The dashboard. *)

\* The height of some of two panels.
Summed(S, f) ==
    f = [s \in SUBSET S |-> IF s = {} THEN 0
                            ELSE Height(CHOOSE x \in s : TRUE) + f[s \ {CHOOSE x \in s : TRUE}]]

LEMMA HeightOfTwo ==
    ASSUME NEW a, NEW b, a # b, a.h \in Nat, b.h \in Nat, NEW S \in SUBSET {a, b}
    PROVE  TotalHeight(S) = (IF a \in S THEN a.h ELSE 0) + (IF b \in S THEN b.h ELSE 0)
  <1> DEFINE sum(s) == (IF a \in s THEN a.h ELSE 0) + (IF b \in s THEN b.h ELSE 0)
             pick(s) == CHOOSE x \in s : TRUE
             g == [s \in SUBSET S |-> sum(s)]
             f == CHOOSE f : Summed(S, f)
  <1>1. ASSUME NEW s \in SUBSET S, s # {} PROVE pick(s) \in s /\ s \ {pick(s)} \in SUBSET S
    BY <1>1
  <1>2. ASSUME NEW s \in SUBSET S, s # {} PROVE sum(s) = Height(pick(s)) + sum(s \ {pick(s)})
    <2> DEFINE x == pick(s)
    <2>1. x \in s /\ (x = a \/ x = b)
      BY <1>1, <1>2
    <2> HIDE DEF x
    <2> DEFINE rest == s \ {x}
    <2>2. ASSUME x = a PROVE sum(s) = Height(x) + sum(rest)
      <3>1. a \in s /\ a \notin rest /\ (b \in rest <=> b \in s)
        BY <2>1, <2>2
      <3> HIDE DEF rest
      <3> QED
        BY <2>2, <3>1 DEF Height
    <2>3. ASSUME x = b PROVE sum(s) = Height(x) + sum(rest)
      <3>1. b \in s /\ b \notin rest /\ (a \in rest <=> a \in s)
        BY <2>1, <2>3
      <3> HIDE DEF rest
      <3> QED
        BY <2>3, <3>1 DEF Height
    <2>4. sum(s) = Height(x) + sum(rest)
      BY <2>1, <2>2, <2>3
    <2> QED
      BY <2>4 DEF x
  <1>3. sum({}) = 0
    OBVIOUS
  <1>4. Summed(S, g)
    <2>1. ASSUME NEW s \in SUBSET S
          PROVE  g[s] = IF s = {} THEN 0 ELSE Height(pick(s)) + g[s \ {pick(s)}]
      <3> HIDE DEF sum, pick
      <3> QED
        BY <1>1, <1>2, <1>3
    <2> HIDE DEF g
    <2>2. g = [s \in SUBSET S |-> IF s = {} THEN 0 ELSE Height(pick(s)) + g[s \ {pick(s)}]]
      BY <2>1 DEF g
    <2> QED
      BY <2>2 DEF Summed
  <1>5. Summed(S, f)
    BY <1>4
  <1>6. TotalHeight(S) = f[S]
    BY DEF TotalHeight, MapThenSumSet, MapThenFoldSet, Summed
  <1> HIDE DEF f, g
  <1>7. \A s \in SUBSET S : f[s] = IF s = {} THEN 0 ELSE Height(pick(s)) + f[s \ {pick(s)}]
    BY <1>5 DEF Summed
  <1> HIDE DEF sum, pick
  <1>8. f[{}] = 0 /\ {} \in SUBSET S
    BY <1>7
  <1>9. ASSUME NEW s \in SUBSET S, s # {}, s \ {pick(s)} # {} PROVE (s \ {pick(s)}) \ {pick(s \ {pick(s)})} = {}
    <2>1. pick(s) \in s /\ pick(s \ {pick(s)}) \in s \ {pick(s)}
      BY <1>1, <1>9
    <2> QED
      BY <2>1
  <1>10. ASSUME NEW s \in SUBSET S PROVE f[s] = sum(s)
    <2>1. CASE s = {}
      BY <1>3, <1>8, <2>1
    <2>2. CASE s # {}
      <3> DEFINE t == s \ {pick(s)}
      <3>1. t \in SUBSET S /\ f[s] = Height(pick(s)) + f[t] /\ sum(s) = Height(pick(s)) + sum(t)
        BY <1>1, <1>2, <1>7, <2>2
      <3>2. t = {} => f[t] = sum(t)
        BY <1>3, <1>8
      <3>3. t # {} => f[t] = sum(t)
        <4> SUFFICES ASSUME t # {} PROVE f[t] = sum(t)
          OBVIOUS
        <4>1. t \ {pick(t)} = {}
          BY <1>9, <2>2
        <4> HIDE DEF t
        <4> QED
          BY <1>2, <1>3, <1>7, <1>8, <3>1, <4>1
      <3> HIDE DEF t
      <3> QED
        BY <3>1, <3>2, <3>3
    <2> QED
      BY <2>1, <2>2
  <1> QED
    BY <1>6, <1>10 DEF sum


\* The panels that can be removed, and where the others are.
Scoped == {Panel(7, 0, 24, 24, 8), Panel(6, 0, 32, 24, 12), Panel(8, 0, 44, 24, 12)}

AsPanel(q) ==
    /\ q.id \in Nat /\ q.x \in Nat /\ q.y \in Nat /\ q.w \in Nat /\ q.h \in Nat
    /\ q = [id |-> q.id, x |-> q.x, y |-> q.y, w |-> q.w, h |-> q.h]

LEMMA Grid ==
    \A q \in Template \union PollingPanels :
        /\ AsPanel(q)
        /\ q \notin Scoped => q.id \notin {6, 7, 8} /\ (q.y + q.h <= 24 \/ q.y >= 56)
  <1>1. \A q \in Template :
            AsPanel(q) /\ (q \notin Scoped => q.id \notin {6, 7, 8} /\ q.y + q.h <= 24)
    BY DEF Template, Panel, Scoped, AsPanel
  <1>2. \A q \in PollingPanels :
            AsPanel(q) /\ q.id \notin {6, 7, 8} /\ q.y >= 56
    BY DEF PollingPanels, Panel, AsPanel
  <1> QED
    BY <1>1, <1>2

LEMMA ScopedInTemplate == Scoped \subseteq Template
  BY DEF Scoped, Template

LEMMA RemovedPanel ==
    ASSUME NEW panels, NEW ids, NEW p
    PROVE  p \in RemovePanels(panels, ids) <=>
               \E q \in panels :
                   /\ q.id \notin ids
                   /\ p = [q EXCEPT !.y = q.y - TotalHeight(RemovedAbove(panels, ids, q))]
  BY DEF RemovePanels

Shows(panels, id) ==
    \E panel \in panels :
        panel.id = id /\ \A other \in panels \ {panel} : ~Overlap(panel, other)

LEMMA AllShow ==
    ASSUME NEW all, Template \subseteq all, all \subseteq Template \union PollingPanels,
           NEW id \in {6, 8}
    PROVE  Shows(all, id)
  <1>1. ASSUME NEW p \in Scoped, NEW q \in all, q # p PROVE ~Overlap(p, q)
    <2>1. CASE q \in Scoped
      BY <1>1, <2>1 DEF Scoped, Panel, Overlap
    <2>2. CASE q \notin Scoped
      BY <1>1, <2>2, Grid DEF Scoped, Panel, Overlap, AsPanel
    <2> QED
      BY <2>1, <2>2
  <1>2. \E p \in Scoped : p.id = id
    BY DEF Scoped, Panel
  <1> QED
    BY <1>1, <1>2, ScopedInTemplate DEF Shows

\* Without the panels of the multisig that of the events moves up.
LEMMA EventsShow ==
    ASSUME NEW all, Template \subseteq all, all \subseteq Template \union PollingPanels
    PROVE  Shows(RemovePanels(all, MultisigPanels), 6)
  <1> DEFINE a == Panel(7, 0, 24, 24, 8)
             b == Panel(8, 0, 44, 24, 12)
             above(q) == RemovedAbove(all, MultisigPanels, q)
             height(q) == (IF 24 < q.y THEN 8 ELSE 0) + (IF 44 < q.y THEN 12 ELSE 0)
             moved(q) == [q EXCEPT !.y = q.y - height(q)]
             p == Panel(6, 0, 24, 24, 12)
  <1>1. a \in all /\ b \in all /\ a # b /\ a.id = 7 /\ b.id = 8 /\ a.h = 8 /\ b.h = 12 /\ a.y = 24 /\ b.y = 44
    BY ScopedInTemplate DEF Scoped, Panel
  <1>2. \A o \in all : o.id \in {7, 8} => o = a \/ o = b
    <2>1. \A o \in Scoped : o.id \in {7, 8} => o = a \/ o = b
      BY DEF Scoped, Panel
    <2> QED
      BY <2>1, Grid
  <1> HIDE DEF a, b
  <1>3. ASSUME NEW q \in all PROVE TotalHeight(above(q)) = height(q)
    <2>1. above(q) \in SUBSET {a, b} /\ (a \in above(q) <=> 24 < q.y) /\ (b \in above(q) <=> 44 < q.y)
      BY <1>1, <1>2 DEF RemovedAbove, MultisigPanels
    <2> HIDE DEF above
    <2> QED
      BY <1>1, <2>1, HeightOfTwo
  <1>4. \A r : r \in RemovePanels(all, MultisigPanels) <=> \E q \in all : q.id \notin MultisigPanels /\ r = moved(q)
    <2>1. \A r : r \in RemovePanels(all, MultisigPanels) <=>
              \E q \in all : q.id \notin MultisigPanels /\ r = [q EXCEPT !.y = q.y - TotalHeight(above(q))]
      BY RemovedPanel
    <2> HIDE DEF above, height
    <2> QED
      BY <1>3, <2>1
  <1>5. Panel(6, 0, 32, 24, 12) \in all /\ moved(Panel(6, 0, 32, 24, 12)) = p /\ p.id = 6
    BY ScopedInTemplate DEF Scoped, Panel
  <1>6. p \in RemovePanels(all, MultisigPanels)
    <2>1. Panel(6, 0, 32, 24, 12).id \notin MultisigPanels
      BY DEF Panel, MultisigPanels
    <2> QED
      BY <1>4, <1>5, <2>1
  <1>7. ASSUME NEW q \in all, q.id \notin MultisigPanels, moved(q) # p PROVE ~Overlap(p, moved(q))
    <2>1. AsPanel(q) /\ (q.y + q.h <= 24 \/ q.y >= 56)
      <3>1. q \notin Scoped
        BY <1>5, <1>7 DEF Scoped, Panel, MultisigPanels
      <3> QED
        BY <3>1, Grid
    <2>2. moved(q).y = q.y - height(q) /\ moved(q).h = q.h
      BY <2>1 DEF AsPanel
    <2>3. moved(q).y + moved(q).h <= 24 \/ moved(q).y >= 36
      <3> HIDE DEF moved
      <3> QED
        BY <2>1, <2>2 DEF AsPanel
    <2> HIDE DEF moved
    <2>4. p.y = 24 /\ p.h = 12
      BY DEF Panel
    <2>5. moved(q).y \in Int /\ moved(q).h \in Nat
      BY <2>1, <2>2 DEF AsPanel
    <2> HIDE DEF p
    <2> QED
      BY <2>3, <2>4, <2>5 DEF Overlap
  <1>8. ASSUME NEW other \in RemovePanels(all, MultisigPanels) \ {p} PROVE ~Overlap(p, other)
    <2>1. PICK q \in all : q.id \notin MultisigPanels /\ other = moved(q)
      BY <1>4
    <2> HIDE DEF moved, p
    <2> QED
      BY <1>7, <2>1
  <1> HIDE DEF moved, p
  <1> QED
    BY <1>5, <1>6, <1>8 DEF Shows

\* Without that of the events that of the multisig does.
LEMMA MultisigShows ==
    ASSUME NEW all, Template \subseteq all, all \subseteq Template \union PollingPanels
    PROVE  Shows(RemovePanels(all, {EventPanel}), 8)
  <1> DEFINE a == Panel(6, 0, 32, 24, 12)
             b == Panel(7, 0, 24, 24, 8)
             above(q) == RemovedAbove(all, {EventPanel}, q)
             height(q) == IF 32 < q.y THEN 12 ELSE 0
             moved(q) == [q EXCEPT !.y = q.y - height(q)]
             p == Panel(8, 0, 32, 24, 12)
  <1>1. a \in all /\ a # b /\ a.id = 6 /\ a.h = 12 /\ a.y = 32 /\ b.h = 8 /\ b.id = 7
    BY ScopedInTemplate DEF Scoped, Panel
  <1>2. \A o \in all : o.id \in {6} => o = a
    <2>1. \A o \in Scoped : o.id \in {6} => o = a
      BY DEF Scoped, Panel
    <2> QED
      BY <2>1, Grid
  <1> HIDE DEF a, b
  <1>3. ASSUME NEW q \in all PROVE TotalHeight(above(q)) = height(q)
    <2>1. above(q) \in SUBSET {a, b} /\ (a \in above(q) <=> 32 < q.y) /\ b \notin above(q)
      BY <1>1, <1>2 DEF RemovedAbove, EventPanel
    <2> HIDE DEF above
    <2> QED
      BY <1>1, <2>1, HeightOfTwo
  <1>4. \A r : r \in RemovePanels(all, {EventPanel}) <=> \E q \in all : q.id \notin {EventPanel} /\ r = moved(q)
    <2>1. \A r : r \in RemovePanels(all, {EventPanel}) <=>
              \E q \in all : q.id \notin {EventPanel} /\ r = [q EXCEPT !.y = q.y - TotalHeight(above(q))]
      BY RemovedPanel
    <2> HIDE DEF above, height
    <2> QED
      BY <1>3, <2>1
  <1>5. Panel(8, 0, 44, 24, 12) \in all /\ moved(Panel(8, 0, 44, 24, 12)) = p /\ p.id = 8
    BY ScopedInTemplate DEF Scoped, Panel
  <1>6. p \in RemovePanels(all, {EventPanel})
    <2>1. Panel(8, 0, 44, 24, 12).id \notin {EventPanel}
      BY DEF Panel, EventPanel
    <2> QED
      BY <1>4, <1>5, <2>1
  <1>7. ASSUME NEW q \in all, q.id \notin {EventPanel}, moved(q) # p PROVE ~Overlap(p, moved(q))
    <2>1. AsPanel(q) /\ (q.y + q.h <= 32 \/ q.y >= 56)
      <3>1. CASE q \in Scoped
        <4>1. q = Panel(7, 0, 24, 24, 8)
          BY <1>5, <1>7, <3>1 DEF Scoped, Panel, EventPanel
        <4> QED
          BY <4>1 DEF Panel, AsPanel
      <3>2. CASE q \notin Scoped
        BY <3>2, Grid DEF AsPanel
      <3> QED
        BY <3>1, <3>2
    <2>2. moved(q).y = q.y - height(q) /\ moved(q).h = q.h
      BY <2>1 DEF AsPanel
    <2>3. moved(q).y + moved(q).h <= 32 \/ moved(q).y >= 44
      <3> HIDE DEF moved
      <3> QED
        BY <2>1, <2>2 DEF AsPanel
    <2> HIDE DEF moved
    <2>4. p.y = 32 /\ p.h = 12
      BY DEF Panel
    <2>5. moved(q).y \in Int /\ moved(q).h \in Nat
      BY <2>1, <2>2 DEF AsPanel
    <2> HIDE DEF p
    <2> QED
      BY <2>3, <2>4, <2>5 DEF Overlap
  <1>8. ASSUME NEW other \in RemovePanels(all, {EventPanel}) \ {p} PROVE ~Overlap(p, other)
    <2>1. PICK q \in all : q.id \notin {EventPanel} /\ other = moved(q)
      BY <1>4
    <2> HIDE DEF moved, p
    <2> QED
      BY <1>7, <2>1
  <1> HIDE DEF moved, p
  <1> QED
    BY <1>5, <1>6, <1>8 DEF Shows

\* The panel of the events is where they can be decoded, and that of the multisig where
\* one is configured.
LEMMA PanelsShow ==
    ASSUME NEW hasMultisig \in BOOLEAN, NEW pollsRpc \in BOOLEAN, NEW programEvents \in BOOLEAN
    PROVE  /\ programEvents => Shows(OverviewDocument(hasMultisig, pollsRpc, programEvents), 6)
           /\ hasMultisig => Shows(OverviewDocument(hasMultisig, pollsRpc, programEvents), 8)
  <1> DEFINE all == Template \union (IF pollsRpc THEN PollingPanels ELSE {})
  <1>1. Template \subseteq all /\ all \subseteq Template \union PollingPanels
    OBVIOUS
  <1>2. OverviewDocument(hasMultisig, pollsRpc, programEvents) =
            LET scoped == IF hasMultisig THEN all ELSE RemovePanels(all, MultisigPanels)
            IN IF programEvents THEN scoped ELSE RemovePanels(scoped, {EventPanel})
    BY DEF OverviewDocument, WithoutMultisig, AllPanels
  <1> HIDE DEF all
  <1>3. 6 \in {6, 8} /\ 8 \in {6, 8}
    OBVIOUS
  <1> QED
    BY <1>1, <1>2, <1>3, AllShow, EventsShow, MultisigShows

AfterDashboard == {"indexer"} \union AfterIndexer

DashboardFollows ==
    Reached(AfterDashboard) /\ ~CurrentBundle.cloud =>
        dashboard = OverviewDocument(CurrentBundle.config.multisig # Unset,
                                     PollsRpcWith(Current, Current), image.idl.event # {})

LEMMA DashboardBase == Init => DashboardFollows
  BY DeploymentAssumption
     DEF Init, Idle, DashboardFollows, Reached, Applied, AfterDashboard, AfterIndexer, AfterGrafana

LEMMA DashboardStep == IInv /\ DashboardFollows /\ [Next]_vars => DashboardFollows'
<1> SUFFICES ASSUME IInv, DashboardFollows, [Next]_vars, Reached(AfterDashboard)', ~CurrentBundle.cloud'
             PROVE  dashboard' = OverviewDocument(CurrentBundle.config.multisig # Unset,
                                     PollsRpcWith(Current, Current), image.idl.event # {})'
  BY DEF DashboardFollows
<1> USE DEF IInv, Shapes, OneAtATime, FilesFollow, Reached, Current, CurrentBundle, Applied, At,
            Declared, AfterGrafana, AfterIndexer, AfterAlerting, AfterBuild, AfterCompose, AfterEnv,
            AfterConfig, AfterDashboard, DashboardFollows, PollsRpcWith
<1>1. CASE GenerateDashboard
  BY <1>1 DEF GenerateDashboard, GoTo
<1>2. CASE RecreateIndexer \/ RecreateGrafana \/ Probe
  BY <1>2 DEF RecreateIndexer, RecreateGrafana, Probe, GoTo
<1>3. CASE RemoveLocalStack
  BY <1>3 DEF RemoveLocalStack, GoTo
<1>4. CASE MarkApplied
  BY <1>4 DEF MarkApplied, Idle
<1>5. CASE IndexerLoads \/ IndexerStarts \/ IndexerRestarts \/ IndexerDies \/ GrafanaRestarts
           \/ Publish \/ BranchMoves \/ UNCHANGED vars
  BY <1>5 DEF IndexerLoads, IndexerStarts, IndexerRestarts, IndexerDies, GrafanaRestarts, Publish,
              BranchMoves, vars
<1>6. CASE Fails \/ Stop
  <2>1. run.pc # "idle"
    BY <1>6 DEF Fails, Stop
  <2>2. run'.pc = "idle"
    BY <1>6 DEF Fails, Stop, Idle
  <2>3. host'.applied = host.applied
    <3>1. host' \in {host, WithoutFiles(host)}
      BY <1>6 DEF Fails, Stop
    <3> QED
      BY <3>1 DEF WithoutFiles
  <2> QED
    BY <2>1, <2>2, <2>3
<1>7. CASE Reconcile \/ StartDiscard \/ FinishDiscard \/ Fetch
  <2>1. run'.pc \notin AfterDashboard
    <3>1. CASE Reconcile
      BY <3>1 DEF Reconcile, Idle
    <3>2. CASE StartDiscard \/ FinishDiscard
      BY <3>2 DEF StartDiscard, FinishDiscard, GoTo
    <3>3. CASE Fetch
      BY <3>3 DEF Fetch, Idle
    <3> QED
      BY <1>7, <3>1, <3>2, <3>3
  <2>2. host'.applied = None
    BY <1>7 DEF Reconcile, StartDiscard, FinishDiscard, Fetch, WithoutFiles, ClearMarker
  <2> QED
    BY <2>1, <2>2
<1>8. CASE StartCheckout \/ FinishCheckout \/ SkipCheckout \/ InstallConfig \/ InstallEnv
           \/ CheckCompose \/ Build \/ SkipBuild \/ RecordInputs \/ GenerateAlerting
  BY <1>8 DEF StartCheckout, FinishCheckout, SkipCheckout, InstallConfig, InstallEnv, CheckCompose,
              Build, SkipBuild, RecordInputs, GenerateAlerting, GoTo
<1> QED
  BY <1>1, <1>2, <1>3, <1>4, <1>5, <1>6, <1>7, <1>8 DEF Next, Reconciler, Indexer

LEMMA DashboardAlwaysFollows == Spec => []DashboardFollows
  BY DashboardBase, DashboardStep, Invariance, PTL DEF Spec

\* The panel that a notification links to is in the dashboard and no other covers it,
\* although the rules are generated from the configuration and its IDL, and the panels
\* from how the image was built (dashboard.rs, remove_panels).
THEOREM LinkedPanels == Spec => []LinkedPanelsShow
<1>1. IInv /\ DashboardFollows => LinkedPanelsShow
  <2> SUFFICES ASSUME IInv, DashboardFollows, Applied, ~AppliedBundle.cloud,
                      NEW rule \in grafana.rules, rule.kind # "datasource", NEW id \in rule.panel
               PROVE  Shows(dashboard, id)
    BY DEF LinkedPanelsShow, Shows
  <2> DEFINE config == AppliedBundle.config
             rpcUrl == "rpc" \in AppliedBundle.endpoints
  <2>1. /\ grafana.rules = ProvisioningDocument(config, rpcUrl).rules
        /\ Accepts(host.applied, image, host.applied)
    BY DEF IInv, DocumentFollows, GrafanaFollows, Reached, Current, CurrentBundle, Applied, AppliedBundle
  <2>2. dashboard = OverviewDocument(config.multisig # Unset, PollsRpcWith(host.applied, host.applied),
                                     image.idl.event # {})
    BY DEF DashboardFollows, Reached, Current, CurrentBundle, AppliedBundle
  <2>3. ValidConfig(config, image.idl)
    BY <2>1 DEF Accepts, Loads, AppliedBundle
  <2>4. \A health \in HealthRules(config, rpcUrl) : health.kind = "datasource"
    BY DEF HealthRules, RecoveryRules, DropRules, YellowstoneRules, DeliveryRules, MultisigRules,
           PollRules, GaugeRule, LogRule, IncreaseRule, HealthRule
  <2>5. rule \in ActivityRules(config)
    BY <2>1, <2>4 DEF ProvisioningDocument
  <2>6. PICK alert \in config.alerts : rule.panel = LogPanel(alert.kind)
    BY <2>5 DEF ActivityRules, GrafanaRule
  <2>7. \/ alert.kind = "event" /\ id = 6
        \/ alert.kind = "multisig" /\ id = 8
    BY <2>6 DEF LogPanel
  <2>8. /\ alert.kind = "multisig" => config.multisig # Unset
        /\ alert.kind = "event" => image.idl.event # {}
    BY <2>3 DEF ValidConfig, KnownNames
  <2>9. PollsRpcWith(host.applied, host.applied) \in BOOLEAN
    BY DEF PollsRpcWith, PollsRpc
  <2> HIDE DEF config
  <2> QED
    BY <2>2, <2>7, <2>8, <2>9, PanelsShow
<1> QED
  BY <1>1, Invariance, DashboardAlwaysFollows, PTL

-------------------------------------------------------------------------------
(* The rules that Grafana has were all generated from configurations that were  *)
(* accepted, those of earlier documents too.                                    *)

Generated(rule) ==
    \E r \in Revision, rpcUrl \in BOOLEAN : \E idl :
        /\ ValidConfig(Bundle[r].config, idl)
        /\ rule \in ProvisioningDocument(Bundle[r].config, rpcUrl).rules

AllGenerated == \A rule \in document.rules \union grafana.rules : Generated(rule)

LEMMA GeneratedBase == Init => AllGenerated
  BY DEF Init, NoDocument, AllGenerated

LEMMA GeneratedStep == IInv /\ AllGenerated /\ [Next]_vars => AllGenerated'
<1> SUFFICES ASSUME IInv, AllGenerated, [Next]_vars PROVE AllGenerated'
  OBVIOUS
<1>1. CASE GenerateAlerting
  <2> DEFINE config == Bundle[host.config].config
             rpcUrl == "rpc" \in Bundle[host.env].endpoints
  <2>1. host.config \in Revision
    BY <1>1 DEF GenerateAlerting, IInv, FilesFollow, OneAtATime, Reached, Current, Applied, At,
                AfterConfig, AfterEnv, AfterCompose, AfterBuild
  <2>2. ValidConfig(config, image.idl)
    BY <1>1 DEF GenerateAlerting, Accepts, Loads
  <2>3. document'.rules = ProvisioningDocument(config, rpcUrl).rules
    BY <1>1 DEF GenerateAlerting, Generate
  <2>4. rpcUrl \in BOOLEAN
    OBVIOUS
  <2> HIDE DEF rpcUrl
  <2>5. \A rule \in document'.rules : Generated(rule)
    BY <2>1, <2>2, <2>3, <2>4 DEF Generated
  <2> QED
    BY <1>1, <2>5 DEF GenerateAlerting, AllGenerated
<1>2. CASE RecreateGrafana \/ GrafanaRestarts
  BY <1>2 DEF RecreateGrafana, GrafanaRestarts, Provisioned, AllGenerated
<1>3. CASE RemoveLocalStack
  BY <1>3 DEF RemoveLocalStack, IInv, Shapes, AllGenerated
<1>4. CASE UNCHANGED <<document, grafana>>
  BY <1>4 DEF AllGenerated
<1>5. \/ GenerateAlerting \/ RecreateGrafana \/ GrafanaRestarts \/ RemoveLocalStack
      \/ UNCHANGED <<document, grafana>>
  BY DEF Next, Reconciler, Indexer, vars, Reconcile, StartDiscard, FinishDiscard, Fetch,
         StartCheckout, FinishCheckout, SkipCheckout, InstallConfig, InstallEnv, CheckCompose, Build, SkipBuild, RecordInputs,
         GenerateDashboard, RecreateIndexer, Probe, MarkApplied, Fails, IndexerLoads,
         IndexerStarts, IndexerRestarts, Stop, IndexerDies, Publish, BranchMoves
<1> QED
  BY <1>1, <1>2, <1>3, <1>4, <1>5

LEMMA AlwaysGenerated == Spec => []AllGenerated
<1>1. Init => AllGenerated
  BY GeneratedBase
<1>2. IInv /\ AllGenerated /\ [Next]_vars => AllGenerated'
  BY GeneratedStep
<1> QED
  BY <1>1, <1>2, Invariance, PTL DEF Spec

LEMMA GeneratedIsWellTimed == ASSUME NEW rule, Generated(rule) PROVE WellTimed(rule)
<1>1. PICK r \in Revision, rpcUrl \in BOOLEAN : \E idl :
          /\ ValidConfig(Bundle[r].config, idl)
          /\ rule \in ProvisioningDocument(Bundle[r].config, rpcUrl).rules
  BY DEF Generated
<1>2. PICK idl :
          /\ ValidConfig(Bundle[r].config, idl)
          /\ rule \in ProvisioningDocument(Bundle[r].config, rpcUrl).rules
  BY <1>1
<1>3. TypedTiming(Bundle[r].config)
  BY ConfigAssumption DEF TypedTiming
<1> QED
  BY <1>2, <1>3, DocumentIsWellTimed

\* Whatever lookback and interval an accepted configuration gives an alert, each of its
\* records is in the window of an evaluation (config.rs, `validate_timing`).
THEOREM MatchesAreEvaluated == Spec => []EveryMatchIsEvaluated
<1>1. AllGenerated => EveryMatchIsEvaluated
  <2> SUFFICES ASSUME AllGenerated, NEW rule \in ActivityIn(grafana.rules),
                      NEW delay \in {0} \union 0..rule.lookback - rule.interval,
                      NEW phase \in 0..rule.interval - 1
               PROVE  \E n \in 0..rule.lookback \div rule.interval :
                          LET tick == phase + n * rule.interval
                          IN delay <= tick /\ tick < rule.lookback
    BY DEF EveryMatchIsEvaluated
  <2>1. WellTimedActivity(rule)
    BY GeneratedIsWellTimed DEF ActivityIn, AllGenerated, WellTimed
  <2>2. delay \in 0..rule.lookback - rule.interval
    BY <2>1 DEF WellTimedActivity
  <2> QED
    BY <2>1, <2>2, SomeEvaluationSees DEF WellTimedActivity
<1> QED
  BY <1>1, AlwaysGenerated, PTL

-------------------------------------------------------------------------------
(* When health rules fire: not on what they tolerate, on one occurrence more   *)
(* however long they are configured to pend, and of an outage from the          *)
(* occurrence that completes it on.                                             *)

\* A quotient is at least a number where the number's multiple still fits in.
LEMMA QuotientAtLeast ==
    ASSUME NEW t \in Nat, NEW p \in Nat \ {0}, NEW k \in Nat
    PROVE  t \div p >= k <=> t >= p * k
<1> DEFINE q == t \div p
<1>1. q \in Nat /\ p * q <= t /\ t < p * q + p
  BY Quotient
<1> HIDE DEF q
<1>2. p * k \in Nat /\ p * k = k * p /\ p * q \in Nat
  BY <1>1
<1>3. ASSUME t >= p * k PROVE q >= k
  <2>1. SUFFICES ASSUME k >= q + 1 PROVE FALSE
    BY <1>1
  <2>2. PICK d \in Nat : k = q + 1 + d
    <3> DEFINE rest == k - q - 1
    <3> rest \in Nat
      BY <1>1, <2>1
    <3> QED
      BY <1>1
  <2>3. p * k = p * q + p + p * d /\ p * d \in Nat
    BY <1>1, <2>2
  <2> QED
    BY <1>1, <1>2, <1>3, <2>3
<1>4. ASSUME q >= k PROVE t >= p * k
  <2>1. PICK d \in Nat : q = k + d
    <3> DEFINE rest == q - k
    <3> rest \in Nat
      BY <1>1, <1>4
    <3> QED
      BY <1>1
  <2>2. p * q = p * k + p * d /\ p * d \in Nat
    BY <2>1
  <2> QED
    BY <1>1, <1>2, <2>2
<1> QED
  BY <1>3, <1>4, <1>1 DEF q

\* The poll that completes a duration is the one the threshold counts up to.
LEMMA CompletingPoll ==
    ASSUME NEW p \in Nat \ {0}, NEW s \in Nat \ {0}, NEW window \in Nat, s + p <= window
    PROVE  LET k         == (s + p - 1) \div p
               completes == CHOOSE t \in 1..2 * window : t >= s /\ t % p = 0 /\ t - p < s
           IN /\ k \in Nat \ {0} /\ p * k \in Nat /\ p * k < window
              /\ completes = p * k
<1> DEFINE k         == (s + p - 1) \div p
           completes == CHOOSE t \in 1..2 * window : t >= s /\ t % p = 0 /\ t - p < s
<1>1. s + p - 1 \in Nat
  OBVIOUS
<1>2. k \in Nat /\ p * k <= s + p - 1 /\ s + p - 1 < p * k + p
  BY <1>1, Quotient
<1>3. k >= 1
  BY <1>1, QuotientAtLeast
<1> HIDE DEF k
<1>4. p * k \in Nat /\ (p * k) % p = 0
  BY <1>2, QuotientOfMultiple
<1>5. p * k >= s /\ p * k - p < s /\ p * k < window /\ p * k \in 1..2 * window
  BY <1>2, <1>4
<1>6. ASSUME NEW t \in 1..2 * window, t >= s, t % p = 0, t - p < s
      PROVE  t = p * k
  <2> DEFINE j == t \div p
  <2>1. j \in Nat /\ t = p * j
    BY <1>6, Divisible, Quotient
  <2> HIDE DEF j
  <2>2. p * j <= s + p - 1 /\ s + p - 1 < p * j + p
    BY <1>6, <2>1
  <2>3. p * j \in Nat
    BY <2>1
  <2>4. (s + p - 1) \div p >= j
    BY <1>1, <2>1, <2>2, QuotientAtLeast
  <2>5. ~((s + p - 1) \div p >= j + 1)
    <3>1. p * (j + 1) = p * j + p
      BY <2>1
    <3> QED
      BY <1>1, <2>1, <2>2, <2>3, <3>1, QuotientAtLeast
  <2>6. k = j
    BY <1>2, <2>1, <2>4, <2>5 DEF k
  <2> QED
    BY <2>1, <2>6
<1>7. completes = p * k
  BY <1>4, <1>5, <1>6
<1> QED
  BY <1>2, <1>3, <1>4, <1>5, <1>7 DEF k

\* What a threshold below the rounded quotient lets pass.
LEMMA RoundedUp ==
    ASSUME NEW p \in Nat \ {0}, NEW s \in Nat \ {0}
    PROVE  (s + p - 1) \div p - 1 = (s - 1) \div p
<1> DEFINE q == (s - 1) \div p
           k == (s + p - 1) \div p
<1>1. s - 1 \in Nat /\ s + p - 1 \in Nat
  OBVIOUS
<1>2. q \in Nat /\ p * q <= s - 1 /\ s - 1 < p * q + p /\ p * q \in Nat
  BY <1>1, Quotient
<1>3. k \in Nat
  BY <1>1, Quotient
<1> HIDE DEF q
<1>4. p * (q + 1) = p * q + p /\ p * (q + 2) = p * q + p + p
  BY <1>2
<1>5. k >= q + 1
  BY <1>1, <1>2, <1>4, QuotientAtLeast
<1>6. ~(k >= q + 2)
  BY <1>1, <1>2, <1>4, QuotientAtLeast
<1> HIDE DEF k
<1>7. k - 1 = q
  BY <1>2, <1>3, <1>5, <1>6
<1> QED
  BY <1>7 DEF k, q

LEMMA NoQuotient ==
    ASSUME NEW gap \in Nat \ {0}, NEW t \in Nat, t < gap
    PROVE  t \div gap = 0
<1>1. t \div gap \in Nat /\ ~(t \div gap >= 1)
  BY Quotient, QuotientAtLeast
<1> QED
  BY <1>1

\* No window holds more occurrences than there are.
LEMMA FewInWindow ==
    ASSUME NEW gap \in Nat \ {0}, NEW n \in Nat, NEW t \in Int, NEW window \in Nat
    PROVE  InWindow(window, n, gap, t) <= n
<1>1. \A u \in Int : OccurredBy(n, gap, u) \in 0..n
  BY Quotient DEF OccurredBy
<1>2. t - window \in Int
  OBVIOUS
<1> QED
  BY <1>1, <1>2 DEF InWindow

\* A window that began before the first occurrence and ends after the last holds all.
LEMMA AllInWindow ==
    ASSUME NEW gap \in Nat \ {0}, NEW n \in Nat, NEW t \in Nat, NEW window \in Nat,
           t >= n * gap, t - window < gap
    PROVE  InWindow(window, n, gap, t) = n
<1>1. t \div gap \in Nat /\ t \div gap >= n
  <2>1. gap * n = n * gap
    OBVIOUS
  <2> QED
    BY <2>1, Quotient, QuotientAtLeast
<1>2. OccurredBy(n, gap, t) = n
  BY <1>1 DEF OccurredBy
<1>3. OccurredBy(n, gap, t - window) = 0
  <2>1. CASE t - window < 0
    BY <2>1 DEF OccurredBy
  <2>2. CASE t - window >= 0
    <3>1. t - window \in Nat
      BY <2>2
    <3>2. (t - window) \div gap = 0
      BY <3>1, NoQuotient
    <3> QED
      BY <3>1, <3>2 DEF OccurredBy
  <2> QED
    BY <2>1, <2>2
<1> QED
  BY <1>2, <1>3 DEF InWindow

\* Of what occurs without end, a window that holds k occurrences does so from the k-th on.
LEMMA WindowFills ==
    ASSUME NEW gap \in Nat \ {0}, NEW k \in Nat \ {0}, NEW window \in Nat, gap * k <= window,
           NEW t \in Int, NEW n \in Int, n >= t
    PROVE  InWindow(window, n, gap, t) > k - 1 <=> t >= gap * k
<1>1. gap * k \in Nat
  OBVIOUS
<1>2. ASSUME NEW u \in Int, u <= t
      PROVE  OccurredBy(n, gap, u) = IF u < 0 THEN 0 ELSE u \div gap
  <2>1. CASE u < 0
    BY <2>1 DEF OccurredBy
  <2>2. CASE u >= 0
    <3> DEFINE q == u \div gap
    <3>1. u \in Nat /\ q \in Nat /\ gap * q <= u
      BY <2>2, Quotient
    <3> HIDE DEF q
    <3>2. gap - 1 \in Nat /\ (gap - 1) * q \in Nat /\ gap * q = q + (gap - 1) * q
      BY <3>1
    <3>3. ~(n < q)
      BY <1>2, <3>1, <3>2
    <3> QED
      BY <2>2, <3>3 DEF OccurredBy, q
  <2> QED
    BY <2>1, <2>2
<1>3. t - window \in Int /\ t - window <= t
  OBVIOUS
<1>4. CASE t < 0
  <2>1. t - window < 0
    BY <1>4
  <2>2. InWindow(window, n, gap, t) = 0
    BY <1>2, <1>3, <1>4, <2>1 DEF InWindow
  <2> QED
    BY <1>1, <1>4, <2>2
<1>5. CASE t >= 0 /\ t < window
  <2>1. t \in Nat /\ t \div gap \in Nat /\ t - window < 0
    BY <1>5, Quotient
  <2>2. InWindow(window, n, gap, t) = t \div gap
    BY <1>2, <1>3, <1>5, <2>1 DEF InWindow
  <2>3. t \div gap >= k <=> t >= gap * k
    BY <2>1, QuotientAtLeast
  <2> QED
    BY <2>1, <2>2, <2>3
<1>6. CASE t >= window
  <2> DEFINE u == t - window
             q == u \div gap
  <2>1. u \in Nat /\ t \in Nat /\ t = u + window
    BY <1>6
  <2>2. q \in Nat /\ gap * q <= u /\ t \div gap \in Nat
    BY <2>1, Quotient
  <2>3. InWindow(window, n, gap, t) = t \div gap - q
    BY <1>2, <1>3, <2>1 DEF InWindow
  <2> HIDE DEF u, q
  <2>4. gap * (q + k) = gap * q + gap * k /\ q + k \in Nat /\ gap * q \in Nat
    BY <2>2
  <2>5. t \div gap >= q + k
    BY <1>1, <2>1, <2>2, <2>4, QuotientAtLeast
  <2> QED
    BY <1>1, <1>6, <2>2, <2>3, <2>5
<1> QED
  BY <1>4, <1>5, <1>6

LEMMA EvaluationsOf ==
    ASSUME NEW rule, rule.interval \in Nat \ {0}, rule.pending \in Nat
    PROVE  /\ Evaluations(rule) \in Nat /\ Evaluations(rule) * rule.interval \in Nat
           /\ Evaluations(rule) * rule.interval <= rule.pending + rule.interval - 1
<1> DEFINE n == rule.pending + rule.interval - 1
<1>1. n \in Nat
  OBVIOUS
<1>2. /\ n \div rule.interval \in Nat
      /\ rule.interval * (n \div rule.interval) <= n
  BY <1>1, Quotient
<1>3. (n \div rule.interval) * rule.interval = rule.interval * (n \div rule.interval)
  BY <1>2
<1> QED
  BY <1>1, <1>2, <1>3 DEF Evaluations

\* A rule with the threshold k - 1 pages of what occurs without end from the k-th
\* occurrence on, if its window holds as many.
LEMMA Paging ==
    ASSUME NEW rule, rule.interval \in Nat \ {0}, rule.pending \in Nat, rule.window \in Nat,
           NEW gap \in Nat \ {0}, NEW k \in Nat \ {0}, gap * k <= rule.window,
           rule.threshold = k - 1
    PROVE  PagesOnTime(rule, gap, gap * k)
<1> DEFINE e == Evaluations(rule)
           i == rule.interval
<1> SUFFICES ASSUME NEW phase \in 0..i - 1, NEW j \in 0..2 * e
             PROVE  LET tick == gap * k + phase + (j - 1) * i
                    IN FiresAt(rule, tick, gap, tick) <=> j > e
  BY DEF PagesOnTime
<1> DEFINE tick == gap * k + phase + (j - 1) * i
<1>1. e \in Nat /\ gap * k \in Nat /\ i \in Nat \ {0}
  BY EvaluationsOf
<1> HIDE DEF e, i
<1>2. j \in Nat /\ j - 1 \in Int /\ tick \in Int
  BY <1>1
<1>3. ASSUME NEW back \in 0..e
      PROVE  /\ tick - back * i = gap * k + phase + (j - 1 - back) * i
             /\ (j - 1 - back) * i \in Int
  <2>1. back \in Nat
    BY <1>1
  <2> QED
    BY <1>1, <1>2, <2>1
<1>4. ASSUME NEW back \in 0..e
      PROVE  /\ InWindow(rule.window, tick, gap, tick - back * i) > rule.threshold
                  <=> tick - back * i >= gap * k
  <2>1. back * i \in Nat
    BY <1>1
  <2>2. tick - back * i \in Int /\ tick >= tick - back * i
    BY <1>2, <2>1
  <2> DEFINE t == tick - back * i
  <2>3. t \in Int /\ tick \in Int /\ t <= tick
    BY <1>2, <2>2
  <2> HIDE DEF tick, t
  <2>4. InWindow(rule.window, tick, gap, t) > k - 1 <=> t >= gap * k
    BY <2>3, WindowFills
  <2> QED
    BY <2>4 DEF t
<1>5. FiresAt(rule, tick, gap, tick) <=> \A back \in 0..e : tick - back * i >= gap * k
  <2> HIDE DEF tick
  <2> QED
    BY <1>4 DEF FiresAt, e, i
<1>6. ASSUME j > e, NEW back \in 0..e PROVE tick - back * i >= gap * k
  <2>1. j - 1 - back \in Nat
    BY <1>1, <1>2, <1>6
  <2>2. (j - 1 - back) * i \in Nat
    BY <1>1, <2>1
  <2> HIDE DEF tick
  <2> QED
    BY <1>1, <1>3, <2>2
<1>7. ASSUME ~(j > e) PROVE ~(tick - e * i >= gap * k)
  <2> DEFINE d == e - j
  <2>1. d \in Nat /\ j - 1 - e = -(d + 1)
    BY <1>1, <1>2, <1>7
  <2> HIDE DEF d
  <2>2. (-(d + 1)) * i = -(d * i) - i /\ d * i \in Nat
    BY <1>1, <2>1
  <2>3. tick - e * i = gap * k + phase + (j - 1 - e) * i
    BY <1>1, <1>3
  <2> HIDE DEF tick
  <2> QED
    BY <1>1, <2>1, <2>2, <2>3
<1>8. e \in 0..e
  BY <1>1
<1> HIDE DEF tick
<1>9. FiresAt(rule, tick, gap, tick) <=> j > e
  BY <1>5, <1>6, <1>7, <1>8
<1> QED
  BY <1>9 DEF tick, e, i

\* The health rules of a document are those that were generated as such.
LEMMA HealthOnly ==
    ASSUME NEW config, TypedTiming(config), NEW rpcUrl,
           NEW rule \in HealthIn(ProvisioningDocument(config, rpcUrl).rules)
    PROVE  rule \in HealthRules(config, rpcUrl)
<1>1. rule \notin ActivityRules(config)
  BY DEF HealthIn, ActivityRules, GrafanaRule, TypedTiming
<1> QED
  BY <1>1 DEF HealthIn, ProvisioningDocument

\* Two rules have a threshold, each the only one of its name.
LEMMA Thresholds ==
    ASSUME NEW config, NEW rpcUrl, NEW rule \in HealthRules(config, rpcUrl)
    PROVE  \/ /\ rule.uid.rule \notin {"rpc_poll_failing", "yellowstone_stream_interrupted"}
              /\ rule.threshold = 0
           \/ /\ rule.uid.rule = "rpc_poll_failing"
              /\ rule.threshold = FailureThreshold(config) - 1 /\ rule.window = FailureWindow
           \/ /\ rule.uid.rule = "yellowstone_stream_interrupted"
              /\ rule.threshold = InterruptionThreshold /\ rule.window = InterruptionWindow
<1>1. PICK channel \in HealthChannels(config) :
          \/ rule \in RecoveryRules(channel, config.pending)
          \/ rule \in DropRules(channel, config.pending)
          \/ rule \in YellowstoneRules(channel, config.pending)
          \/ rule \in DeliveryRules(channel, config.pending)
          \/ rule \in MultisigRules(config, channel)
          \/ rule \in PollRules(config, channel)
  BY DEF HealthRules
<1>2. CASE rule \in RecoveryRules(channel, config.pending)
  BY <1>2 DEF RecoveryRules, GaugeRule, HealthRule
<1>3. CASE rule \in DropRules(channel, config.pending)
  BY <1>3 DEF DropRules, LogRule, HealthRule
<1>4. CASE rule \in YellowstoneRules(channel, config.pending)
  BY <1>4 DEF YellowstoneRules, LogRule, IncreaseRule, GaugeRule, HealthRule
<1>5. CASE rule \in DeliveryRules(channel, config.pending)
  BY <1>5 DEF DeliveryRules, IncreaseRule, HealthRule
<1>6. CASE rule \in MultisigRules(config, channel)
  BY <1>6 DEF MultisigRules, IncreaseRule, HealthRule
<1>7. CASE rule \in PollRules(config, channel)
  BY <1>7 DEF PollRules, GaugeRule, IncreaseRule, HealthRule
<1> QED
  BY <1>1, <1>2, <1>3, <1>4, <1>5, <1>6, <1>7

\* What an applied configuration has provisioned, its durations, and its rules.
LEMMA AppliedRules ==
    ASSUME IInv, Applied, ~AppliedBundle.cloud
    PROVE  LET config == AppliedBundle.config
           IN /\ TypedTiming(config)
              /\ config.pollInterval \in Nat \ {0} /\ config.sustained \in Nat \ {0}
              /\ \A rule \in HealthIn(grafana.rules) :
                     \E rpcUrl : rule \in HealthRules(config, rpcUrl)
<1> DEFINE config == AppliedBundle.config
           rpcUrl == "rpc" \in AppliedBundle.endpoints
<1>1. /\ host.applied \in Revision
      /\ grafana.rules = ProvisioningDocument(config, rpcUrl).rules
      /\ Accepts(host.applied, image, host.applied)
  BY DEF IInv, OneAtATime, DocumentFollows, GrafanaFollows, Reached, Current, CurrentBundle,
         AppliedBundle, Applied
<1>2. TypedTiming(config)
  BY <1>1, ConfigAssumption DEF TypedTiming, AppliedBundle
<1>3. config.pollInterval \in Nat \ {0} /\ config.sustained \in Nat \ {0}
  BY <1>1, AlertingAssumption DEF Accepts, Loads, ValidConfig, AppliedBundle
<1> HIDE DEF config, rpcUrl
<1>4. \A rule \in HealthIn(grafana.rules) : rule \in HealthRules(config, rpcUrl)
  BY <1>1, <1>2, HealthOnly
<1> QED
  BY <1>2, <1>3, <1>4 DEF config

\* What a rule is documented to tolerate is its threshold.
LEMMA ThresholdTolerates ==
    ASSUME NEW config, config.pollInterval \in Nat \ {0}, config.sustained \in Nat \ {0},
           NEW rpcUrl, NEW rule \in HealthRules(config, rpcUrl)
    PROVE  Tolerated(rule, config) \in Nat /\ rule.threshold = Tolerated(rule, config)
<1> DEFINE p == config.pollInterval
           s == config.sustained
<1>1. (s - 1) \div p \in Nat /\ FailureThreshold(config) - 1 = (s - 1) \div p
  <2>1. s - 1 \in Nat
    OBVIOUS
  <2>2. (s - 1) \div p \in Nat
    BY <2>1, Quotient
  <2>3. (s + p - 1) \div p - 1 = (s - 1) \div p
    BY RoundedUp
  <2> QED
    BY <2>2, <2>3 DEF FailureThreshold
<1> QED
  BY <1>1, Thresholds DEF Tolerated, InterruptionThreshold

\* One occurrence more than the threshold fires a rule at the evaluation that ends its
\* pending period, wherever the evaluations fall.
LEMMA OneMoreFires ==
    ASSUME NEW rule, rule.interval \in Nat \ {0}, rule.pending \in Nat, rule.window \in Nat,
           NEW passed \in Nat, rule.threshold = passed, NEW gap \in Nat \ {0},
           passed * gap + 2 * rule.interval <= rule.window \div 2,
           rule.pending <= rule.window \div 2, NEW phase \in 0..rule.interval - 1
    PROVE  FiresAt(rule, passed + 1, gap,
                   (passed + 1) * gap + phase + Evaluations(rule) * rule.interval)
<1> DEFINE e    == Evaluations(rule)
           i    == rule.interval
           last == (passed + 1) * gap
           tick == last + phase + e * i
<1> SUFFICES ASSUME NEW k \in 0..e
             PROVE  InWindow(rule.window, passed + 1, gap, tick - k * i) > rule.threshold
  BY DEF FiresAt
<1>1. i \in Nat \ {0} /\ e \in Nat /\ e * i \in Nat /\ e * i <= rule.pending + i - 1
  BY EvaluationsOf
<1>2. last = passed * gap + gap /\ last \in Nat /\ passed * gap \in Nat
  OBVIOUS
<1>3. 2 * (rule.window \div 2) <= rule.window /\ rule.window \div 2 \in Nat
  BY Quotient
<1>4. passed * gap + phase + e * i < rule.window
  <2> HIDE DEF e
  <2> QED
    BY <1>1, <1>2, <1>3
<1> HIDE DEF e, i, last
<1>5. k * i \in Nat /\ e * i - k * i \in Nat
  <2> DEFINE rest == e - k
  <2>1. rest \in Nat /\ k \in Nat /\ e = k + rest
    BY <1>1
  <2> HIDE DEF rest
  <2>2. e * i = k * i + rest * i /\ rest * i \in Nat /\ k * i \in Nat
    BY <1>1, <2>1
  <2> QED
    BY <2>2
<1>6. phase \in Nat
  BY <1>1 DEF i
<1>7. tick - k * i \in Nat /\ tick - k * i >= last /\ tick - k * i - rule.window < gap
  BY <1>1, <1>2, <1>4, <1>5, <1>6
<1> HIDE DEF tick
<1>8. InWindow(rule.window, passed + 1, gap, tick - k * i) = passed + 1
  BY <1>7, AllInWindow DEF last
<1> QED
  BY <1>8

\* Whatever pending period is configured, a health rule on log lines fires on one line
\* more than it tolerates and not on fewer, and one on a counter does for a period of at
\* most half of its window (alerting.rs, `loki_health_rule` and `prometheus_health_rule`).
THEOREM HealthRulesPage == Spec => []HealthRulesFire
<1>1. IInv => HealthRulesFire
  <2> SUFFICES ASSUME IInv, Applied, ~AppliedBundle.cloud,
                      NEW rule \in HealthIn(grafana.rules), NEW gap \in Gaps,
                      rule.counts # "state", NEW phase \in 0..rule.interval - 1
               PROVE  LET passed == Tolerated(rule, AppliedBundle.config)
                          Tick(n, j) == n * gap + phase + j * rule.interval
                      IN /\ \A j \in 0..Evaluations(rule) :
                                ~FiresAt(rule, passed, gap, Tick(passed, j))
                         /\ /\ passed * gap + 2 * rule.interval <= rule.window \div 2
                            /\ rule.counts = "lines" \/ rule.pending <= rule.window \div 2
                            => FiresAt(rule, passed + 1, gap,
                                       Tick(passed + 1, Evaluations(rule)))
    BY DEF HealthRulesFire
  <2> DEFINE config == AppliedBundle.config
             passed == Tolerated(rule, config)
  <2>1. /\ TypedTiming(config)
        /\ config.pollInterval \in Nat \ {0} /\ config.sustained \in Nat \ {0}
        /\ \E rpcUrl : rule \in HealthRules(config, rpcUrl)
    BY AppliedRules
  <2> HIDE DEF config
  <2>2. WellTimedHealth(rule) /\ passed \in Nat /\ rule.threshold = passed
    <3>1. PICK rpcUrl : rule \in HealthRules(config, rpcUrl)
      BY <2>1
    <3> QED
      BY <2>1, <3>1, HealthIsWellTimed, ThresholdTolerates DEF WellTimed, HealthIn
  <2>3. /\ rule.interval \in Nat \ {0} /\ rule.window \in Nat /\ rule.pending \in Nat
        /\ gap \in Nat \ {0}
    BY <2>2, AlertingAssumption, DeploymentAssumption DEF WellTimedHealth
  <2>4. Evaluations(rule) \in Nat
    BY <2>3, EvaluationsOf
  <2> HIDE DEF passed
  <2>5. ASSUME NEW j \in 0..Evaluations(rule)
        PROVE  ~FiresAt(rule, passed, gap, passed * gap + phase + j * rule.interval)
    <3> DEFINE tick == passed * gap + phase + j * rule.interval
    <3>1. j \in Nat /\ phase \in Int
      BY <2>3, <2>4
    <3>2. tick \in Int /\ tick - 0 * rule.interval = tick
      BY <2>2, <2>3, <3>1
    <3> HIDE DEF tick
    <3>3. InWindow(rule.window, passed, gap, tick) <= passed
      BY <2>2, <2>3, <3>2, FewInWindow
    <3>4. InWindow(rule.window, passed, gap, tick) \in Int
      <4>1. \A u \in Int : OccurredBy(passed, gap, u) \in Int
        BY <2>2, <2>3, Quotient DEF OccurredBy
      <4> QED
        BY <2>3, <3>2, <4>1 DEF InWindow
    <3>5. 0 \in 0..Evaluations(rule)
      BY <2>4
    <3>6. ~FiresAt(rule, passed, gap, tick)
      BY <2>2, <3>2, <3>3, <3>4, <3>5 DEF FiresAt
    <3> QED
      BY <3>6 DEF tick
  <2>6. ASSUME passed * gap + 2 * rule.interval <= rule.window \div 2,
               rule.counts = "lines" \/ rule.pending <= rule.window \div 2
        PROVE  FiresAt(rule, passed + 1, gap,
                       (passed + 1) * gap + phase + Evaluations(rule) * rule.interval)
    <3>1. rule.pending <= rule.window \div 2
      BY <2>2, <2>6 DEF WellTimedHealth
    <3> QED
      BY <2>2, <2>3, <2>6, <3>1, OneMoreFires
  <2> QED
    BY <2>5, <2>6 DEF passed, config
<1> QED
  BY <1>1, Invariance, PTL

\* Whatever interval, sustained duration and pending period an accepted configuration has,
\* its rules page of an outage and of a silent stream when the pending period that began
\* with the occurrence that completes it ends (alerting.rs, `rpc_health_rules` and
\* `yellowstone_health_rules`).
THEOREM OutagesPageOnTime == Spec => []OutagePagesOnTime
<1>1. IInv => OutagePagesOnTime
  <2> SUFFICES ASSUME IInv, Applied, ~AppliedBundle.cloud PROVE OutagePagesOnTime
    BY DEF OutagePagesOnTime
  <2> DEFINE config == AppliedBundle.config
             p == config.pollInterval
             s == config.sustained
             completes == CHOOSE t \in 1..2 * FailureWindow : t >= s /\ t % p = 0 /\ t - p < s
  <2> SUFFICES ASSUME NEW rule \in HealthIn(grafana.rules)
               PROVE  /\ rule.uid.rule = "rpc_poll_failing" /\ s + p <= FailureWindow
                         => PagesOnTime(rule, p, completes)
                      /\ rule.uid.rule = "yellowstone_stream_interrupted"
                         => PagesOnTime(rule, StreamTimeout, 6 * StreamTimeout)
    BY DEF OutagePagesOnTime
  <2>1. /\ TypedTiming(config) /\ p \in Nat \ {0} /\ s \in Nat \ {0}
        /\ \E rpcUrl : rule \in HealthRules(config, rpcUrl)
    BY AppliedRules
  <2> HIDE DEF config
  <2>2. PICK rpcUrl : rule \in HealthRules(config, rpcUrl)
    BY <2>1
  <2>3. /\ rule.interval \in Nat \ {0} /\ rule.window \in Nat /\ rule.pending \in Nat
        /\ FailureWindow \in Nat /\ StreamTimeout \in Nat \ {0}
    BY <2>1, <2>2, HealthIsWellTimed, AlertingAssumption
       DEF HealthIn, WellTimed, WellTimedHealth
  <2>4. ASSUME rule.uid.rule = "rpc_poll_failing", s + p <= FailureWindow
        PROVE  PagesOnTime(rule, p, completes)
    <3> DEFINE k == (s + p - 1) \div p
    <3>1. rule.threshold = k - 1 /\ rule.window = FailureWindow
      BY <2>2, <2>4, Thresholds DEF FailureThreshold
    <3> HIDE DEF p, s
    <3>2. k \in Nat \ {0} /\ p * k \in Nat /\ p * k < FailureWindow /\ completes = p * k
      BY <2>1, <2>3, <2>4, CompletingPoll
    <3> HIDE DEF k, completes
    <3>3. PagesOnTime(rule, p, p * k)
      BY <2>1, <2>3, <3>1, <3>2, Paging
    <3> QED
      BY <3>2, <3>3
  <2>5. ASSUME rule.uid.rule = "yellowstone_stream_interrupted"
        PROVE  PagesOnTime(rule, StreamTimeout, 6 * StreamTimeout)
    <3>1. rule.threshold = 6 - 1 /\ rule.window = InterruptionWindow
      BY <2>2, <2>5, Thresholds DEF InterruptionThreshold
    <3>2. StreamTimeout * 6 = 6 * StreamTimeout /\ StreamTimeout * 6 <= rule.window
      BY <2>3, <3>1, WindowAssumption DEF InterruptionThreshold
    <3>3. PagesOnTime(rule, StreamTimeout, StreamTimeout * 6)
      BY <2>3, <3>1, <3>2, Paging
    <3> QED
      BY <3>2, <3>3
  <2> QED
    BY <2>4, <2>5
<1> QED
  BY <1>1, Invariance, PTL

-------------------------------------------------------------------------------
(* What the queries match: for every condition that an alert can have and      *)
(* every value that a record can.                                               *)

\* Below the largest exact integer floats compare as the integers do.
LEMMA FloatsCompare ==
    ASSUME NEW a \in Nat, NEW b \in Nat, b < MaxExactInteger,
           NEW operator \in {"eq", "ne", "gt", "gte", "lt", "lte"}
    PROVE  Compare(operator, AsFloat(a), AsFloat(b)) <=> Compare(operator, a, b)
<1>1. MaxExactInteger \in Nat
  BY AlertingAssumption
<1>2. AsFloat(b) = b
  BY <1>1 DEF AsFloat
<1>3. AsFloat(a) = a \/ (AsFloat(a) > b /\ a > b /\ AsFloat(a) \in Nat)
  BY <1>1 DEF AsFloat
<1>4. CASE AsFloat(a) = a
  BY <1>2, <1>4
<1>5. CASE AsFloat(a) > b /\ a > b /\ AsFloat(a) \in Nat
  BY <1>2, <1>5 DEF Compare
<1> QED
  BY <1>3, <1>4, <1>5

LEMMA CompareDecides ==
    ASSUME NEW a \in Nat, NEW b \in Nat, NEW operator \in {"eq", "ne", "gt", "gte", "lt", "lte"}
    PROVE  Compare(operator, a, b) \in BOOLEAN
<1>1. operator = "eq" => Compare(operator, a, b) = (a = b)
  BY DEF Compare
<1>2. operator = "ne" => Compare(operator, a, b) = (a # b)
  BY DEF Compare
<1>3. operator = "gt" => Compare(operator, a, b) = (a > b)
  BY DEF Compare
<1>4. operator = "gte" => Compare(operator, a, b) = (a >= b)
  BY DEF Compare
<1>5. operator = "lt" => Compare(operator, a, b) = (a < b)
  BY DEF Compare
<1>6. operator = "lte" => Compare(operator, a, b) = (a <= b)
  BY DEF Compare
<1>7. (a > b) \in BOOLEAN /\ (a >= b) \in BOOLEAN
  OBVIOUS
<1>8. (a < b) \in BOOLEAN /\ (a <= b) \in BOOLEAN
  OBVIOUS
<1> QED
  BY <1>1, <1>2, <1>3, <1>4, <1>5, <1>6, <1>7, <1>8

\* Nothing that has a first element is part of an empty text.
LEMMA NoPartOfEmpty ==
    ASSUME NEW part \in Seq(Nat), part # <<>>
    PROVE  ~IsPart(part, <<>>)
<1> SUFFICES ASSUME NEW i \in 1..Len(<<>>) + 1, IsPrefix(part, SubSeq(<<>>, i, Len(<<>>)))
             PROVE  FALSE
  BY DEF IsPart
<1>1. Len(<<>>) = 0 /\ i = 1
  OBVIOUS
<1>2. Len(SubSeq(<<>>, 1, 0)) = 0
  OBVIOUS
<1>3. Len(part) \in Nat /\ Len(part) # 0
  BY EmptySeq
<1> QED
  BY <1>1, <1>2, <1>3 DEF IsPrefix

\* A filter keeps what the condition it is made from describes.
LEMMA FilterMeans ==
    ASSUME NEW condition \in ParsedCondition, ValidCondition(condition), NEW label \in Value,
           condition.value # Integer(MaxExactInteger)
    PROVE  Filter(condition, label) = "keep" <=> Holds(condition, label)
<1> DEFINE operator == condition.operator
           value == condition.value
<1>1. /\ value \in Value
      /\ operator \in {"exists", "contains", "eq", "ne", "gt", "gte", "lt", "lte"}
  BY DEF ParsedCondition
<1>2. /\ value.type = "integer" => value.number <= MaxExactInteger
      /\ operator = "exists" <=> value = Unset
      /\ operator = "contains" => value.type = "text" /\ value.text # <<>>
      /\ operator \in {"gt", "gte", "lt", "lte"} => value.type = "integer"
  BY DEF ValidCondition, ExactInteger
<1>3. \A v \in Value : \/ v = Unset /\ v.type = "unset"
                       \/ v.type = "integer" /\ v = Integer(v.number) /\ v.number \in Nat
                       \/ v.type = "text" /\ v = Text(v.text) /\ v.text \in Seq(Nat)
  BY DEF Value, Unset, Integer, Text
<1>4. LabelText(label) = <<>> <=> label \in {Unset, Text(<<>>)}
  <2>1. CASE label = Unset
    BY <2>1 DEF LabelText, Unset
  <2>2. CASE label.type = "integer"
    <3>1. label # Unset /\ label # Text(<<>>)
      BY <2>2 DEF Unset, Text
    <3>2. LabelText(label) = <<label.number>>
      BY <2>2, <3>1 DEF LabelText
    <3>3. <<label.number>> # <<>>
      <4>1. Len(<<label.number>>) = 1 /\ Len(<<>>) = 0
        OBVIOUS
      <4> QED
        BY <4>1
    <3> QED
      BY <3>1, <3>2, <3>3
  <2>3. CASE label.type = "text"
    BY <1>3, <2>3 DEF LabelText, Unset, Text
  <2> QED
    BY <1>3, <2>1, <2>2, <2>3
<1>5. \A keeps \in BOOLEAN : Verdict(keeps) = "keep" <=> keeps
  BY DEF Verdict
<1>6. CASE value.type = "integer"
  <2>1. /\ operator \in {"eq", "ne", "gt", "gte", "lt", "lte"}
        /\ value.number \in Nat /\ value.number < MaxExactInteger
    <3>1. value # Unset /\ operator # "exists" /\ operator # "contains"
      BY <1>2, <1>6 DEF Unset
    <3>2. value.number \in Nat /\ value = Integer(value.number)
      BY <1>1, <1>3, <1>6, <3>1 
    <3> QED
      BY <1>1, <1>2, <1>6, <3>1, <3>2, AlertingAssumption
  <2>2. CASE label.type = "integer"
    <3>1. label.number \in Nat
      BY <1>3, <2>2 DEF Unset
    <3>2. Compare(operator, AsFloat(label.number), AsFloat(value.number))
            <=> Compare(operator, label.number, value.number)
      BY <2>1, <3>1, FloatsCompare
    <3>3. Filter(condition, label)
            = Verdict(Compare(operator, AsFloat(label.number), AsFloat(value.number)))
      BY <1>6, <2>2 DEF Filter
    <3>4. Compare(operator, label.number, value.number) \in BOOLEAN
      BY <2>1, <3>1, CompareDecides
    <3>5. Holds(condition, label) <=> Compare(operator, label.number, value.number)
      BY <1>6, <2>1, <2>2, <3>4 DEF Holds
    <3> QED
      BY <3>2, <3>3, <3>5 DEF Verdict
  <2>3. CASE label.type # "integer"
    <3>1. ~Holds(condition, label)
      BY <1>6, <2>1, <2>3 DEF Holds
    <3> QED
      BY <1>6, <2>3, <3>1 DEF Filter
  <2> QED
    BY <2>2, <2>3
<1>7. CASE value.type # "integer"
  <2>1. operator \in {"exists", "contains", "eq", "ne"}
    BY <1>1, <1>2, <1>7
  <2>2. CASE operator = "exists"
    BY <1>4, <1>7, <2>2 DEF Filter, Holds, Verdict
  <2>3. CASE operator = "contains"
    <3>1. value.text \in Seq(Nat) /\ value.text # <<>>
      BY <1>1, <1>2, <1>3, <2>3 DEF Unset
    <3>2. label = Unset => ~IsPart(value.text, LabelText(label))
      <4>1. label = Unset => LabelText(label) = <<>>
        BY DEF LabelText, Unset
      <4>2. ~IsPart(value.text, <<>>)
        BY <3>1, NoPartOfEmpty
      <4> QED
        BY <4>1, <4>2
    <3>3. Filter(condition, label) = Verdict(IsPart(value.text, LabelText(label)))
      BY <1>7, <2>3 DEF Filter
    <3>4. Holds(condition, label) <=> label # Unset /\ IsPart(value.text, LabelText(label))
      <4>1. IsPart(value.text, LabelText(label)) \in BOOLEAN
        BY DEF IsPart
      <4> QED
        BY <1>2, <2>3, <4>1 DEF Holds
    <3> QED
      BY <3>2, <3>3, <3>4 DEF Verdict
  <2>4. CASE operator = "ne"
    BY <1>4, <1>7, <2>4 DEF Filter, Holds, Verdict
  <2>5. CASE operator = "eq"
    BY <1>7, <2>5 DEF Filter, Holds, Verdict
  <2> QED
    BY <2>1, <2>2, <2>3, <2>4, <2>5
<1> QED
  BY <1>6, <1>7

\* The query of an alert counts the records it describes.
LEMMA QueryMeans ==
    ASSUME NEW alert, alert.conditions \in Seq(ParsedCondition),
           \A i \in DOMAIN alert.conditions : ValidCondition(alert.conditions[i]),
           \A i \in DOMAIN alert.conditions :
               alert.conditions[i].value # Integer(MaxExactInteger),
           NEW record,
           \A i \in DOMAIN alert.conditions : record.fields[alert.conditions[i].field] \in Value
    PROVE  Counts(Query(alert), record) <=> Means(alert, record)
<1> DEFINE conditions == alert.conditions
           Met(i)  == Holds(conditions[i], record.fields[conditions[i].field])
           Kept(i) == Filter(conditions[i], record.fields[conditions[i].field]) = "keep"
<1>1. /\ DOMAIN conditions = 1..Len(conditions) /\ Len(conditions) \in Nat
      /\ conditions # <<>> <=> Len(conditions) # 0
  BY EmptySeq
<1>2. \A i \in DOMAIN conditions : Kept(i) <=> Met(i)
  <2> SUFFICES ASSUME NEW i \in DOMAIN conditions PROVE Kept(i) <=> Met(i)
    OBVIOUS
  <2>1. conditions[i] \in ParsedCondition
    BY <1>1
  <2> QED
    BY <2>1, FilterMeans
<1>3. (\E branch \in Branches(alert) : CountedBy(branch, record))
        <=> IF alert.match = "any" /\ conditions # <<>>
            THEN \E i \in DOMAIN conditions : Kept(i)
            ELSE \A i \in DOMAIN conditions : Kept(i)
  <2>1. CASE alert.match = "any" /\ Len(conditions) > 1
    <3>1. ASSUME NEW i \in DOMAIN conditions
          PROVE  CountedBy([join |-> "and", filters |-> <<conditions[i]>>], record) <=> Kept(i)
      BY DEF CountedBy
    <3>2. Branches(alert) = {[join |-> "and", filters |-> <<conditions[i]>>] :
                                i \in DOMAIN conditions}
      BY <2>1 DEF Branches
    <3>3. conditions # <<>>
      BY <1>1, <2>1
    <3> HIDE DEF Kept
    <3> QED
      BY <2>1, <3>1, <3>2, <3>3
  <2>2. CASE ~(alert.match = "any" /\ Len(conditions) > 1)
    <3>1. Branches(alert) = {[join |-> "and", filters |-> conditions]}
      BY <2>2 DEF Branches
    <3>2. CountedBy([join |-> "and", filters |-> conditions], record)
            <=> \A i \in DOMAIN conditions : Kept(i)
      BY DEF CountedBy
    <3>3. CASE alert.match = "any" /\ conditions # <<>>
      <4>1. Len(conditions) = 1
        <5>1. Len(conditions) \in Nat /\ Len(conditions) # 0
          BY <1>1, <3>3
        <5>2. ~(Len(conditions) > 1)
          BY <2>2, <3>3
        <5>3. \A n \in Nat : n # 0 /\ ~(n > 1) => n = 1
          OBVIOUS
        <5> HIDE DEF conditions
        <5> QED
          BY <5>1, <5>2, <5>3
      <4>2. DOMAIN conditions = {1}
        BY <1>1, <4>1
      <4> HIDE DEF Kept
      <4> QED
        BY <3>1, <3>2, <3>3, <4>2
    <3> HIDE DEF Kept
    <3> QED
      BY <3>1, <3>2, <3>3
  <2> QED
    BY <2>1, <2>2
<1>4. Means(alert, record) <=>
        /\ record.kind = alert.kind /\ record.name = alert.name
        /\ alert.kind = "multisig" => ~record.failed
        /\ IF alert.match = "any" /\ conditions # <<>>
           THEN \E i \in DOMAIN conditions : Met(i)
           ELSE \A i \in DOMAIN conditions : Met(i)
  BY DEF Means
<1>5. Counts(Query(alert), record) <=>
        /\ record.kind = alert.kind /\ record.name = alert.name
        /\ alert.kind = "multisig" => ~record.failed
        /\ \E branch \in Branches(alert) : CountedBy(branch, record)
  BY DEF Counts, Query
<1> HIDE DEF Kept, Met
<1> QED
  BY <1>2, <1>3, <1>4, <1>5
\* Whatever conditions the alerts of accepted configurations have, their rules count the
\* records they describe and no other (alerting.rs, `logql_query`; README.md, Alerts).
THEOREM QueriesMeanConditions == Spec => []QueryMeansConditions
<1>1. AllGenerated => QueryMeansConditions
  <2> SUFFICES ASSUME AllGenerated, NEW rule \in ActivityIn(grafana.rules),
                      \A i \in DOMAIN rule.uid.conditions :
                          rule.uid.conditions[i].value # Integer(MaxExactInteger),
                      NEW record \in Samples
               PROVE  Counts(rule.query, record) <=> Means(rule.uid, record)
    BY DEF QueryMeansConditions
  <2>1. PICK r \in Revision, rpcUrl \in BOOLEAN : \E idl :
            /\ ValidConfig(Bundle[r].config, idl)
            /\ rule \in ProvisioningDocument(Bundle[r].config, rpcUrl).rules
    BY DEF AllGenerated, Generated, ActivityIn
  <2> DEFINE config == Bundle[r].config
  <2>2. PICK idl : ValidConfig(config, idl) /\ rule \in ProvisioningDocument(config, rpcUrl).rules
    BY <2>1
  <2>3. rule \notin HealthRules(config, rpcUrl)
    BY DEF ActivityIn, HealthRules, RecoveryRules, DropRules, YellowstoneRules, DeliveryRules,
           MultisigRules, PollRules, LogRule, IncreaseRule, GaugeRule, HealthRule
  <2>4. PICK alert \in config.alerts : \E channel : rule = GrafanaRule(config, alert, channel)
    BY <2>2, <2>3 DEF ProvisioningDocument, ActivityRules
  <2>5. PICK channel : rule = GrafanaRule(config, alert, channel)
    BY <2>4
  <2>6. rule.query = Query(alert) /\ rule.uid = RuleUid(config, alert, channel)
    BY <2>5 DEF GrafanaRule
  <2>7. \A i \in DOMAIN alert.conditions : ValidCondition(alert.conditions[i])
    BY <2>2 DEF ValidConfig, ValidAlert
  <2>8. alert.conditions \in Seq(ParsedCondition)
    BY ConfigAssumption
  <2>9. \A i \in DOMAIN alert.conditions : record.fields[alert.conditions[i].field] \in Value
    BY SamplesAssumption
  <2>10. \A i \in DOMAIN alert.conditions : alert.conditions[i].value # Integer(MaxExactInteger)
    BY <2>6 DEF RuleUid
  <2>11. Means(rule.uid, record) <=> Means(alert, record)
    BY <2>6 DEF RuleUid, Means
  <2>12. Counts(Query(alert), record) <=> Means(alert, record)
    BY <2>7, <2>8, <2>9, <2>10, QueryMeans
  <2> QED
    BY <2>6, <2>11, <2>12
<1> QED
  BY <1>1, AlwaysGenerated, PTL
===============================================================================

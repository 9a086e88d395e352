------------------------------ MODULE Deployment ------------------------------
(***************************************************************************)
(* A host that reconciles itself with the deployment its manifest          *)
(* declares: the reconciler that a timer starts, one step for each command *)
(* that changes something, the checkout, the image and the records it      *)
(* keeps, the indexer container that starts from them, and Grafana with    *)
(* the documents it is provisioned from.  The reconciler can be stopped    *)
(* between any two commands, by a failure or a reboot, and containers can  *)
(* die.                                                                    *)
(*                                                                         *)
(* What a revision declares is its bundle: the repository's url, a ref (a  *)
(* set of the one commit, or empty to follow the branch), the IDL, the     *)
(* configuration, whether the stack is Grafana Cloud's, the endpoints and  *)
(* the secrets in the environment.  Prometheus, Loki and Alloy keep no     *)
(* state that depends on a revision and are left out.                      *)
(***************************************************************************)
EXTENDS Alerting, Dashboard, Records

CONSTANTS
    Bundle,            \* what each revision declares
    First,             \* the revision that is published first
    Urls,              \* the repositories
    PublishLimit,      \* how often a manifest is published
    MoveLimit,         \* how often the branch moves
    StopLimit,         \* how often the reconciler is stopped
    DeathLimit,        \* how often a container dies
    Samples,           \* records that queries are evaluated on
    Gaps,              \* the times between what health rules count
    None

Revision == DOMAIN Bundle

\* The commits of a repository, as the branch gets them.
Commit == 1..MoveLimit + 1

\* A ref is one commit, which the repository may not have yet.  Terraform refuses a
\* deployment without the endpoint its mode needs.
ASSUME DeploymentAssumption ==
    /\ First \in Revision
    /\ {PublishLimit, MoveLimit, StopLimit, DeathLimit} \subseteq Nat
    /\ Gaps \subseteq Nat \ {0}
    /\ \A r \in Revision :
           /\ Bundle[r].url \in Urls
           /\ Bundle[r].ref \subseteq Commit
           /\ \A commit, other \in Bundle[r].ref : commit = other
           /\ (IF Bundle[r].config.mode = "rpc" THEN "rpc" ELSE "geyser") \in Bundle[r].endpoints

\* The types of a parsed configuration.
ASSUME ConfigAssumption ==
    \A r \in Revision :
        LET config == Bundle[r].config
        IN /\ {config.lookback, config.interval, config.pending, config.unmatchedWindow} \subseteq Nat
           /\ \A alert \in config.alerts :
                  /\ alert.kind \in {"instruction", "event", "multisig"}
                  /\ alert.lookback \subseteq Nat /\ alert.interval \subseteq Nat
                  /\ alert.conditions \in Seq(ParsedCondition)

\* The records have the fields that the alerts name, or have them unset.
ASSUME SamplesAssumption ==
    \A r \in Revision : \A alert \in Bundle[r].config.alerts :
        \A i \in DOMAIN alert.conditions, record \in Samples :
            record.fields[alert.conditions[i].field] \in Value

\* The working tree of a checkout or a removal that was stopped; no commit.
Torn == 0

VARIABLES
    manifest,      \* the revision that is published
    upstream,      \* the commit of the branch of each repository
    host,          \* [applied, inputs, config, env]: the two marker files, and the
                   \* revisions whose microscope.toml, and IDL and .env, are installed
    repository,    \* [git, url, head, tree, locked]: the checkout and what .git is like,
                   \* with the lock that a checkout takes
    image,         \* [commit, idl, program]: what the image was built from
    run,           \* [pc, revision, commit, fresh]: the reconciliation that runs
    indexer,       \* [phase, image, env, config]: the container
    document,      \* the alerting document in Grafana's volume
    dashboard,     \* the dashboard in Grafana's volume
    grafana,       \* [up, rules, contacts]: the container, and what its database holds
    cutOff,        \* history: the image was built and that was not recorded
    count          \* [published, moves, stops, deaths] so far

vars == <<run, indexer, count, manifest, upstream, host, repository, image, cutOff, dashboard,
          document, grafana>>

-------------------------------------------------------------------------------
(* What the image accepts. *)

PollsRpcWith(r, env) == PollsRpc(Bundle[r].config, "rpc" \in Bundle[env].endpoints)

\* `load_config` with `verify_decoder_target`.  Only the configuration is mounted:
\* the IDL is that in the image, which its decoder was generated from.
Loads(r, built) ==
    /\ r # None
    /\ ValidConfig(Bundle[r].config, built.idl)
    /\ Bundle[r].config.program = built.program

\* `verify_configured_multisig`.
VerifiedMultisig(r) ==
    Bundle[r].config.multisig # Unset => Verified(Bundle[r].config.multisig)

\* The rest of `main`: the endpoint of the mode is set.
HasEndpoint(r, env) ==
    (IF Bundle[r].config.mode = "rpc" THEN "rpc" ELSE "geyser") \in Bundle[env].endpoints

Starts(r, built, env) == Loads(r, built) /\ VerifiedMultisig(r) /\ HasEndpoint(r, env)

\* Mutant: alerting is generated without verifying the multisig.
AcceptsUnverified(r, built, env) ==
    Loads(r, built) /\ HasCredentials(Bundle[r].config, Bundle[env].secrets)

\* `generate-alerting` succeeds.
Accepts(r, built, env) ==
    /\ Loads(r, built) /\ VerifiedMultisig(r)
    /\ HasCredentials(Bundle[r].config, Bundle[env].secrets)

-------------------------------------------------------------------------------
(* The reconciler. *)

Idle == [pc |-> "idle", revision |-> None, commit |-> None, fresh |-> FALSE]
At(pc) == run.pc = pc
GoTo(pc) == run' = [run EXCEPT !.pc = pc]
Declared == Bundle[run.revision]

\* No directory, one without .git, and one whose .git does not say what it is a clone of.
NoRepository == [git |-> "absent", url |-> None, head |-> None, tree |-> None, locked |-> FALSE]
Debris       == [NoRepository EXCEPT !.git = "debris"]
Unreadable   == [NoRepository EXCEPT !.git = "damaged"]

NoImage == [commit |-> None, idl |-> None, program |-> None]

Init ==
    /\ manifest = First
    /\ upstream = [url \in Urls |-> 1]
    /\ host = [applied |-> None, inputs |-> NoImage, config |-> None, env |-> None]
    /\ repository = NoRepository /\ image = NoImage
    /\ run = Idle
    /\ indexer = [phase |-> "none", image |-> NoImage, env |-> None, config |-> None]
    /\ document = NoDocument /\ dashboard = {}
    /\ grafana = [up |-> FALSE, rules |-> {}, contacts |-> {}]
    /\ cutOff = FALSE
    /\ count = [published |-> 0, moves |-> 0, stops |-> 0, deaths |-> 0]

\* Mutant: a revision is reconciled only where none is applied.
NeverApplied(r) == host.applied = None

NeedsReconcile(r) == host.applied # r

\* Mutant: the marker of the last revision stays until the next one is applied.
KeepMarker(files) == files

\* Nothing is applied while a reconciliation changes the host.
ClearMarker(files) == [files EXCEPT !.applied = None]

\* The timer fires and the manifest is not the applied revision.
Reconcile ==
    /\ At("idle") /\ NeedsReconcile(manifest)
    /\ run' = [Idle EXCEPT !.pc = "fetch", !.revision = manifest]
    /\ host' = ClearMarker(host)
    /\ UNCHANGED <<manifest, upstream, repository, image, indexer, document, dashboard,
                   grafana, cutOff, count>>

IsCheckout == repository.git \in {"whole", "damaged"}

\* The checkout of another repository is discarded, with the files installed in it: `rm`
\* removes them one by one, in any order.
StartDiscard ==
    /\ At("fetch") /\ IsCheckout /\ repository.url # Declared.url
    /\ repository' = [repository EXCEPT !.tree = IF @ = None THEN None ELSE Torn]
    /\ GoTo("discard")
    /\ UNCHANGED <<manifest, upstream, host, image, indexer, document, dashboard, grafana,
                   cutOff, count>>

WithoutFiles(files) == [files EXCEPT !.config = None, !.env = None]

FinishDiscard ==
    /\ At("discard")
    /\ repository' = NoRepository
    /\ host' = WithoutFiles(host)
    /\ GoTo("fetch")
    /\ UNCHANGED <<manifest, upstream, image, indexer, document, dashboard, grafana, cutOff,
                   count>>

Resolved(bundle) == UnwrapOr(bundle.ref, upstream[bundle.url])
Resolves(bundle) == Resolved(bundle) <= upstream[bundle.url]

Cloned == [NoRepository EXCEPT !.git = "whole", !.url = Declared.url,
                               !.head = upstream[Declared.url]]

\* `git clone --no-checkout` or `git fetch`, after which the ref is resolved, or the run
\* ends.
Fetch ==
    /\ At("fetch")
    /\ repository.git = "absent" \/ (IsCheckout /\ repository.url = Declared.url)
    /\ repository' = IF IsCheckout THEN repository ELSE Cloned
    /\ run' = IF Resolves(Declared)
              THEN [run EXCEPT !.pc = "checkout", !.commit = Resolved(Declared),
                               !.fresh = ~IsCheckout]
              ELSE Idle
    /\ UNCHANGED <<manifest, upstream, host, image, indexer, document, dashboard, grafana,
                   cutOff, count>>

NeedsCheckout == run.fresh \/ repository.head # run.commit

\* `git checkout` takes the lock of the index, writes the working tree, then moves HEAD.
StartCheckout ==
    /\ At("checkout") /\ NeedsCheckout /\ ~repository.locked
    /\ repository' = [repository EXCEPT !.tree = Torn]
    /\ GoTo("move")
    /\ UNCHANGED <<manifest, upstream, host, image, indexer, document, dashboard, grafana,
                   cutOff, count>>

FinishCheckout ==
    /\ At("move")
    /\ repository' = [repository EXCEPT !.head = run.commit, !.tree = run.commit]
    /\ GoTo("config")
    /\ UNCHANGED <<manifest, upstream, host, image, indexer, document, dashboard, grafana,
                   cutOff, count>>

SkipCheckout ==
    /\ At("checkout") /\ ~NeedsCheckout
    /\ GoTo("config")
    /\ UNCHANGED <<manifest, upstream, host, repository, image, indexer, document, dashboard,
                   grafana, cutOff, count>>

\* microscope.toml is installed, then the IDL and the environment.
InstallConfig ==
    /\ At("config")
    /\ host' = [host EXCEPT !.config = run.revision]
    /\ GoTo("env")
    /\ UNCHANGED <<manifest, upstream, repository, image, indexer, document, dashboard,
                   grafana, cutOff, count>>

InstallEnv ==
    /\ At("env")
    /\ host' = [host EXCEPT !.env = run.revision]
    /\ GoTo("compose")
    /\ UNCHANGED <<manifest, upstream, repository, image, indexer, document, dashboard,
                   grafana, cutOff, count>>

\* `docker compose config` finds the files of the checkout, of a torn one perhaps.
CheckCompose ==
    /\ At("compose") /\ repository.tree # None
    /\ GoTo("build")
    /\ UNCHANGED <<manifest, upstream, host, repository, image, indexer, document, dashboard,
                   grafana, cutOff, count>>

BuildInputs == [commit |-> run.commit, idl |-> Declared.idl, program |-> Declared.config.program]

NeedsBuild == host.inputs # BuildInputs \/ image = NoImage

\* The image is built from what is in the checkout.
Build ==
    /\ At("build") /\ NeedsBuild
    /\ image' = [commit |-> repository.tree, idl |-> Bundle[host.env].idl,
                 program |-> Bundle[host.config].config.program]
    /\ GoTo("record")
    /\ UNCHANGED <<manifest, upstream, host, repository, indexer, document, dashboard, grafana,
                   cutOff, count>>

SkipBuild ==
    /\ At("build") /\ ~NeedsBuild
    /\ GoTo("stack")
    /\ UNCHANGED <<manifest, upstream, host, repository, image, indexer, document, dashboard,
                   grafana, cutOff, count>>

RecordInputs ==
    /\ At("record")
    /\ host' = [host EXCEPT !.inputs = BuildInputs]
    /\ cutOff' = FALSE
    /\ GoTo("stack")
    /\ UNCHANGED <<manifest, upstream, repository, image, indexer, document, dashboard,
                   grafana, count>>

\* `alerting::generate` in the alerting-config container.
GenerateAlerting ==
    /\ At("stack") /\ ~Declared.cloud /\ Accepts(host.config, image, host.env)
    /\ document' = Generate(Bundle[host.config].config, "rpc" \in Bundle[host.env].endpoints,
                            document)
    /\ GoTo("dashboard")
    /\ UNCHANGED <<manifest, upstream, host, repository, image, indexer, dashboard, grafana,
                   cutOff, count>>

\* `dashboard::generate`; the event panel is compiled in if the decoder has events.
GenerateDashboard ==
    /\ At("dashboard")
    /\ dashboard' = OverviewDocument(Bundle[host.config].config.multisig # Unset,
                                     PollsRpcWith(host.config, host.env),
                                     image.idl.event # {})
    /\ GoTo("indexer")
    /\ UNCHANGED <<manifest, upstream, host, repository, image, indexer, document, grafana,
                   cutOff, count>>

\* With Grafana Cloud the local containers are removed; their volumes stay.
RemoveLocalStack ==
    /\ At("stack") /\ Declared.cloud
    /\ grafana' = [grafana EXCEPT !.up = FALSE]
    /\ GoTo("indexer")
    /\ UNCHANGED <<manifest, upstream, host, repository, image, indexer, document, dashboard,
                   cutOff, count>>

RecreateIndexer ==
    /\ At("indexer")
    /\ indexer' = [phase |-> "starting", image |-> image, env |-> host.env, config |-> None]
    /\ GoTo(IF Declared.cloud THEN "probe" ELSE "grafana")
    /\ UNCHANGED <<manifest, upstream, host, repository, image, document, dashboard, grafana,
                   cutOff, count>>

\* Grafana, external: when it starts it writes the rules of its document over those
\* it has, and removes those the document deletes.
Provisioned ==
    LET replaced == document.deleteRules \union Uids(document.rules)
    IN [up |-> TRUE,
        rules |-> {rule \in grafana.rules : rule.uid \notin replaced} \union document.rules,
        contacts |-> (grafana.contacts \ document.deleteContacts) \union document.contacts]

RecreateGrafana ==
    /\ At("grafana")
    /\ grafana' = Provisioned
    /\ GoTo("probe")
    /\ UNCHANGED <<manifest, upstream, host, repository, image, indexer, document, dashboard,
                   cutOff, count>>

\* Metrics are served before the multisig is verified, so the probe can pass while
\* the indexer is about to fail.
Probe ==
    /\ At("probe") /\ indexer.phase \in {"serving", "started"}
    /\ Declared.cloud \/ grafana.up
    /\ GoTo("mark")
    /\ UNCHANGED <<manifest, upstream, host, repository, image, indexer, document, dashboard,
                   grafana, cutOff, count>>

MarkApplied ==
    /\ At("mark")
    /\ host' = [host EXCEPT !.applied = run.revision]
    /\ run' = Idle
    /\ UNCHANGED <<manifest, upstream, repository, image, indexer, document, dashboard,
                   grafana, cutOff, count>>

\* A command that fails ends the run: on a directory that is no repository, on what was
\* left in .git, on a tree without all its files, on a configuration that alerting-config
\* refuses, on an indexer that does not come up.
Fails ==
    /\ \/ At("fetch") /\ repository.git = "debris"
       \/ At("fetch") /\ repository.git = "damaged" /\ repository.url = Declared.url
       \/ At("checkout") /\ NeedsCheckout /\ repository.locked
       \/ At("compose") /\ repository.tree \in {None, Torn}
       \/ At("build") /\ NeedsBuild /\ repository.tree = Torn
       \/ At("stack") /\ repository.tree = Torn
       \/ At("stack") /\ ~Declared.cloud /\ ~Accepts(host.config, image, host.env)
       \/ At("probe") /\ ~Starts(host.config, indexer.image, indexer.env)
    /\ run' = Idle
    /\ UNCHANGED <<manifest, upstream, host, repository, image, indexer, document, dashboard,
                   grafana, cutOff, count>>

\* What a command leaves of the checkout that is killed: part of a clone, the lock of a
\* ref or of the index, or what was not yet removed.
Remains ==
    {repository} \union
    CASE At("fetch") /\ repository.git = "absent" ->
             {Debris, Unreadable, [Cloned EXCEPT !.head = None]}
      [] At("fetch") /\ IsCheckout /\ repository.url = Declared.url ->
             {[repository EXCEPT !.git = "damaged"]}
      [] At("discard") -> {Debris, Unreadable, [repository EXCEPT !.git = "damaged"]}
      [] At("move")    -> {[repository EXCEPT !.locked = TRUE]}
      [] OTHER         -> {}

\* A command fails for another reason, or the host reboots.
Stop ==
    /\ ~At("idle") /\ count.stops < StopLimit
    /\ run' = Idle
    /\ repository' \in Remains
    /\ host' \in {host} \union (IF At("discard") THEN {WithoutFiles(host)} ELSE {})
    /\ cutOff' = (cutOff \/ At("record"))
    /\ count' = [count EXCEPT !.stops = @ + 1]
    /\ UNCHANGED <<manifest, upstream, image, indexer, document, dashboard, grafana>>

-------------------------------------------------------------------------------
(* The containers. *)

\* The indexer reads the configuration that is mounted now, and serves metrics.
IndexerLoads ==
    /\ indexer.phase = "starting"
    /\ indexer' = IF Loads(host.config, indexer.image)
                  THEN [indexer EXCEPT !.phase = "serving", !.config = host.config]
                  ELSE [indexer EXCEPT !.phase = "down"]
    /\ UNCHANGED <<manifest, upstream, host, repository, image, run, document, dashboard,
                   grafana, cutOff, count>>

\* It verifies the multisig and builds the pipeline, up to `mark_started`.
IndexerStarts ==
    /\ indexer.phase = "serving"
    /\ indexer' = IF VerifiedMultisig(indexer.config) /\ HasEndpoint(indexer.config, indexer.env)
                  THEN [indexer EXCEPT !.phase = "started"]
                  ELSE [indexer EXCEPT !.phase = "down", !.config = None]
    /\ UNCHANGED <<manifest, upstream, host, repository, image, run, document, dashboard,
                   grafana, cutOff, count>>

\* `restart: unless-stopped`: the same image and environment.
IndexerRestarts ==
    /\ indexer.phase = "down"
    /\ indexer' = [indexer EXCEPT !.phase = "starting"]
    /\ UNCHANGED <<manifest, upstream, host, repository, image, run, document, dashboard,
                   grafana, cutOff, count>>

IndexerDies ==
    /\ indexer.phase = "started" /\ count.deaths < DeathLimit
    /\ indexer' = [indexer EXCEPT !.phase = "down", !.config = None]
    /\ count' = [count EXCEPT !.deaths = @ + 1]
    /\ UNCHANGED <<manifest, upstream, host, repository, image, run, document, dashboard,
                   grafana, cutOff>>

\* Grafana dies and is started again, whatever document is there by then.
GrafanaRestarts ==
    /\ grafana.up /\ count.deaths < DeathLimit
    /\ grafana' = Provisioned
    /\ count' = [count EXCEPT !.deaths = @ + 1]
    /\ UNCHANGED <<manifest, upstream, host, repository, image, run, indexer, document,
                   dashboard, cutOff>>

-------------------------------------------------------------------------------
(* The environment. *)

\* `terraform apply` publishes another revision, or an earlier one again.
Publish ==
    /\ count.published < PublishLimit
    /\ manifest' \in Revision \ {manifest}
    /\ count' = [count EXCEPT !.published = @ + 1]
    /\ UNCHANGED <<upstream, host, repository, image, run, indexer, document, dashboard,
                   grafana, cutOff>>

\* The branch that the published revision follows, or waits for, moves.
BranchMoves ==
    /\ count.moves < MoveLimit
    /\ \/ Bundle[manifest].ref = {}
       \/ ~Resolves(Bundle[manifest])
    /\ upstream' = [upstream EXCEPT ![Bundle[manifest].url] = @ + 1]
    /\ count' = [count EXCEPT !.moves = @ + 1]
    /\ UNCHANGED <<manifest, host, repository, image, run, indexer, document, dashboard,
                   grafana, cutOff>>

-------------------------------------------------------------------------------
Reconciler ==
    \/ Reconcile \/ StartDiscard \/ FinishDiscard \/ Fetch
    \/ StartCheckout \/ FinishCheckout \/ SkipCheckout
    \/ InstallConfig \/ InstallEnv \/ CheckCompose \/ Build \/ SkipBuild \/ RecordInputs
    \/ GenerateAlerting \/ GenerateDashboard \/ RemoveLocalStack \/ RecreateIndexer
    \/ RecreateGrafana \/ Probe \/ MarkApplied \/ Fails

Indexer == IndexerLoads \/ IndexerStarts \/ IndexerRestarts

Next ==
    \/ Reconciler \/ Indexer
    \/ Stop \/ IndexerDies \/ GrafanaRestarts \/ Publish \/ BranchMoves

\* The timer starts the reconciler within a minute of its end, and Docker restarts a
\* container that exits.
Fairness == WF_vars(Reconciler) /\ WF_vars(Indexer)

Spec == Init /\ [][Next]_vars /\ Fairness

-------------------------------------------------------------------------------
(* Properties. *)

TypeOK ==
    /\ manifest \in Revision
    /\ upstream \in [Urls -> Commit]
    /\ host.applied \in Revision \union {None}
    /\ host.config \in Revision \union {None} /\ host.env \in Revision \union {None}
    /\ \/ repository \in {NoRepository, Debris, Unreadable}
       \/ /\ IsCheckout /\ repository.url \in Urls /\ repository.locked \in BOOLEAN
          /\ repository.head \in Commit \union {None}
          /\ repository.tree \in Commit \union {None, Torn}
    /\ At("idle") <=> run = Idle
    /\ ~At("idle") => run.revision \in Revision /\ host.applied = None
    /\ indexer.phase \in {"none", "starting", "serving", "started", "down"}
    /\ indexer.phase \in {"serving", "started"} => indexer.config \in Revision
    /\ document.rules = {} \/ "noop" \in document.contacts
    /\ DOMAIN grafana = {"up", "rules", "contacts"}
    /\ cutOff \in BOOLEAN

Applied == host.applied # None
AppliedBundle == Bundle[host.applied]

\* When a revision is marked as applied, its files are installed, the image is the one
\* that was built from them, and the indexer runs that image with them -- whatever
\* reconciliations were stopped and containers died before.  Except where a run was
\* stopped after the build but before its record, or in the middle of a checkout.
AppliedRunsItsInputs ==
    Applied =>
        /\ host.config = host.applied /\ host.env = host.applied
        /\ host.inputs = [commit |-> repository.head, idl |-> AppliedBundle.idl,
                          program |-> AppliedBundle.config.program]
        /\ AppliedBundle.ref \subseteq {repository.head}
        /\ image = host.inputs \/ cutOff \/ image.commit = Torn
        /\ indexer.image = image /\ indexer.env = host.applied
        /\ indexer.config \in {None, host.applied}

\* What is applied on a local stack is a configuration the indexer starts with: the
\* probe cannot tell, as it passes while an indexer with a wrong multisig fails over
\* and over.
AppliedConfigStarts ==
    Applied /\ ~AppliedBundle.cloud => Starts(host.applied, indexer.image, indexer.env)

\* Once a revision is applied Grafana holds its rules and contact points and no other,
\* though its database outlives every document and documents are replaced unread.
GrafanaFollowsConfig ==
    Applied /\ ~AppliedBundle.cloud =>
        LET declared == ProvisioningDocument(AppliedBundle.config, "rpc" \in AppliedBundle.endpoints)
        IN grafana.rules = declared.rules /\ grafana.contacts = declared.contacts

\* The panel a notification links to is in the dashboard, and no other covers it: the
\* rules come from the configuration and its IDL, the panel from how the image was
\* built.
LinkedPanelsShow ==
    Applied /\ ~AppliedBundle.cloud =>
        \A rule \in grafana.rules : rule.kind # "datasource" =>
            \A id \in rule.panel :
                \E panel \in dashboard :
                    panel.id = id /\ \A other \in dashboard \ {panel} : ~Overlap(panel, other)

ActivityIn(rules) == {rule \in rules : rule.kind # "datasource"}
HealthIn(rules) == {rule \in rules : rule.kind = "datasource"}

\* A record is in the window of some evaluation, whenever it was logged and if Loki has
\* it within what the lookback exceeds the interval by.
EveryMatchIsEvaluated ==
    \A rule \in ActivityIn(grafana.rules) :
        \A delay \in {0} \union 0..rule.lookback - rule.interval, phase \in 0..rule.interval - 1 :
            \E n \in 0..rule.lookback \div rule.interval :
                LET tick == phase + n * rule.interval
                IN delay <= tick /\ tick < rule.lookback

\* What each rule is documented to let pass: reconnects of a stream that works, fewer
\* failed polls than an outage of the configured duration has, and nothing else.
Tolerated(rule, config) ==
    CASE rule.uid.rule = "yellowstone_stream_interrupted" -> 5
      [] rule.uid.rule = "rpc_poll_failing" -> (config.sustained - 1) \div config.pollInterval
      [] OTHER -> 0

\* As many log lines or increments as a rule tolerates never fire it.  One more does, at
\* the evaluation that ends the pending period, if they come in a half of the window;
\* a rule on a counter, whose pending period has no cap, must be configured to pend for
\* at most the other half.
HealthRulesFire ==
    Applied /\ ~AppliedBundle.cloud =>
        \A rule \in HealthIn(grafana.rules), gap \in Gaps : rule.counts # "state" =>
            LET passed == Tolerated(rule, AppliedBundle.config)
                Tick(n, phase, j) == n * gap + phase + j * rule.interval
            IN \A phase \in 0..rule.interval - 1 :
                   /\ \A j \in 0..Evaluations(rule) :
                          ~FiresAt(rule, passed, gap, Tick(passed, phase, j))
                   /\ /\ passed * gap + 2 * rule.interval <= rule.window \div 2
                      /\ rule.counts = "lines" \/ rule.pending <= rule.window \div 2
                      => FiresAt(rule, passed + 1, gap,
                                 Tick(passed + 1, phase, Evaluations(rule)))

\* Of something that occurs every `gap` without end a rule pages at the evaluation that
\* ends its pending period, counted from the first after the occurrence that completes
\* it, at none before, and at each one after.
PagesOnTime(rule, gap, completes) ==
    \A phase \in 0..rule.interval - 1, j \in 0..2 * Evaluations(rule) :
        LET tick == completes + phase + (j - 1) * rule.interval
        IN FiresAt(rule, tick, gap, tick) <=> j > Evaluations(rule)

\* An unbroken outage, whose polls fail at once, is counted from the poll that completes
\* the configured duration on, for durations that leave a poll in the window, and a
\* stream that is silent from the sixth timeout on.
OutagePagesOnTime ==
    Applied /\ ~AppliedBundle.cloud =>
        LET config    == AppliedBundle.config
            completes == CHOOSE t \in 1..2 * FailureWindow :
                             /\ t >= config.sustained /\ t % config.pollInterval = 0
                             /\ t - config.pollInterval < config.sustained
        IN \A rule \in HealthIn(grafana.rules) :
               /\ /\ rule.uid.rule = "rpc_poll_failing"
                  /\ config.sustained + config.pollInterval <= FailureWindow
                  => PagesOnTime(rule, config.pollInterval, completes)
               /\ rule.uid.rule = "yellowstone_stream_interrupted"
                  => PagesOnTime(rule, StreamTimeout, 6 * StreamTimeout)

\* What the documentation says a condition means for a field of a record.
Holds(condition, field) ==
    LET value == condition.value
    IN IF value.type = "integer" THEN
           field.type = "integer" /\ Compare(condition.operator, field.number, value.number)
       ELSE
           CASE condition.operator = "exists"   -> field \notin {Unset, Text(<<>>)}
             [] condition.operator = "contains" -> field # Unset /\ IsPart(value.text, LabelText(field))
             [] condition.operator = "ne" ->
                    field \notin {Unset, Text(<<>>)} /\ LabelText(field) # value.text
             [] OTHER -> LabelText(field) = value.text

Means(alert, record) ==
    LET Met(i) == Holds(alert.conditions[i], record.fields[alert.conditions[i].field])
    IN /\ record.kind = alert.kind /\ record.name = alert.name
       /\ alert.kind = "multisig" => ~record.failed
       /\ IF alert.match = "any" /\ alert.conditions # <<>>
          THEN \E i \in DOMAIN alert.conditions : Met(i)
          ELSE \A i \in DOMAIN alert.conditions : Met(i)

\* A rule counts the records its alert describes: a field that is missing or no number
\* hides no match, and integers are not confused with their neighbours, but at the
\* largest value that is accepted.
QueryMeansConditions ==
    \A rule \in ActivityIn(grafana.rules) :
        (\A i \in DOMAIN rule.uid.conditions :
             rule.uid.conditions[i].value # Integer(MaxExactInteger))
        => \A record \in Samples : Counts(rule.query, record) <=> Means(rule.uid, record)

\* The revisions that the image built from them accepts.
Acceptable ==
    {r \in Revision :
        LET built == [idl |-> Bundle[r].idl, program |-> Bundle[r].config.program]
        IN Starts(r, built, r) /\ (Bundle[r].cloud \/ Accepts(r, built, r))}

\* What the reconciler does not get out of by itself: a revision that is not accepted or
\* does not resolve; a directory that is no repository; a checkout of the same repository
\* with a part or a lock left in .git, or whose HEAD is at the commit and whose files are
\* not; an image of another revision.
Stuck ==
    LET bundle == Bundle[manifest]
    IN \/ manifest \notin Acceptable \/ ~Resolves(bundle)
       \/ repository.git = "debris"
       \/ /\ repository.url = bundle.url
          /\ \/ repository.git = "damaged"
             \/ IF repository.head = Resolved(bundle) THEN repository.tree \in {None, Torn}
                                                     ELSE repository.locked
       \/ cutOff /\ ~Starts(manifest, image, manifest)

\* "The timer retries the full reconcile until it succeeds": once nothing is published,
\* moves, stops or dies any more, the revision that is published is applied and stays.
RetriesUntilApplied == <>[](host.applied = manifest \/ Stuck)
===============================================================================

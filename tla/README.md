# Verification of the nacho-operators

This directory specifies the Kubernetes operators of this repository in TLA+.
TLC checks the specifications on small instances, and TLAPS checks proofs of
their main theorems for all instances. Line numbers below are those of the Go
sources; "L163" without a file is in the controller of the operator at hand.

## 1. The system

Three independent operators, each a controller-runtime manager with one
controller and one worker. They share no state and do not talk to each other.

### Upgrade orchestrator (`src/upgrade-orchestrator`)

Carries workloads through a Kubernetes node upgrade in the order of their
dependencies. One custom resource (`UpgradeOrchestrator`) lists the workloads
and what each of them depends on.

| Part | State it keeps | Operations |
|---|---|---|
| State machine (`Reconcile`, `handle*State`) | `status.state`, `targetVersion`, `lastTransitionTime`, annotation `last-known-state` on the custom resource | one handler per state, each a sequence of API writes |
| Node preparation (`prepareNodes`, `cleanupGlobalUpgradeArtifacts`) | label and NoSchedule taint on nodes | merge patch per node |
| Workload migration (`addTolerationToWorkload`, `dependenciesMet`) | toleration in the pod template of a Deployment or StatefulSet | merge patch per workload |
| PDB control (`reconcilePDB`) | user PDBs with their original spec saved in an annotation, PDBs `upgrade-blocker-<name>` | create, patch or delete |

It interacts with the scheduler and the workload controllers (through taints,
tolerations and PDBs), with the node pools (nodes are cordoned, join, leave)
and with users, who own the PDBs it rewrites. What is hard: the resource is read
from a cache that lags behind; the custom resource is protected by its
resourceVersion while nodes, workloads and PDBs are patched without one; every
handler consists of several writes, any of which may fail or be the last before a
crash; the cluster moves between a check and the write it justifies.

Correct means: a migration is going on only in `UpgradeInProgress`, whatever
stale copy started it; workloads enter the new nodes after their
dependencies; a finished upgrade leaves nothing behind; waits end.

### Certificate monitor (`src/cert-monitor-operator`)

Lists secrets that match two selectors, computes days to expiry, and sends at
most one aggregated notification round in 24 hours.

| Part | State it keeps | Operations |
|---|---|---|
| Reconcile loop (`certificatemonitor_controller.go`) | `status.monitoredCertificates`, `status.lastNotificationTime` | list, read each secret, decide, notify, update status with `RetryOnConflict` |
| Notifications (`pkg/notifications`) | none | webhook, email, Opsgenie |
| Utilities (`pkg/utils`) | none | certificate parsing, selectors |

`src/cert-monitor-operator-INITIAL` holds an earlier copy of the same operator;
the current one is modelled. What is hard: the cooldown is judged by a
timestamp in a cached copy, the round leaves before it is recorded, the retry
puts an old status onto a new object, channels fail silently, and secrets come
and go while a pass reads them.

Correct means: a silent pass has a round sent in the last 24 hours to justify it;
a second round within 24 hours has a reason; an expired certificate is
reported again and again; the status follows the secrets.

### Kafka access monitor (`src/kafka-access-monitor-operator`)

Inspects the running pods of a selector for Kafka clients, collects what their logs
and events complain about, adds broker metrics and logs, asks an AI service for an
analysis of every problem, writes all of it to the status of one custom resource
(`KafkaAccessQuery`) and posts the clients with problems to Slack.

| Part | State it keeps | Operations |
|---|---|---|
| Reconcile loop (`kafkaaccessquery_controller.go`) | `status.accessingPods`, `observedGeneration`, `lastUpdateTime` | inspect, enrich, analyse in goroutines, update status with `RetryOnConflict`, report, requeue |
| Dynamic parser (`kafka_parser.go`) | rules, read once | which client a YAML document describes |
| Finders and enricher (`pod_finder.go`, `secret_finder.go`, `authn_enricher.go`, `diagnostics_finder.go`, `configmap_finder.go`) | none | pods, service accounts, tenants, problems, config maps |
| Broker metrics and logs (`gcp_metrics_finder.go`, `broker_log_finder.go`) | none | queries to Google Cloud |
| AI analyzer (`internal/ai`) | none | one HTTP call per problem |
| Slack report (`slack_reporter.go`) | none | a summary, and pages for each namespace |

What is hard: a pass makes dozens of calls, most of whose failures are swallowed;
the analyses run concurrently, time out one by one and meet in one map with a
key that lacks the namespace; the entries of a pod share one backing array; Go
maps are ranged over where the order decides what is found; the status write
wakes the operator's own watch; the specification is edited while a pass
computes; pages of the report are cut by length.

Correct means: the status is the result of one whole survey, with answers that
belong to their problems and to the specification it claims; it comes to show the
pods that run; what an entry says is written in the source it names; Slack is
told what the status says, each client once.

The complete list of parts with their status is in `PROJECT.json`
("components"), and the list of hazards, each at its line, under "hazards".

## 2. Modules

| Module | Models |
|---|---|
| `Cluster` | nodes, taints, pods, tolerations, PDBs; the controller's reads; `reconcilePDB`; the environment |
| `UpgradeOrchestrator` | the state machine of the upgrade orchestrator over `Cluster` |
| `UpgradeOrchestratorClaims` | what the documentation says of it and the code does not do |
| `UpgradeOrchestratorProofs` | types, the migration invariant, and that the undisturbed cleanup is complete |
| `UpgradeOrderProofs` | dependency order in a blue-green upgrade |
| `CertificateMonitor` | one custom resource of the certificate monitor |
| `CertificateMonitorClaims` | what the comments say of it and the code does not do |
| `CertificateMonitorProofs` | types, the cooldown invariant and its consequences |
| `KafkaSurvey` | abstract: what the status of a `KafkaAccessQuery` promises |
| `KafkaAccessMonitor` | the reconcile loop of the Kafka access monitor, its goroutines and its watch |
| `KafkaAccessMonitorProofs` | types, the four safety properties of the loop, and that it implements `KafkaSurvey` |
| `KafkaParser` | the dynamic parser, as operators |
| `PodInspection` | the inspection loop call by call: finders, enricher, parser |
| `SlackReport` | grouping, sorting and paging of the report |
| `KafkaPass` | composition of `PodInspection` and `SlackReport` |
| `KafkaParserProofs` | the parser finds what a document says, for every document |
| `KafkaPassProofs` | the inspection implements `KafkaSurvey`; the tenants of an entry; the counts of problems |
| `KafkaListProofs` | entries are written in their sources, and the list is complete |
| `KafkaReportProofs` | types of a pass; the pages of its report |
| `MCUpgradeOrchestrator`, `MCCertificateMonitor`, `MCKafkaAccessMonitor`, `MCKafkaPass` | instances for TLC |

Operators whose comment begins with "Mutant" are plausible bugs: they are not
used by the specifications, and replacing the definition next to them by them must
make the property they are listed with fail (`PROJECT.json`, "mutants").

### Upgrade orchestrator: state and actions

`cr` is the resource on the API server, `cached` the informer's copy, `obj` the
worker's. `pc` names the place in `Reconcile`: one value for each API write
or loop of them. `listed` and `seen` are the nodes of the last list that are
still to be patched and the taints they had in it; `at` is the index in
`spec.deployments`. `aged` says that the resource last began to wait
(`ToAwaiting`) more than the five minutes of `UpgradeConfirmationTimeout` ago.
L130 asks it of the worker's copy. A stale copy that still says
`AwaitingUpgradeConfirmation` carries the stamp of that beginning, whatever the
resource has been moved to since: so no other write resets `aged`, and what is
left of a wait that timed out takes the timeout branch again. This is why
`AdminStates` excludes `AwaitingUpgradeConfirmation`: the wait is begun by the
operator alone.

| Action | Code |
|---|---|
| `Reconcile`, `InitStatus` | `Reconcile`, L47-75 |
| `HandleNoUpgrade`, `ToAwaiting` | `handleNoUpgradeState` |
| `CleanupNode`, `CleanupPdb`, `CleanupToleration`, `ForgetUpgrade` | `cleanupGlobalUpgradeArtifacts`, and the removal of the annotation |
| `HandleAwaiting`, `ToNoUpgrade`, `SetInitialPdb`, `RecordAnnotation`, `RecordState` | `handleAwaitingConfirmationState`, `setInitialPDBState` |
| `WaitForVersions`, `ChooseTarget`, `PrepareNode`, `Unblock`, `AddToleration`, `EndOfPass` | `handleUpgradeInProgressState`, `prepareNodes`, `addTolerationToWorkload` |
| `AllowDisruption`, `BlockDisruption` | `reconcilePDB` |

Points of the translation that matter:

- `Accepted` compares the worker's copy with the server's value where the server
  compares resourceVersions. A copy that is old and equal is refused by the
  server; in the model that refusal is one of the failed calls (`Fault`).
- `UpdateReply` is `r.Update` on a resource with the status subresource: the
  server keeps its own status and the client decodes the reply over the object.
- A node patch writes the taint list that was read with the node list
  (`seen`), as a JSON merge patch does, and so may undo what happened since.
- Which of several matching PDBs is found, and which of two versions of equal
  precedence is the highest, is not fixed by the code; the model takes any.
- Nodes, pods, workloads and PDBs are read as they are at that moment; only the
  custom resource's cache lags. A handler's reads and the first write they
  lead to are one action, later writes are actions of their own.
- Workloads that exist (`Deployed`) do not change during a behaviour.

### Certificate monitor: state and actions

`present` and `left` are the secrets and the ticks until their certificates
expire. Time is kept as ages cut off at the cooldown, so behaviours go on for
ever in a finite state space; "never" and "24 hours ago or more" are the same
age because the code treats them alike. `store`, `cached`, `fresh` are the
resource, the informer's copy and whether its resourceVersion is current;
`original`, `toRead`, `found`, `sent`, `nowAge` are the local variables of a
pass; `wait` and `queued` the work queue. `roundAge`, `delivered` and
`disturbed` are history variables that no action reads.

| Action | Code |
|---|---|
| `Reconcile`, `BadSelectors`, `ListFails`, `ListSecrets` | `Reconcile` up to the secret loop, `prepareSelectors` |
| `ReadSecret`, `AllRead` | the secret loop, days and status of a certificate; a read that fails skips the secret for this pass |
| `KeepSilent`, `Notify` | the cooldown, `sendAggregatedNotifications` |
| `UpdateStatus`, `UpdateFails` | the comparison, `RetryOnConflict`, requeue |
| `Restart`, `CacheSync`, `EditSpec`, `SecretAppears`, `SecretGoes`, `TimePasses` | process, watch, users, clock |

A JSON round trip is modelled by what it does to `reflect.DeepEqual`: times
come back in the local zone, an empty list comes back nil (`Decoded`).
Deletion of the custom resource is not modelled (the code has no finalizer and
a pass on a missing resource returns). Secrets are read as they are.

### Kafka access monitor: two levels of detail

The loop has two dimensions, and one model with both would be out of TLC's
reach: what happens between passes (goroutines, lost updates, restarts, edits,
watch events), and what one inspection puts together from documents, logs and
failing reads. They are two models, joined by `KafkaSurvey`.

`KafkaSurvey` says that the status is a survey: it begins with the pods that run,
looks at each once, keeps at most one problem of it, and is published as a whole
or given up. `KafkaAccessMonitor` implements it with an inspection of one step per
pod (`ImplementsSurvey`, proved). `PodInspection` implements it with an inspection
of many steps (`InspectionIsSurvey`, proved), which is what justifies the one step
of the other.

`KafkaAccessMonitor`: `spec` and `status` are the resource, `cached` and `fresh` the
informer's copy. A *source* is a place that names brokers, a container's variables or
a key of a config map; `entries` is the set of sources in `AccessingPods`, and
`problems` has one slot per pod because the entries of a pod share one slice of at
most one problem. `calls` are goroutines under way, `results` the two maps they fill.
`told` is a history variable.

| Action | Code |
|---|---|
| `Reconcile`, `ListPods`, `ListFails` | L64-120 |
| `Inspect`, `AllInspected` | the inspection loop, L121-219 |
| `Enrich` | broker metrics, L221-282 |
| `StartAnalyses`, `AnalysisReturns`, `TakeResults` | the goroutines and their results, L284-401, `internal/ai` |
| `UpdateStatus`, `UpdateFails` | L403-416 |
| `SendSummary`, `SummaryFails`, `SendPages`, `ReportDone` | `SendReport`, requeue |
| `Restart`, `CacheSync`, `TimerFires`, `EditSpec`, `PodMoves`, `TroubleMoves` | process, watch, work queue, users, pods |

`PodInspection` has one action for each call of L90-211 and one for each line of a
log; `found` is `problemsMap`, `kept` the slice after its cut, `infos` the list.
`KafkaParser` takes a document as the set of its leaves and returns a *set* of
descriptions, one for each order in which Go may range over its maps.
`SlackReport` counts characters; a page has the clients written on it.

Points of the translation that matter:

- A document is the set of its leaves. An empty map is a leaf too: `kafka: {}` is a
  section, the root of what is read, and hides everything beside it and the
  section within `thirdParties`.
- A pod selector may be missing (`PodSelector = None`), which is not the empty
  one: it selects nothing, unless a namespace selector takes its place.
- `LastUpdateTime` makes every status differ from the last, so the comparison of
  L404 never holds. The API server drops a write that changes nothing, which takes
  two passes within one second of the stored time (`sameSecond`, `stampSame`).
- The key of a result is the pod's name and the message with its summaries (`Key`);
  two namesakes with the same message meet in one result.
- A source's cluster is a constant of `KafkaAccessMonitor`. In the code it follows
  from the first endpoint, which may change when a reference cannot be read.
- A call fails at most once per step, and each failure counts against `MaxFaults`.
  Reads of an object that does not exist are no faults.
- A successful answer with an empty text would leave `AIAnalysis` empty; answers
  are taken to be texts.
- Config maps and secrets do not change during a behaviour; pods, problems and the
  specification do. Deletion of the custom resource is not modelled: a pass on a
  missing resource returns.

## 3. Runs

| Run | Question | Result |
|---|---|---|
| `upgrade_stale_and_faulty` | Can a stale copy, a failed call or a crash start a migration, or leave a target, outside `UpgradeInProgress`? Do the end of the wait and the cleanup happen in spite of them? | no; yes |
| `upgrade_cleanup` | Is everything clean when the annotation is removed, while users edit and delete PDBs and nodes and pods move? | yes, without failed calls and new PDBs |
| `upgrade_order` | In a blue-green upgrade, may a workload enter the new nodes before its dependencies? | no |
| `claim_confirmed` | Is a confirmed upgrade recorded as such? | **no** |
| `claim_return` | Does the operator go back to `NoUpgrade`? | **no** |
| `claim_remembered` | Is a lockdown of PDBs always remembered? | **no** |
| `claim_clean` | Does the cleanup remove every trace, or try again? | **no** |
| `certificate_monitor` | Cooldown, reporting and status under lag, failures and restarts | holds |
| `claim_sent` | Does `lastNotificationTime` mean that something was sent? | **no** |
| `claim_meaningful` | Is the status written only on meaningful changes? | **no** |
| `kafka_access_monitor` | Do answers, metrics, status and report stay together over passes with failures, restarts and edits, and does the status converge? | yes |
| `kafka_pass` | Is what one inspection puts together written in its sources and complete, and does the report have every client once? | yes |

The six runs that end in a violation are the findings:

1. *Confirmed upgrades are not recorded* (L163-166). `r.Update` decodes the
   server's old status over the object, so the status update that follows writes
   `AwaitingUpgradeConfirmation` back. By itself the operator never enters
   `UpgradeInProgress`: in the other runs an administrator writes that state
   (`AdminStates`), which is how the rest of the code is reached.
2. *Nothing leaves `UpgradeInProgress`* (L181), against `DetailOPeration.md`.
3. *A lockdown may be forgotten* (L151 before L163): PDBs are blocked before the
   annotation that has them released is written. If the process stops or the write
   fails in between, and the next pass finds the five minutes over (L130-138), the
   resource is back in `NoUpgrade` and nothing knows of the blocked PDBs.
4. *A failed cleanup leaves traces* (L512, L522, L538): the errors of the patches are
   logged and nil is returned, so the annotation goes (L97-98) and the cleanup is
   not tried again. `ForgottenMeansClean` therefore holds for `MaxFaults = 0` only,
   and `upgrade_cleanup` says nothing about failed calls.
5. *A round nobody received silences the monitor for a day* (L160-161).
6. *Every pass writes the status* (L182): `DeepEqual` never holds.

Found on the way, with other bounds, and not runs of their own:

- with `"create"` in `UserActs`, `ForgottenMeansClean` fails: a user PDB created
  next to `upgrade-blocker-<name>` is looked at first, and `reconcilePDB`
  returns (L288-298) before the operator's own PDB is deleted;
- the label that is put on nodes is never removed (`labelled` only shrinks when
  nodes leave);
- a dependency without pods counts as migrated (L579). `DependenciesFirst` counts it
  as the code does, so it cannot show that this is wrong, and it needs the
  blue-green order of events: otherwise such pods may come back on an old node that
  has been uncordoned;
- after an upgrade to a third version, tolerations given for the second stay.

Of the Kafka access monitor, seen while modelling and not runs of their own:

- passes follow one another without regard to `requeueInterval`: the status write
  is an event of the resource's own watch, which has no predicate (L404, L555). The
  model has this loop and `Converges` tolerates it: no property forbids it. And
  each pass analyses and reports everything again, for `AIAnalysis` is never carried
  over (L294). Two passes within one second, without a report, are what stops it;
- of namesakes in two namespaces with one message, one gets the analysis and the
  broker logs of the other (L378);
- with a namespace selector the pod selector is ignored (`pod_finder.go` L36, L53),
  against its comment (L23); without one, a missing pod selector selects no pod at all,
  where that comment and `kafkaaccessquery_types.go` L21 speak of all;
- topics below a kafka section are never found, and those of a plain document only
  one level deep (`kafka_parser.go` L111, L298), because the maps were converted
  before the type assertion; the comment at L252 has "all complete topic
  definitions";
- an empty section (`kafka: {}`) hides `thirdParties.kafka` and the brokers beside it
  (`kafka_parser.go` L126-132);
- without a kafka section, rules with a dot lead nowhere, since nested maps are
  entered only after conversion (L199);
- a pod without a readable address gets the tenants of an account that lacks an
  address or a name (`authn_enricher.go` L84-85), although they are listed as those
  "this service account has access to" (`kafkaaccessquery_types.go` L178).
  `TenantsAreOneAccounts` states this exception;
- a metrics query that fails is reported as zero (`gcp_metrics_finder.go` L45-48).

### Bounds, and why they are enough

The upgrade instance has one old and one new node, two versions, a root workload
and one that depends on it, a pod each, and a user PDB on the dependent. In
`upgrade_stale_and_faulty`, which has the liveness properties, only the root workload
has a pod, and an administrator writes once. Two
versions are what the code asks for (`len == 2`). One node per version already
has every case of `listed`: absent, patched, gone since the list. With two
workloads there is a first, a last and an entry past the end, a dependency met and one
not met, a workload with a user PDB and one without. Faults and administrator
writes are bounded by `MaxFaults` and `MaxAdmin`; one fault can hit every write
of every handler, two administrator writes (`upgrade_order`) make an upgrade begin
and end.
The cluster changes at any moment and without bound.

The certificate instance has one certificate: the cooldown and the status are
about the resource, not about pairs of certificates, and with two TLC no
longer ends in minutes; the theorems cover any number. What one certificate cannot
show is that an alert for one makes another wait: `ExpiredIsReported` has that in
part only, through a certificate that becomes due within the cooldown of its own
alert. A day has two ticks and
an interval one, so "in the cooldown", "at its end" and "past it" differ; a
pass may take `MaxPass` = 1 tick, so the clock moves while it runs. `MaxFaults` = 2
allows a lost record and a channel outage in one behaviour; `MaxEdits` = 1
makes a pass start on a stale copy, and the edit may break the selector.
`Horizon` bounds how long a certificate lives; `Oldest` how long it is known to
be expired.

The instance of `kafka_access_monitor` has two pods of one name in two namespaces,
which may have the same problem; one of them has two sources, in two clusters and of
both kinds, so that entries share a slice, messages get several summaries and keys
collide. `MaxMoves` = 1 lets the world or the specification change once, at any
point, and `MaxFaults` = 1 lets one call fail or the process stop, at any point, in
behaviours of any number of passes.

The instance of `kafka_pass` has a pod with a regular and an init container, a
literal and a referenced variable, a config map that is gone, one that is excluded
and a file that is no YAML, and a pod that shares a config map. Its six
documents are the cases of the parser: a section beside other brokers, two spellings of
a key, a section within `thirdParties` beside a key `kafka` that is none, no
section, an empty section that hides what is beside it, and nothing at all. The log has lines that are equal after the cut and differ
in type. Characters are chosen so that a client does not fit on a page, is alone
on one, and is longer than one. One failed call may be any.

### Fairness

`UpgradeOrchestrator`: weak fairness of the worker as a whole (`Controller`), of
the watch (`CacheSync`) and of the clock. The work queue requeues after every
return, with an error, with `RequeueAfter`, or, after the returns with neither,
because the write just made, or the status it made, comes back by the watch. None
is assumed of the environment: users, pods and nodes may do nothing.

`CertificateMonitor`: weak fairness of `Worker`, of `CacheSync` and of
`TimePasses`. The worker's includes the assumption that a pass ends
(`MaxPass`): the code gives no deadline to `smtp.SendMail`
(`notifications.go` L120), so with a mail server that never answers the
operator does stop; this is listed as a hazard and outside the property.

`KafkaAccessMonitor`: weak fairness of `Worker`, of `Analyses` (every call has a
timeout of 45 seconds, every goroutine one of two minutes), of `CacheSync` and of
`TimerFires`. `Converges` and `TroubleIsReported` speak of pods and problems that
settle. `KafkaPass` has no liveness property.

`ExpiredIsReported` and `StatusForgets` hold because faults are finite in number;
the properties say what happens once they are over.

## 4. Proofs

All theorems are for arbitrary finite or infinite constants under the named
assumptions `ClusterAssumption`, `OrchestratorAssumption`, `MonitorAssumption` (one in
each monitor), `ParserAssumption`, `InspectionAssumption` and `PassAssumption`, which
give the constants their types and bounds that make sense: positive intervals, a pass
shorter than a day, finitely many events and accounts, and the table of a client
that makes any page longer than the header of the first. A file holds a document
(`IsDocument`): a set of leaves, any number of them at any depth, of which none is at the
place of another or below it, which is what decoding into a map gives.

| Theorem | Further assumption | Argument |
|---|---|---|
| `UpgradeOrchestratorProofs!TypeCorrect` | - | `TypeOK` is inductive |
| `Migration`, `TargetSafety`, `MigrationSafety` | administrators write no state but `UpgradeInProgress` | `MigrationInv` |
| `CleanupInvariant`, `CleanupComplete` | `Undisturbed`: no fault, no PDB created by a user, at most one user PDB per workload | `CleanupInv` |
| `OrderInvariant`, `DependencyOrder` | `OneUpgrade`: blue-green, ranks distinct, initial nodes on one version | `OrderInv` |
| `CertificateMonitorProofs!TypeCorrect` | - | `TypeOK` is inductive |
| `CooldownInvariant`, `SilenceJustified`, `RepeatsExplained` | - | `CooldownInv` |
| `KafkaAccessMonitorProofs!TypeCorrect`, `AnswersFitAlways`, `AnalysedAsAskedAlways`, `SummariesOnceAlways`, `ReportsFollow` | - | `PassInv` |
| `StatusIsSurvey` | - | `PassInv`, step by step |
| `KafkaPassProofs!PassIsSurvey` | - | `InspectInv`, step by step |
| `TenantsAlwaysRight` | - | `NamesInv` |
| `CountsAlwaysRight` | - | `CountsInv` |
| `KafkaParserProofs!ValuesAreSaid`, `ValuesAreFirst` | the document is one (`IsDocument`); for the second, keys are unambiguous | see below |
| `KafkaListProofs!FieldsAlwaysWritten` | - | `FieldsAreWritten` is inductive, by the two of the parser |
| `ListAlwaysComplete` | - | `ListInv`, with `CountsOccurrences` |
| `KafkaReportProofs!PassTyped`, `PagesAlwaysFit` | - | `InspectInv`, `PagesInv` |
| `PagesAlwaysCover` | - | `PagesInv`, `CoverInv` |

`MigrationOnlyInProgress` is not inductive, because a handler acts on a copy.
`MigrationInv` adds that the copy is in the state its handler handles, and that
any copy which says `UpgradeInProgress` is right however old it is: no
handler leaves that state. That makes every taint and toleration land in it.
The absence of an exit, finding 2, is thus what makes the property true, and a
fix of it will have to guard the migration in another way; with `"NoUpgrade"`
in `AdminStates` the property fails.

`ForgottenMeansClean` needs what the cleanup has established so far. `CleanupInv`
says that behind the worker's position no entry has a trace, that tainted nodes
are still to be patched, and that a workload with an operator PDB has no user
PDB (which is why restoring one cannot hide the other).

`DependenciesFirst` relates tolerations to pods that move. `OrderInv` says that
the target is the newest version, that the old nodes are cordoned from before there
was a target and so take no pod back, and extends the property to the workload
whose dependencies have been checked and whose toleration is not yet written.

`CooldownInv` says that no copy of `lastNotificationTime` (server, cache, worker)
is younger than the last round, and that in an undisturbed history it is exactly
as old. The first half justifies silence, the second explains repeats.

`PassInv` is the invariant of a pass of the Kafka access monitor: `TypeOK`, what
is empty at which stage (`StageInv`), that every result fits its key and every
analysis its problem (`AnswerInv`), that every problem of a pass that has its
answers got one (`AskedInv`), and that summaries come from entries that were already
enriched (`SummaryInv`). `AnswersFit` is not inductive because answers wait in a map
for their problem, whose message must not change meanwhile: `AnswerInv` is about the
map, and the stages say that messages change only before the calls start.
`AnalysedAsAsked` needs that a specification of one generation is one
specification, whichever copy has it.

`StatusIsSurvey` maps the notes of a survey to the entries and problems of the
pass, until they are written. Each action is a step of `KafkaSurvey` or leaves its
variables alone; enrichment and answers do, because they keep the problem an entry
is about. The proof needs `StageInv` where a survey is published: nothing is left
to inspect, and the written status is the set of notes at that moment.

`PassIsSurvey` is the second proof of a refinement. `InspectInv` says that the pods
that are done, the one being inspected and those to come are disjoint (`PodsInv`)
and that what is found and kept are messages of the pod (`ProblemsInv`): nothing is
carried from one pod to the next. All steps of an inspection stutter but `PodDone`,
where the entries of the pod, which all show the same problem, become its note.

`TenantsAlwaysRight` needs that of accounts entered in turn under one name one is the
last, whatever the turn (`OneIsLast`), and that the name in use and the map are the
right ones unless a call has failed, which cannot be taken back (`NamesInv`). What is
proved is that an entry with a login has its own secret's login, and tenants of one account that
goes by it. An entry without one may have tenants of an account that lacks an
address or a name, the exception above, and of no other.

`PagesFit` becomes inductive with the page being written and the queue behind it
(`PagesInv`): one namespace, and a page of two clients or more within the limit.
`PagesCover` counts places; `CoverInv` says instead that a client is at exactly one
place of exactly one kind, and that a page with a client on it is longer than the
header of the first page. This is where the proof needs its assumption about
lengths: SendReport drops a last page that is not longer than that header
(`slack_reporter.go` L82), even if it is a later page with a shorter header of its
own, and only the length of a client's table keeps that from happening.

`CountsOccurrences` is nearly inductive. `CountsInv` adds that nothing was read when the
events are entered, and that the occurrences of a message are finitely many, since the
step that reads a line adds one to a cardinality. The line that is read comes behind
those that were read from the same container, and a message names its container and is
no event's: therefore a later line never becomes the first occurrence.

`KafkaParserProofs` is about what the parser computes. Its walk along a path and its
search through the rules are functions defined by recursion, of which a prover knows
nothing until there is proof that such functions exist. `Recursion` proves it once, by the
least number up to which there is none (`LeastNatural`), and `IntervalInduction`
is induction with the property given as a set, which takes the place of the library's
theorems. Trees are then described without walks: `Sub(tree, keys)` is what lies below
some keys, one step down is one key more (`BelowIsSub`, `SubOfSub`), and `findKafkaRoot`
yields the `Sub` of the section (`RootIsSection`). Wherever a walk ends, the keys it took
spell the path (`WalkIsSound`); and if keys are unambiguous, a leaf that is written
at the path leaves the walk one key to take at each step (`OneKeyFits`), so it ends there and
nowhere else (`WalkFindsIt`). The search is the same argument over the rules, once
upwards and once down to the first rule with a hit.

`FieldsAlwaysWritten` adds the step from values to entries: an entry of a file is made
by `ParseFile` only, from a description of that file (`DescriptionIsWritten`). It covers
brokers, group, client, the commit flag and topics; a topic's subject and version are
read from one map (`TopicsAreWritten`).

`ListAlwaysComplete` is about a whole pass. `ListInv` says that what is looked at are sources
of the pod (`PendingInv`), that a pod which is done has an entry for each of its certain
sources and the current one for those that are behind (`SourcesInv`), that without
failed calls the map has all events and every closed log was read to its end
(`SearchInv`), and that entries show a problem of their pod, the same in all (`ShownInv`).
`CountsOccurrences` is needed where problems are cut to one: if the map were empty, no line
would have mattered. TLC checked `ListInv` on the instance of `kafka_pass` before it was proved.
The proof attempt changed the property: `NamesBrokers` used to ask what the first
path says even where keys are ambiguous. There the parser may fall through to a later
path, and an entry would have had a source that names no brokers, in documents the
instance does not have. Now any path of the rules counts where keys are ambiguous.

Only model-checked: the liveness properties (`CleanupHappens`, `AwaitingEnds`,
`ExpiredIsReported`, `StatusForgets`, `Converges`, `TroubleIsReported`), since the installed
provers handle neither fairness nor ENABLED. Every invariant and every refinement the
runs check is proved. The modules with proofs declare no RECURSIVE operator, for
which there is no proof rule. The runs check every invariant that is proved, on instances
that satisfy the theorems' assumptions.

## 5. Not modelled

- Of the Kafka access monitor: queries to Google Cloud (their effect on a problem is
  modelled), texts, time stamps of problems, and the fields of a client that are read
  just like another one (schema registry, offset reset, integers).
- `cert-monitor-operator-INITIAL`: an earlier copy of a modelled operator.
- The HTTP and SMTP calls of the certificate monitor's channels: one outcome each.
- Texts of notifications, `LastChecked`, and the number `DaysUntilExpiration`.
- The fields of a PDB spec: a user PDB is as its user wrote it, held, or held
  and edited. PDBs whose selectors overlap are admitted (`Covers`), but the properties
  are stated for one user PDB per workload.
- Eviction that respects PDBs: pods stop at any time, which is more than
  evictions may do, and enough for the safety properties.
- Lagging caches of nodes, pods, workloads and secrets.
- `cmd/main.go`, generated code, charts, kustomize files, tests.
- `requeueInterval` of a `CertificateMonitor`: the API documents a default of
  12 hours (`certificatemonitor_types.go` L51-55), the code always uses one hour.
- The branch of `isWorkloadMigrated` for a missing workload (L566): `getWorkload`
  wraps its error as a plain one, so the branch is never taken.

## 6. What may be added

In the order of their worth:

1. `reconcilePDB` at the level of the fields of a PDB, with merge patches, two users'
   PDBs, and PDBs shared by workloads.
2. The upgrade orchestrator with evictions that respect PDBs, three versions, and
   workloads that are created and deleted.
3. Abstract specifications of the other two operators: a migration in the order of
   dependencies, and a cooldown.
4. Several resources of one kind, whose passes share nodes, PDBs or a Slack channel.

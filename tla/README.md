# Formal models of troubleshoot

TLA+ models of troubleshoot (`src/`): the scheduler of support bundles, the run
that puts a bundle together, redaction and tokenization, the loop over the
collectors and the collectors themselves, autodiscovery, the analyzers and their
agents, and the commands around them. TLC checks the models on small instances;
TLAPS proves the central invariants for every value of the constants.
`PROJECT.json` maps each definition to its source lines and lists runs, mutants,
hazards, findings and theorems.

    tlc -config Bundle_faults.cfg MCBundle      # a run
    tlapm BundleProofs.tla                      # a module of proofs

## The system

troubleshoot collects information about a Kubernetes cluster and its hosts,
redacts it, analyses it, and packs it into an archive.

| part | state | operations | what is hard |
|---|---|---|---|
| cron expressions (`pkg/schedule`) | none | validate at creation, match against the clock | fields that count from zero and from one, steps, ranges |
| job store, CLI, daemon (`pkg/schedule`) | one JSON file for each job; `runningJobs` in memory | create, list, delete; tick, list, check, execute, save | several processes share files without a lock; goroutines outlive a check, processes outlive the daemon |
| bundle run (`pkg/supportbundle`, `pkg/collect/result.go`) | results map, temporary directory, `collectorsErrs` | collect, redact, analyse, archive, deliver | every step may fail, most failures are put aside |
| redaction of results (`pkg/collect/redact.go`) | a goroutine for each result, a semaphore, an error channel | stat, open, redact, remove, rename; unpack and pack archives | returns at the first error and leaves goroutines at work |
| redactors (`pkg/redact`) | a goroutine and a pipe for each redactor | read a line, write a line, close | look-ahead of one line, errors that travel through pipes |
| tokenizer (`pkg/redact/tokenizer.go`) | token maps, one for the process | tokenize, reset, enable, disable, write the map | collisions; look-up and entry under two locks; switched off while redactors are at work |
| permissions, merge, order of collectors (`runCollectors`, `pkg/preflight`) | list of collectors, `foundForbidden`, results | check, merge, sort, skip, run | random order of a Go map, a flag that is reset for each type |
| collectors in the cluster (`pkg/collect`) | output, objects in the cluster, pods, daemon sets, secrets | request, save, create, wait, time out, clean up | clean-up and partial results on every return path |
| host collectors, image facts (`pkg/collect`) | output, files, listeners, processes | read, save | the same |
| autodiscovery (`pkg/collect/autodiscovery`) | cache of access reviews | choose namespaces, generate, filter, merge, convert | concurrent checks, two orders of precedence, a conversion there and back |
| analyzers (`pkg/analyze`) | none | read files, decide with the outcomes of the spec | sixty copies of one loop that differ |
| analysis engine and agents (`pkg/analyze/agents`) | registry of agents | discover, delegate, ask a model or a service | data that is missing looks like data that is well |
| preflight (`pkg/preflight`) | results, progress channel | collect, analyse, exit code | the order of results |
| specs (`internal/specs`, `pkg/loader`, `pkg/oci`) | none | load from arguments, secrets, files, URLs, registries | which failures end the command |
| after collection, upload, diff, analyze, updater | the archive, the binary | upload, call back, replace the binary | retries, undoing half a replacement |
| lint, convert, templating, traces, screens, API types | little | convert, print | I/O and conversion |

The CLI loads specs and calls the bundle run; the daemon starts the CLI as a
process. The run builds the list of collectors (with `--auto` autodiscovery adds
to it), runs them one after the other, and they write files and enter them in the
results map; then `RedactResult` starts a goroutine for every result, each of
which builds a chain of redactors over one file, asks the tokenizer, and replaces
the file. Analysis and archive read the same directory, which is removed when the
run returns. A preflight has the same loop with stricter permissions, and turns
the verdicts of the analyzers into an exit code. Shared state without a lock: the
job files (CLI, daemon, goroutines), the bundle directory (redactors and the
run), the maps of the tokenizer while the map file is written.

What makes the parts correct: a job is never executed twice at once, and no mark
in `runningJobs` outlives its goroutine; a bundle without an error is complete
and redacted; a redaction that reports success has redacted everything; one
secret has one token and one token one secret; what was collected is returned and
what was created is deleted; a failure is seen by somebody; a refused collector
is not run and not forgotten; the first outcome that holds decides, and data that
is missing does not pass; everything ends.

## Modules

| module | models |
|---|---|
| `Cron`, `CronField` | `validateCronSchedule` and `matchesCronField`; one field watched over a whole turn of its clock |
| `Scheduler` | `Manager`, the CLI commands, `Daemon`; EXTENDS `Cron` |
| `Bundle` | `CollectSupportBundleFromSpec`, results, `RedactResult`, `ArchiveBundle` |
| `BundleContract` | what a run promises, without goroutines and files; `Bundle` implements it |
| `RedactStream` | `redact.Redact` and the four kinds of redactors |
| `Tokenizer` | the tokenizer, the goroutines that use it, the redaction map |
| `CollectorLoop`, `CollectorRun` | `runCollectors` and `CollectWithContext`; what follows: redaction, remote collectors, archive, exit code |
| `AutoDiscovery` | `--auto`, from the flags to the collectors that are run |
| `CollectorProgram` | a notation for what a `Collect` does: steps, and what becomes of the error of each |
| `ClusterCollectors`, `ClusterResources`, `HostCollectors`, `ImageCollectors` | the collectors, as programs |
| `SpecLoading`, `Commands` | loading of specs and the commands around a collection, as programs |
| `Collectors` | the machine that runs these programs |
| `CollectorPaths` | its paths as one file, one failure or one object sees them: hypotheses of the theorems |
| `AnalyzerProgram` | the notation for analyzers: the same steps, results, and rules for the loops over outcomes |
| `ClusterAnalyzers`, `HostAnalyzers`, `LocalAgent`, `Agents` | analyzers, agents and engine, as programs |
| `Analyzers` | the machine that runs them |
| `AnalyzerPaths` | its paths without the spec: hypotheses of the theorems |
| `SchedulerProofs` | theorems about `Scheduler` and `CronField` |
| `BundleProofs`, `RedactStreamProofs`, `TokenizerProofs`, `CollectorRunProofs`, `CollectorsProofs`, `AutoDiscoveryProofs`, `AnalyzersProofs` | theorems about the module they are named after |
| `MC...` | instances for TLC |

Some definitions are preceded by mutated forms of themselves (`NeverRunning` of
`AlreadyRunning`), marked as such: plausible bugs that a property must catch.
They are not part of any specification.

### Scheduler

Every file system call is a step: `os.WriteFile` truncates (`OpenTruncated`) and
then writes (`WriteOpened`), a listing globs once and loads file after file
(`ListOne`). `cli[c]` is a CLI process, `pc`, `todo`, `listed`, `at` are the main
loop of the daemon, `work[w]` is a goroutine of `executeJob` or, after the daemon
has stopped, the process it had started. `tick` is the channel of the ticker,
which holds one tick and drops others. The clock counts half minutes, so that
minute and 90 second cooldown are 2 and 3. The identity of a job is a number,
its schedule a record of fields; wording, log files and arguments are left out.
`runs`, `deleted` and `began` are history variables.

### Bundle and BundleContract

`pc` is the run; `keys` and `mem` are the results map (nil values stand for
files); `disk[f]` is what a file holds: raw, masked, truncated (`torn`), or
nothing. For each of the two `RedactResult` calls (`host`, `cluster`) there are
the results still to start, the error channel, and for each result `red[p]`, the
step its goroutine is at, and `got[p]`, what it has read or written to its
temporary file. `Return` includes the deferred `RemoveAll`. A link's goroutine
works on the file the link points to, together with the goroutine of the file
itself. The redaction of one file is one step (`Mask`); `RedactStream` is about
what happens inside. A run picks the failures it may meet from `FaultSets`.
`ArchiveBundle` creates the file, copies result after result, passes over one that
is a directory (`"dir"`), and ends in deferred calls of `Close` whose errors are
dropped: `whole` says whether the end of the archive has come to the disk, and
nothing in the code looks at it.

`BundleContract` knows only stages: results are gathered, `ArchiveBundle` comes to
each of them once, and only then is the archive delivered; it is returned as good
only if every file in it is clean; afterwards nothing changes. That the archive is
whole is no part of it, because the code does not see to that (`ArchiveIsWhole` fails).
The mapping of `Bundle` takes the stage from `pc` and hides goroutines, files,
channels and the directory.

### RedactStream

A line is the set of redactors whose selector it matches, the set of redactors
that find a secret in it, and whether it exceeds `SCANNER_MAX_SIZE`; the
regular expressions themselves are inputs. Pipes are synchronous, as `io.Pipe`:
a redactor goes on when its line is read. `flush` is `flushLastLine` of the
multi line redactor (`first` before its loop), and `foundMatch` of the YAML one.
The chain depends on the file's path, so it is chosen in `Init`: `getRedactors`
gives every file single line and multi line redactors, in this order, and those of
YAML paths and of the user come behind them. At the end of its input a multi line
redactor that has a line to write, and a YAML redactor always, takes the outcome of
its own last write for that of its input (`Forgets`). `passed[i]`, the
number of lines of redactor `i` that have been read, is a history variable: it
says at which place of the file a line in a pipe stands.

### Tokenizer

`tokenMap` and `reverseMap` are the two maps, `refs`, `groups`, `found` and
`cache` the tables of files, duplicates and statistics, `work[f]` the goroutine
of a file. A look-up is a step under the read lock and an entry a step under the
write lock; the switch that turns tokenization on is read where the redactors
read it, so that a goroutine left behind by a failed round meets it switched off.
What a redactor looks up is an `Occurrence`, of one of four kinds: the secret of
the first match in a line (its token then covers the other matches, `covers`), a
further group of that match, the secret of a literal redactor, looked up for
every line whether it is there or not, and the text at a YAML path, looked up
with the pattern of the redactor (`Glob`) for a path; another value there is
masked without a token. Statistics count these look-ups. Hashes are a constant
function of secret and context, of which nothing is assumed: all secrets may
collide. `resolveCollision` tries `Variations` suffixes and then takes the clock,
unchecked, as the code does.

### CollectorLoop and CollectorRun

The list of specs (`EnsureCollectorInList`, `DedupCollectors`, order; `ElementsAt`
takes the elements at some places of a list, in their order); those that
`GetCollector` does not know are dropped without an event (`DropUnknown`). Then the
access reviews one by one, `allCollectorsMap` whose types are visited in any order,
`Merge`, `EnsureCopyLast`, then each collector: excluded, refused, run
with a result, run with an error, or cancelled. `keys`, `memory` and `disk` are
the results map and what it stands for. `CollectorRun` continues: a bundle
redacts, a preflight runs its host and remote collectors and the analyzers; both
archive. `told` are the events on the progress channel. A result of an analyzer is
a set of verdicts (`Verdict`): none, one or several of pass, warn and fail, as the
three flags of the code allow.

### AutoDiscovery

The flags choose namespaces, in any combination: `-n` makes the patterns
unimportant, exclude patterns are stronger than include patterns, and a list that
comes out empty means all namespaces (`Selected`). `waiting` are the collectors
whose check waits for the semaphore, `checking` those whose review is under way,
at most `MaxChecks` at a time; `cache` is shared between them and outlives a
discovery. A pattern is the set of namespaces it matches. Then follow the merge
with the collectors of the specs and the conversion back.

### Collectors and Analyzers

Some hundred functions have the same shape: call, look at the error, save,
go on or return. A program of `CollectorProgram` has one step for each such call,
named after it, and says what the code does with its error: `abort` (return nil,
err), `stop` (return output, err), `note` (a result of its own), `pend`, `skip`
and so on. Branches on data are `If` (any outcome); loops run over two items.
`Collectors` executes a program with faults: `output` is what is returned, `disk`
what was written, `told` the failures that reached a file or the error, `held`
the objects that exist, `deferred` those freed on return, `deadline` a context.

An analyzer is a program too; its loops over outcomes are `Outcomes(rule)`, where
a rule says for every kind of outcome and condition what the code does with it.
`Analyzers` executes the program over every spec. A rule that some outcome meets
in two ways is written with `IF`, in the order of the code, because TLA+ gives the
arms of a `CASE` no order.

A collector that calls another one contains its steps (`longhorn` those of
`CollectLogs`, `goldpinger` those of `CollectRunPod`), so that what the inner one
leaves behind is the outer one's too. In `hostHttpLoadBalancer` the goroutine that
listens may fail at any time, and only the head of the loop looks at its channel.

A condition that is well-formed and false of the data is one thing, and a term that
the code does not know another. `Guessing` names the rules that read such a term as
something else, for which the data may then hold (`odd`): an unknown word of
`nodeResources` is `count()`, an unknown level of Ceph is compared.

The code does not always have the properties that the machines check. The
constants of `Collectors` and `Analyzers` name, for each program, the exceptions:
the steps whose failure loses written files (`Dropping`), the files of another
collector that are copied and stay (`Leftover`), the failures that are only
logged (`Silent`), the objects left behind (`Leaking`), waits without a deadline
(`Endless`); the rules that do not take the first match (`Ignoring`) or pass over
a malformed condition or guess (`Forgiving`), the data an analyzer may pass
without (`Trusting`), analyzers without a result or with an unclear one
(`Undecided`, `Unclear`) and panics, for nil or for an index beyond a list
(`Panicking`). The tables are in `MCCollectors` and `MCAnalyzers`. Each entry is
a place to review; the properties say that there are no others, and a change of
the code that adds one fails the run.

The machines are run with two faults and with specs of two outcomes. That the
programs are right for any number is checked on their paths. `CollectorPaths`
follows one file, failure or object at a time through a program and forgets how
many calls have failed; `AnalyzerPaths` forgets the spec and lets a loop give
whatever its rule may give for some spec. Either way a program has finitely many
paths. `MCCollectors` and `MCAnalyzers` compute all of them (`Reach`), and TLC
evaluates, as assumptions of these modules, that they are closed under the steps
and end well. A program with a bug fails there, and so does a rule that takes one
outcome in a wrong way (`RulesAreInOrder`). The proofs conclude from these
assumptions for every behaviour of the machines (see below).

## Runs

| run | shows |
|---|---|
| `cron_fields` | `FieldsFireAsWritten`: lists fire exactly on their values; steps in fields that count from zero fire where standard cron does |
| `scheduler_faults` | a job with all failures, signals, crashes and restarts: `NoConcurrentExecution`, `RunningJobsExact`, `SaveNeverRollsBack` |
| `scheduler_liveness` | `JobFilesAreSound` (a truncated file has a writer, statistics are earned), `MarkIsCleared`, `DueJobStarts` |
| `bundle_faults` | failures of everything but `Lstat` (which `bundle_liveness` has): `NilMeansRedacted`, `CleanBundle`, `DirectoryGone`, `ImplementsContract` |
| `bundle_liveness` | `EverythingEnds` (run and redactors); `BundleDelivered`: races alone never cost a bundle |
| `redact_stream` | `SecretsAreMasked`, `LinesKeepTheirPlaces`, `ErrorsReachTheCaller`, `ChainEnds` |
| `tokenizer` | `MapsAgree`, `SecretsKeepApart`, `SameSecretSameToken`, `RedactionMapIsRight` (statistics, coverage of the files, map file) |
| `collector_run` | `CopiesRunLast`, `NothingIsUnanswered` (every collector asked for, of a known type, runs or is reported; errors are kept), `PreflightIsStrict` (missing permissions stop it; zero hides no failure and no warning, and a warning no failure that has not warned), `NamesHaveFiles` (a result has a file when the archive is made) |
| `collectors` | `ResultsMatchFiles`, `FailureIsSeen`, `NothingLeaks`, `Returns`, up to the tables above; the assumptions `FilesAreKept`, `FailuresAreTold`, `ObjectsAreFreed` for any number of faults |
| `analyzers` | `OutcomesDecide`, `LostIsNotPassed`, `VerdictIsGiven`, `NothingPanics`, up to the tables above; the assumptions `RulesAreInOrder`, `PathsAreClosed`, `PathsAreSound` for specs of any length |
| `autodiscovery` | `PermissionsDecide` (only refused collectors are left out, none of them runs), `FlagsDecideNamespaces` (for every combination of flags), `KnownCollectorsAreMerged`, `DiscoveryEnds` |
| `auto_yaml` | refuted: with `--auto` a collector of the specs whose type the conversion does not know is lost |

A property that combines several is a conjunction of named parts in the module
of the component; where there is a type invariant it is one of them. Deadlock is
checked in `collectors`, `analyzers`, `collector_run` and `autodiscovery`, whose
specifications stutter at the end; elsewhere a run returns, a stream ends or the
bounded clock stops, and `CHECK_DEADLOCK FALSE` is set.

### Bounds

* `CronField`: every step from -1 to beyond the largest range and lists of up to
  two values at the borders of all five ranges. A longer list is a union of such
  lists, because both functions treat its elements one by one.
* `Scheduler`: one job; two goroutine slots are enough to have two executions of
  it; with `MaxTime = 6` the daemon sees three minutes, so that two runs and a
  save between them fit; `MaxStarts = 2` has one restart. The proofs are about
  any number of jobs.
* `Bundle`: an error report, a file with a link to it and a tar archive are one
  of each kind that the code tells apart, two rounds, and two concurrent
  redactors of three, so that the semaphore is met at its limit. A run of
  `bundle_faults` may meet failing collectors, saves, redactions and uploads, or all
  failures but those of collectors; a failed collector adds a report to the results
  and no other step.
* `RedactStream`: four lines are two pairs, or a pair and an odd line on either
  side; the chains begin as the code builds them, with a single line and then a multi
  line redactor, and go on with a second multi line, a YAML or a single line one.
  The proofs take any number of lines and redactors.
* `Tokenizer`: three files in two rounds with up to two look-ups each, of every
  kind, for five secrets whose hashes all collide, two of which normalize to
  others; one suffix stands for the 100 of the code, so that the clock is reached.
  The proofs take any number.
* `CollectorRun`: all lists of up to two of eight specs that differ in what the
  loop looks at (known or not, named, excluded, malformed exclude, namespaces), and
  all sets of up to two results, with any verdicts; with the two
  that the code adds there are four, and merging, order and refusal interact. The
  proofs take any lists.
* `AutoDiscovery`: two namespaces, one of the system; one type per namespace, one
  part of a KOTS application; two checks at a time (ten in the code) of five or
  more collectors; one request or deadline that fails. The
  proofs take any number of each.
* `Collectors`: two faults per run, so that a failure meets a failing report or
  clean-up; loops over two namespaces or items, so that one may fail and the
  other not. The proofs take any number of faults.
* `Analyzers`: specs of up to two outcomes, where first and last differ; any
  number of failing reads. The proofs take specs of any length.

### Fairness

Weak fairness of each goroutine and of the main loop in `Scheduler`, `Bundle` and
`RedactStream`: the Go scheduler runs whatever can run, and blocked operations (a
full channel, an unread pipe) are not enabled in the models. In `Scheduler` this
assumes that a started collection ends; the code waits for it without a deadline
(`daemon.go:279`), and nothing would make `MarkIsCleared` true otherwise. CLI
processes, signals, crashes and the clock are not fair. `StagesEnd` (a part of
`ChainEnds`) is claimed for files without too long lines: a scanner that gives up
does not read on, and the goroutines before it in the chain stay blocked (a
leak). In `Collectors` every step is fair but the waits that have no deadline
(`Wait`), and `Endless` names the programs that have one; in `AutoDiscovery` the
goroutines and the main function are fair, and requests end because their context
has a deadline.

### Assumptions

* Requests to the API server and system utilities end, well or badly. Deleting an
  object works unless the context has expired.
* The disk does not refuse writes inside the loop of `CollectorRun`; it does in
  `Bundle` and `Collectors`.
* Secret hashes of 128 bits, by which the tokenizer finds duplicates, do not
  collide; truncated ones, which make the tokens, do.
* Permissions do not change during one discovery.
* An outcome of a spec has exactly one of pass, warn and fail, or none of them (a
  result may have several).
* The images of a namespace are inspected one after the other; a clean-up that a
  called function defers happens at the end of the program; a request fails for
  its certificate at most once.

## Proofs

The theorems hold for every value of the constants that satisfies the named
assumption of the module (`SchedulerAssumption`, `NaNAssumption` and
`FieldsAssumption`, `BundleAssumption`, `StreamAssumption`,
`TokenizerAssumption`, `ConstantsAssumption`, `NamesAssumption`,
`RequestsAssumption`): sets and natural bounds of the right kind, nothing about
their size. TLC evaluates each of them. `FilesAreSound` and the theorems of
`CollectorsProofs` and `AnalyzersProofs` have hypotheses of their own; they are
explained below, and TLC evaluates them in a run (or they hold in one).

### Scheduler and cron fields

* `TypeCorrect`, `MutualExclusion`, `MarksMatchGoroutines`. Mutual exclusion
  alone is not inductive: that a job without a mark has no goroutine is what makes
  the check in `checkAndExecuteJobs` sufficient, and that a goroutine is the only
  one of its job is what makes removing its mark harmless. `ExecInv` joins both,
  and adds that a daemon that is down has no marks, so that `Start` begins with
  none.
* `SavesGoForward` (`SaveNeverRollsBack`) and `OnlyRunsAreCounted`
  (`StatsAreEarned`). `saveJob` writes a copy that is older than the run. `CopyInv`
  follows the copies of a job, in its file, in the daemon's listing and in its
  goroutine: `KnownInv` and `NewInv` say where copies can come from (a client that
  creates a job has an identity nobody else has), `EarnedInv` that no copy claims
  more than has happened, `ListedInv` that a listed copy is one run behind the file
  at most, and `WorkInv` that it is not behind at all while the goroutine that
  would count that run lives; the last needs `ExecInv`, since a second goroutine
  of the job would get in between.
* `FilesAreSound` (`JobFilesAreSound`) assumes `Quiet`: writes succeed, nothing
  crashes, no signal comes, as in `scheduler_liveness`. Otherwise a truncated job
  file may well stay behind.
* `FieldsAlwaysFireAsWritten`, from `CronInv`: a field has fired on exactly those
  of the values so far that match.

### Bundle

* `BundleTypeCorrect`, `RedactedWhenNil`, `BundleIsClean`, `DirectoryStaysGone`.
  `BundleInv` is the conjunction of the types and of
  - `PcInv`: at most one `RedactResult` is being waited for;
  - `RoundInv`: a failed round is remembered in `errs`, and without an error
    each result belongs to a round that is under way or has redacted it;
  - `RedactorInv`: what each goroutine knows at each step; in particular a file
    whose redactor is past `Remove` is not raw, even though a second redactor
    works on the same file;
  - `DiskInv`: a truncated archive has a redactor that writes it or has failed;
  - `ArchiveInv`: no result is lost between `left`, `stat` and `archive` (where it
    is copied or passed over), and what is copied without an error is masked. It
    does not say that the archive is whole.

  The heart is that a nil return means that no goroutine of the round is left
  (`AllRedacted`), which the nil branch alone establishes: after the first error
  the same cannot be said.
* `BundleRefinesContract`: every initial state of `Bundle` maps to one of
  `BundleContract`, and under `BundleInv` every step to a step of it or a
  stutter. The invariant is needed where the contract asks for more than the code
  tests: that `ArchiveBundle` has come to everything gathered when it closes the
  archive (`ArchiveInv`), and that what is returned as good is clean (`RoundInv`).

### Redactors

`RedactorsMask`, `PlacesAreAlwaysKept`, `ErrorsAreNotLost`. What comes out of
the chain says nothing of the lines that are still inside, so `StreamInv`
describes every redactor by what it holds, how many of its lines have been read
and how many it has read itself (`StageInv`): each of its lines is masked by the
redactors so far (`Good`) and stands at its place (`Placed`), a redactor of two
lines is in step with the selectors of the file (`Flushed`), and one that has
ended has given all but its last line (`Enough`). These speak of one redactor at
a time; a line that passes from one to the next changes two of them. `SourceInv`,
`ResultInv` and `CloseInv` are about both ends of the chain and how its pipes are
closed; `CloseInv` follows an error from where it arises: the redactors behind it
are open and will see it, or have closed with an error, or one of them has
forgotten it. Hence `ErrorsAreNotLost` says of every chain, in particular of those
that `getRedactors` builds, which redactors an error gets past and which not.

### Tokenizer

* `TypeCorrect`, `MapsStayInAgreement`, `SecretsStayApart`,
  `TokensAreConsistent`. Only a look-up that misses writes the two maps
  (`OnlyFreshWrites`), and it writes both under one lock. The token it takes is
  free, held by the same secret, or has its suffix from the clock
  (`FreshIsFree`); with the agreement of the maps, a token that is free in the
  reverse map is held by nobody in the other, so that two secrets stay apart
  (`FreshKeepsApart`). The token of a secret never changes once it is there
  (`TokensAreKept`), which makes what was written into files earlier still right.
  `SameSecretSameToken` is about the secrets that redactors ask for; those covered
  by the token of another are not in the maps (`EverySecretHasItsToken` fails).
* `StatisticsAddUp`: one look-up, whether the secret is in the file or not, adds one
  place to what was tokenized (`AddPlace`) and one to each count it belongs to
  (`CountsGrow`), for the path the redactor gave. A value that is masked without a
  token adds none (`AddMask`). Counting needs finite sets, which `StatsInv`
  therefore includes.
* `MapsCoverFiles`: `RoundInv` says that goroutines of a round without an error
  end before the next, and see the switch on; hence nothing is masked the old way
  but what is no text or empty (`NoMasks`), and the map file, once written, has
  what the files have (`MapFileInv`). That it never lists fewer secrets than
  tokens follows from the agreement of the maps, because the tokens are an image
  of the secrets (`CountsCompare`).
* `RedactionMapIsAlwaysRight` joins both (`RedactionMapIsRight`).

### The loop over collectors

* `PreflightsAreStrict`, `ArchivedNamesHaveFiles`, `FailuresAreOnRecord`, for any
  lists of collectors, answers and flags of the results. That zero means "all
  passed" is not among them (`ZeroMeansAllPassed` fails). `RunInv` adds to the
  properties what happens before they apply: `PermissionInv`, that a refusal told
  during the check is remembered in `foundForbidden` when the collectors would be
  run; `ExitInv`, that there is no exit code before the end; `FileInv`, where
  each name has its content at any time: in a file, or in memory until the
  results are redacted.
* `CopiesAlwaysRunLast` (`CopiesRunLast`), for lists of any length. The order of
  types is random, so nothing is known of the list until `EnsureCopyLast` has
  sorted it: `EnsureCopyLastIs` says that the copies are behind the others and
  that nobody is lost. `CopyInv` carries this through the loop: what is left to
  run is sorted, and once a copy has run, only copies are left.
* `RequestsAlwaysAnswered` (`NothingIsUnanswered`). `AnswerInv` says of each
  collector asked for that it is to be checked, has been checked and waits to be
  merged, is in the list that is run (itself, or one that covers its namespaces),
  or has been answered; each step moves it on. A spec that `GetCollector` does
  not know is never answered, and the property leaves it out. Merging and
  deduplication may drop a spec only for another that covers it (`MergeIs`,
  `CollectSpecsIs`), and the exclusion of the first spec of a merge answers for
  the others (`LedByExcluded`), as in the code. `TypeInv` gives the lists their
  types.
* The lemma both rest on is `ElementsAtIs`: the elements of a list at some of its
  places, in their order, are those elements, each once. It needs that a set of
  places has exactly one place of each rank (`RanksAreUnique`): ranks grow by one
  at most, so the least number whose rank reaches `n` is a place and has it
  (`LeastIs`). That is a minimum of a well-founded order, which takes no induction
  theorem with an operator as parameter.

### Autodiscovery

`ReviewsDecide`, `FlagsAreFollowed`, `MergeLosesNothingKnown`. `DiscoveryInv`
says for each phase what is settled already: `MeansInv` carries what the flags
select (`asked`) through three functions, the empty list that means all
namespaces included; `GeneratedInv` says which collectors there are and that
theirs are these namespaces; `CacheInv` that a resource is granted or refused and
not both, and that a collector no goroutine is concerned with any more has been
decided, in whatever order the goroutines met the cache and the semaphore;
`FilteredInv` that what is filtered out is what is reported.

### Collectors

`ResultsAlwaysMatchFiles`, `FailuresAreAlwaysSeen`, `NothingEverLeaks`
(`ResultsMatchFiles`, `FailureIsSeen`, `NothingLeaks`), for any programs and any
number of faults. Each assumes that jumps lead to steps (`ProgramsAreWellFormed`)
and that there are paths of each file (failure, object) of each program that are
closed under the steps and end well (`FilesAreKept`, `FailuresAreTold`,
`ObjectsAreFreed`). These hypotheses are constant; TLC computes the 262578 paths of
the 79 programs and evaluates them.

What has to be proved is that the paths leave nothing out that the machine does.
`Effects` brings the fifteen actions into two forms, a step that passes and one
that fails, with what each does to every variable. `NamesAreOfSteps`, a part of
`TypeInv`, says that every file, failure and object has its step in the program,
hence has paths. The invariants `FileInv`, `FailureInv` and `ObjectInv` say that
where the collector is and the marks of the thing (`FileMarks`: it is on disk, it
is in the result, files have been dropped, the disk has refused a write) are one of
its paths; `FilePassStep`, `FileFailStep` and their like show that a step of the
machine moves the marks as the paths say. The paths of failures need one thing
more than the program text: while a failure waits to be reported, the list of
errors is not empty, so the code that saves it is not passed by.

### Analyzers

* `FirstOutcomesDecide` (`OutcomesDecide`): the loops over outcomes are right for
  specs of any length if each rule is right for one outcome (`RulesAreInOrder`),
  but for the rules of `Ignoring` and `Forgiving`, and if programs jump to steps
  they have (`ProgramsAreWellFormed`). Both are about constants; TLC evaluates them
  for all programs and rules, as assumptions of `MCAnalyzers`. `ChosenIs` says what
  a loop does in terms of single outcomes: it stops at the first that is neither
  missed nor marked, and before that has only collected marks.
* `WhatIsLostDoesNotPass`, `VerdictsAreGiven`, `NilIsNotDereferenced`
  (`LostIsNotPassed`, `VerdictIsGiven`, `NothingPanics`), for specs of any length
  and any data. They assume `ProgramsAreWellFormed` and paths that are closed
  (`PathsAreClosed`) and sound (`PathsAreSound`); TLC computes the paths and
  evaluates both. The invariant is `PathInv`: while an analyzer runs, where it is,
  its results, whether it has lost what it needs and whether the spec has had to
  decide are one of the paths. The step that matters is a loop over outcomes: what
  it gives is what the rule may give (`ChosenGiven`), and a spec whose last outcome
  has no condition makes it give something (`DecisiveStays`).

### Only model-checked

* All liveness properties: they rest on fairness, which the prover does not
  handle.
* The hypotheses about paths and rules, which are constant: TLC evaluates them for
  the programs of the code, once for all behaviours.
* `YamlCollectorsAreKept`, which does not hold (`auto_yaml`).

## What the code does not do

One disagreement between a comment and the code has a run, `auto_yaml`, and an
entry under `findings`. Twelve others are stated as properties of their module and
can be seen by naming one of them in a cfg in place of its own properties, as an
INVARIANT (`OncePerMinute` and those of `AutoDiscovery` as a PROPERTY). About include
and exclude patterns the repository disagrees with itself: the warning at
`auto_discovery.go:291` says the opposite of what the scanner does.

| property | cfg | shows |
|---|---|---|
| `DeletedStaysDeleted` | `Scheduler_faults` | a job deleted while it runs is written back (`daemon.go:323`) |
| `OncePerMinute` | `Scheduler_faults` | a job is started twice in a minute, on the cooldown of a stale copy (`daemon.go:117`) |
| `DeliveredIsRedacted` | `Bundle_faults` | after an error of a redactor, unredacted files are delivered (`collect.go:226`) |
| `ArchiveIsWhole` | `Bundle_faults` | an archive whose last bytes did not come to the disk is returned as good: the errors of the deferred calls of `Close` are dropped (`result.go:322`) |
| `EverySelectorMasks` | `RedactStream` | a selector in the line after a selector masks nothing (`multi_line.go:125`) |
| `EverySecretHasItsToken` | `Tokenizer` | several secrets that one expression finds in a line get the token of the first (`redact.go:543`), against "Reversible mapping" in `docs/Person-2-PRD.md` |
| `ClusterResourcesFirst` | `CollectorRun` | the order of types is random, against the comment at `collector.go:253` |
| `AddedResultsAreArchived` | `CollectorRun` | results of remote collectors of a preflight are in memory only, and the archive fails (`result.go:85`) |
| `ZeroMeansAllPassed` | `CollectorRun` | a result without a verdict leaves the exit code 0, which is for "all checks passed" (`run.go:267`) |
| `OnlyIncludedNamespaces` | `AutoDiscovery` | include patterns that match nothing select all namespaces (`root.go:152`) |
| `IncludeTakesPrecedence` | `AutoDiscovery` | exclude patterns take precedence, against the warning at `auto_discovery.go:291` |
| `SystemNeedsItsFlag` | `AutoDiscovery` | without patterns the namespaces of the system are discovered, against the default of their flag (`root.go:153`) |

The models also show the following.

Scheduler, bundle and redactors:

* a run of a job that fails does not set `LastRun`, and may be started again in
  the same minute; a daemon that is stopped between truncation and write leaves
  an empty job file that every later listing skips; a restarted daemon may
  collect a job whose process still runs; steps in the day and month fields are
  multiples, not steps from one;
* a redactor left behind by an error, a report of a failed collector or an
  execution summary that could not be written cost the whole bundle at
  `ArchiveBundle`, because the results map names files that are not there;
* multi line and YAML redactors overwrite the error of their input; since every file
  has multi line redactors, an error of those before them (a line that is too long)
  may cut it off unnoticed; the last line after a masked pair is lost;
* tokenizer: the suffix from the clock is not compared with other tokens;
  `normalizeSecret` is not idempotent; tokens with a suffix do not match
  `ValidateToken`; the key of an encrypted map is not stored; the live maps are
  read without the lock while the map is built; a line whose second look at the
  switch finds it off becomes its bare pattern (`redact.go:503`); literal
  redactors count their secret on every line, YAML redactors under their pattern
  instead of the file, and a YAML value that is no text is masked without a token
  (`yaml.go:95`).

The loop (`collector_run`):

* `foundForbidden` of a bundle is reset for each type (`collect.go:136`);
* merged cluster resources take exclusion and refusal of the first spec;
* an error file whose name has a `/` is never written, and a name without a file
  fails the archive; a preflight drops the results that come with an error;
* a spec whose type `GetCollector` does not know is dropped without a word
  (`collect.go:112`);
* a result that warns and fails counts as a warning (`run.go:268`), and an
  analyzer that ends with an error counts for nothing (`download.go:45`).

Collectors (`collectors`):

* replica sets are saved below the name of an errors file
  (`cluster_resources.go:235`), and cannot be when that file exists;
* the previous log of a container stays open (`logs.go:217`), and a log whose copy
  failed stays on disk outside the result (`logs.go:195`); both hold for the
  collectors that call `CollectLogs`, `longhorn` among them;
* the load balancer of HTTP loses a listen error that comes after its last look
  (`host_httploadbalancer.go:88`);
* `runRemoteHostCollectors` leaves its daemon set on every error before line 483;
  image pull secrets stay when the pod cannot be created, goldpinger's too, whose
  other objects stay on an early error;
* listeners of the load balancer collectors stay, the accepting goroutine spins;
  `GetBlob` closes the body it returns; an fio `fileSize` out of range runs a nil
  command; a malformed CIDR gives no result and no error;
* a spec that cannot be downloaded or decoded costs a warning, redactors too; the
  body of a refused answer stays open (`load.go:259`); the updater leaves the
  extracted file after a failed check and no binary if undoing fails; a failed
  auto-upload leaves the exit code at zero; a callback that fails after the
  upload is reported as a failed upload (`supportbundle.go:285`); `diff` compares
  truncated entries as they are.

Analyzers (`analyzers`):

* nil dereferences: `mysql.go:88` (the warn branch reads the pass branch),
  `kube_resource.go` (the same with fail; a condition without a value), a config
  map or secret without a fail outcome, stateful sets and sysctl without outcomes,
  a velero image without a tag, a package line that begins with a colon, a null
  entry in the answer of the hosted service;
* an index beyond the list in a path of `clusterResource`, `yamlCompare` and
  `jsonCompare` (`interfaceutils.go:23`);
* terms nobody knows: `nodeResources` reads an unknown word as `count()` and an
  unknown sum as 0 (`node_resources.go:180`, `:345`), Ceph compares an unknown level
  (`ceph.go:222`), the CPU analyzer of a host takes any word before
  `supports` and `hasFlags` (`host_cpu.go:127`);
* results that are lost: `cluster_container_statuses.go:119`, errors of file
  system performance without outcomes, errors of reading velero's logs;
* host analyzers do not parse the content for an outcome without a condition, and
  give no result without a list of nodes; CRDs may be marked as warning and
  failed at once; a missing Ceph gives a nil result;
* some twenty analyzers of the local agent pass without reading anything
  (`local_agent.go:1657`), pods without a status are healthy, a secret without
  data passes, and of a delegated analyzer only the first result is kept;
* the engine returns no error when all agents fail; the agent of Ollama shows the
  model another file, or the beginning of one, without saying so.

Autodiscovery (`autodiscovery`): the detection of KOTS applications searches all
namespaces; patterns given together with `-n` are ignored (`auto_discovery.go:127`);
a review that fails allows the collector.

## Not modelled

* Bundles kept in memory only; the members of a tar archive one by one (`Unpack`
  is one step, with the same code as the results themselves).
* How values are computed: regular expressions, conditions of outcomes, templates
  of messages, sizes and versions are inputs. They are pure functions with table
  tests.
* Which redactors the defaults and the specs build, and their report.
* In the local agent: `Analyze`'s bookkeeping, `discoverAnalyzers`, the analyzers
  of events, of the cluster version, of container runtimes and distributions that
  only format; artifacts, remediation and generated analyzers.
* Output, terminal screens, flags, lint, conversion and templating of specs,
  traces; generated code, API types and the client copied from Longhorn.
* What a goroutine of `exec` that was left behind by a timeout writes later, into a
  file that the next command may write too (`exec.go:54`): programs are sequential.
* Accesses to Go maps that the code protects with a mutex are not split.

## Plan

Every safety property of a run that passes has a theorem. Next: bundles in memory,
the members of archives, and the list of redactions that is kept for the report,
with the names of its redactors; then the programs of the local agent that are not
modelled yet, whose paths the existing theorems take without a change.

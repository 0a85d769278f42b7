# ShadowDNS: TLA+ models and proofs

ShadowDNS is an authoritative DNS server that reads BIND configuration, serves
*backup* domains from the zone of a *root* domain by aliasing, and selects
answers by view. It runs as one Go process with many goroutines. This directory
models the parts of it whose correctness depends on order, interleaving and
failure, and the resolution of queries that aliasing makes intricate, with TLA+
modules, TLC configurations and TLAPS proofs.

- `tlc -config X.cfg M` checks module `M` under configuration `X`;
  `PROJECT.json` ("runs") pairs them.
- `tlapm M.tla` checks the proofs of a module `M` whose name ends in `Proofs`.
- `PROJECT.json` also maps every definition to the lines it models, lists the
  hazards, and names for each property a mutant of the model that violates it.

## 1. Inventory

### Components

| Component | State it keeps | Operations | Hard because | What makes it correct |
|---|---|---|---|---|
| SIGHUP reload (`cmd/shadowdns/main.go` `reload`, `server.SwapState`) | atomic pointers: `ServerState`, limiter, query logger, query-log record, GeoIP handles | load, build, open, publish, close old, notify; deferred release on error | fails at any of seven steps; handlers load the pointers one by one | all or nothing; nothing in use is released; nothing released is left open |
| Signals and shutdown (`runSignalHandlers`, end of `run`) | two channels of capacity 1, two contexts, a wait group, the PID file | receive, act, drain; stop, cancel, join, deferred close; `shadowdns reload` | signals coalesce or vanish; `Serve` may return under a live context; processes overlap | join before cleanup; both goroutines end; a signal is acted on; the PID file is true |
| Query handler (`internal/server/handler.go`) | one snapshot per query | limiter load, early replies, snapshot, view, log, answer | three separate atomic loads | one state per answer; limiter never newer than it |
| Zone state building (`build.go`, `fingerprint.go`, `zone/parser.go`, `zone/classify.go`) | zones and fingerprints per view and origin | stat, hash, decide, reuse or parse, classify, swap | files change between the looks at them; reuse crosses reloads | reuse only what is on disk; the role follows the aliases |
| Log sinks and rotation (`logging/reopen.go`, `packaging/logrotate.shadowdns`) | a descriptor per sink | open, write, reopen, close | logrotate, SIGUSR1 and reload are three actors | after a rotation the logs go to the new file or an error is logged |
| Ephemeral TXT store and API (`internal/ephemeral`, `internal/api`) | map of slices of entries with expiry | put, lookup, delete, delete value, clear, sweep | time is sampled outside the lock; three-step sweep | sweeps are invisible; order and uniqueness; memory is reclaimed |
| Rate limiter (`internal/ratelimit`) | sharded LRU of credit accounts | decide, charge, touch, evict | two charges per response with one clock reading | what an account lets through is bounded; it recovers; the table is bounded |
| Listeners and lifecycle (`server/listener.go`, `listenaddr.go`, `httpserver`) | sockets, HTTP servers | bind in pairs, serve, drain | halves fail and listeners die one by one | Serve returns once, every return of `run()` leaves nothing behind |
| Alias resolution (`internal/alias`), lookup and CNAME collapse (`internal/zone`) | immutable zones | detect, override, rewrite, wildcard, collapse | many cases, recursion through CNAMEs | a backup answers as a rewritten copy of its root would |
| View matching (`internal/view`) | rules, mmdb readers | match, resolve | nested, negated lists | first matching view |
| Transfer and NOTIFY (`internal/transfer`) | none; a goroutine per target | AXFR, NOTIFY with retries | retries under one deadline; views share zones | AXFR agrees with query answers; a target is told once, and in bounded time |
| DoH and ACME (`internal/doh`) | certificate, HTTP-01 challenges, account key file | load key, register, obtain, renew, serve, stop | renewal in the background, attempts that hang, crashes | one account; a lapse takes failures; shutdown in one timeout |
| prune-backup (`internal/prunebackup`) | zone files on disk and their `.bak` | plan, back up, replace | crash between files and between the steps of one | every file is whole at any time, restorable, and answers stay |
| Configuration parsing, EDNS and cookies, query-log format, metrics, command line | none that is shared | parse, encode, count | sequential | unit tests reach it |

### Interactions

`run()` loads everything, starts the SIGHUP and SIGUSR1 goroutines and the
HTTP servers, and blocks in `Server.Serve`. The SIGHUP goroutine is the only
writer of the published pointers after startup. `ServeDNS` handlers (UDP, TCP
and DoH) load limiter, state and query logger. API handlers read the origins of
the state and write the ephemeral store, which DNS handlers read, `reload`
clears and a ticker sweeps. SIGUSR1 reads the query-log record and reopens its
sink while `reload` may be replacing it. NOTIFY goes out after a swap, and
secondaries answer it with AXFR queries.

The hazards that follow from this are listed, with their lines and the
properties that cover them, in `PROJECT.json` ("hazards").

## 2. Modules

| Module | Models | Kind |
|---|---|---|
| `Reload` | `reload()`, the two signal goroutines, the end of `run()`, query handlers, API puts, GeoIP memory | core specification |
| `ReloadProofs` | theorems about `Reload` | proofs |
| `ZoneReload` | `BuildState` in a reload: fingerprint, reuse, parse, role | specification |
| `LogReopen` | logrotate, SIGUSR1 and the query-log part of `reload()` | specification |
| `ReloadPartsProofs` | theorems about `LogReopen` and `ZoneReload` | proofs |
| `TxtStore` | what the ephemeral store promises to DNS clients | abstract specification |
| `EphemeralStore` | `ephemeral.Store` and the API's put | specification, implements `TxtStore` |
| `EphemeralStoreProofs` | theorems about `EphemeralStore`, the refinement of `TxtStore` | proofs |
| `RateLimiter` | `Limiter.Decide`, `creditAccount`, the LRU table | specification |
| `RateLimiterProofs` | theorems about `RateLimiter` | proofs |
| `ZoneData` | the parsed zone: insertion, filter, lookup, wildcards, CNAME chains (`internal/zone`) | operators |
| `Alias` | rewriting, withholding and the stages of a backup answer (`internal/alias`) | operators over `ZoneData` |
| `Resolve` | zone files, queries, ephemeral records and transfers of a root and its backup | specification over `Alias` |
| `ResolveProofs` | theorems about `Resolve` | proofs |
| `Lifecycle` | `run()` from start to exit, listeners, PID file, reload command, several processes | specification |
| `Notify` | `dispatchNotifies` and `sendNotifyWithBackoff` | specification |
| `ServerProofs` | theorems about `Lifecycle` and `Notify` | proofs |
| `CertManager` | the certificate loop, the account key file, the challenge | specification, part of the next |
| `DoHServer` | `doh.Server.runWith`: `CertManager` composed with the two listeners and their shutdown | specification |
| `DoHProofs` | theorems about `CertManager` and `DoHServer` | proofs |
| `PrunePlan` | what `prune-backup` deletes, next to what the server reads from the same files | operators over `Alias` |
| `PruneBackup` | the command over a directory that crashes, with the plan of `PrunePlan` | specification |
| `PruneProofs` | theorems about `PruneBackup` | proofs |
| `MCReload`, `MCZoneReload`, `MCRateLimiter`, `MCResolve`, `MCLifecycle`, `MCNotify`, `MCPruneBackup` | values of the constants | model checking |

Operators whose comment begins with "Mutant" are wrong versions of the
definition that follows them. No specification uses them; they are there to
show that the properties notice such a mistake. Where one proof module covers two
specifications, one of them has its definitions under names of their own
(`RotationSpec` in `LogReopen`, `NotifySpec` in `Notify`).

### Reload

*Granularity.* One step is one operation other goroutines can see: an atomic
load or store, a channel operation, a critical section, or a loading step
between two of those. `SwapState` is two steps, the pointer store and the
clearing of `withheldLogged`; in between handlers answer.

*State.* Everything an attempt creates is named by the number of the attempt:
`state.gen`, `limiter`, the GeoIP generation, the sink. `state`, `limiter`,
`queryLog`, `qlState` and `geo` are the published pointers; `cfg`, `newGeo`,
`cand`, `newLim`, `curQL`, `newSink` the locals of `reload()`; `qLim`, `qSt`,
`qLog` what a handler has loaded; `mapped` and `openSinks` the resources.
`rpc`, `upc`, `mpc`, `qpc` say where each goroutine is.

*Actions.* `ReceiveSighup` to `DrainSighup` follow `reload()` line by line;
each loading step has a failing alternative that leads to `AbortReload`, the
deferred function. The content of the files is chosen anew by each read.
`Reopen` is one critical section in which an open sink stays open and a closed
one stays closed. `ReclaimGeo` is the runtime cleanup by which the mmdb reader
unmaps memory nothing refers to: it is modelled because the code relies on it
when it drops superseded handles instead of closing them.

*History.* `unread` records that no attempt has read the files since the last
SIGHUP; `EphRec.at` the generation a record was stored under.

### ZoneReload

For one view. A zone file has an abstract body with a size; two of the bodies
have equal sizes. xxhash64 is taken as collision free. Every write gives a
file a new mtime. Stat, hash, parse of the file and parse of the included
fragment are separate steps, and files may change between them. `disturbed`
records that they did, or that an included file changed; `fresh` that the last reload succeeded and nothing has changed
since it began.

### LogReopen

A rotation gives each path a new file, so files are numbered by rotations and
a descriptor is the rotation it was opened under. `PostRotate` is the
`kill -USR1`. `reload()` is reduced to its query-log steps, with a
configuration that changes every time. `crowded` and `crossed` record how the
last rotation came: before the previous one was handled, or while a reload held
a sink it had opened and not installed.

### EphemeralStore and TxtStore

`Put` samples the time, then waits for the lock; `gcSweep` probes, samples,
then locks. `TxtStore` has a set of live records and no sweep. The refinement
mapping is what `Lookup` returns for every name. `Kept` is the loop that both
`Lookup` and `gcSweep` run over a slice, as a recursive function of the number of
its turns. `op` names the last request or
reload in both, so that a sweep cannot pass for a delete.

### RateLimiter

One client block. `Decide` reads the clock, charges the category's account and
then the aggregate account, each under the lock of its shard. A shard's map and
its linked list change together, so a shard is the sequence of its keys. `from`
and `within` belong to an observer who may start counting at any time
(`StartWindow`). Time advances in whole units of the clock reading's
resolution and credit is an integer; in the code it is a `float64`, whose
rounding is left out. The slip counter is kept modulo the cadence.

### ZoneData, Alias and Resolve

*Data.* A name is the sequence of its labels in the lower-case form of
`dnsutil.LookupKey`; letter case and escaped dots are left out. Record data is
one name, or opaque; the types with two names (SOA, RP, PX) have both rewritten
by the same rule, and are represented by one. A zone maps `<<owner, type>>` to
an RRset in file order: the inline and the promoted form of `qtypeStore` hold
the same map.

*State.* `root` and `over` are the root zone and the backup's own zone, `read`
how much of each file has been parsed, `collapse` and `labels` the flags of the
alias group, `store` the names with an ephemeral TXT record, `withheldLogged`
the server's set of reported records (it filters log lines), `out` the last
response. The SOA is a constant: `AddRR` keeps the last one it stored in `z.SOA`,
which is left out since a zone has one.

*Actions.* `ParseRoot` and `ParseBackup` read any record of the file's
possible content, so that TLC visits every zone up to the bound; `Classify`
applies the filter and opens for service. `Query` is one whole
`handleRootQuery` or `handleBackupQuery`: the stages are operators that return
records, NODATA or withheld records, tried in the order of the code
(`RootStage`, `BackupStage`), and `ReplyOf` is the decision of `negativeReply`.
A query is one step because everything it reads is immutable but the ephemeral
store, into which it looks once. `Transfer` is `handleTransfer` with what it
dispatches to. The loops of `FollowCNAME` and `CollapseCNAME` are recursive
functions over the number of turns.

*Properties.* `BackupMirrorsRoot` compares two code paths: the five functions
of `internal/alias` against `handleRootQuery` with its answer rewritten as a
whole. `CollapseAgrees` compares collapsing with following, and `AxfrAgrees`
the transfer with queries. `NxdomainIsTotal` asks all types again after an
NXDOMAIN. `NoRootLeak` and `ChainConnected` assume, when `labels` is set, that
no stored name embeds the root's origin twice, since `RewriteNameAnywhere`
replaces one occurrence, and that the last label of the backup's origin occurs in
the root's at its end only, since otherwise the replacement and the labels after it
could form the root's origin anew (`SingleMarker`). `CollapseAgrees` assumes one
CNAME at a name (`OneCNAME`): with several, `CollapseCNAME`'s limit counts records
and `FollowCNAME`'s counts turns, and near the limit the two end at different
records. `AddRR` accepts several.

*What the code does that a reader may not expect*, and that the model has: a
name with nothing but descendants does not block a wildcard above it and is
answered NXDOMAIN, while `README.md` speaks of "empty non-terminal (ENT)
blocking"; a name whose only record is an ephemeral TXT is answered NXDOMAIN
for other types; any name below an origin is accepted as the name of a transfer
of that zone.

### Lifecycle

*State.* `proc[p]` is the memory of a process: `pc` is where `run()` is, `term`
that its context is done, `listeners` the addresses bound as pairs, `serving`
the halves whose goroutines run, `failed` that one of them sent an error,
`notified` that SIGHUP has a handler, `reload` and `hup` the SIGHUP goroutine and
its channel, `sink` and `up` what the deferred calls have to release. `sock` and
`pidFile` belong to the machine. `alone` records that, since this process bound its
listeners, no other process of the program held one, or had closed its own and was
not yet gone.

*Actions.* `Load`, `BindUDP`, `BindTCP`, `TruncatePid`, `WritePid`,
`InstallHandlers` are the start in its order, each with its failures;
`os.WriteFile` is two steps, since it truncates first. `ListenerDies`,
`ServeEnds`, `CloseListener`, `ServeReturns`, `JoinSignals` are `Serve` and the
shutdown contract; `RemovePid`, `StopService` and `CloseSink` the deferred calls,
last registered first. Sockets are exclusive, also to a process that is
shutting down. A reload is only in progress or not: `Reload` models it. The API,
metrics and DoH servers stop when they are told to; that the DoH server does is
checked in `DoHServer`. Services that end by themselves are not told apart.

*What it shows besides.* The reload command ends the process when its SIGHUP
falls between the writing of the PID file and `signal.Notify`, or between
`signal.Stop` and the removal of the file: `PidFileTruth` names these two windows
and excludes any other. During an overlapping restart the old process, which may
wait for a reload after its sockets are closed, removes the file the new one has
written: hence `alone`.

### Notify

Each goroutine has its own age in seconds. An exchange takes up to
`ExchangeTimeout` and does not observe the context, as `dns.Exchange` does not.
At equal times the select between timer and context may choose either. With the
constants of the code (1, 2, 4 seconds under 10) a silent target gets three
attempts: they begin at 0, 3 and 7 seconds, and the deadline cuts the wait for
the fourth. `RetryBudget` says that it never costs more than that one;
`notifyDeadline`'s comment calls this intentional.

### CertManager and DoHServer

`CertManager` has the loop of `run`, one step for each thing that can go wrong
in an attempt: reading or creating the account key, persisting it, registering,
presenting the token, validating, issuing. Any of them may fail, or hang for
ever. `fails` and `busy` count failed attempts and the time spent in attempts
since the certificate was installed. The CA is external: registering a known key
yields the same account, and the answer may be lost. `keyLog` is what a power
loss may leave: the rename of the key is not followed by an `fsync` of the
directory, so `OneAccount` counts the power losses that undid it (`lost`).

`DoHServer` adds the two `httpserver.Serve` goroutines, the channel between them
and `runWith`, the deadlines, kills, restarts and the clock. A stop reaches the
listeners and the certificate loop at once, since `runCtx` is a child of the
process's context; a listener that fails reaches the others through `Cancel`. The
channel has the capacity of the code (`errChCap`) and a send to a full one blocks
(`Send`): `Resend` puts back the result that the select took, and `RunReturns`
needs it not to block, also when both listeners have sent. A goroutine that can
go on goes on before time passes (`LoopDue`, `ServerDue`); what takes time is a
step of an attempt and the draining of connections.

### PrunePlan and PruneBackup

A zone file is a sequence of lines: records, `$INCLUDE`, blanks and comments.
Owners are relative to the origin; `$ORIGIN`, `$TTL` and `$GENERATE` lines and
records of several lines are left out. `PrunePlan` has both readings of a file,
that of the command (`LexedOwner`, `RRSet`) and that of the server (`ParsedOwner`,
`ParseFile`), and the server's answers by the operators of `Alias`, for either value
of the alias group's `rewrite_rdata_labels` (`BackupAnswer`).

`PruneBackup` has a step for each file operation. `log` is the set of directories
a power loss may leave, in the order they were made since the last `fsync`: a
journalling file system is assumed, since the entry of the `.bak` is not synced
before the rename.

The properties need conditions, each a behaviour of the code a reader should know
of.

- `Disjoint`, in all three: no file is read for two pairs, or for a backup and a
  root. Two views that share a backup file and differ in its root delete what only
  one of them covers, although a comment at `cmd/shadowdns/prune_backup.go:197` says
  "every (file, line) tuple appears in exactly one pair". And one plain `--apply`
  replaces the file twice: the second replacement removes the `.bak` of the first
  (`apply.go:145-148`), which was the only copy of the original.
- `Unsplit`, in `EveryFileWhole` and `AnswersKept`: an RRset is not spread over
  files. A crash between the two files makes a second run plan differently.
- In `AnswersKept` also that every record names its owner (the rest of `Tame`). Each
  record is parsed alone, so that a line which inherits its owner gets another one,
  and an apex NS in this form is deleted although `README.md:245` says that the apex
  NS RRset is always retained.
- `Rewritten`, in `AnswersKept`: an RRset with a deleted record whose data the
  rewriting changes may be answered differently. The command compares the texts of
  the two files, and the server rewrites the root's: an MX or SRV target inside the
  root, the same in both files, is answered rewritten once the override is gone. In a
  group with `rewrite_rdata_labels`, which the command does not look at, the same
  happens to a target that has the root's labels anywhere (`x.<root>.cdn` becomes
  `x.<backup>.cdn`). The run has targets of both kinds, and every other answer stays.

## 3. Runs

`resolve` checks deadlock. The other runs say `CHECK_DEADLOCK FALSE`: the process exits (`Reload`,
`Lifecycle`), operators stop writing, rotating and reloading, goroutines and
commands end, and the bounds on clocks and attempts end the behaviours. That
nothing hangs where it must not is checked as liveness.

| Run | What it shows | Distinct states |
|---|---|---|
| `reload_queries` | with a handler and a PUT in flight, two reloads that fail anywhere: `TypeOK`, `Coherent`, `GeoAlive`, `LimiterNotNewer`, `EphemeralCleared` | 1.2 million |
| `reload_sinks` | two reloads over two query logs, SIGUSR1 and shutdown: `ActiveSinkOpen`, `NoSinkLeak`, `NoPublishAfterJoin`; under fairness `ShutdownTerminates`, `ReloadTerminates` | 200 thousand |
| `zone_reload` | all verify modes and writes at any time: `RolesMatchAliases`, `ReuseIsSound` | 330 thousand |
| `log_reopen` | `MainFollowsRotation`, `QueryLogFollowsRotation`, `RotationHandled` | 160 thousand |
| `ephemeral_store` | `OrderKept`, `ImplementsTxtStore`, `ExpiredReclaimed` | 120 thousand |
| `rate_limiter` | `RateBound`, `RecoversInWindow`, `TableSound` | 1.4 million |
| `resolve` | every root zone of up to three records out of fourteen, every override, both flags: `BackupMirrorsRoot`, `NoRootLeak`, `ChainConnected`, `CollapseAgrees`, `NxdomainIsTotal`, `EphemeralVisible`, `AxfrAgrees` | 1.1 million |
| `lifecycle` | two processes, a reload command, dying listeners and kills: `PidFileTruth`, `NothingLeftBehind`; under fairness `StopsWhenTold` | 330 thousand |
| `notify` | two dispatches with replies, losses and a shutdown: `NotifiedOnce`, `RetryBudget` | 1.4 million |
| `doh` | failing and hanging attempts, kills, power losses, a restart: `OneAccount`, `LapseNeedsFailures`, `ShutdownBounded`; under fairness `RunReturns` | 780 thousand |
| `prune` | two runs of the command, failing or crashing at every step: `EveryFileWhole`, `BackupRestores`, `AnswersKept` | 290 thousand |

`reload_sighup` shows a disagreement between the code and its documentation: a
SIGHUP that arrives after the running reload has read the files is drained, and
no load follows (`PROJECT.json`, "findings", quotes the line).

The models contain more behaviours that a reader of the documentation would not
expect. No run of its own shows them; the property that holds names the condition
under which they happen.

| Behaviour | Where the boundary is |
|---|---|
| a zone file fingerprinted, rewritten, parsed and restored leaves a zone that later reloads reuse although the disk differs; a change of an included file alone is not reloaded (`fingerprint.go:76`: "A stale reuse is not possible") | `disturbed` in `ReuseIsSound` |
| a rotation between the opening and the installing of a sink leaves the query log on the rotated file (`main.go:1073`: "always the one reopened") | `crossed` in `QueryLogFollowsRotation` |
| the SIGUSR1 of a second rotation is drained when it comes after the main sink was reopened for the first | `crowded` in `MainFollowsRotation` |
| an override with no counterpart in the root is answered to queries and missing from the transfer (`openspec/specs/zone-transfer/spec.md:106`) | owners and types of the root in `AxfrAgrees` |
| a PUT checked before a reload's swap and stored after its Clear stays for an origin that is not served | the next reload, in `EphemeralCleared` |
| the reload command ends a process that is starting or stopping; a stopping process removes its successor's PID file | the two windows and `alone` in `PidFileTruth` |
| a silent NOTIFY target gets three attempts of four | `GivesUpLate` in `RetryBudget` |
| a power loss just after the first registration leads to a second ACME account | `lost` in `OneAccount` |
| pruning changes answers of views that share files, and of records that inherit their owner | `Tame` in `AnswersKept` |
| pruning changes MX and SRV targets inside the root or, with `rewrite_rdata_labels`, with the root's labels anywhere | `Rewritten` in `AnswersKept` |
| pruning a backup file that two views prune against different roots overwrites the only `.bak` of the original in one run | `Disjoint` in `BackupRestores` |

### Bounds

- *Attempts* (2 in `reload_queries` and `reload_sinks`): the second attempt is
  the first that supersedes what a reload, not startup, created; a handler can
  hold a snapshot superseded twice. The proofs have no such bound.
- *Contents*: `OppositeContents` has a configuration with everything and one
  with nothing, so that zones, GeoIP and query log appear and disappear;
  `LogContents` varies the query log only.
- *One handler and one PUT*: handlers interact only through what the reload
  publishes, and the proofs are for any number.
- *Writes* (4): a rewrite and a restore during a reload, and two more. The
  harm that `disturbed` marks needs two writes and two reloads.
- *Rotations* (4) and *reloads* (3): every pair of a rotation and a step of a
  reload occurs, with a rotation before and after.
- *Ephemeral clock* (3, lifetimes of 1 and 2): an entry can expire before its
  delayed Put stores it, during a sweep, and after one. TTLs of 0 and 9 are
  clamped from below and from above.
- *Limiter clock* (2, window 1, rates 1 and 2): a handler can be two seconds
  late, an account can fill, empty, reach its floor and recover. The proofs
  have no such bound.

- *Zones* (3 records and the SOA, one override): a chain through two names to
  its end, a loop, a chain through a wildcard, a wildcard beside the name that
  blocks it. `MaxCNAMEDepth` is 2 instead of 8, so that three records exceed it.
  One ephemeral name at a time: queries look up one.
- *Names*: of the two origins neither contains the other; `Detect`'s choice of
  the longest of several nested origins is not exercised.
- *Lifecycle*: two processes, so that a restart overlaps with its predecessor,
  and one can be stale; two addresses, of which one can be bound as UDP only; one
  SIGHUP, which is what it takes to end a process.
- *Notify*: the backoff and the deadline are the code's, in seconds, and the
  exchange's timeout the library's. The first dispatch has a zone in two views
  and a name server without glue, the second two zones with one secondary.
- *DoH*: intervals of one unit against lifetimes of 3 and 6, so that a
  certificate can be renewed, lapse, or be inside its lead when it is installed;
  one restart; nothing goes wrong after `Horizon`, and the clock goes on for two
  shutdown timeouts more.
- *Prune*: contents of up to three lines out of a pool with equal, unequal and
  reordered RRsets, inherited owners and includes; one or two pairs, with and
  without a root; two runs, so that one starts from what the other left.

### Fairness

`Reload`: weak fairness of the steps of a running reload, of a running reopen,
of leaving the signal loops, and of the shutdown sequence. The Go scheduler
runs every runnable goroutine and these steps do not wait for clients. A
`select` with a signal and a cancelled context both ready may take the signal,
but after `signal.Stop` at most one is pending, so leaving the loop stays
enabled. `LogReopen`: the same, and that logrotate runs its postrotate script.
`EphemeralStore`: the ticker keeps ticking. `Lifecycle`: weak fairness of the
main goroutine, of the end of a reload (`ReloadTerminates`), of the signal
goroutine's exit and of closing listeners; a server that is told to stop stops
(its drain has a timeout). `DoHServer`: its goroutines run and time passes;
nothing is assumed of an attempt to obtain a certificate, which may never return.
Nothing is assumed of operators, clients and signals.

## 4. Proofs

`ReloadProofs` proves, for all sets of handlers, requests, zones and
configurations and any bound on the attempts, that `Spec` implies always
`TypeOK`, `Coherent`, `GeoAlive`, `ActiveSinkOpen`, `NoSinkLeak`,
`LimiterNotNewer`, `NotifyAfterPublish`, `EphemeralCleared`, and the action
property `NoPublishAfterJoin`. The assumptions are the named ones of `Reload`:
contents are well formed, signals are the three known ones, and `None` is no
number, configuration or state.

None of these is inductive. A step of `reload()` publishes what earlier steps
left in its locals, and closes what must not be in use. `IInv` adds

- `JobInv`, `QueryInv`: what the locals of `reload()` and of a handler hold at
  each program point;
- `GenInv`, `HandlerGenInv`: generations are published in order, and everything
  in use is older than the attempt being built, so that what the attempt opens
  or, failing, releases, is nobody else's;
- `GeoInv`, `HandlerGeoInv`: handles in use are mapped, which with the above
  shows that neither `AbortReload` nor `ReclaimGeo` unmaps one;
- `LogInv`, `SinkInv`: which query log is in force at each step of its
  replacement, and that exactly these sinks are open;
- `EphInv`, `JoinInv`: the store is clean outside the publishing phase; past
  the join both signal goroutines have ended.

`RateLimiterProofs` proves `RateBound`, `RecoversInWindow` and `TableSound` for
all names, handlers, rates, windows and table sizes. `RateBound` alone is not
inductive, since an account could have hoarded credit; `AccountSound` bounds the
balance on both sides and adds the positive balance to what was let through. The
lemma about `Charged` is the heart: it holds for every clock reading, older ones
included. `TableInv` types the lists of `TableSound`; `PushFront`, `RemoveOne` and
`TouchedSound` say what the list operations of `touch` and `evictTail` leave.

`ReloadPartsProofs` proves `MainFollowsRotation` and `QueryLogFollowsRotation` for
any number of rotations and reloads. Both speak of the moment when a rotation has
been handled; `ReopenInv` says what holds at each stage before it: that the
signal goroutine works only on a received signal (`MainInv`), in which order the
reload installs a sink in the logger and in the record (`SinkOrder`), and that the
newest sink was opened on the new file or is the one the goroutine holds
(`QueryInv`).

It also proves `RolesMatchAliases` and `ReuseIsSound` for all zones,
contents and any number of writes and reloads. A zone may be reused from a state
many reloads old, so `PrintInv` carries along that the fingerprint kept with a
served zone still describes it and that a file with the same time still has the
zone's body; `SteadyInv` says the same of what the running build holds.

`EphemeralStoreProofs` proves `StoreInv` (types, no value twice in a slice, no
waiting Put with an expiry beyond `MaxTTL`), the action property `OrderKept` and
the refinement `ImplementsTxtStore`, for all names, values, TTLs and requests.
That no value is twice in a slice is what makes "refresh or remove the first match"
the abstract store's update; that `gcNow` is not after the clock makes a sweep
invisible; and the bound on a waiting Put gives the abstract `Put` its guard. The
argument goes in three layers: what `Kept` computes (`UnexpiredIsSelection`: the
subsequence of the unexpired entries), what each operation makes of a slice
(`UnexpiredSlice`, `StoreSlice`, `DeleteSlice`), and of the map. The first layer is
an induction over a slice: the prefixes for which the claim holds form a set of
numbers, and `NatSetInduction`, from the well-foundedness of `<`, shows that it is
all of them.

`ServerProofs` proves `PidFileTruth` and `NothingLeftBehind` for any number of
processes, addresses and signals. `LifeInv` says, for each process, which
variables its stage has set (`Memory`), which sockets it owns, no others and all of
them (`Owned`), and how processes exclude each other: of two that are past binding
neither believes to be alone (`Exclusive`), so a process that is alone and wrote
the PID file still finds it its own (`Named`, `Writer`). `AddrsAssumption` is that
there is an address to listen on (`ResolveListenAddrs` reports none as an error),
`ServicesAssumption` that the configured servers are the three there are.

It also proves `NotifiedOnce` and `RetryBudget`, for all zones, views and
dispatches. `Progress` says what a dispatch has seen at each point of its loops,
`SendInv` how old a goroutine can be at each attempt. `RetryBudget` is not true of
every backoff: `BudgetAssumption` requires that the exchanges and waits before the
last wait fit into the deadline, which those of the code do (0, 3 and 7 of 10
seconds), and TLC evaluates it for the code's constants.

`DoHProofs` proves `OneAccount`, `LapseNeedsFailures` and `ShutdownBounded` for all
delays, lifetimes and timeouts, and any failures, kills and restarts, each with an
invariant of its own: `AccountInv` counts the accounts whose key is not on disk by
the power losses, `LapseInv` bounds the clock at every point of the loop by the
time that failures account for, `StopInv` bounds each listener that `runWith` still
waits for by its drain's deadline; it counts the results as well (`Held`): each ended
listener's is in the channel, in `runWith`'s hand or collected, so that there is
always room for the next.

`ResolveProofs` proves all seven properties of `Resolve`, for any content of the two
zone files, any query, any depth limit and any two origins of which neither lies in
the other (`OriginsAssumption`; a backup inside its root, or the reverse, is not
modelled). `SOAAssumption` is that the root has its SOA (`BuildState` rejects a root
zone without one), `InputsAssumption` that records and names are well formed.
`ResolveInv` says that every RRset is filed under the owner and type of its records
and lies in its zone, that ephemeral records are for served names, and that the
response on its way is the one the present zones and flags give.
From there each property is about one response:

- `BackupMirrorsRoot`: the stages of the two handlers are paired (`Mirrors`). If
  one of a pair misses so does the other, and if they answer, the backup's records
  are the root's rewritten. For the stages that follow a chain this is an induction
  over the turns of the loop, in which the names of both sides stay in step.
- `NoRootLeak`: what `RewriteNameAnywhere` leaves has no occurrence of the root's
  origin; an occurrence that overlaps the replacement is what `SingleMarker`
  excludes.
- `ChainConnected`: `Walk` says of the root's answer that each record is owned by
  the query name or by the target of a CNAME before it; rewriting keeps it.
- `CollapseAgrees`: the loops of `FollowCNAME` and `CollapseCNAME` run side by side
  (`Stands`): as long as the chase goes on, they stand at the same target, with the
  same records behind them and the smallest TTL of these.
- `NxdomainIsTotal`, `EphemeralVisible`, `AxfrAgrees`: which stages a name without
  records, a name in the store, and a record of the zone reach.

The proofs corrected the model three times: the mirror of an answer at the apex has
to rewrite the SOA by suffix whatever the flag says, as `BackupSOA` does;
`SingleMarker` had to exclude overlaps; and `CollapseAgrees` needs `OneCNAME`.

`PruneProofs` proves `BackupRestores`, `EveryFileWhole` and `AnswersKept` for any
number of runs over any files and pairs that satisfy `Disjoint` and, for the last two,
`Unsplit` or `Tame`. A second run plans from what the first one left, so
it is not enough to know that files are replaced one by one: the invariant has to
say what may be missing. `Sound` says that the files are the original ones without
lines that were to be deleted at first, by whole RRsets as far as a file has them;
and that a file which lost lines lost all that were to be deleted, but those of an
RRset that had lost lines in another file (`Broken`): the rest of that RRset differs
from the root's, and stays. That a new plan deletes nothing else is `PlanIsOld`; it
compares the RRsets before and after by a bijection between their sites (`BackFacts`,
`CountIs`), which comes from an induction over the line loop of `pruneFile`
(`SelectPicks`). `PruneInv` has `Sound` of the directory and of every directory a
power loss may leave, and that the files still to be replaced are whole. If no RRset
is spread over files nothing is `Broken`, and a file that lost a line lost exactly
what was planned (`AllPlanned`). `AnswersKept` adds the server's reading: an RRset
is all there, or all gone and equal to the root's; then the root's records, rewritten,
are those that were deleted (`RootGivesTheSame`), unless the RRset is `Rewritten`. Each
conjunct of `Tame` is used there, and the flag is any value. `OriginsAssumption` and
`FilesAssumption` are types, and that the sorted list of files has none twice.

TLC has confirmed the inductive invariants on the instances of the runs, but for
`ResolveInv` and `PruneInv`, which quantify over unbounded sets.

Every invariant, every action property and the refinement that a passing run checks
is proved. Checked by TLC only is liveness, under fairness: `ShutdownTerminates`,
`ReloadTerminates`, `RotationHandled`, `ExpiredReclaimed`, `StopsWhenTold`,
`RunReturns`. The prover has no rule for fairness.

## 5. Not modelled

- The front of `ServeDNS`: EDNS, cookies, client subnet, view matching; and the
  truncation of answers. The streaming of a transfer, and its ACL.
- The SERVFAIL of `handleBackupQuery` in a view without the root zone, before any of
  the stages of `Resolve` (`PrunePlan` has it as an answer without records); the
  resolution of a zone with several SOA records.
- The rate limiter's classification and name imputation, and a property of its
  pacing: the truncated replies are counted by one of two accounts.
- HTTP: request decoding and authentication of the API, the DoH handlers and
  their JSON; profiling. The resolution of listen addresses.
- Text parsing, message encoding, metrics and log formats: no decision of the
  server that involves several steps depends on them.

## 6. Plan

1. Proofs: the composition of `Lifecycle`'s view of a reload with `Reload`'s.
2. `ServeDNS` front to back: the order of its early checks, EDNS and cookie
   handling, view matching with nested negated lists against a set-based
   reference, truncation; the pacing of truncated replies when both accounts are
   over their limit.
3. `Transfer`: the streaming goroutine of an AXFR and the death of its
   connection; empty non-terminals and nested origins in `Resolve`.
4. Composition: the answers of `Resolve` while `Reload` swaps the zones, and a
   reload that reads the files `PruneBackup` is replacing.

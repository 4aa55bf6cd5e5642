# GuardianD: models and proofs

TLA+ modules for [GuardianD](../src/README.md), a server monitoring daemon in
Python. The daemon samples a machine every few seconds, compares what it sees
with thresholds and learned baselines, and notifies people when a condition
begins and when it ends. What can go wrong is rarely in one line: it lies in
the memory the daemon keeps from one cycle to the next, and in what signals,
request threads, hanging collectors and failing channels do to a loop that was
written as if it ran alone. That is what the models are about.

Paths below are relative to `src/`.

## The system

| Part | State it keeps | Operations | Talks to |
|---|---|---|---|
| Main loop (`guardian/main.py`) | `_running`, `config`, `alerters`, `router`, `_last_snapshots`, `_last_collection_ts`, the time of the last maintenance, pid file | `start`, `_run_cycle`, `_collect_all`, `_run_maintenance_if_due`, `stop`, `_reload` | everything, by call; REST threads read its fields |
| Alert router (`guardian/alerter/router.py`) | `_active` (alert, first seen, last sent), `_breach_streak`, `_clear_streak` | `evaluate`, `evaluate_intelligence`, `_check_recovery`, `dispatch` | called by the loop; calls the channels and the AI enricher |
| Channels (`guardian/alerter/{slack,telegram,webhook,email_alerter}.py`, `guardian/utils/retry.py`) | none | `meets_severity_threshold`, `send` with retries | one thread per channel and alert |
| AI enricher (`guardian/alerter/ai.py`) | cache by fingerprint with expiry | `enrich_batch` | HTTP, a thread pool |
| Collectors (`guardian/collector/*.py`) | last counters (network, disk, OOM), IMDS token, seen kernel messages, health check results and failure counts | `collect` | one pool per cycle, a timeout per collector |
| Intelligence (`guardian/intelligence/*.py`) | baseline windows, velocity and forecast history, fingerprint of the machine's habits | `update_all`, `flush_to_store`, `load_from_store`, the detectors' `analyze` | called by the loop; baselines go to SQLite |
| SQLite store (`guardian/storage/sqlite_store.py`) | tables, a connection per thread | `insert_snapshot`, `insert_alert`, `insert_baseline`, `prune_old_data`, queries | main thread and REST threads |
| REST API (`guardian/exposition/rest_api.py`) | server socket and thread | `do_GET`, `do_POST`, `start_background`, `stop` | reads the daemon's live objects |
| Prometheus (`guardian/exposition/prometheus.py`) | gauges and counters, `_label_values` | `start_background`, `update`, `record_alert` | called by the loop |
| Configuration (`guardian/config/*.py`) | the file | `load_config`, `validate_config` | at start and on SIGHUP |
| guardianctl (`guardianctl/cli.py`) | a copy of the file while a wizard asks | `init`, `setup telegram`, `setup openai`; a client of the REST API | the configuration file, the REST API |

What is hard, part by part, and what makes the part correct:

* **Router.** Three dictionaries, updated by two operations in a fixed order
  and read by both, tell a long story: a condition must be debounced on the way
  in, held on the way out, repeated at most once per cooldown, escalated when
  it lasts, and neither lost nor announced twice. Cycles fail half way, reloads
  empty the memory, batches are cut short. Correct: the memory agrees with the
  history of the conditions, so that every notification can be explained by it.
* **Loop and signals.** Python runs a handler between two bytecodes of the
  main thread. `stop` and `_reload` therefore run on top of a loop that may
  hold the lock they want, on top of each other, or in the middle of startup.
  Correct: a stop ends the process, a reload takes effect, nobody swaps the
  configuration under a section that reads it.
* **Channels.** Correct: what the router decides arrives, once; retries do not
  repeat what was delivered, and severities are not filtered by accident.
* **Collectors.** Correct: what is reported as new is new; a reading that
  failed is not taken for a zero.
* **Intelligence.** Correct: what a restart resumes from is what was learned.
* **Store.** Correct: transactions are whole, pruning leaves what is young.
* **REST.** Correct: a reader sees a state the daemon was in, or fails
  without disturbing it.
* **Configuration.** A file is written by wizards and by hand, and read by a
  daemon that may reload at any moment. Correct: what runs is a whole document.

`PROJECT.json` lists the hazards one by one, each at its line, with the
properties that watch it.

## Modules

```
AlertLifecycle            what the receivers of notifications are promised
     ^  refinement
AlertObserver             AlertRouter + the history of the conditions
     |  extends                                              (MCAlertObserver)
AlertRouter               dispatch, _check_recovery, the cycle
     |  extends
AlertSeverity             INFO < WARN < CRITICAL < EMERGENCY
     ^  extends
     +-- Evaluate         from snapshots to a list of alerts    (MCEvaluate,
                                                                 EvaluateProofs)
     +-- AlertDelivery    AI enrichment, channels, retries      (MCAlertDelivery,
                                                                 AlertDeliveryProofs)

MonitoredRouter           AlertObserver and Evaluate joined     (MCMonitoredRouter,
                                                                 RouterProofs)

CollectionCycle           the pool, its timeouts, the gauges    (MCCollectionCycle,
     |  extends                                                  CollectionProofs)
     +-- SystemEvents     which kernel messages are new
     +-- KernelCounters   rates and OOM kills
     +-- AppHealth        health checks by name
     +-- Ec2Metadata      the token and the spot notice

DaemonLifetimes           cycles, maintenance, kills            (LifetimesProofs)
     |  extends
     +-- MetricStore      the SQLite tables and their transactions
     +-- Baselines        window, flush, seeding

ConfigFile                wizards, operator, load and reload
RequestHandlers           a REST thread next to the main thread
MCSurroundings            joins DaemonLifetimes, ConfigFile and RequestHandlers
                                                                (SurroundingsProofs)

GuardianDaemon            startup, loop, lock, signals, REST server thread
                             (MCGuardianDaemon, GuardianDaemonProofs)
```

In brackets: the modules that instantiate a model for TLC, and those that hold
its proofs. `RecursionTheorems` has the induction that `LifetimesProofs`,
`AlertDeliveryProofs`, `EvaluateProofs` and `SurroundingsProofs` share. A definition marked `mutant` in a module is a plausible bug of the
definition after it; no specification uses it. It is there so that one can see
that a property notices.

### AlertRouter

`_check_recovery` and `dispatch` line by line, driven by `_run_cycle`.

| Model | Code |
|---|---|
| `active`, `severity`, `sinceFirst`, `sinceSent` | `_active`: its keys, the stored alert's severity, ages of `first_seen` and `last_sent` |
| `breachStreak`, `clearStreak` | `_breach_streak`, `_clear_streak`; 0 is an absent key |
| `copies`, `raised` | the list of alerts of this cycle: how often it holds a fingerprint, with which severity |
| `recovered` | the list `_check_recovery` returned |
| `sent`, `sentRecoveries` | the batch `dispatch` returned |
| `Collect` | `evaluate` and the detectors, and the time that passed since the last cycle |
| `CheckRecovery`, `Dispatch` | the methods, each whole: `Recovers`, `NewClearStreak`, `Debounced`, `Passes`, `Escalates`, `CoolingDown`, `Batch` name their conditions |
| `CycleFails` | `except Exception` in `start` before the recovery check is reached |
| `Reload` | SIGHUP: a new `AlertRouter` between any two steps of the cycle |

Data that no property tells apart is gone: messages, metrics, instance names.
An alert is its fingerprint and its severity. A threshold alert has a title,
hence a fingerprint, for each severity; a detector raises WARN or CRITICAL
under one title (`SeveritiesAssumption`). Timestamps are ages, cut off where
the code's comparisons stop telling them apart; `time.time()` is assumed not to
run backwards. A reload keeps the constants: what changing `cooldown_seconds`
does to running cooldowns is not modelled. Where `dispatch` cuts its list, the
alerts go in listing order (`Position`) and the recoveries, which are appended
last and come in the order of a dictionary, in any order.

### AlertObserver

Adds what an outsider knows: `breachRun` and `quietRun` count consecutive
cycles with and without a condition, `open` is what the last notification of a
condition says, `sinceOpened` dates the last opening, `sinceNotified` the last
batch that held an alert and `sinceBefore` the one before that. The router reads
none of them. `ObserverSpec` has reloads, `SteadySpec` has not; `ObserverSafety` and
`SteadySafety` are the two without their fairness, and it is of these that the
safety properties are proved.

### AlertLifecycle

The abstract promise, from the comments on `AlertConfig`
(`guardian/config/schema.py:172-181`): an alert opens with the cycle that
completes `BreachNeeded` consecutive breaches (at once for an emergency) and
closes with the one that completes `ClearNeeded` quiet cycles. `AlertObserver`
refines it with `open`, `breachRun`, `quietRun` as they are, restricted to
threshold alerts: `Collect`, `CheckRecovery` and `CycleFails` stutter,
`Dispatch` is `Observe` of the conditions raised.

### Evaluate

`AlertRouter.evaluate`, all of it, as an operator on the snapshots of a cycle.
`Band` is the code's `if value >= critical ... elif value >= warn`, of which
almost every check is a case; what differs is kept: a latency counts only on a
disk with enough operations, an error rate only with enough packets, a
resource whose tasks are all halted has no second alert for its ordinary
pressure, a health check takes its severity and its threshold from the first
configured check of its name. An alert is the record of its check, the item it
is about and its severity, because title and category together name exactly
these: the record is the alert and its fingerprint. The result is a set of
pairs of a place in a list and an alert, so that a mount point or a health
check that is listed twice is in it twice. Values are integers, and only their
order against the thresholds matters (`ThresholdsAssumption` says no more than
that they are numbers: a warning threshold above the critical one is allowed);
messages and context are left out.

`MCEvaluate` walks through the combinations of seven readings of three levels,
one per shape of check.

### MonitoredRouter

Joins the two: `Collect` draws the snapshots of the cycle from `Collections`,
where the cpu's collector has timed out (no snapshot), failed (`status =
"error"`) or done its work, and the router's list is what `Evaluate` makes of
them. It is the model in which one can ask about a *reading* rather than an
alert, and so about the one thing `AlertObserver` cannot see: that each
severity of a metric is an alert with a streak of its own.

### AlertDelivery

What `dispatch` does with its batch once it is decided: `AIEnricher.enrich_batch`,
then one alert after the other through a pool with a thread for each channel.

| Model | Code |
|---|---|
| `phase`, `position` | where `dispatch` is; the alert of the batch being sent |
| `advice`, `cache` | what `enrich` returned for each alert; `_cache`, as ages |
| `Lookup`, `Answer`, `Put` | `enrich` up to its call, the call's end, `_cache_put` with its pruning |
| `status`, `attempt` | a channel's thread and its loop of attempts |
| `SlackOrWebhookSend` | `@retry`: repeats after an exception, takes an error status for an answer |
| `TelegramSend` | the loop of `telegram.py`: repeats after 429, gives up after an exception |
| `EmailSend` | one attempt |
| `Skip` | `meets_severity_threshold` |
| `received`, `faulty`, `answered` | history: what came in, who failed, the last answer |

A post is accepted, refused, limited (429), lost, or *late*: an exception after
the receiver got it, which is how a retry delivers twice. Prompts, answers and
messages are left out; Telegram's sleep after its last 429 is, too.

### CollectionCycle and its collectors

`_collect_all` submits every collector to a pool and awaits the futures in the
order of its list, each with a timeout; leaving the `with` block waits for the
threads. `ThreadEnds` is a collector that gets done, `Await` the result or the
timeout, `LeavePool` the wait, `Evaluated` and `Expose` the rest of the cycle
and the gauges. `ThreadEnds` may happen before or after the `Await` of its
future: then the collector's memory has moved on and its snapshot is dropped.
Collectors share no state, so a behaviour looks at one of them (`subject`),
next to `process`, which remembers nothing and stands for all others in the
pool.

* **SystemEvents**: `dmesg` prints the ring; `seen` holds keys of message and
  time, and the time of a message moves when the clock is set. `first` is
  `_first_collection`. Sets past their limit are cut, `_seen_dmesg` to an
  arbitrary half: `CutSets` allows every one, though the comment
  (`system_events.py:168`) says "the most recent half".
* **KernelCounters**: a rate is the pair of the stretches of time its numerator
  and denominator span. Counters and their time are remembered apart, the
  network's TCP counters (`snmpAge`, `ReadSnmp`) apart from its interfaces'. OOM
  kills are counted. A file of `/proc` that cannot be read counts as 0, as in
  `_parse_oom_kills` and `_parse_proc_net_snmp`.
* **AppHealth**: ages, failure counts and results by *name*. A collection probes
  the due checks together and counts in the list's order. `Longest` bounds the
  configured intervals; an age past it is due whatever the interval.
* **Ec2Metadata**: the token's age, answers missing in any combination (the
  instance's id, the identity document with the account's, the spot notice), a
  service that refuses expired tokens.

The labels of the gauges are the id and the account of the cycle's EC2 snapshot
and the name and the account of its configuration; `environment` and
`aws_account_name` come from the configuration like the name. `Reload` replaces
`config` at any time, `LeavePool` takes the cycle's `cfg`, and `LabelsNow` is
made of `cfg` later (`resolve_account` is `Account`). `spotGauge` is the series
of the current labels. Whenever an id is missing or a reload renames the
instance, the series of the former labels stay at what they were last set to,
for good; they are not kept in the model, and nothing is claimed of them.

Not in the model because it is the library's: `psutil.cpu_percent` keeps its
last reading per thread, and each cycle has a new pool.

### DaemonLifetimes, MetricStore, Baselines

The cycle again, as the database sees it: `StoreSnapshot`, `UpdateBaseline`,
`Evaluate`, `RecordAlert`, `PruneOldData`, `FlushBaseline`, between any two of
which `Killed` ends the process; `Boot` is the next life. `disk` is the
database, `open` the connection's view of it: a statement that fails leaves
what it did in `open`, and the next commit of anyone puts it on disk, because
the code never rolls back. `Disconnect` drops it. The process dies, not the
machine: with `synchronous=NORMAL` a power failure may lose the last commits,
which is not modelled. Rows carry a number and their time. `Baselines` has
`deque(maxlen)`, readiness, rows, and the seeding that the code performs twice
(`LoadedTwice`, `baseline.py:53` and `main.py:56`); a mean is rounded down.

### ConfigFile

A document is its enabled channels, its ai section, the operator's own settings
(are they there, does `validate_config` accept them) and whether the rest of an
older document follows it. `Read`, `Open`, `Close` are the steps of
`setup telegram` and `setup openai`: load the file, `open(path, "w")`, which
empties it, and the dump, which is written on closing. `InitCommand` overwrites
without asking. `Start`, `Reload` load what is there at that moment; an empty
file loads as the defaults and is refused only because they have no channel
(`loader.py:165-167`). `startup` is what collectors, detectors, store and
servers keep: a reload does not reach them. What a wizard dumps, about 4 KB, is
assumed to fit Python's 8 KB buffer, so that a writer either has or has not
written.

### RequestHandlers

A request thread between the bytecodes of the main thread. A dictionary is the
sequence of its entries with holes, and is rebuilt when it is full: an
iteration goes by place, and raises when the number of entries has changed
(`NextEntry`). `watched` says whether it is `_active` or `_windows`; `Add`,
`Pop`, `SwapRouter` are the main thread's steps; `status` reads `ReadStatus`'s
attributes one by one.

### GuardianDaemon

`pc` is the main thread's place in `start`; `frames` the stack of signal
handlers on top of it. Only the top of the stack runs. `lock` names the frame
that holds `_config_lock`, a plain `threading.Lock`; a frame that wants it
while any frame has it waits, and with it the whole thread. The four sections
(`main.py:152, 163, 231, 272`) are one parameterised pair `Acquire`/`Release`.
`api` and `shutdown` are `socketserver`'s thread and `__shutdown_request`, as
the code uses them: `stop()` waits until `serve_forever` has returned. Work
between sections is a step that may fail. Signals may be sent at any time, at
most `MaxSignals`; the same signal sent twice before its handler begins is one.
SIGKILL is not modelled here: it leaves nothing to say about this process.

`MCGuardianDaemon` adds `lucky`: no SIGHUP was handled while the lock was held,
no SIGTERM before the loop was reached. Its properties read `[]lucky => ...`;
nothing forces a signal to come at a good time.

## Runs

Router runs use two to three fingerprints: `cpu` (WARN), `disk` (CRITICAL),
`oom` (EMERGENCY) and `trend`, a detector's alert.

| Run | Question | Bounds |
|---|---|---|
| `router_core` | Do debounce, hysteresis, flap suppression and cooldown hold for a warning and a detector's alert under reloads, failed cycles and a batch limit of one? Can escalations and increases of severity add up to spam? Does the invariant of the proofs hold? | breach 2, clear 2, cooldown 3, escalation 3, gaps 1 or 2 |
| `router_promise` | Without reloads, and with batches that are never cut short, does the router implement `AlertLifecycle`, do receivers always know what is active, and does an emergency fire in its first cycle? | three fingerprints, cooldown 1, escalation 1, gap 1 |
| `evaluate_readings` | Does `evaluate` raise each subject once, and does a reading that worsens never lower a severity? | seven readings of three levels |
| `monitor_settles` | From readings to notifications, some snapshots missing or failed: is a reading that settles eventually what the receivers know, a lasting alert notified, an ended one closed? | the cpu below, in and above the WARN band; breach 2, clear 2 |
| `alert_delivery` | Does a healthy channel get each alert once and in order, do retries ride out what they retry, is the AI asked once per TTL, does every dispatch end? | one channel of each kind, batches of two, two attempts, TTL 1, cache limit 1, one worker |
| `collection` | Is what is new reported once and not lost, through timeouts, failing readings and cut sets? Do checks and tokens keep their own, are a cycle's labels of one configuration? | three messages, a ring of two, limits 3 and 2, three kills, token 3 reused 2, two checks, two configurations |
| `surroundings` | Does history survive failing statements, maintenance and kills; is a restart warm; are answers of the REST API true; does the daemon run with a whole configuration? | four ticks, four cycles, two kills, one fault; three wizard runs, two edits; dictionaries of three |
| `daemon_timely` | Has the lock one owner, whatever handlers nest? With signals handled at good times, does every stop end the process, every reload end, collection go on? | three signals |
| `router_false_recovery` | The hysteresis, said of every fired alert as the comments say it: violated. | one of each kind |
| `router_starved_alert` | Is a lasting condition eventually notified, with fewer places in a batch than alerts? Violated. | two alerts, one place |
| `recovery_unheard` | With the default thresholds and faultless receivers, does anybody hear of a recovery? Violated. | the three channels' defaults |
| `daemon_reload_blocks` | Does every reload take effect? Violated by one SIGHUP inside a section. | one signal |

Why the bounds are enough. The router treats fingerprints independently but for
the batch limit, so two contend as any number do. Streaks and ages enter
comparisons with one constant only; two cycles tell "first", "not yet" and
"enough" apart. A cooldown of 3 has room for three batches; since an alert may
rest in cooldown between them, an escalation comes due before, at and after the
end of one; and gaps of 1 and 2 let a cycle fall on a limit, or step over it. A band
has three sides, and the checks of `evaluate` look at one reading each but for
the gated ones, whose readings vary independently in `evaluate_readings`.
Channels do not see each other but for the wait at the end of an alert, which
one of each kind shows; two attempts are a first and a last, a batch of two an
alert and its successor, and one worker with a cache of one has the cache
pruned and asked while entries age. Three messages and a ring of two let one
fall out of the ring, and the limits let each set be cut and not be cut. A
token reused for 2 of 3 units is fresh, reusable, too old and expired. Four
ticks with retentions of 1 and 2 and maintenance every 2 make each row outlive
its time once; the second kill comes to a daemon that was seeded by the first.
Three runs of wizards overlap and leave one to see the result. Three signals
allow a handler in a handler in a handler; the fourth level adds no new pair of
neighbours.

In `MCSurroundings` a variable `part` picks what a behaviour is about: history,
baseline, requests or file. The parts share no state, so their product would
only multiply the same steps. What connects them (a reload swaps the router
that a request reads) is inside the part it concerns.

`CHECK_DEADLOCK FALSE` stands in the daemon's configurations because the
process really can stop: a reload that waits for its own thread's lock leaves
no step once all signals are sent. In `Surroundings.cfg` it is because every
part comes to rest at its bounds: a daemon that has used up its cycles, or one
that stays down because its file is invalid and nobody is left to mend it.

Fairness. The main thread runs whatever it can run: `WF` of the cycle in the
router, of the loop's and the handlers' steps in the daemon. The REST server
has a thread of its own (`WF(ServerStep)`), and CPython runs a pending handler
before long (`WF(Deliver)`). `DeliverySpec` has `WF(EnrichStep)` and
`WF(SendStep)`: every call and post has a timeout, every sleep ends. Neither
reloads nor exceptions are fair, and the router's liveness is conditional on
their ceasing (`Undisturbed`): a cycle that fails for ever notifies nobody.
No liveness is claimed of the collection cycle: leaving the pool waits for a
thread that hangs, for which the code has no limit, so that such a collector
stops the loop.

### Where code and words disagree

The four violation runs are recorded under `findings`:

* `_check_recovery` compares `_active` with what `evaluate` raises. Detectors'
  alerts are dispatched, hence become active, and are never among them: each is
  "recovered" after `recovery_clear_cycles` cycles while it is still raised, and
  sent again in the same dispatch.
* `dispatch` records every alert as sent before it cuts the list to
  `max_alerts_per_dispatch`. What is cut off is in cooldown together with what
  was sent, and is cut off again when both cooldowns end.
* Recoveries have severity INFO. Every channel compares that with its
  `min_severity`, by default WARN or CRITICAL, and sends none.
* `_reload` takes the lock the interrupted loop may hold.

Two more are visible in the models and have no run of their own:

* WARN and CRITICAL of one metric have different titles, hence fingerprints. A
  metric that alternates between the two bands, above its warning threshold in
  every cycle, completes the debounce of neither and is never notified.
* `start` sets `_running` after it has installed the handler that clears it
  (`main.py:138`), so a SIGTERM at startup is forgotten; and a `stop()` after
  the server was created and before it serves waits for ever
  (`rest_api.py:342-353`). This is why `lucky` speaks of the loop.

What else a maintainer should know, each at the place where a property had to
be weakened, or a history variable added, to be true:

* Router: recovery drops the cooldown with the entry, so a slow oscillation is
  alerted each time; an escalated warning is stored as WARN again by the next
  ordinary re-send and escalates again in the next cycle, so that one cooldown
  may see two notifications, though never three (`RepeatsSpaced`); a reload forgets what was active, so no recovery follows;
  with recovery notifications off nothing is ever removed from `_active`.
* Collection: a snapshot that misses the pool's timeout takes its kernel
  messages with it (`lost`); if the first `dmesg` fails, the next reports the
  whole ring as new (`NoEventMissed` holds, at this price); after a cut, or a
  step of the clock, old messages are new again (`forgotten`); an unreadable
  OOM counter is 0 and the next reading counts everything since boot
  (`killsMisread`); after a failed disk reading a rate divides by too short a
  time, and after a failed reading of `/proc/net/snmp` the TCP rates divide
  everything since boot by one interval (`misread`); checks that share a name
  share counts (`DistinctNames`); a cycle that does not learn an id, and a
  reload that renames the instance, leave the former series of each gauge
  behind; `c_oom_kills` and `c_dmesg_errors` are never
  incremented.
* Lifetimes: a failed prune is not retried for a day and what it deleted is
  committed by the next insert; a cycle that raises skips maintenance, every
  time; baselines are flushed once a day only, `_FLUSH_INTERVAL` has no effect,
  and the first flush after a restart replaces the row by one of mostly copied
  means, whose deviation is too small; a window smaller than `min_samples` is
  never ready and `validate_config` does not say so (`WindowAssumption`);
  `main.py:173` skips the mount history during warm-up, against
  `forecast.py:51`.
* Configuration: overlapping wizards lose each other's changes or leave a
  garbled file; `/control/reload` answers "reloading" whatever comes of it;
  detectors and collectors keep the startup configuration;
  `loader.reload_config` is not called. `README.md:591` gives a warm-up of about
  2 minutes, the default is 5.

## Proofs

Eight modules hold proofs. Each theorem is for every value of the constants the
named assumptions admit; the bounds of the runs (`MaxSignals`, `Lines`,
`MaxClock`, ...) are constants among them, hence arbitrary. Every invariant and
every safety property of a passing run is the subject of a theorem. None of the
proofs uses fairness.

### The router

`RouterProofs` proves, for every set of fingerprints and every configuration the
assumptions of `AlertRouter` admit, of `ObserverSafety` (reloads and failed
cycles included):

| Theorem | Property |
|---|---|
| `RouterTypes` | `ObserverTypeOK` |
| `StreaksAgree` | `RouterInvariant` |
| `NeverStale` | `NoStaleActive` |
| `Debounce` | `DebouncedStart`, if no list repeats a fingerprint |
| `Hysteresis` | `SustainedRecovery` |
| `FlapSuppression` | `FlapSuppressed`, if no list repeats a fingerprint |
| `CooldownKept` | `CooldownWhileActive` |
| `RepeatsKept` | `RepeatsSpaced`, with recovery notifications on or off |

The argument. The properties speak of history; the code of streaks.
`RouterInvariant` says how the two agree, and none of its parts is inductive
alone. The clear streak of an active alert equals its quiet run between cycles,
and is one ahead of it between the recovery check and dispatch
(`ClearStreakAgrees`); that needs the streak of an inactive fingerprint to be 0
(`ClearStreakOwned`), or a leftover would shorten the next recovery. The breach
streak never exceeds the breach run (`BreachStreakAgrees`): a failed cycle
counts in neither, a reload empties the first only. `OpeningsSpaced` carries
the quiet cycles of a recovery over to the next opening and adds the breach
streak to them. `SentAgrees` orders the router's clock and the receivers': it
is an inequality because a batch that was cut short is remembered as sent.
`RepeatsAgree` is why exceptions to the cooldown do not follow each other: only
what is stored as a warning can escalate or grow more severe, and an alert is
stored as a warning only by a dispatch that had waited for the cooldown, or had
taken it up anew.
`ListingAgrees` lets a fingerprint's severity follow from its kind. Each
theorem takes the invariant and one step of `_check_recovery` or `dispatch`.

Two theorems assume `MaxCopies = 1`: `dispatch` counts alerts, not cycles, so
two checks of one name, or a mount point listed twice, complete a debounce of
two in one cycle. Nothing in the code rules such lists out; where there are
none, `EvaluateOnce` below shows that `evaluate` adds none of its own.

### The promise

In the same module:

| Theorem | Property |
|---|---|
| `ReceiversAlwaysKnow` | `ReceiversKnow`, without reloads, with room in the batches |
| `EmergencyInstant` | `EmergencyAtOnce`, reloads and failed cycles included |
| `PromiseKept` | `ImplementsLifecycle`, without reloads, with room, recovery on, `MaxCopies = 1` |

Room is `MaxPerDispatch >= 2 * Cardinality(FP)`: each fingerprint as an alert
and as a recovery. The conditions are those of the findings: without room
receivers miss what the router takes for told, and with recovery off nothing
closes. `RouterInvariant` bounds the streaks, which is enough to exclude an
early notification but not a missing one; `PromiseInvariant` makes the breach
streak equal to the run (`BreachStreakExact`), and ties what receivers believe
to `_active` in the middle of a cycle as well (`ReceiversAgree`), where a
recovery is already out of `_active` and not yet sent (`RecoveredQuiet`). The
simulation then takes each step: all but `Dispatch` stutter, and `Dispatch`
opens and closes what `Observe` does.

### From readings to receivers

`MonitorIsSteady` shows that a router fed by `evaluate` is one of those above,
so that its theorems carry over (`MonitoredRouterSafe`). What they say of lists
of alerts, `ReadingsReachReceivers` says of snapshots: under the conditions of
`PromiseKept`, every dispatch changes what receivers know exactly as
`AlertLifecycle` does on observing the conditions that hold in the *snapshots*
of the cycle, and no other step changes it. The invariant it adds,
`ReadingsListed`, is that the router's list is what `evaluate` made of the last
snapshots.

### Evaluate

`EvaluateProofs` is about the operator itself, for all snapshots, thresholds and
health check configurations:

| Theorem | Statement |
|---|---|
| `EvaluateOnce` | at most one alert per subject, raised once, unless a list in the snapshots repeats a name |
| `TimesOnce` | a fingerprint is listed once or not at all, under the same condition |
| `EvaluateMonotone` | where no reading is better than before, every subject that had an alert has one at least as severe |
| `OneAlertAlways` | `OneAlertPerSubject` |
| `WorseNeverBetter` | `WorseIsNotBetter` |

Each section has a lemma of its own of either kind, and `KindsApart` says that
no two sections raise alerts about the same thing. Monotonicity is not obvious
where a check excludes another: a resource whose tasks are all halted loses its
alert for ordinary pressure, whose place the more severe one takes
(`PressureGrows`), and a check that is gated by traffic or operations stays on
when these grow. It also holds of thresholds in the wrong order, since both are
compared by `>=` and the critical one first. `ThresholdOfName` shows that the
first configured check of a name exists, so that `HealthConfig` has a threshold
to compare with.

### The daemon's lock

`GuardianDaemonProofs` proves, for any number of signals (`MaxSignals` is any
natural number), with or without the REST server:

| Theorem | Property |
|---|---|
| `DaemonTypes` | `TypeOK`, with `SignalsCounted` |
| `LockHasOneOwner` | `LockOwned` |
| `TimelyNeverStuck` | as long as `lucky`: `NothingStuck`, `StopRemembered` |

`TypeOK` bounds the depth of the stack of handlers by the number of signals,
because a lock is named by the depth of the frame that holds it. That is not
inductive: nothing in `TypeOK` keeps a handler from beginning at the bound.
`SignalsCounted` does: the handlers on the stack and the signals yet to be
handled were all sent. `LockOwned` is then inductive, step by step: a frame
takes the lock only while it is free, only the top of the stack moves, and what
lies under it, with the lock it may hold, stays as it is.

`TimelyNeverStuck` is what the three liveness properties of `daemon_timely` rest
on: the frame whose turn it is never waits for something that only a frame
below it could bring about, and nothing sets `_running` again after a stop. Its
invariant: a reload that has yet to take the lock was begun while it was free,
so that only a frame further up can hold it (`ReloadsFree`); a stop begins in
the loop, where the server's thread has been started if there is a server
(`StopsInLoop`, `ThreadFollows`), and its request stands until the server has
ended (`ServerAsked`). Without `lucky` both parts are false: that is
`daemon_reload_blocks` and the forgotten SIGTERM.

### Delivery

`AlertDeliveryProofs`, for any channels, batches, TTL, cache limit, number of
workers and attempts:

| Theorem | Property |
|---|---|
| `OneCall` | `OneCallPerTtl` |
| `FaultsRiddenOut` | `TransientFaultsRiddenOut` |
| `InOrder` | `NothingOvertakes` |
| `HealthyInformed` | `HealthyChannelInformed` |
| `DeliveryTyped` | `DeliveryTypeOK` |

`CacheInvariant`: an answer younger than the TTL is in the cache, and no older
there; pruning removes only what is past the TTL. `AttemptsInvariant` says what
a thread's status implies of its last outcome and its count. `OrderInvariant`
adds to the order that nothing received lies behind the alert being sent, and
that a channel that does not repeat exceptions has received the current one
only if it is done with it. `Healthy` says of a channel whose receiver never
failed that its status is decided by the alert's severity alone and that it has
received what is due; what is due grows by the alert a step is about
(`DueUpTo` is a recursive function, see below). `Bounded` counts attempts along
the batch.

### Collection

`CollectionProofs`, for any ring, limits, token lifetimes and any interleaving
of the pool with the loop:

| Theorem | Property |
|---|---|
| `CycleWellTyped` | `CycleTypeOK` |
| `EveryKillOnce` | `KillsCountedOnce` |
| `RatesOfOneInterval` | `RatesSpanOneInterval` |
| `OneConfigPerSeries` | `SeriesOfOneConfig` |
| `SpotShown` | `SpotNoticeShown` |
| `HeardOnce` | `EventsHeardOnce` |
| `NothingUntold` | `NoEventMissed` |
| `OwnHealth` | `HealthShownIsOwn` |

`PoolInvariant` says that a collector whose snapshot was gathered is done, and
that the loop leaves the pool with no thread running; the collectors' memory is
thus still when the cycle reads it. `OneTime` says of rates that counters and
time are of the same age unless the last time was stored alone (`misread`); the
two exceptions of `RatesSpanOneInterval` are the disks' and the TCP rates'.
`EventsInvariant` follows a message from
the ring through `seen` and `news` to `heard` or `lost`: a key in `seen` was
told, or was in the backlog of the first collection (`NothingMissed`), and what
is on its way has not been heard before (`NothingRepeated`). `HealthInvariant`
says of checks with distinct names that either none was probed or each has its
own entries, and is due only until the collector's thread has run; failures are
counted by name, which is one's own count as long as no name is shared
(`FailuresOfOne`). The types need the pool as well: a thread may end long after
the loop has given its snapshot up, and what it writes then is typed too.

### Lifetimes

`LifetimesProofs`, for any number of kills and failing statements:

| Theorem | Property |
|---|---|
| `LifetimesTyped` | `LifetimesTypeOK`, a part of `SurroundingsTypeOK` |
| `HistoryAlwaysKept` | `HistoryKept` |
| `AlwaysWarmStart` | `WarmStart` |

`HistoryKept` looks at `disk`; a commit puts there whatever `open` has, with
the leftovers of earlier failures, so `LifetimesInvariant` says the same of
both: each is genuine, complete and pruned (`KeptIn`). `Pruned` is relative to
the last maintenance, because rows age in between; `SentOnce` keeps the alert
that is between its dispatch and its row apart from the rows there are.

`WarmStart` says nothing of the rows a start would load. `BaselineInvariant`
ties the window, the rows on disk and the rows the connection sees to the
readings that were taken, and says that once a baseline is known there is a row
to load except within a flush (`Seeds`). That a window seeded with means stays
within the readings needs `MeanBounds`: whatever bounds the entries of a window
bounds their mean, rounded down though it is, for windows of any length.

### Requests, configuration and all surroundings

`SurroundingsProofs`:

| Theorem | Property |
|---|---|
| `ConfigTypes` | `ConfigTypeOK` |
| `WholeConfig` | `RunsWholeConfig` |
| `RequestsTyped` | `RequestsTypeOK` |
| `AnswersAlwaysTrue` | `AnswersTrue`, for any number of fingerprints, rounds and size of dictionary |
| `PartsImplemented` | `SurroundingsSpec => LifetimesSpec /\ RequestsSpec /\ ConfigSpec` |
| `SurroundingsTyped`, `SurroundingsSafe` | `SurroundingsTypeOK`; the properties of the three parts at once |

`RunsWholeConfig` says nothing of what a reload will find; `ConfigInvariant`
adds that, undisturbed, there is one writer, its copy is what the file holds,
and a file that is open is empty, which no load accepts.

`RequestsInvariant` follows a request while it is under way. The snapshots are
never behind their time stamp and one cycle ahead of it at most (`Ahead`); what
a status has read is not newer than what there is (`InStatus`); and as long as
the dictionary that is listed has not changed, what was collected are its
entries up to the iterator's position (`InListing`). That last part is true of
the dictionary the request began with, which a reload detaches from the
router (`Listed`).

`PartsImplemented` is the composition: a step of the three together is a step
of one and a stutter of the others, so that what each proof says of its part is
true of the whole.

### Induction

The provers cannot instantiate a theorem with an operator parameter, which the
library's induction theorems are. `RecursionTheorems` states induction about
*sets* of numbers instead (`Induction`, `InductionUpTo`), derived from the
well-foundedness of `<`, and from it that a function defined by recursion
along a sequence exists and takes its values where each step does
(`RecursionExists`, `ValuesBelong`). `Mean`, `DueUpTo` and `Rebuilt` are
recursive functions for this reason.

### Model-checked only

* Liveness, which is outside what the proof system does: `DispatchEnds`,
  `SustainedBreachNotified`, `EndedBreachClosed`, `SettledReadingTold`, and
  `TimelyStopEnds`, `TimelyReloadTakesEffect`, `TimelyCollectionGoesOn`, of
  which the safety part is proved.
* What the violation runs refute.

## Not modelled, and what is left

* **Detectors** and the deviations of baselines are floating-point statistics;
  which deviation is an anomaly does not matter to the router, which alert is
  raised when does, and that is the category `Intelligence`. Percentiles and
  deviations of `Baselines` are left out with them.
* **Static explanations**, **log writer**, **utilities**, **packaging**: tables,
  formatting, file I/O; no state worth a model.
* **REST API**: the token check, history queries, the configuration listing and
  the test alert read or forward and keep nothing.
* **Metric collectors**: what they parse from `/proc` and `psutil` is data; what
  they remember is modelled.
* **Prometheus**: the labels of a cycle and the value of the spot gauge's series
  of these labels are modelled; the other gauges are set in the same way. Series
  of former labels, and the counters, are not.
* **Configuration**: single fields and the overrides of the environment.
  **guardianctl**: the commands that print.

A next step would be a model of power failures under WAL, and detectors over
integer statistics.

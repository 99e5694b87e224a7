# TLA+ models of the GreenMind gateway

These modules model the control logic of `greenmind-gateway/`: what a Raspberry
Pi gateway does with the batches its sensors send, how it gets them to the cloud,
and how its update agent replaces the software that does it. They are checked
with TLC on small instances; most safety properties, and the refinements, are also
proved with TLAPS for every value of the constants. All paths below are relative to
`src/greenmind-gateway/`.

## 1. The system

Three kinds of processes share the machine. The **gateway service**
(`src/main.py`) is either the setup portal or the runtime: a uvicorn server whose
handlers run in a thread pool, next to asyncio tasks for uploads, telemetry and
discovery. The **update agent** (`agent/greenmind_agent.py`) is a separate
sequential process that polls the cloud. **systemd** restarts both, and a timer
restarts a gateway whose health endpoint fails, the setup portal included, which has
none. They communicate through files:
SQLite (`queue.db`), the WAV directory, `secrets.json`, the symlink
`/opt/greenmind/current`, the agent's state file.

| Component | State | Operations | Talks to | What makes it correct |
|---|---|---|---|---|
| Ingest endpoint, `src/runtime/ingest_api.py` | `_ingest_lock`; cursor and queue rows | `POST /ingest`: check cursor, append to archive, commit, answer | sensors (HTTP, retries), WAV writer (call), SQLite, upload worker (shared rows) | acknowledged data is durable in both places; a batch is queued once; the archive stays in order |
| Queue, `src/persistence/` | `ingest_jobs`, `dead_letter_jobs`, `sensor_batch_cursors` in WAL mode | commit, rollback, what survives power loss | ingest, upload worker | a commit is all or nothing and, once answered, survives power loss |
| Upload worker, `src/runtime/upload_worker.py` | rows, retry counters, the request in flight | fetch, group, send, isolate refused rows, bury, delete | SQLite, cloud | no row lost, none buried that could be delivered, none starved, few duplicates |
| WAV writer, `src/runtime/wav_writer.py` | open writers (LRU), cached backlog count, `.part` and `.wav` files | append, rotate, evict, finalize idle, close, recover | ingest (call), uploader (files) | parts become visible whole and once; the backlog is bounded |
| WAV uploader, `src/runtime/wav_uploader.py` | backoff per file | scan, send, delete | files, cloud | a file is deleted only when the cloud has it; every file gets there |
| Update agent, releases | releases on disk, `current`, state file, downloads | download, extract, install, switch, restart, check health, roll back, clean up | cloud, systemd, file system | the symlink never dangles; a bad release is undone; a good one is reached |
| Update agent, configuration and commands | `active.json`, version files, backup, temporary files | poll, apply, roll back, execute, report | cloud, systemd | a refused configuration is undone, a wanted one reached; every command is answered and repeated only after a loss |
| Boot and setup, `src/main.py`, `src/setup_portal/`, `src/core/config_store.py`, `src/runtime/reset.py`, `src/network/` | boot flag, `secrets.json`, AP on or off | wipe, register, store, restart | user, cloud, nmcli | a reset leaves no key behind, setup succeeds in the end, no pairing code is wasted, the agent follows |
| Local network, `src/runtime/udp_discovery.py`, `src/runtime/remote_manager.py`, `BoundedSensorIPCache` of `ingest_api.py` | LRU table of sensor addresses, the address the beacon answers with, the commands of one answer | answer a probe, remember and look up an address, execute commands | sensors (UDP, HTTP), cloud, ingest (table), systemd | a deletion reaches the sensor it is meant for; sensors find the gateway; a command does not stop the next |
| Heartbeat | none | one request a minute | cloud, reset | a 410 answer resets the gateway |
| Firmware cache, `src/ota/` | binaries, rows of metadata | sync, write in place, check, serve | cloud, sensors | a recorded binary is whole; sensors reach the newest release |
| Proxy, validation, limits, settings, logging, tools, installer | none worth modelling | | | unit tests |

**What is hard here.** *Interleaving:* several handlers of one sensor's retries;
uploader and writers in one directory; the worker deleting a row whose handler is
still refreshing it; two setup forms at once; the firmware worker rewriting a file
that a sensor downloads. *Atomicity:* the archive append and the database commit
are two steps; download, extraction, installation, switch and health check are many.
*Unreliable delivery:* lost, late and repeated requests on both sides of the
gateway. *Crashes:* between any two steps, with commits that survive them and files
that were never fsynced. *Stale state:* the cached backlog count, the agent's
`previous_release`, addresses that DHCP has given to somebody else. *Limits:* LRU
slots and entries, pending files, batch size, retained
releases. *Liveness:* a poisoned file or undeliverable rows at the head.
`PROJECT.json` lists each of them at its line, with the property that covers it
or the reason why none does.

## 2. Modules

| Module | Models | Promise it is measured by |
|---|---|---|
| `SensorIngest` | ingest endpoint, cursor, archive and SQLite durability; sensors and network | refines `AckedStore` |
| `UploadWorker` | upload loop, isolation, dead letters; cloud as environment | refines `OutboundQueue` |
| `WavArchive` | WAV writer and WAV uploader composed over their directory; cloud as environment | refines `OutboundQueue` |
| `AppUpdate` | update agent's release protocol, operator, systemd | refines `GuardedSwitch` |
| `AgentLoop` | update agent's round: configuration, commands, reports, process ends | refines `GuardedSwitch` |
| `Provisioning` | boot, setup portal, reset, health timer, the agent's start | properties |
| `FirmwareCache` | sensor firmware worker and local server, sensors | properties |
| `LocalNetwork` | discovery beacon, table of sensor addresses and remote manager composed; DHCP, sensors and cloud as environment | properties |
| `<M>Proofs`, for each `<M>` above | theorems and proofs about `<M>` | |
| `MC*` | values and symmetry only TLC needs | |

Operators whose comment starts with *Seeded bug* are plausible wrong versions of
the definition that follows them. No specification uses them: they are there to
see each property fail when the code is wrong that way.

### SensorIngest

One record per connection holds a handler: `pc[c]` is where it stands in
`_ingest_data`, `msg[c]` its packet. `Admit` is the cursor check under the lock
and decides between `AckDuplicate`, `RejectConflict` and going on;
`RefuseStorage`, `WriteFrames`, `FlushBatch`/`FlushFails` are `write_samples`;
`Commit`/`CommitFails` and `Refresh` are the database part. `wav[s]` is the
archive in file order with `synced[s]` frames fsynced, `jobs` the queue rows ever
committed (history: the worker's deletions show as `DrainRow` only where a handler
can notice them). Sensors retry one pending packet until they see 200, over any
connection, and may restart. `Crash` keeps what was synced of each archive and an
arbitrary prefix of the rest (`Surviving`); the database is as last committed, since
`database.py:46` sets `synchronous=FULL`, so that no commit is lost.

An abstraction to know: a successful flush covers all frames before it, those of an
earlier request whose own flush failed included. Those are never committed, so
counting them as synced strengthens no property. A torn last frame is not
modelled: recovery accepts whole frames and a torn one is an unsynced one.

### UploadWorker

`place` is where the loop stands; `queue`, `dlq`, `retries` are the tables,
`todo` the rows fetched, `batch` the request in flight, `rest` the rows to
isolate. A request travels over `wire` and is handled by the cloud at any time, also
after the worker gave up on it; `seen` is the set of `measurement_id`s the cloud
knows and `rows[j]` how often it has inserted row j. The `measurement_id` is the
set of rows that share a request, which is what the hash in
`_build_cloud_request` depends on. Rows of an unassigned sensor are kept, and
`HeldUp(j)` names the two ways in which they keep a good row j from being sent: as many
older ones as a fetch holds, or the oldest of them in another serial's group, which
comes first and ends the cycle. `GoodRowsDrain` promises every other good row its
delivery; `NothingHoldsUp` is the sentence of the code's comment, without exception.

### WavArchive

`file[k]` is the life of a chunk; `writers` and `open` are `_writers` with its LRU
order; `step` is where the write that holds `_lock` stands, so that the uploader's
scan, its requests and a crash interleave with rotation and eviction. `Close`
renames; `CloseFails` leaves a part behind or renames without invalidating the
cached count. `List`, `Send`, `Acknowledged`, `Refused`, `UploadFails` are the
uploader's round with all its breaks. `Crash` applies `recover_part_files` at the
next start, `Shutdown` is `close_all`.

### AppUpdate

`pc` walks through `_handle_app_update` and `apply_app_update`: `download`,
`apply`, `extract`, `install`, `switch`, `restart`, `health`, and on failure
`rollback`, `restart_back`, `discard`. `previous` and `cached` are the keys of the
agent's state dictionary in memory, `saved` the state file. `releases` are the
directories, `installed` those with a complete environment, `newer` the order of
their modification times, from which `cleanup_old_releases` sorts. The process that
serves is `running`, which differs from `current` between switch and restart and
after failed restarts. Digest, signature and archive checks are the failing
branches of `DownloadFails` and `ExtractFails`; the offer of an update when
reported and desired release differ is an assumption about the cloud, which gets
`current_app_version` in every poll. `temps` are the temporary links that a failed
`LinkFails` left behind; they bear the process id, so `Switch` and `LinkBack` fail
until the agent is another process. `kept` and `stranded` are history variables: the
releases whose directory has a right to be there, and those a rollback left active
because it could not set its link (`LinkBackFails`). The verdict on an attempt stays
"refused" in that case; `RefusedIsUndone` and `BrokenIsLeft` name the exception.

`GuardedSwitch` says what this protocol and that of the configuration promise: one
item is active, a new one only when it is at hand, and while it is on trial the one
it replaced (`fallback`) is kept; the trial ends with one of the two. Here `stock` is
`releases`, and a trial lasts from the switch to the end of `rollback`. An attempt that
fails before its switch rolls back as well, without a trial: that is `Relapse`, the
flaw the run `app_downgrade` shows.

### AgentLoop

The rest of the agent's `main`. `Poll` fixes for a whole round what is wanted
(`target`) and which commands are to be executed (`todo`); the configuration goes
first, through `backup`, `write`, `link`, `restart`, `health` and, if refused,
`back`, `restart_back`; `Leave(how)` ends the attempt. `active` is what the link
`active.json` names: a version, or after a rollback the backup file, which
`BackUp` then refuses as a source. `residues` are the temporary names, made of the
process id, that a failed exclusive open finds taken until the nightly restart.
`Crash` strikes at any place and may leave such a name or a torn backup;
`GoDown` is the reboot a command ordered. No gateway code reads `active.json`, so
the health check's verdict is free. As a `GuardedSwitch`, `stock` is the set of
files written whole, and "no configuration" is always at hand.

### Provisioning

`mode` is the process: `down`, in the middle of a hard reset (`wiped`), deciding
(`boot`), `portal`, `draining` or `terminating` while background tasks finish,
`runtime`, `resetting`. Every form starts a task of its own (`pc[t]`, `code[t]`),
and nothing keeps two of them apart: each takes the radio down, joins, checks,
registers, stores the key and sends SIGINT. `StartAp` may fail without anyone
noticing. The environment restarts the portal (`HealthCheck`, which it cannot
pass), cuts the power, sets the flag, resets from the cloud. A restart waits for the
tasks to end; one that outlasts `TimeoutStopSec` is killed with the portal (`Kill`,
counted by `kills` apart from the faults), and if the cloud has taken its code the code
is lost. The agent
holds the key it read at its start; systemd gives up on one that found none, and
only `CronRestart` brings it back. A key is identified with the single-use code it
was issued for.

### FirmwareCache

`row[r]` is the hash recorded for a release, `file[r]` what its file holds: an
image, nothing, or `Torn`. `Open` truncates the file under whoever reads it,
`Written` is the end of the download with the comparison, the row or the removal,
`WriteFails` leaves the fragment. `fresh` are files that were never fsynced; a
`PowerLoss` may tear them although their rows are committed. Sensors `Check`,
`Download` and `Install` what has the hash they were told. The releases are those of
one board in version order; rows with a version that cannot be parsed, which make
every check of that board fail, are left out.

### LocalNetwork

`address` are the leases, which change hands at any time. `table` and `ip` are keys and
values of `BoundedSensorIPCache` in LRU order: `Remember` is `remember`, and a look-up
(`Delete`) moves its key as `get` does. `answered` is what `get_local_ip` returned when
the service started, `sendsTo` what a sensor believes. `commands` is the rest of one
answer of the cloud; `Ignore`, `Restart`, `Provision`, `DeleteUnknown` and `Delete` are
the branches of `_execute_command`, and `sending` is the request `Delete` awaits while
leases and table go on changing. `Restart` may stop the service (`stopping`, `Stop`),
which empties the table. `unheard`, `used` and `tried` are history.

## 3. Runs

| Run | Instance | Shows |
|---|---|---|
| `ingest_retry` | 1 sensor, 3 connections, 2 boots, 2 batches, 2 encodings, 2 faults | all safety properties, no rewrite after commit, monotone cursors, refinement of `AckedStore` |
| `ingest_progress` | an identified and a legacy sensor, 2 connections, 2 batches each | every pending packet is acknowledged |
| `upload_delivery` | 5 rows (malformed, invalid, unassigned, a good one of each of 2 serials), 2 faults | duplicates need faults, good rows drain unless unassigned ones hold them up, refinement of `OutboundQueue`: no row lost, none buried that could be delivered |
| `upload_starved` | as many unassigned rows as fit a request | *violated*: a good row is never sent (`NothingHoldsUp`) |
| `archive` | 2 sensors, 1 writer slot, 3 chunks of 2 batches, one of them refused for good, limit 1, 1 fault | only whole chunks are sent, the backlog bound, refinement of `OutboundQueue`; finished and abandoned chunks reach the cloud as long as no refused one waits |
| `app_trials` | 4 releases (1 broken), returns, 2 kept, 2 faults, 1 crash | the symlink never dangles, the trial can be undone, a refused release is undone and a broken one left unless the rollback's link failed, failed attempts leave no directory, new good ones are reached; refinement of `GuardedSwitch` |
| `app_downgrade` | 3 releases, 1 fault | *violated*: a failure before the switch goes back to a stale release |
| `agent_rounds` | 2 configurations, 2 commands (1 reboot), 2 faults | the active configuration is whole, a refused one is undone, repeats need faults, commands are answered, configurations reached; refinement of `GuardedSwitch` |
| `agent_stuck` | 2 configurations, no commands, 1 fault; no exception for rollbacks | *violated*: after one rollback no configuration is ever applied |
| `setup` | 2 forms at once, 3 codes, 1 reset, 2 faults, 1 kill | resets wipe, codes are wasted only by faults, rival forms and kills, the access point returns, setup succeeds, the agent follows |
| `firmware` | 2 releases in a chain, 2 images, 1 reissue, 2 faults | recorded binaries are whole, sensors reach the newest |
| `local_network` | 3 sensors, 2 entries, 4 addresses, 3 moves, 1 answer, 1 crash | deletions are aimed, the table keeps the recently used, a truthful beacon is found, deletions behind failing commands are tried |

The type invariants (`TypeOK`) are proved, for every module; the runs spend their time
on other properties. 
A violated run checks one sentence of the repository against what the code does; the
findings in `PROJECT.json` quote it.

**Bounds.** The faults counter bounds all failures together, so each run covers every
placement of one or two faults, which is what the code's single retry loops and single
cursor can tell apart; a third fault only repeats a retry. Three connections are needed
for a retry of a retry to race the original, two batches for a late retry to meet its
successor, two boots for a cursor of an old boot. Three chunks and one slot make
eviction, rotation and a round with more than one file happen. Five rows, three to a
fetch, put a good row behind the unassigned one in its own group and in a later one.
Four releases with two retained make clean-up delete something (the code keeps three,
and `app_downgrade` does). Two configurations are enough to go back to one that is the
backup; two commands to have one executed and unreported while another waits. Two setup
tasks are enough for every pairwise race, three codes for one to be lost to a fault or a
kill, one to a rival form, and one to succeed; one kill shows what it costs, and
`MaxKills` bounds nothing else, since restarts that let the tasks end are free. Three
sensors and two entries make the table forget one; with four addresses for four hosts a
sensor can only get an address another has given up, so three moves are what an exchange
takes. Two firmware releases make the minimum version of the newer one matter.
`CHECK_DEADLOCK FALSE` is used where sensors, chunks, rows or faults run out.

**Fairness.** Every `FairSpec` assumes only that processes keep running: a thread that
holds a lock gets on, the asyncio loops go round (each wait has a timeout), the cloud
handles a request that is still awaited, timers and cron fire. Faults are finite in
number but otherwise free. Strong fairness appears where a turn comes again and again
without lasting: `FinalizeIdle`, which competes for the writers' lock; `BeginApply`,
because the update window opens daily; `CronRestart` in `AgentLoop`, which finds the
agent between two rounds some night; and `Submit`, because the portal disappears and
returns while the user tries. In `SensorIngest` the client's retry is fair because the
firmware retries for ever; in `AppUpdate` and `Provisioning` the restart of a broken
service or of a portal is fair because of `greenmind-healthcheck.timer`. In
`LocalNetwork` sensors send, or look for a gateway, for ever, systemd restarts the
service (`Restart=always`) and the manager's loop goes on, since each of its requests
has a timeout; DHCP and the cloud owe nothing. The installer only enables that timer, so
this holds from the first boot after the installation.

## 4. Proofs

`SensorIngestProofs` proves, for any sensors, connections, encodings and bounds,
that `IndInv` is an invariant, and from it type correctness, `AckedIsStored`,
`QueuedIsArchived`, `QueuedOnce`, `ArchiveInOrder`, the two action properties and
the refinement of `AckedStore`. None of these is inductive: that an acknowledged
packet is stored depends on the answers under way (`AnswerIsTrue`), which depend on
the cursor being the newest commit (`CursorIsNewest`), which depends on mutual
exclusion between the check and the commit (`LockHeld`, `FreshInHandler`) and on
requests never running ahead of their sensor (`RequestsBehind`); that a row's
samples are durable depends on the flush of exactly the frames just written
(`FrameIsLast`, `CommitIsArchived`).

`AppUpdateProofs` proves that `current` never dangles, that a trial can be undone and
that a refused release is undone, or, where a fault kept the rollback from setting its
link, stays itself and no third takes its place, for any releases, any number retained,
any faults and crashes. The strengthening says what an attempt has changed so far:
nothing but its own directory before the switch (`BeforeTheSwitch`, `ExtractedIsThere`),
and after a refused health check the way back is open and taken (`WayBack`); only a
fault strands a release (`LinksNeedFaults`). From the same invariant it proves the
refinement of `GuardedSwitch`; what it needs besides is that a rollback which undoes a
trial still finds the directory it goes back to (`WayBackIsOpen`), although restarts,
clean-up and failed attempts remove others.

`FirmwareCacheProofs` proves `RecordedIsWhole` for any releases, images and
sensors. It is not inductive: that `Open` truncates no recorded file needs the list
of the round, the row and the cloud to agree on the hash of a binary that was never
replaced (`HashesAgree`).

`UploadWorkerProofs` proves that `UploadWorker` implements `OutboundQueue`: each
insertion of the cloud is a `Deliver`, each deletion of a sent row a `Discard` of a
delivered one, each dead letter a `Bury` of one that can never be delivered. The step
that deletes needs the answer to be true (`AnswerIsTrue`), hence requests to hold only
rows that parse (`RequestsParse`) and to be held once (`HeldOnce`), and what the cloud
has seen to have been inserted (`InsertedIsGood`). The type invariant contains the fact
that what the worker holds is still in the queue. The bound `DuplicatesNeedFaults` is
not inductive either: `PaidFor` charges to a fault every insertion beyond the first that
a row had or may still have, which counts the requests on their way and a row the worker
may send again.

`WavArchiveProofs` proves the same refinement for chunks, and `UploadedWhole`. They need
that a writer's chunk is an unfinished file and nobody else's (`OpenIsPart`), that the
write under way keeps its chunk between check and append (`WriteHasChunk`), and that the
uploader works on finished files only, with "stored" meaning stored (`WorkIsFinished`).
The type invariant needs one theorem about data: that closing writers leaves exactly the
others, in a shorter sequence if there were any to close (`WithoutWorks`, about the
recursive function `Without`). Since no induction theorem can be instantiated, it and
`Filters` argue by the least length at which they could fail (`LeastNatural`).
`BacklogBounded` is not inductive: `FaultsPaid` charges every part without a writer, and
a cached count that is too low, to a fault, and `Backlog` bounds the chunks not yet
uploaded; `OpenNewChunk` is the only step that adds one, and it looks at the count
first. `StepKinds` sorts all other steps by what they do to the files.

`AgentLoopProofs` proves `ActiveIsWhole`, `RefusedIsUndone` and `RepeatsNeedFaults`.
`Attempts` follows one attempt: its target is a version and written before it is linked
(`TargetIsHeld`), the backup equals what was active from `write` on (`PlaceOfAttempt`),
and only a gateway without configuration has none (`NothingYet`). The refinement of
`GuardedSwitch` follows step by step, once no attempt tries what is in force already
(`TargetIsNew`). `PaidFor` charges each
execution of a command beyond the first to a fault.

`ProvisioningProofs` proves `ResetWipes`: no task outlives the portal
(`TasksNeedPortal`), nothing is stored between wipe and flag (`WipedIsEmpty`), and a key
about to be stored was never stored before (`KeysAreFresh`), so that what a reset
condemned cannot come back. It also proves `CodesAreNotWasted`: the codes at stake,
spent or in a task's hands but not stored, are at most the faults, the rival forms and
the kills, plus one as long as some task can still end well or give its code back (`Hopeful`,
`Accounted`); a code that ends wasted leaves no such hope.

`LocalNetworkProofs` proves `DeleteIsAimed`, which is about one request, from the table:
the entry of a sensor heard where it is says where it is (`EntriesAreCurrent`).
`RecentIsKnown` relates the table to its whole past: the sensors used since a key was are
those behind it in the table (`UsedSince`), and those used since a sensor that is not in
it fill it (`OthersFillTable`). `TypeCorrect` comes from the same invariant.

The assumptions are those named in the modules: ranges of the constants and
distinctness of the null values. Every safety property of the passing runs is proved.
Only model-checked: all liveness, since fairness and ENABLED are outside TLAPS.

## 5. Divergences seen and not kept as runs

Counterexamples met while modelling; the properties above state the conditions
under which they cannot happen.

- A batch that was archived but not committed is archived again by the retry
  (`CommittedIsNotRewritten` speaks only of committed ones); `README.md:17` promises
  replay protection without that exception.
- Rows queued between two attempts change the `measurement_id`, so the cloud can
  insert a row twice after one lost answer (`DuplicatesNeedFaults`;
  `upload_worker.py:33-35`).
- One row of an unassigned sensor, as the oldest in the queue, keeps the rows of every
  other serial from being sent: its group comes first and ends the cycle
  (`upload_worker.py:169-175`). `GoodRowsDrain` excepts the time this lasts, as it does
  the full fetch of the run `upload_starved`.
- A release that failed before its environment was complete can become active by a
  later rollback through a stale `previous_release` (`greenmind_agent.py:679`, `:697`).
- An agent that dies between the switch and the health check leaves a release that
  was never examined.
- A rollback whose link cannot be set logs "ROLLBACK FAILED" and leaves the refused
  release active, and nothing tries again until the operator wants another one
  (`greenmind_agent.py:711-726`; `README.md:234` "On failure → **automatic rollback**").
  `RefusedIsUndone` and `BrokenIsLeft` except exactly the releases this happened to.
- A release's failed installation can also leave the *active* release without its
  complete environment: with two releases retained, the exception handler may return to
  a directory an earlier attempt could not finish.
- `os.replace` failing after `symlink_to` leaves a link named after the process id,
  so every later switch (or rollback) of that agent fails (`greenmind_agent.py:641-643`,
  `:712-714`); `FreshIsReached` therefore excepts it.
- Going back to a release that is still on the disk fails on its directory and rolls
  back, for ever (`greenmind_agent.py:572-573`, `README.md:213`).
- A restart that raises after a configuration switch is reported as a failure and the
  new configuration stays; so does the very first configuration when refused.
- A remote reset means to keep the WiFi profiles (`reset.py`), but its flag makes
  the next boot delete them (`main.py:42`).
- The health timer restarts a portal that is registering. Joining may take three times
  30 s, more than `TimeoutStopSec=30`; a task killed after the cloud has taken its code
  has lost it, and the user needs a new one (`README.md:437` "Codes are single-use").
  `CodesAreNotWasted` allows one code for each such kill.
- After a failed join `start_ap` runs with its default suffix `0000`
  (`wifi_manager.py:237`, `README.md:147` "last 4 chars").
- A WAV file the cloud answers with 400, 409 or 422 is never deleted and always the
  oldest; the round ends at it (`wav_uploader.py:352-354`) although its backoff is its
  own (`:233`, and `:61` "bounded per-file backoff"), so no younger file is sent until
  the backlog limit refuses all sensors. `CompletedIsUploaded` and
  `SilentSensorIsUploaded` except the time such a file waits; without the exception
  TLC finds the run `archive` violating them.
- The beacon computes its address once, with the fallback `192.168.0.1`, and never
  again (`udp_discovery.py:44`, `:50`), against "it replies with its own IP address so
  the ESP32 can POST data" (`:3-4`): a gateway that starts before its network, or gets
  another lease, sends every sensor to nowhere until the service restarts.
  `SensorsAreHeard` has that as its premise.
- One recorded firmware version that `semver.parse` refuses makes every check of its
  board an error 500, for ever, as no row is deleted (`local_server.py:51`, `:55`); one
  malformed entry in the cloud's list ends every round at it (`cloud_sync.py:75-80`).
- A release withdrawn by the cloud keeps its row. If its binary is lost to a power
  cut as well, sensors are offered it for ever, and never the older one the cloud
  still lists (`local_server.py:50-61`). `SensorsAreUpdated` therefore asks for all
  releases to stay listed.
- `maintenance_mode_local` is written and never read (`README.md:220`).
- `remote_manager.py:95` calls `NetworkManager.ninja_hop`, which does not exist; on WiFi
  the exception drops the commands after it, which is why `Waiting` in `LocalNetwork`
  speaks of commands before the first provisioning.

## 6. Not modelled

- The program is Python and shell. The only JavaScript file of the repository,
  `src/setup_portal/templates/tailwind.js`, is a vendored, minified CSS runtime without
  state of this program; it is not modelled, and a coverage figure that counts
  JavaScript alone says nothing about these modules.
- Stateless or one-shot parts: biosignal proxy, sensor registration bridge, validation,
  URL and HTTP limits, logging, operator tools, most of the installer; their unit
  tests say what there is to say.
- The numeric merge of readings, sample encoding, clock-quality tags: data the
  properties do not tell apart.
- The deprecated BLE path and the vendored provisioning tools.
- Firmware rows and list entries that do not parse (section 5): a third release, which
  the case needs beside the chain of two, is out of TLC's reach together with a reissued
  binary and two faults.

## 7. Plan

1. Abstract specifications for `FirmwareCache` and `Provisioning`, whose properties are
   stated one by one.
2. The order in which `lifespan` cancels its tasks, over the queue and the archive.

`SensorIngest`, `UploadWorker` and `WavArchive` meet in one process; they share
the queue rows and the archive files, and each models what the others do to them as
environment (`DrainRow`, `Enqueue`, `Begin`). A composition of all three adds
states, not interactions.

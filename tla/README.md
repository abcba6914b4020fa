# Verification of the BarHandler manager

The manager (`src/src`, Python, FastAPI, one asyncio event loop and some threads)
runs on the computer of a cash desk. Browser apps ask it over HTTP to print, to open
the drawer, to charge a card, to print an Italian fiscal document; it talks to the
printers, the card terminals and the fiscal printer, keeps a journal of what it did
for the shop's server, supervises an offline service, and updates itself when it is
idle. This directory holds TLA+ models of its parts that keep state, the TLC
configurations that check them on small instances, and theorems that TLAPS proves
for instances of every size.

In the paths below `src/` is the repository itself: the manager's own `src` directory is
`src/src`, beside `src/emulator`, `src/installers` and `src/tests`.

## 1. Inventory

### Parts, their state and their operations

| part | source | state | operations | correct when | module |
|---|---|---|---|---|---|
| printer device | `src/src/devices/printer.py` | handle, queue, worker task, device thread, connection lock, pending build, `_retired`, `_job_in_flight` | `connect`, `disconnect`, `enqueue`, the worker, the callbacks a cancelled worker leaves | journal and answer agree with the paper; no handle is lost or closed under a write; busy while writing; everybody is answered | `PrinterDevice` |
| work journal | `src/src/services/work_journal.py`, `src/src/routes/station.py` | `_seq`, `_entries`, `_lines`, the file | `load`, `record`, compaction, `page` | no number is given twice; a served row is on the disk; the server's cursor passes no row | `WorkJournal`, `JournalPromise` |
| printer registry | `src/src/devices/registry.py`, `src/src/server.py` (watcher) | registrations, cache of devices, draining devices, `printers.json` | `get_device`, `register`, `unregister`, `devices_for_busy`, the watcher every 15 s | no dropped device in the cache; a device that writes stays visible to `/busy`; requests end | `PrinterRegistry` (not the file) |
| card payment, SSI | `src/src/services/terminals/ssi.py`, `src/src/routes/terminal.py` | one TCP exchange per operation, the terminal's own state | charge and refund in two steps with polling, cancel, last result | the row and the answer never deny money that moved | `CardPayment`, `PaymentOutcome` |
| card payment, other banks | `privatbank.py`, `bridge.py`, `posapi.py`, `bpos.py`, `oschad.py` of `src/src/services/terminals` | a connection, or a thread with the COM port | charge, refund, cancel, last result, ping, info | an answer is that of its own operation; the port is given back | `BankTerminal` |
| busy guard, self-update | `src/src/services/busy.py`, `src/src/routes/health.py`, `src/src/routes/system.py`, `src/installers` | operations held, draining devices, sales heard of | `guard_critical`, `busy_refusal`, the buttons, the installers' questions and signals | nothing that was in progress when a killer was told "free" is lost; the manager does not refuse for ever | `UpdateGuard` |
| offline mode | `src/src/services/offline_service.py`, `offline_state.py`, `offline_secrets.py`, `src/src/routes/offline.py` | secrets, configuration, the active mark, the local copy, a child process | activate, switch off, the supervising loop | one process at most, brought back after a crash; the key fits the copy; no sale that was counted is deleted | `OfflineShop` |
| remote diagnostics | `src/src/services/log_uplink.py`, `uplink_life.py`, `diagnostics.py` | the configured session, its client, a bounded buffer | switch on and off, the server's order, the watch of the day | the session that is open is the one the manager holds, and ends within its day | `SessionState`, `UplinkSession` |
| terminal registry | `src/src/devices/terminal_registry.py` | registrations, aliases, the last discovery, `terminals.json` | load with re-keying, register, merge, unregister, refresh | one registration per terminal; every identifier a till holds still leads to it, and to no other; nothing typed is lost | `TerminalState`, `TerminalRegistry` |
| Italian fiscal printer | `src/src/services/fiscal_it.py`, `src/src/routes/fiscal_it.py` | none but the printer's | check the tenders, post, read the answer, Z, X, reprint | the document says what was paid; a refusal means no receipt; an identifier is of one receipt | `FiscalPrinter` |
| station settings | `src/src/services/station_settings.py` | a file, a cap of shops | load, save | the shop being saved is never the one evicted | none |
| print and drawer routes | `src/src/routes/print_routes.py`, `drawer.py` | none | render and enqueue | | their side of `enqueue` is in `PrinterDevice` and `UpdateGuard` |
| rendering, scanning, dashboard, single instance, autostart, configuration | see `PROJECT.json` | none that outlives a call | | | none: layout, pure I/O, start-up glue |
| emulators, installers | `src/emulator`, `src/installers` | | | | sources of the device side of `FiscalPrinter` and `BankTerminal`, and of the killers of `UpdateGuard` |

### How they interact

* A **handler** asks the registry for the device (`get_device`), which may open it
  (`connect`), puts a job into its queue and awaits a future. The **worker** of the
  device renders the job and hands its bytes to the single **device thread**, awaits
  that, writes a **journal** row and resolves the future.
* The **watcher** calls `get_device` for every registered printer every 15 seconds.
* A new registration drops the cached device; its `disconnect()` runs as a task of its
  own, and the device stays among the draining ones as long as it has work.
* `GET /busy`, the two buttons of the dashboard and the installers ask for three things:
  the critical requests held, the devices with pending jobs (from the registry), and the
  offline sales that wait (from the supervisor, the service's `/health`, or the disk).
* The **supervisor** of the offline service is a task of its own; an activation or a
  switch-off changes files it reads and tells it to stop.
* A **terminal operation** finds its terminal by an identifier that a till holds, which the
  terminal registry resolves; the adapter of the bank then talks to it, over TCP or in a
  thread that has the COM port.
* The **online app** reads the journal in pages and carries the rows to the server; the
  server's cursor comes back with the next request and may lift the numbering.

### What is hard about it

Every `await` is a place where another task may run; a thread goes on when the task
that waits for it is cancelled or times out; a client may leave in the middle of a
request; a manager may be killed by its own update; files may be torn, lost or restored.
`PROJECT.json` lists the hazards one by one with the line where each bites and the
properties that watch it.

## 2. Plan

| order | modules | status |
|---|---|---|
| 1 | `PrinterDevice`: handlers, worker, device thread, connect and disconnect | checked, safety proved |
| 2 | `WorkJournal` and what it promises the server, `JournalPromise` | checked, safety proved |
| 3 | `PrinterRegistry` over abstract devices | checked, safety proved |
| 4 | `CardPayment` against a terminal that may go silent; abstract outcome of a payment, `PaymentOutcome` | checked, safety proved |
| 5 | `UpdateGuard`: holds, pending jobs and offline sales against the kill | checked, safety proved |
| 6 | `OfflineShop`: activation and switch-off with their files, and the supervisor | checked, safety proved |
| 7 | `UplinkSession`: one day of remote diagnostics, the lines that go through it | checked, safety proved |
| 8 | `TerminalRegistry`: identifiers, aliases, merging, what is written and what a start makes of it | checked, safety proved |
| 9 | `BankTerminal`: one message per purchase, over TCP or in a thread on a COM port | checked, safety proved |
| 10 | `FiscalPrinter`: tenders, documents, numbering | checked, safety proved |

Left: what the diagnostics and the offline mode still keep when requests overlap; a model of
`printers.json` and of the station settings.
No module that is proved about declares a RECURSIVE operator.

## 3. The modules and the code

Every definition that models code is listed in `PROJECT.json` under `map` with its
lines. Definitions called *faulty variant* are what a plausible bug would make of the
definition below them; no specification uses them.

### PrinterDevice

One `PrinterDevice`. An action is the code between two awaits of one task, or one task of
the device thread.

| code | model |
|---|---|
| `_printer`, `_queue`, `_worker_task`, `_connect_lock`, `_pending_build`, `_retired`, `_job_in_flight` | `handle`, `queue`, `worker` and `cancelled`, `lock`, `build` and `built`, `retired`, `inFlight` |
| tasks submitted to the executor `_io` | `device`, a sequence whose head is running |
| `flush`, the future of a write, and the callbacks `_log_after_cancel`, `_settle`, `_clear_flag` | `flush`, `callbacks` |
| the journal row, the answer of the handler | `rows`, `answer` |
| what the operating system has open, what is on paper | `opened`, `paper` |
| `enqueue()`; the handler's request is cancelled | `Enqueue`, `ClientLeaves` |
| `connect()` and its ten-second ceiling; its caller is cancelled | `ConnectBegin`, `ConnectReturns`, `ConnectTimesOut`, `ConnectAbandoned` (and `abandoned`, a record of it that the code does not keep), `CloseLate` |
| `_worker()`: takes a job, asks for the status, renders, writes, ends | `Take`, `StatusReturns`, `WriteReturns`, `ConnectionLost`, `WorkerCancelled`, `WriteCallbacks` |
| `disconnect()` | `DisconnectBegin`, `CancelWorker`, `DrainAndClose`, `DisconnectReturns` |
| the device thread | `BuildSucceeds`, `BuildFails`, `StatusAnswered`, `WriteEnds`, `HandleCloses` |

`check_status` reads `self._printer` when it runs; the model keeps the handle it was
queued with, which is the same one because a closing is queued behind it. Rendering waits for
nothing, so the drawing accumulators and their reset (`printer.py:482`) are within one action and
not modelled. Of the printer and its driver it is assumed that a write which fails never leaves a
whole receipt and one which does not fail always does (`WriteEnds`): the code knows only that the
call returned.

### WorkJournal and JournalPromise

`record`, `page` and `load` hold a lock and do not await, so each is one action; a crash
may fall inside the append (`CrashInAppend`). Rows are read in the order of their
numbers, so memory and file are sets of numbered rows; `tail` is a last line without its
newline. The app asks from the server's cursor (`PageServed`), and the page may be lost
on the way. `TakeBackup`, `RestoreBackup` and `LoseFile` are what happens to the file
from outside. `JournalPromise` says what is owed to the server without files, restarts or
clocks, and `WorkJournal` implements it (`PromiseKept`).

### PrinterRegistry

The registry for one printer id (nothing in it relates two of them), the watcher and the
handlers; a device is abstracted to its lock, its handle, its queue and its running write.
`AskCached` and `AskBuilt` are `get_device()` up to `connect()`; `ConnectAtOnce`,
`ConnectBegins` and `ConnectEnds` are `connect()` and the rest of `get_device()`;
`Register`, `Unregister` and `PollBusy` are the operator and `GET /busy`; `DropRetires` and
`DropCloses` are `disconnect()` of a dropped device. An opening ends (the one that hangs is
in PrinterDevice). A device object that nothing refers to is reused for a new one, and
`Collected` is the garbage collector, which may close its handle and need not.

### CardPayment and PaymentOutcome

One SSI terminal, the handlers of `POST /charge` and `/refund` that use it, and each
handler's journal row. `status`, `current`, `last` and `outcome` are the terminal's, as far
as the code in `src/` shows it: it is idle (S00), waits for a card, is with the bank, or waits
for a second step (S08). A request and its answer are one action, since each goes over a
connection of its own and the handlers do not share state; an answer that is lost is that
action followed by `Fails`.

| code | model |
|---|---|
| `charge()`: Purchase, polling, first result, step 2, polling, result, slip | `Purchase`, `Poll`, `FirstResult`, `SendSecond`, `Poll`, `Result`, `Slip` |
| `refund()`: the operation, polling, result, or stuck in S08 | `Refund`, `Poll`, `RefundResult`, `Stuck` |
| `_wait_idle()` after three minutes | `PollTimesOut` |
| `TerminalUnavailable` from any request | `Fails` |
| `_Operation` in the routes: `done`, `failed`, `unfinished` | `Ends`; a request that is cancelled is `ClientGone` |
| `get_last_result()`, `GET last-result` | `Asked`, `LastResult` |
| `POST cancel`, `cancel()` | `CancelRequested`, `Interrupted` |

`PaymentOutcome` says what the shop is owed about each operation without terminals or
connections, and `CardPayment` implements it for the operations that carry a uid
(`OutcomeKept`): "ok" only of money that moved, a refusal only of money that never does,
one row, or the case left open. A `failed` row counts as open there, since the code writes
it for lost answers too; that the journal's own comment wants it otherwise is the run
`payment_failed`.

### UpdateGuard

The event loop as in the printer's modules, and installers that are other processes.
`active` is `BusyTracker._active`. Devices are those of one printer: `place[d]` is what the
registry has to do with `d` (built by a `get_device()` that still connects, in the cache, replaced
there by another one, dropped and not disconnected yet), `draining` the registry's `_draining`,
`worker` the devices whose worker runs. `service` is the offline service, `unsent` that sales
wait in its queue on the disk, `told` what `state.extra` holds of them from the last health
answer. `known[k]` is what was in progress when killer `k` was told "free", `lost[k]` what of it
was in progress when it killed.

| code | model |
|---|---|
| `guard_critical`, `hold`; a print handler, in `get_device()` and `enqueue()` | `Arrives`, `Connects`, `Submits`, `Ends` |
| `get_device()` that misses: builds, connects, puts into the cache | `Builds`, `Stores`, `BuildAbandoned` |
| worker and registry, as far as `pending_jobs` sees them | `Opens`, `Takes`, `Written`, `WorkerEnds`, `Drops`, `Disconnects` |
| `busy_refusal`, `printers_with_pending_jobs`, `devices_for_busy` | `WorkRefused`, `SalesCounted`, `PrintersPending`, `StillDraining` |
| the offline service as `_remember` and `_stop_process` leave it | `ServiceStarts`, `HealthHeard`, `ServiceStops`, `SaleMade`, `SalesSent` |
| `POST /system/update`, `/system/uninstall` | `PressUpdate`, `PressUninstall` |
| `manager_busy`, `wait_until_manager_free` of the shell installers | `LooksBusy`, `ShellAsks`, `ShellWaits` |
| `ManagerBusyReason` of the Windows set-up | `WizardAsks` |
| SIGTERM, SIGKILL ten seconds later, `taskkill /F`, the end of the server | `Terminates`, `ShellKills`, `WizardKills`, `Exits` |
| a manager that hangs, or crashes | `GoesSilent`, `SpeaksAgain`, `Crashes` |

The registry loses sight of two kinds of job, and `strays` are they: a job on a device that was
replaced in the cache under it (two calls of `get_device()` missed together), and a job put on a
dropped device that `devices_for_busy()` had already let go of. As long as its request is held the
manager refuses because of that; once the client has left, nothing shows the job (`Overlooked`).
`LostWasLate` is about everything else in progress, see section 8.

A shell takes silence for busy and gives up waiting after four minutes (`Patience` looks); a
Windows wizard takes it for free. Then they know of nothing, and what they destroy is outside
`LostWasLate`.

### OfflineShop

One shop. Files are `active`, `secrets`, `config` and `data` (the key the local copy is
encrypted with); `locked` is that the keyring or the disk cannot be read for a while. An
activation writes them in `ActivateLoads`, `ActivateSaves` and so on, one action per file,
so that a crash falls between any two; a switch-off is `SwitchOffAsks`, `ForgetSecrets`,
`ForgetMark`, `SwitchOffStops`, `SwitchOffEnds`. `loop` is where `OfflineService._loop` is: it
loads the configuration, probes for a service that is there already (a stray of an earlier
manager, known by `/health` or by its pid file), spawns, waits until it is up, watches its
health, gives up after misses, stops and rests. Children are processes: `ender[p]` says who
makes process `p` end (`nobody`, a switch-off, the loop, or the pipe to a manager that is
gone). `lost` says whether sales were removed unsent, and whether they had been made before
(`"early"`) or after (`"late"`) the queue was looked at.

### SessionState and UplinkSession

`on` and `at` are `config["uplink"]`, `file` the same on the disk, `uplink` is
`app.state.uplink`, `through` the client that business events go through (`_active` of
`log_uplink`). `SessionState` declares them with what they have to satisfy, `UplinkSession` has the
steps. The await that matters is that of `client.stop()`: `StartsToClose` and `Closes` (`shut_down`), `SwitchesOn`
and `SwitchesOff` (the dashboard), `IsOrdered` (the server), `Expires` (the watch) and
`Restarts` (the manager, which reads the file again and drops a session that is over, whether or
not it can write that down). `config.yaml` may say that the session is on since an instant that is
not known, 0 here (`IsEdited`: by hand, or left by a manager that did not write `enabled_at`): such
a session is over. Other instants are the numbers of the switches; two of them may fall into one
second. A log line is logged, put in the bounded buffer while there is no connection,
sent, or comes back when the connection breaks under it (`Logs`, `Arrives`, `ComesBack`,
`Disconnects`); it makes room for a newer one when the buffer is full ("evicted"), and is
"lost" with the client it waits at.

### TerminalState and TerminalRegistry

`TerminalState` declares the state, the identifiers and what has to be true of them,
`TerminalRegistry` has the steps. An identifier is the digest of a serial number, or of an address
when the serial number was not told, or of both in a file that an older manager wrote
(`SerialId`, `AddressId`, `OldId`; `NetworkId` is what the code computes today). `regs` is
`_registrations`, `alias` is `_legacy_ids`, `cache` is `_last_discovery`, `file` is
`terminals.json`; `held` is the history: what each terminal has been registered under since it was
last unregistered, which is what a till may hold.

Dictionaries are functions on their keys. The order of an old file matters (the last copy gives
the address, and settles a tie), so a registration of an old file says how many come `after`
it. `Loads` is the whole start: `First` picks the copy that stays as `_rekey_winner_first` sorts,
`Survivor` is what it becomes when the others are absorbed (`MerchantsOfAll`, `PastOfAll`,
`Newest`), `Loaded` the registrations afterwards, `Aliases` what leads to them, and the save.
The code absorbs one copy after another; as a nickname is never overwritten, what comes out for
one merchant depends on which of the three answers occur, and `MerchantsOfAll` says it so.
`Registers`, `RegistersManually`, `Unregisters`, `UpdatesMerchants` and the refresh of the roster
in two steps (`StartsRefresh`, `EndsRefresh`, with other operations in between) are the routes;
`Moves` is DHCP. Every save may fail (`Saves`): the memory then differs from the file until the
next one.

### BankTerminal

One terminal of one of four banks, over TCP (a connection per operation) or, PrivatBank only,
over a COM port: the exchange runs in a thread (`thread`), the terminal's answers stand on
`line` until somebody reads them, and a caller that has left (`Abandons`) leaves its thread
behind. `PosApi`, `Bpos`, `Oschad` and `Privat` are how the adapters read an answer. One that is
no JSON (`Garbled`) is a failure for all of them, and so is JSON that is not an object
(`Shapeless`) for those which read through `bridge.py`; PrivatBank's reads it as "declined"
(`privatbank.py:636`). What the till is answered and what the journal says then differ, as
`_journal_operation` files a "declined" of which the terminal said nothing as failed: that is
`told = "unheard"` (`Purchase`, `Spoke`).

The messages are those of the emulators. The terminal itself is external: it takes a request and
ends what it works on (`Takes`, `Ends`), one charge at a time, refusing another one meanwhile, and
ends an answer that it has begun. The emulators do not establish this: `base_terminal.py:90` takes
a second charge at once, and waits for its operator without a limit.

### FiscalPrinter

A till sends amounts with as many places as it likes; they are counted in thousandths here, and
what is posted in cents (`Cents` is `_fmt_money`, `Round5` is `round_to_5_cents`). `Upwards` says
which of the amounts half way are rounded up, which in the code depends on their binary fraction;
the theorem holds for any. Goods are their total. `Orders` are the orders of a till: the single
tender of an old server or a list of at most two, with the till's own map of keys to types of
payment. `Problem` is `validate_tenders`, which looks at the sum before the parts are rounded,
`Document` the lines that are sent, each rounded by itself, `Meant` the type each tender should
have had: `SplitIsTrue` compares what is posted with `Meant` and the price. A request is refused,
or posted and answered, or its answer is spoiled or lost (`Unreachable`: the document may or may not
have arrived). An answer may lack the day, the number, or both (`Fields`), and the identifier is made of
what there is (`ReceiptId`). The printer records sales, rejects, and runs a Z, after which its
numbers begin again.

## 4. Runs

A run asks several properties of one instance. All passing runs
explore their instance completely;
`CHECK_DEADLOCK FALSE` because every one of these systems may come to rest: the jobs, the
deeds or the registrations are used up.

| run | instance | shows |
|---|---|---|
| `printer` | 2 jobs, 2 handles, callers of `connect()` may leave | rows and answers tell the paper; busy while writing; no close under a write; an open handle has an owner or a closing on its way, but for abandoned ones; every waiting handler is answered, every job has a row |
| `journal` | 3 rows, 2 kept, pages of 1, clock to 4 | the promise to the server is implemented: numbers are given once, the cursor passes no row, rows are carried; served rows are on the disk |
| `registry` | watcher, 1 request at a time, 3 devices, 1 re-registration | no dropped device in the cache; a writing device stays visible; requests end, handles come back, the watcher reconnects |
| `payment` | 2 charges, 1 refund, one of the charges with a uid | the rows keep the promise of `PaymentOutcome`; the last result tells the truth; every attempt ends with a row |
| `payment_failed` (violated) | 1 charge, 1 refund | a lost connection is filed as "failed" and the money moved |
| `guard` | 1 request, 2 devices of one printer, 1 killer of any kind, an offline service | what was in progress when a killer was told "free" survives it, but for overlooked prints; what the manager works on does not refuse for ever; an installer gets through, even if the count of sales does |
| `guard_stale` (violated) | 1 request, 1 device, 1 killer, an offline service | the count of a service that has stopped is used instead of the disk |
| `offline` | 2 activations, 2 processes, 1 sale, 2 faults | no process without an end; the key fits the copy; no counted sale is deleted; the service comes back, and stays away from a shop switched off |
| `uplink` | 4 clients, 3 switches, 1 order, 2 lines, a buffer of 1, 1 restart | the open session is the one held; events go through it; lines survive a break of the connection; the session ends, also one of unknown start |
| `terminals` | 2 terminals, 3 addresses, 1 merchant, old files, 1 move, 2 operations, 1 restart | a till reaches its terminal by any identifier it may hold; one registration each; a start and a refresh lose nothing that was typed |
| `bank` | 2 operations that move money, one a refund, 1 query, each bank and wire | the answer is that of the operation; the COM port is given back |
| `fiscal` | 2 documents of one price, 1 report, tenders of 0.004, 0.50 and 0.506, types 0 and 3 | the parts on paper are of the meant types and make the price but for two cents; a refusal means no receipt; identifiers of a day and a number differ |

**Why the bounds are enough.** Two jobs are one being written and one that waits behind it, or
comes after the connection was lost or the device retired; two handles are one
lost, late or abandoned and its successor. Three rows are one carried, one being carried and one
recorded after it; a limit of two with pages of one makes pages shorter than what waits. The
file is rewritten above `CompactAt` lines, twice the limit in the code: the run takes 2
instead of 4, so that three rows reach it; the theorems hold for any value. In the registry
two callers are all that can miss the cache together, and three devices are a dropped one, a
cached one and one being built. Two charges and a refund let one operation refuse, park,
interrupt or overwrite the last result of another in every stage of it. In the guard the request is one whose client goes and whose job stays, two devices are one in
the cache and one that is dropped or takes its place, and the killer is of any kind; several
requests and several killers at once are left to the theorem, as the state space with
liveness grows out of reach. Two activations are a token and its successor,
two processes a stray and its successor, two faults a crash in the repair of another. Three
switches and an order close and open a session inside the stop of another. Two operations of a
bank are one abandoned and one that comes after it. Two tenders of 0.506 meet a price of 1.00
to the cent when they are added and miss it by two when they are rounded, 0.506 in cash cannot be
made of coins, and 0.004 is a tender above zero that is nothing in cents: the edges of
`validate_tenders`.

**Mutants.** Each property of a passing run is violated when one definition is replaced
by a faulty variant of it (`PROJECT.json`, `mutants`).

## 5. Fairness

* Printer: the event loop runs every task that is ready, so worker, callbacks and
  disconnection are weakly fair. Transfers have time limits (`_USB_TIMEOUT_MS`,
  `_NETWORK_TIMEOUT_S`), so what the device thread started ends, all but the opening of a
  handle, which may hang; `connect()` has its own ceiling instead. No fairness for clients,
  for the operator or for the printer's answers being good.
* Journal: the app asks again and some page arrives (`Carry`); nothing makes it record,
  stop or restart. `EveryRowCarried` gives up on a row that is evicted.
* Registry: the watcher asks again and again, openings, writes and disconnections end. The
  garbage collector is never assumed to run, and power and registrations change at will;
  `WatcherReconnects` therefore speaks of a printer that stays on and registered. It is
  checked for a printer that takes several handles: on USB, a lost device can keep the
  printer from being opened until it is collected.
* Payment: every request has a time limit and so has the polling as a whole, so a handler
  takes its next step (`Handler`, weakly fair). The terminal owes nothing: it may stay busy
  for ever, and `EveryAttemptRecorded` holds because the polling gives up.
* Guard: handlers and writes end (their transfers have limits), though other requests may keep
  coming: strongly fair, since the manager may be silent or down in between. A call that holds
  the event loop returns. Installers run. Of the offline service nothing is assumed, neither that
  it runs nor that its queue is ever sent: `WorkRefusalEnds` is about what the manager works on,
  and a stale count may refuse for ever.
* Offline: tasks that are ready run, a locked keyring is unlocked again, a process told to end
  ends or is killed, and one that is started over and over comes up at some time (strong
  fairness of `ChildComesUp`): without it no supervisor could bring the service back.
* Diagnostics: time passes, the watch looks every minute, `stop()` returns, as its waits are
  bounded. Nothing makes a connection come up.
* Banks: threads run and time out, and the terminal ends what it works on.
* Terminal registry and fiscal printer have no liveness property: nothing there waits for
  anything but one answer.

## 6. Proofs

What a run checks on one instance is proved here for all: every invariant and every action
property of the passing runs. A part has one module of proofs; `SystemProofs` has two parts, the
busy guard and the diagnostics, whose steps are those of `U`, and so has `TerminalProofs`: the
terminal registry, whose steps are those of `R`, and the banks.

`PrinterDeviceProofs` proves the types of the printer and, for any jobs and handles and whether
or not callers leave, that the journal and the answers tell the paper, that a retired device is
closed, and that it is busy while it writes. None
of these is inductive. The invariant has five parts: the stages of each job's *life*
(`LifeInv`: what row, answer, write and queue place may go together), no job queued twice
(`QueueInv`), who holds the current job and the flag (`HolderInv`), what each stage of
`disconnect()` has already undone (`DiscInv`), and at most one write in the thread, of the
current job, after everything that stands before it (`WriteInv`). `Inductive` states it.
That no handle is closed under a write
(`NeverClosedUnderWrite`) rests on where a handle is: the device's, one that came too late, or
one that just arrived is open and has no closing queued, and a task of the thread is of a handle
that was opened (`HandleInv`, `ThreadInv`). `NoLostHandle` needs in addition that a build which
nobody gave up has its caller (`KeptInv`); the handle of a build whose caller was cancelled is
`abandoned`, and lost (section 8).

`WorkJournalProofs` proves types, that new rows are acceptable and that the cursor passes
no row whatever the clock does, and, *assuming that a failed append leaves nothing in the
file* (`~PartialWrites`), that served rows are on the disk. For the promise to the
server it assumes an honest clock (`HonestClock`: never set back below a number given out, and a row
takes a second at least, as `_seq_floor` assumes) and proves that numbers are given once and
that `WorkJournal` implements `JournalPromise`. The argument is that every number ever issued is at most the
clock, so a start, which continues from the clock at least, is above all of them even when
the file is gone (`IssuedInv`, `ClockInv`).

`PrinterRegistryProofs` proves the types, that the cache never hands out a dropped device,
and that a device that writes stays visible to `GET /busy`. The strengthening says who
stands in the line of each lock (`HandInv`), and that a device on its way into the cache is
not dropped, not cached, and in the hand of one caller alone (`FreshInv`).

`CardPaymentProofs` proves the types, that the last result asked for by a uid is true, and
that `CardPayment` implements `PaymentOutcome`, for any charges and refunds. The invariant
(`PaymentInv`) says which stages a handler can be in while its operation is on the terminal
(`SessionInv`: above all, that one which waits for its final result is with the bank), that
an intermediate result belongs to the operation on the terminal (`ResultInv`), that a row is
written exactly when the handler ends (`RowInv`), and that what was said rests on the
operation's own result (`WordInv`). A step either moves money or writes a row, never both
(`MovesOrWrites`), which makes each step one of `PaymentOutcome`.

`SystemProofs` proves that as long as a payment, a print or a job without its client is
in progress and not overlooked, `GET /busy` refuses because of it (`BusyIsTrue`), and from it
`LostWasLate`, for any requests, devices and killers. The invariant: every request in progress is
held (`HeldInv`), one that has submitted nothing has no job (`BlankInv`), and every job that is
no stray is on a device that `devices_for_busy` gives and, if it waits, that has a worker
(`JobInv`); letting go of devices that have finished keeps that (`LooksKeeps`), and so does the end
of a process, after which nothing is in progress (`DownIsIdle`). The exception is part of the
statement, not of the environment: the overlooked jobs are exactly those of section 3.

`FiscalPrinterProofs` proves that a refused document was not issued and is not on its way, and
that identifiers made of a day and a number differ, for any requests, prices and tenders. The
invariant says that nothing is issued for a request before it is posted, nor while it is on its
way, nor if it is rejected (`WayInv`), that the counters stand above everything issued under them
and no two receipts have one number of one day (`MemoryInv`), and that an identifier was made of
the fields of a receipt in the printer's memory (`IdInv`). `SplitIsTrue` is about the orders
themselves: what `validate_tenders` lets through, of any amounts, any map of keys to types and any
rounding of halves, is true of the payment (`PreparedIsTrue`), and nothing else is ever on its way
(`PostedInv`). Each part is within half a cent of what was sent (`NearestIsNear`), so two of them are
within a cent of their sum (`PartsInCents`), which is within a cent of the price.

`OfflineShopProofs` proves, for any activations, processes, sales and faults: the types; that a
sale which was counted is not lost, because a switch-off goes on only when the count was nought
(`CountedInv`); that no process of the service runs without somebody to end it
(`NobodysChild`), because between two lives the supervisor has no process (`ProcInv`); and
that the key opens the copy (`KeyOpensCopy`), where activations and switch-offs wait for each
other (`~Overlapping`). The invariant of the last, `KeyInv`, says which key each place holds that
can still reach the disk: an activation about to save (`SaveFits`), a process or a loop about to
create a copy (`StartFits`), and that the secrets stay forgotten while a switch-off goes on
(`Forgotten`).

`TerminalProofs` proves of the registry, for any terminals, addresses, merchants and files of an
older manager, that a till reaches its terminal by any identifier it was registered under
(`StillAnswers`), that an identifier made of a serial number reaches no other (`ReachesNoOther`),
that there is one registration of each terminal (`RegisteredOnce`), and that starts and refreshes
lose nothing that was typed (`WorkKept`). None of them is inductive: each may be broken by a
start later, from a file that an earlier save left. The invariant (`RegistryInv`) relates memory,
file and history. In memory every registration is under its identifier of today, aliases are
identifiers of the older manager only and lead to the serial number they were made of, and what a
sweep filed is under an identifier of today (`StateInv`). While the manager runs, whatever a
terminal was known by is carried by its registration and is an alias (`Carried`). Whether it runs
or not, some copy in the file carries it too (`Filed`), since a save stores all of it and one
that fails leaves a file that had all of it before; so the next start finds it. The start itself
is `LoadedIsWell`: the copies that are merged are exactly the registrations of one terminal
(`CopiesAreOfOne`), the survivor has what each had (`SurvivorHasAll`), and somebody is first
(`LeastExists`). The theorems take the assumptions on the constants of `TerminalRegistry` as the
hypothesis `RegistryConstants`: the keys in an old file are digests of what they hold.

`TerminalProofs` proves of the banks `AnswerIsOwn` over TCP for any constants, and over the COM
port where one thread at a time has it and the terminal is silent about what it gave up
(`Exclusive`, `~Late`). It is about the answers that tell how a charge ended: "failed", "unknown"
and a "declined" of which the terminal said nothing ("unheard") are none of them, and an answer
that is no frame or no object never becomes one (`NoVerdict`). `Believable` is what may be said of an operation without being untrue;
the invariant says that all that is in somebody's mail is (`MailInv`), and that what stands on
the port's line answers the request of the one thread that has the port (`PortInv`).

`SystemProofs` proves of the diagnostics that an open session is the one that is held, configured,
and that events go through, where switches and orders wait for each other (`~Overlapping`). The
invariant: one task at a time, besides the watch, stops a client, and what it stops is no
open one (`TurnInv`); while a switch replaces a client none is open and the configuration
already says so of the next (`ReplaceInv`), which is why a watch that ends meanwhile finds
`enabled_at` changed. `LinesKept` needs no such assumption: nothing waits at a client that was
never opened (`LinesInv`), and a step that loses a line ends its client (`LineStep`).

Assumptions on constants are the named ones of the modules: names differ, bounds are numbers.
The flags (`PartialWrites`, `Overlapping`, `Exclusive`, `Late`) are stated in the
theorems as hypotheses. Each stands for an environment in which the code keeps its word; section 8
says what it does in the other.

Only model-checked: all liveness, which the prover does not reach under fairness. Only proved:
`RetiredStaysClosed` of the printer, `NewRowsAccepted` of the journal for every clock,
`ReachesNoOther` of the terminal registry, and the types.

## 7. What the models leave out

* Journal: the `MAX_SEQ` ceiling and numbers that are no integers; a file that exists and
  cannot be opened; the write of the closing newline failing; rows recorded before the first
  page after the clock was set back.
* Printer: the accumulators of a job that fails while it renders (`printer.py:482`), since no task
  runs between its lines and their reset; a printer that prints a whole receipt and reports an
  error; what a handle that nobody owns does when Python collects it (python-escpos may
  close it); the async probe, which only reads; the bitmap and TSPL drawing.
* Registry: `printers.json`; `disconnect_all()` at shutdown, after which the process ends and
  its handles with it; the choice of a protocol; several printer ids.
* Payment: the terminal is truthful, takes the second step only for the operation it has
  parked, and leaves S08 with the answer to it: all three are assumptions about a device that
  is not in `src/`. An operation without a uid is in the model but not in `OutcomeKept`:
  it reads the last result of the terminal, which may be another operation's. The merchant,
  the parameters and the kind of a refund are abstracted to a request that may fail; a
  manager killed in the middle of a payment is left to the update guard.
* Payment, device side: `SendSecond` refuses a second step of an operation that is not on the
  terminal; the emulator (`src/emulator/ssi_terminal.py:92`) accepts any.
* Guard: the download of an installer; the second question that only words the message; devices
  of other printers, which have nothing to do with each other.
* Offline: the length of the back-off, the log of the child, the download of the service; the
  shop's own server. A process that is spawned while the shop is switched off gets its
  configuration and is stopped at the next check: that this comes before it is up is assumed
  (`LoopSpawns`, `offline_service.py:393-408`). Files are locked by the operating system. Activations and switch-offs do not overlap (`Overlapping = FALSE`): section
  8 says what happens when they do.
* Diagnostics: what is masked in a line, the back-off of the connection. Switches and orders do
  not overlap at the stop of a client (`Overlapping = FALSE`), see section 8.
* Terminals: probing the network; the file of a single terminal before there was a registry;
  the choice of the default merchant, and with it its term in the order of `_rekey_winner_first`
  (`First`); the port in the identifier of a terminal without a serial number.
* Banks: the contents of requests. A terminal works on one charge at a time, and ends an answer
  it begins: `send_serial` has a time limit for each byte and none for the whole answer
  (`privatbank.py:247-258`), so one that never ended would keep the port. The COM port is exclusive and a terminal does not answer an
  operation it was told to give up (`Exclusive`, `Late`), see section 8.
* Fiscal: more than two parts (each one more may add half a cent to the difference between the parts
  and the price); negative amounts; lines of goods and VAT (the price is the sum of
  `total_price`, what is posted are quantities and unit prices), the periodical check, the watch on the last Z.
* Not modelled at all: `station_settings.py` (two dictionaries and a file, every operation
  without an await), rendering, scanning, dashboard, single instance, autostart, configuration.

## 8. Behaviours worth knowing

The two violated runs show where the code does something else than one of its comments says;
`PROJECT.json` quotes the comments:

* `payment_failed`: a connection lost in mid-payment is filed as "failed", which the journal's
  comment keeps for what is known to have failed; the money may have moved.
* `guard_stale`: nothing clears `state.extra` when the offline service stops, so its last count is used
  where a comment says that the disk is read (`src/src/services/busy.py:284-288`): updates are refused
  until the manager restarts or the service comes back, or sales that are on the disk go unseen.

More of them, met while modelling and not checked by a run:

Printer, journal and registry

* A worker that is cancelled after its write has ended, and before it resumes, tells its
  handler "cancelled" of a receipt that is out (`src/src/devices/printer.py:1060`, against its
  comment two lines below).
* A `connect()` whose caller leaves can leave a handle with no owner
  (`src/src/devices/printer.py:359`); `NoLostHandle` counts these as `abandoned`, and no others.
* An append that fails after a piece of the line is in the file leaves the piece; the next row
  glues to it and is lost with the restart (`src/src/services/work_journal.py:258`;
  `PartialWrites = TRUE` violates `ServedRowsOnDisk`).
* The watcher and a request can each open a device for one printer, and the one that is
  replaced in the cache keeps its handle (`src/src/devices/registry.py:373`). It may be
  printing: `devices_for_busy()` does not give it, as it forgets a dropped device that has nothing
  pending at that moment while a request that waits in its `connect()` can still print on it
  (`registry.py:291`). `GET /busy` asks for the queues apart from the requests so that jobs without
  a request are seen (`busy.py:234-237`); these are not, once their clients have left.
  `BusyIsTrue` and `LostWasLate` leave out exactly them (`Overlooked`).
* A registration that comes while `get_device()` awaits `connect()` is followed by the device of
  the old registration in the cache (`src/src/devices/registry.py:381`).
* An unreadable entry of `printers.json` is kept and written after the readable ones, so after
  a re-registration of that id the old entry may win at a load that can read it again.
* `GET last-result` while a charge waits for its second step tells "declined"
  (`FIRST_STEP_COMPLETED` is none of the known results, `src/src/services/terminals/ssi.py:823`)
  of a payment that may still go through. `RecoveryIsTrue` therefore speaks of "ok" and
  "cancelled" only.
* A charge whose request is cancelled between the two steps sends no Interrupt and leaves the
  terminal in S08 until it gives up by itself.
* The comment in `_wait_idle()` says that its caller maps the time limit onto a "cancelled"
  result (`src/src/services/terminals/ssi.py:696`); both callers let it through, and it is filed
  as failed.
* The slip is fetched with `GetLastReceipt`, which names no operation: with two operations on
  one terminal it may be the slip of the other.

Guard and offline mode

* A sale made between the check of the queue and the removal of the data is lost
  (`src/src/routes/offline.py:187`; `lost = "late"` in the model).
* Activations that overlap overwrite each other's key, and the copy cannot be opened
  (`src/src/services/offline_state.py:107`); one that falls between `forget()` and `remove_data()`
  of a switch-off loses its fresh secrets (`src/src/routes/offline.py:197`).
* A stray service that hangs cannot be stopped by way of its `/health`.

Diagnostics

* Two requests to switch on that overlap at the stop of the old client leave a client nobody
  holds. A switch-off or an order of the server that begins and ends while a switch-on waits for
  the old client to stop leaves the new client live with a configuration that says off; it never
  expires (`src/src/services/uplink_life.py:78`; `Overlapping = TRUE`). The watch does not: what the
  switch-on has just stored is not a day old.

Terminals and banks

* "The later entry is the newer address" (`src/src/devices/terminal_registry.py:146`) fails when
  an older manager registered a terminal again in place.
* `register()` has a branch for a registration that moves to another identifier
  (`src/src/devices/terminal_registry.py:740`). No step takes it: a sweep files a descriptor under an
  identifier of today, and the stored one is under its own (`PutKeeps`, `RegistersKeeps`). A terminal
  that was registered by its address and later tells its serial number is therefore registered a
  second time, under the new identifier; the first registration stays.
* `terminals.json` that cannot be read is overwritten by the next registration; an unregistration
  whose save failed comes back with the restart.
* BPOS and Oschadbank answer the last result whatever uid was asked for, under the uid asked
  for. PrivatBank's "in progress" is read as declined.
* An answer of PrivatBank that is JSON but no object is told to the till as "declined"
  (`src/src/services/terminals/privatbank.py:636-640`), even if the bank had approved the payment; the
  journal files it as failed (`src/src/routes/terminal.py:131-148`). `AnswerIsOwn` is about answers
  of which the terminal said something.
* On POSIX a COM port is not exclusive: two threads may share the answers (`Exclusive = FALSE`
  violates `AnswerIsOwn`). An answer that comes late is read as that of the next operation
  (`Late = TRUE`). `cancel` over an exclusive port never reaches the terminal.

Fiscal printer

* A single tender is not compared with the total; a key nobody knows is printed as cash.
* The parts of a payment are checked as they were sent and rounded afterwards, one by one
  (`src/src/services/fiscal_it.py:274-300`, `480`): 0.506 and 0.506 by card for 1.00 are printed as 0.51
  and 0.51, two cents above the price where `validate_tenders` allows one (293), and a part of 0.004
  as 0.00, which it means to keep out (271-273). `SplitIsTrue` allows two cents, and a part that is
  nothing.
* "printer_unreachable" and "bad_response" leave open whether the receipt was printed: a till
  that prints again may have two.
* An answer without the number of its Z report gives the number of the document alone as the
  identifier (`src/src/services/fiscal_it.py:710-718`), which comes again every day: "best-effort", says
  the docstring. `ReceiptIdIsOwn` is about answers with both.
* A copy is asked for by its number alone, though numbers begin again after each Z.

# Formal models of sigelly_emu

sigelly_emu polls an Alfen charger over Modbus TCP and shows what it measures as a
Shelly Pro 3EM-3CT63: as Modbus input registers, which the Sigenstor meters by, and as
Shelly RPC over HTTP and WebSocket, by which it is discovered. These are TLA+ models of
that program, the TLC runs that check them on small instances, and TLAPS proofs of what
matters most for every instance. `PROJECT.json` ties each definition to the lines it
models, and each hazard of the code to the properties that watch it.

Paths below are relative to the repository (`app/...`).

## 1. The system

The process has four threads: the *main* thread, whose asyncio loop serves HTTP and
WebSocket; the *alfen-poller*; the *shelly-modbus* thread with a loop of its own; and a
short-lived *mdns-start*. A daemon thread that has not ended dies with the process.

| Component | State | Operations | Talks to |
|---|---|---|---|
| Energy store, `app/state/energy.py` | meter reading, counters, integration and save times, `state.json`, under an RLock | load, `update_from_alfen`, `save`, `snapshot`, `debug_dict` | called by the poller (updates, periodic saves), by main (last save), by every server (snapshots) |
| Alfen poller, `app/alfen/client.py` | the client and its socket, last measurement, error, counters, backoff, under an RLock | `run_loop`, `poll_once`, `_ensure_connected`, `_read_holding`, `stop`, `get_status` | charger; `on_update` into the store; HTTP asks for the status |
| Alfen registers, `app/alfen/registers.py` | none | `parse_registers` | used by the poller |
| HTTP and WebSocket server, `app/wire_server.py` | one task and buffer per connection | `handle_client`, `_accept_websocket`, `_dispatch` | store, poller status, RPC, trace |
| Shelly Modbus server, `app/shelly/modbus_server.py` | thread, listener, one task per connection | `start`, `stop`, `_client`, `_handle_pdu`, `build_register_map` | snapshots of the store |
| Shelly RPC, `app/shelly/rpc.py`, `responses.py` | none | envelope, batches, method table, payloads | snapshots of the store |
| RPC trace, `app/debug/trace.py` | ring of events, counters, under a Lock | `record`, `snapshot` | the HTTP servers |
| mDNS, `app/shelly/mdns.py` | the zeroconf object, its start thread | `start`, `stop` | network |
| Program, `app/wire_server.py` `_amain` | order of start and stop | `start_background`, `stop` | all of the above |
| FastAPI variant, `app/main.py` | as the program | the same parts behind uvicorn | all of the above |
| Settings, scripts | read once; none | | |

What is hard about it, and what makes each part correct:

- **Energy store.** Two threads save through one temporary file; a kill can fall between
  any two file operations; the counters have two sources, and the clock that measures
  intervals is the wall clock. Correct: the file always parses; what is loaded is never
  ahead of what was counted and at most one save interval behind; no interval is counted
  twice, in the wrong direction, or for the phases but not the total; a snapshot is of one
  instant; a clean stop loses nothing.
- **Alfen poller.** The lock is dropped around every call on the network, so `stop()`, and
  anybody who asks for the status, comes in between connecting and storing the
  connection, or closes the client the poller reads from. Calls hang. Correct: no socket
  is lost; after `stop()` nothing stays connected; the status tells the truth and is
  always answered; `stop()` returns; the poller recovers by itself.
- **HTTP and WebSocket server.** TCP cuts messages anywhere, several frames come in one
  read, clients stall, hang up, reset and do not read what they are sent, and all tasks
  share one loop: one that never waits stops all. Correct: no byte lost or read twice,
  answers in order and one per request, everybody who sent a whole message, and reads the
  answers, is answered; tasks end.
- **Modbus server.** Requests sent ahead, a `stop()` that comes before the port is bound,
  clients silent inside a request or not reading their replies. Correct: replies in order, of a meter not older than
  the request; the server ends; every value at its own register, through any window.
- **Alfen registers, and the way to the clients.** The charger leaves out powers that are
  then derived; what the clients read is scaled, rounded and laid out twice. Correct: what
  is derived agrees with what is measured and never replaces it; Modbus and RPC show the
  same; a counter never reads less than before.
- **RPC and trace.** A batch with one bad item, a method table with holes and aliases, a
  ring at its limit, a number JSON cannot hold, and a lock shared by the loop and a thread
  pool. Correct: answers line up with the items of a batch; the trace is of one instant
  and holds every call that was made, as the success or failure it was, which is what the
  client was told unless its whole reply failed with 500; every request ends.
- **mDNS and the program.** A start thread that races `stop()` without a lock; a port that
  is taken, a shutdown that waits for connections, a second interrupt. Correct: nothing is
  advertised after `stop()`, nor for long where nothing can be reached; one interrupt ends
  the process by way of `stop()`, whose order lets the store's last save be the last.

## 2. Modules

| Module | Models | Code |
|---|---|---|
| `DurableCounter` | the promise: counters in memory and on disk, accrue, checkpoint, restart | abstract |
| `EnergyStore` | the store, both threads that save it, its files, kills and restarts | `energy.py`, the shutdown order of `wire_server.py` |
| `AlfenClient` | poll loop, `stop()`, status, the charger | `client.py` |
| `WireServer` | connections, requests, frames, the event loop | `wire_server.py` 255-407 |
| `ModbusServer` | thread, connections, `stop()` | `modbus_server.py` 181-246 |
| `Meter` | a reading of the meter, and what an update makes of it | `energy.py`, `MeterState` |
| `AlfenRegisters` | `parse_registers` | `registers.py` |
| `ShellyRegisters` | the words of a reading, the reply to a data unit | `modbus_server.py` 26-178 |
| `ShellyResponses` | payloads, method table, `dispatch_method` | `responses.py` |
| `MeterPath` | a measurement from the charger's registers to both kinds of clients: composes `AlfenRegisters`, `Meter`, `ShellyRegisters`, `ShellyResponses` | |
| `ShellyRpc` | calls, batches, routes of both servers, and the trace: composes `ShellyResponses` with threads | `rpc.py`, `trace.py`, `wire_server.py` 161-253, `main.py` |
| `ShellyMdns` | the start thread and `stop()` | `mdns.py` |
| `Sigelly` | the life of the process: composes `ShellyMdns` with the poller, the Modbus server and the port, each as coarse as its life | `wire_server.py` 113-159, 404-431 |
| `MC*` | the values of the constants for TLC | |
| `*_proofs` | theorems | |

`Meter`, `AlfenRegisters`, `ShellyRegisters` and `ShellyResponses` have no variables: they
are what the code computes, and `MeterPath` gives it a state to compute from. The modules
with states of their own do not import each other's variables, because each cuts the
program at another grain: what one assumes of another is a constant that the other's
properties justify: that the samples of the store balance (`SamplesBalance`) by
`PhasesSumToTotal`, that the counters of `MeterPath` do not go back by
`ImplementsDurableCounter`. `JoinMayTimeOut` is not justified by any: whether the poller is
out of its call within five seconds is up to the charger and the disk, and both are run.

Operators named `X_Something` standing before `X` are mutated forms of it: the mistakes
the properties are shown to catch. Nothing else refers to them.

### EnergyStore

`meter`, `energy`, `last_integrate_ts` and `last_save_ts` are the store's attributes.
`update_from_alfen` is four steps, as other threads can see it: `UpdateMeter` (under the
lock: readings and timestamp), `UpdateEnergy` (still under it: the charger's registers or
`IntegratePower`), `CheckSave` (outside it), and the save. `save()` is `SaveCapture`
(copy under the lock), `SaveOpen` (`write_text` truncates `state.tmp`), `SaveWrite`,
`SaveReplace` (`os.replace`), any of which can raise (`SaveFails`) and be swallowed. An
open file follows its inode through renames (`fd`), so that what a second saver does to a
file that has been renamed under it is what the operating system does. `Kill` and `Exit`
leave only the files; `Start` loads them. The main thread stops the poller
(`RequestStop`, `JoinReturns`, which may be the five-second timeout) and saves.

Powers and energies are integers in units that make power times a tick one unit of
energy; a tick is a second, an update interval or less. A file is missing, empty, torn or
whole. The samples of `NetBalance` have phases that add up to their total, which is what
`AlfenRegisters` guarantees wherever it derives one from the other (`PhasesSumToTotal`).
`now` is read once per update, as in the code; the wall clock is `time + skew`.

### AlfenClient

The program counter names the places of the poller between which another thread can run:
every acquisition of `_lock`, and every call on the network. `mine` is the connection in
the poller's local variable while it is neither stored nor closed. `locked` is TRUE only
where the lock is held across a call (`Discard`: closing a client under it). A connection
is `closed`, `open`, or `dead` (cut by the charger, not noticed yet). The charger is
`good`, `faulty` (errors, and short replies if `ShortReads`) or `silent`. The poll
counters saturate at `MaxCount`: the code only asks whether `poll_count` is positive.
`_read_holding` reads one block of registers in one call, whose result is good, short or
failed. The waits are exact in units of 1/32 s.

### WireServer

Streams are numbers of bytes: `unsent` of the client's current message, `avail` in the
StreamReader, `buf` in the WebSocket buffer. A request is `HeadLen` bytes (two, so that it
can be cut in between) and a body; a frame is two bytes, a length field and mask counted
in `ext`, and the rest; `frames` also keeps where each ends in the stream. A task runs until it has to wait, and a task that never does is
recorded in `spinning`: from then on no other runs. `HangUp` is an orderly end of the
stream, which reads then report without waiting; `ConnectionLost` is a reset, which makes
the read or drain raise. A drain returns at once (`Drained`) unless the client has left too
much unread (`LeaveUnread`, after which the task is at `full`): then it waits, without a
limit, until the client reads (`ReadOn`) or is lost. `closed` is the end of a task's
reading and answering; the `wait_closed()` it may still be in keeps nobody else. Routing is abstracted to the kind of the answer. Bytes that a
client sends after its upgrade request and before the answer are not modelled (the code
drops them, `wire_server.py:291`; a WebSocket client waits for the handshake).

### ModbusServer

A request is two pieces, six bytes and the rest, each read with `readexactly`; which part
of a piece is missing makes no difference to the code. `unread` is how much of its
replies a client of `Lazy` has left unread: with `some` of them the drain returns but
`wait_closed()` waits, with `much` the drain waits too; neither wait has a limit. `version` counts the updates of
the store, and a reply records which one it shows. The main thread's `stop()` is two
steps, since the loop runs in another thread: `_stop` is set, then `_close` is handed to
the loop if there is a server by then. A second `start()` in one process does not happen
in this program and is not modelled.

### MeterPath and the modules it composes

`regs` holds what was read from the charger; `Parse` is `parse_registers`, `Update` the
store's part in `Updated` (`Meter`), and `ReadModbus` and `AskRpc` are a look by a client
at the meter as it is then. A register pair is a number or `None`. Numbers are whole:
power factors are in hundredths, and `ShareAssumption` admits only windows in which the
phases' shares of a total that is split come out even. `RangeAssumption`,
`EnergyAssumption` and `StampAssumption` keep what clients read within the floats and
integers that are modelled: voltages, currents, frequency up to 2^14, powers up to 2^28,
counters and time stamps below 2^30 and 2^31.

`ShellyRegisters` models `struct.pack(">f")` on integers, with the rounding to 24 bits,
the carry into the exponent and the swapped words; the map with its literal addresses;
and `_handle_pdu` with every limit. Its map is made of functions from addresses to
values, one per block of the code, put together with `Joined` (which is `@@` of the module
TLC, of which the provers know nothing). Values too large for a binary32 (`struct` raises and the connection is closed) are
not modelled. `ShellyResponses` keeps of a payload what depends on the meter; the RPC's
rounding to a few digits leaves the numbers of the instances as they are.

`FloatOf` and `Shows` belong to the properties: they are the client, which takes words
apart that `ShellyRegisters` put together, and the addresses at which it expects what the
RPC shows, written down from the regularity of the Shelly's map (one block per phase, 20
registers apart) rather than from the code's literals.

### ShellyRpc

A thread is the loop or, under FastAPI only, a worker of its pool; `variant` is the server
that runs. A request is a route, a form (single, batch, or one of the ways to be refused)
and items; an item's method is a name, absent, or no string. A thread walks the items by
number (`pos`). `Call` takes the snapshot,
dispatches and encodes; `Record` and `Count` are the two halves of `RpcTrace.record`
under its lock, which a reader that took no lock could tell apart; `Summarize` is what
`/debug` shows. `finite` says whether the store's numbers are, since a charger may send
an infinity. `log` is a history variable: every event, where the code keeps the last.

### ShellyMdns, Sigelly

`start()` is `StartLook`, `MakeResponder`, for each service `Probe` and `RegisterEnds`, the
two ends of zeroconf's `register_service`, which takes seconds, and `Publish`; `stop()` is
`StopLook`, `Withdraw`, `CloseResponder`, `Forget`: the steps between which the other
thread may run. What zeroconf does when it is closed inside a registration is assumed of
it: the call returns or raises, and nothing more is sent. `advertised` is what the network has been told and not been told to
forget; it expires only when the process is gone. `Sigelly` adds `main`, which goes
through `start_background`, the port, serving, closing, and `stop()` in the code's order;
`Interrupt` (SIGINT) acts differently in each of these places. What the poller counts and
the last save writes is in `EnergyStore`.

## 3. What is checked

A property of a passing run is accompanied by a mutant of the code that breaks it. The
type invariants of `EnergyStore`, `AlfenClient`, `ModbusServer` and `Sigelly` are proved
(section 4) and are not run as well; those of `WireServer` and `ShellyRpc` are both.

| Run | Shows |
|---|---|
| `store_core` | Steady clock and a disk that works, kills, restarts and stops anywhere: `NetBalance`, `EnergyBoundedByTime` (nothing counted twice), `LossBounded`, `GracefulStopSavesAll`, `StampIdentifiesEnergy` (no snapshot mixes two updates), `ImplementsDurableCounter` |
| `store_sources` | Samples with and without energy registers, failing file operations, a clock stepped back and forward: `StateFileIntact`, `CountersFollowPower`, `IntervalsAdjoin` (no change of source counts an interval twice), `StopTerminates` |
| `store_two_savers` | *violation*: `StateFileIntact` when the join times out |
| `client_core` | Short replies, hangs of network and disk, a join that may time out: `NoConnectionLeak`, `StopDisconnects`, `StatusAgrees`, `NumbersNeedReply`; `StatusAnswered` and `StopReturns` even if a call never returns; `Recovers` if calls do |
| `client_short_read` | *violation*: `LastGoodKept` with a short reply |
| `client_slow_disk` | *violation*: `PollingContinues` with a save that hangs |
| `wire_core` | Bytes in any pieces, stalls, resets, hang-ups anywhere, answers that are not read: `TypeOK`, `NoByteLost`, `AnswersInOrder`; and `AnsweredUnlessCutOff`, `FramesHandled`, which except a client that hangs up inside a message, and `FramesHandled` also one that does not read its answers |
| `wire_hang_up` | *violation*: `RequestAnswered` without that exception |
| `modbus_core` | Requests sent ahead, clients that hang up, fall silent or do not read, `stop()` at any point: `RepliesInOrder`, `FreshReads`, `OneReplyAfterStop`, `RequestAnswered`, `StopEnds` |
| `meter_path` | `PhasesSumToTotal`, `PublishedKept`, `PowerFactorFollowsPower` for every combination of published values; `InterfacesAgree` through every window; `CountersReadMonotone` |
| `rpc_core` | Both servers, single calls, batches, refusals: `TypeOK`, `AnswersLineUp`, `TraceIsOneInstant`, `AnswersAreTraced`, `RequestsEnd` |
| `sigelly_core` | Interrupts, kills, a taken port, an mDNS start that overlaps its stop: `QuietAfterStop`, `InterruptEnds`, `AdvertisedIsReachable` |

### Bounds

- *Store.* The clock runs 4 ticks from `Epoch` in `store_core` (2 in `store_sources`, 3 in
  `store_two_savers`) with a save interval of 2, so there are saves that are due, saves
  that are not, and energy counted between them. Two incidents (kills, or steps of the
  clock back and forward) meet every point of an update and of a save; restarts and clean
  stops are not bounded. Three samples: charging on one phase while another exports,
  exporting, and a short read. `store_sources` has two: energy registers of which the
  total is missing, and none, between which the source of the counters changes.
- *Client.* Two connections are as many as the code can hold (`_client`, and the
  poller's own). Two values tell a retained number from a new one. The real interval and
  cap (2 s, 30 s) are used.
- *Wire.* A client that speaks only HTTP and one that may open a WebSocket and send two
  frames of any kind, one of them with an extended length. Interference between tasks is
  through the loop alone, so two show it.
- *Modbus.* A client with two requests of any kind, which may be sent ahead and their
  replies left unread (`Lazy`), another with one, and an update between them.
- *Meter path.* Every combination of missing, zero and published powers and currents, with
  negative values; three readings, in which no two values agree, go on to the clients.
  Counters on both sides of 2^24 and 2^25 Wh, where a binary32 starts to skip. Windows
  that start before, at, inside and after the values, at the limits of the count, and at
  the end of the address space.
- *RPC.* Three requests on two threads, batches of up to three items of every kind
  (aliases, unknown, absent and non-string methods, items that are no object), a ring of
  two events and a summary of one, so that three calls overflow both.
- *Program.* Both services, two connections, two interrupts (the second meets every
  place after the first).

Deadlock is checked in the store and the client. The servers, the parser and the process
come to rest when the bounded clients have nothing left to send, or the process is gone.

### Fairness

- *Store:* the poller's steps, and main's after `stop()` was called: threads are
  scheduled, and polls and file operations end. Nothing else is fair.
- *Client:* the poller's own steps, `stop()`, and the status handler. Calls on the network
  are fair only in the premises of `Recovers` and `PollingContinues`, where the timeouts
  of the Modbus client justify it; saves only where a premise says so. The charger and the
  caller of `stop()` are never fair.
- *Wire:* each task that is ready. asyncio runs ready tasks in turn; a task that never
  waits disables the others, as it does there. A wait for the first request ends after
  ten seconds (`NoRequest`), every other wait needs the client, the one for an answer to
  go out included: `LeaveUnread` and `ReadOn` are the client's and not fair.
- *Modbus:* the loop and its two-minute timer on headers, and `stop()` once begun. Clients
  are not fair, and need not read.
- *RPC:* a thread that can go on does (weak), and one that waits for the trace's lock gets
  it in the end (strong): `threading.Lock` promises no order, but every section under it is
  a few statements, and nobody takes it without end. Clients are not fair.
- *Program:* the main thread, the poller's way out once it was told, and the expiry of
  records. The mDNS thread, clients and signals are not fair.

## 4. What is proved

TLAPS proves these for all values of the constants, from the named assumptions in the
modules and what the table adds. In the store's, *counted here* is `UseAlfenEnergy =
FALSE` (counters are integrated from power, not copied from the charger, which may say
anything), *stop waits* is `JoinMayTimeOut = FALSE`, *disk works* is `FsMayFail = FALSE`,
and *steady clock* is `Skews = {0}`.

| Theorem | Assuming | Says |
|---|---|---|
| `EnergyStore_proofs!TypeCorrect` | | `TypeOK` |
| `...!StateFileStaysIntact` | stop waits | `StateFileIntact` |
| `...!DiskIsNeverAhead` | counted here | `DiskNeverAhead`, also with two savers and any clock |
| `...!CountersFollow` | | `CountersFollowPower`, for both sources and any clock |
| `...!StoreImplementsDurableCounter` | counted here, stop waits | `ImplementsDurableCounter` |
| `EnergyStoreBounds_proofs!NetStaysBalanced` | counted here, `SamplesBalance` | `NetBalance`, with two savers, torn files and any clock |
| `...!EnergyStaysBounded` | counted here, steady clock | `EnergyBoundedByTime` |
| `...!StampsIdentifyEnergy` | counted here, steady clock | `StampIdentifiesEnergy` |
| `...!LossIsBounded` | all four, `SaveInterval`, `PowerMax` above 0 | `LossBounded` |
| `...!GracefulStopSaves` | stop waits, disk works | `GracefulStopSavesAll`, whoever counts, any clock |
| `...!IntervalsDoAdjoin` | | `IntervalsAdjoin`, for both sources, any clock and any failure |
| `AlfenClient_proofs!TypeCorrect` | | `TypeOK` |
| `...!ConnectionsAreTracked`, `...!StopIsFinal` | | `NoConnectionLeak`, `StopDisconnects` |
| `...!BackoffStaysBounded` | `PollInterval` up to the cap | `BackoffBounded` |
| `...!StatusIsTruthful`, `...!StoreAgreesWithLast` | | `StatusAgrees`, `StoreFollowsPolls` |
| `...!NumbersOutliveFailures` | | `NumbersNeedReply` |
| `...!LastGoodOutlivesFailures` | `ShortReads = FALSE` | `LastGoodKept` |
| `WireServer_proofs!TypeCorrect` | | `TypeOK`, for any clients, requests and frames |
| `...!NoByteIsLost`, `...!AnswersAreInOrder` | | `NoByteLost`, `AnswersInOrder` |
| `ModbusServer_proofs!TypeCorrect` | | `TypeOK` |
| `...!RepliesAreInOrder`, `...!ReadsAreFresh` | | `RepliesInOrder`, `FreshReads`, for any number of clients and requests |
| `...!StopLeavesOneReply` | | `OneReplyAfterStop` |
| `Sigelly_proofs!TypeCorrect` | | `TypeOK` |
| `...!QuietOnceStopped` | | `QuietAfterStop`, for any services |
| `ShellyRpc_proofs!TypeCorrect` | | `TypeOK`, for any threads, requests and batches |
| `...!OneInstant` | | `TraceIsOneInstant`, for a ring of any size |
| `...!ToldIsTraced` | | `AnswersAreTraced` |
| `...!AnswersMatchItems` | | `AnswersLineUp`, for batches of any length |
| `MeterPath_proofs!PublishedStays` | `ApparentAssumption` | `PublishedKept`, for any registers |
| `...!PowerFactorsFollow` | | `PowerFactorFollowsPower`, for any registers |
| `...!PhasesAddUp` | (`ShareAssumption`) | `PhasesSumToTotal`, for any registers |
| `...!ReadingsAgree` | (the ranges above) | `InterfacesAgree`, for any meter, request and window |
| `...!ReadingsMonotone` | (the ranges above) | `CountersReadMonotone`, for any two values of a counter |

`store_two_savers` shows that *stop waits* is needed for the file. *Steady clock* is needed
because a clock stepped forward is integrated like any gap, and one stepped back puts off
the next save and can hand out a timestamp again. *Disk works* is needed because a save
that failed is not tried again before the next is due. `ApparentAssumption` (no apparent
power below 0) is needed because a total that comes to 0 makes the code derive them all
anew, and powers of both signs can come to 0.

The arguments:

- *The file.* `StateFileIntact` is not inductive: it says nothing of `state.tmp`. `FilesInv`
  adds that only one thread saves (`OneSaver`: main does so only after the poller has
  exited) and that a thread about to write has the fresh, empty `state.tmp` open, and one
  about to rename has all of its payload in it (`OnlyTmpWritten`).
- *The counters.* `CountersInv` bounds everything on its way to the disk by the counters in
  memory: each payload, the contents of `state.tmp` while somebody is about to rename it,
  and `state.json`. It needs no assumption on who saves, since a mixed file is torn and
  loads as zero. That integration only adds (`IntegratedGrows`) rests on `Elapsed` never
  being negative.
- *The direction.* What an interval adds to a counter is a power times a time that is not
  negative, so it has the power's sign; a step that takes the charger's registers instead,
  or changes no counter, is excepted by the property (`CountersFollow`).
- *The refinement.* The disk changes only by a rename, and to that thread's payload
  (`DiskChanges`); with one saver that payload is not older than the disk
  (`PayloadNotOlderThanDisk`). Every step is then an accrual, a checkpoint, a restart or
  a stutter.
- *The clock.* `ClockInv` ties the times the store keeps to each other: the next interval
  starts at the last update, whose stamp the meter has, but for the half of an update
  that is done under the lock. On it rest three invariants. `BoundInv`: what is counted
  is bounded by the power times the time up to `CountedUntil`, the start of the next
  interval, which is more than the property says and moves with every update. `StampInv`:
  no snapshot is of a later update than the last, and one of the last has today's
  counters. `ServingInv`: memory is ahead of the disk by what flowed between the last save
  that was found due and the last update, and that is less than an interval once
  `CheckSave` has looked. `AdjoinInv` needs no steady clock: outside the locked half of an
  update, the next interval starts at the stamp of the meter, or nothing was measured yet.
- *The balance.* Import less export is power times time (`NetFlow`), which is additive over
  the phases, so an interval keeps the balance (`IntegratedBalanced`), and `BalanceInv`
  says so of everything a counter can be copied to; what is torn loads as zero.
- *The last save.* `SavedInv` says that main's payload is the counters, which hold still
  because the poller has exited (`OneSaver`).
- *Connections.* `InHand` says where the poller can hold a connection, and that `_client` is
  `None` between letting go of one and storing the next, so that what `stop()` closes is
  all there is. `Register` rechecks `_stop` under the lock, which is what keeps
  `StaysDisconnected`.
- *Status.* `ErrorInStep` follows the error through the steps of a failing poll, and
  `BlankBeforeFirst` justifies the fallback to blank numbers before the first success.
- *Streams.* `PhaseInv` says how far a connection has come: nothing is upgraded or answered
  before its request is read, and no more frames are handled than were begun. With it
  `BytesInv` can say where the bytes are while a head, a body or frames are read; a frame's
  end is the end of the one before plus its size, so what is not handled is the distance
  between two ends, and handling a frame takes its size off both sides. `OrderInv` is
  `AnswersInOrder` per client: the witness `to`, the frame each reply answers, grows by the
  frame at hand (`AnswerOrder`), and what is begun but not handled is not in it
  (`SameOrder`). That tasks share nothing but the loop is `OthersUnchanged`.
- *Replies.* `Progress` counts the pieces: what a task has taken is two for every reply and
  one more inside a request, and no more than was sent. So the request at hand
  (`CurrentRequest`) is the one after the last reply, which `RepliesInOrder` needs to be
  preserved; `MarksInv` (no request is newer than the meter) adds `FreshReads`. `StopInv`
  strengthens `OneReplyAfterStop`: a connection that is still reading has had no reply
  since the stop.
- *Shutdown.* `QuietInv` says that a responder `stop()` has found is the one the start
  thread made, which makes no other, and that one which is closed tells the network
  nothing, in the middle of a registration either.
- *Calls and trace.* `Typed` adds to the types that a thread writing the trace has an
  answer at hand, and every other invariant rests on it. `TraceInv` says of the counters
  that they hold the calls of the log up to `Counted`, one less than all while somebody is
  between the two halves of `record()`, so that a reader who waits for the lock sees all;
  and it says that the number of calls, by which a summary dates itself, is `Counted`
  (`Total` of a bag that gains one copy grows by one). A summary once shown stays right
  because the log only grows at its end.
- *What is told.* `TracedInv` follows a thread's own events: from some event on they are
  those of its answers, less the one it has not recorded. The witness `at`, which event
  each answer has, grows by the newest event with `Record`, and the events of other
  threads do not touch it; a new request moves `first` to the end of the log.
- *Answers and items.* `LineUpInv` says that the answers so far are to the items asked
  among those walked so far (`Upto`); `Skip` adds an item that is not asked and leaves the
  witness as it is, `Call` extends it by the item at hand. That the answer fits its item
  (`AnswerFits`) is where the method table and the envelope come in.
- *Registers.* `ParsedInv` reduces three properties to lemmas on the functions: filling a
  total keeps what was there (`SynthesizedKept`), distributing one happens only when every
  phase is 0 (`DistributedKept`), a quotient has the sign of its dividend
  (`QuotientSign`), and shares that are whole add up to what was split (`SharesAddUp`).
- *Floats.* Reading back what `FloatWords` wrote gives the sign, the exponent of the leading
  bit (`LeadingBit`) and the significand (`FloatDecodes`), also where rounding carries into the
  exponent. Below 2^24 that is exact, above it is off by at most half a unit in the last
  place (`RoundedBounds`); rounding keeps the order within one exponent (`NearestMonotone`)
  and never crosses a power of two (`RoundedMonotone`), whence `ReadBackMonotone`.
  Hundredths of a power factor are found again by rounding (`HundredthReadBack`).
- *Layout.* `PairsLaid` and the lemmas before it compute what stands at every address, which
  needs the blocks' addresses to be disjoint; `RegisterIs` adds that no two pairs overlap, and
  `ShownRegisters` that a window shows the two halves of a pair as long as it holds both.
  `ShownInv` connects that to the program: the meter stays within the ranges through
  parsing, splitting, deriving and updating (`ParsedInRange`), and a reply on Modbus is of
  the present meter.

Every safety property that a passing run checks is a theorem above. Only model-checked:
the liveness properties (`StopTerminates`, `StatusAnswered`, `StopReturns`, `Recovers`,
`AnsweredUnlessCutOff`, `FramesHandled`, `RequestAnswered`, `StopEnds`, `RequestsEnd`,
`InterruptEnds`, `AdvertisedIsReachable`), since fairness and ENABLED are beyond this
prover, and `StateFileIntact` when the join may time out, which is false. The theorems
hold under the assumptions named in the modules; where the code would break one (a value
beyond a binary32, a share that is no whole number and is rounded by floating point), they
say nothing, and neither do the runs.

## 5. Where code and documentation disagree

- `store_two_savers`: the store is called thread-safe (`energy.py:65`), but two savers share
  `state.tmp`. If the poller is stuck for more than five seconds at shutdown and then
  updates, a mixed file can become `state.json`, and the counters restart at zero.
- `client_short_read`: a poll is said to keep last-good values on failure
  (`client.py:212`), but a short reply replaces them with zeros.
- `client_slow_disk`: saving on an interval is said to keep a hung filesystem from stalling
  the polling (`energy.py:174`), but the save runs in the polling thread.
- `wire_hang_up`: a client that hangs up inside a request body, or inside the length field
  of a frame, leaves its task in a loop that never waits; the health check that the
  Dockerfile relies on is no longer answered.

Also seen, without a run of their own:

- After the wall clock is stepped back no save is due until it has caught up
  (`energy.py:175`), and `alfen_ok` of the store, which `/healthz` shows, stays as it was
  when polls fail to connect or read (`client.py:213-239`).
- An item of a batch that is no object fails the whole batch with 500 (`rpc.py:89`); the
  calls before it have been traced as successes, though their answers are never sent. So
  has every call of a reply that holds an infinity, which JSON does not encode
  (`wire_server.py:169`). An infinite power makes the integrated counters infinite, and
  saving and loading keep them so.
- `Shelly.ListMethods` lists 167 methods, of which `dispatch_method` answers eighteen
  and their aliases; the others are answered with an error (`responses.py`).
- `AdvertisedIsReachable` needs its three ways out: `stop()` may come before the start thread
  has made a responder (`mdns.py:95`), and then nothing withdraws what is registered later,
  until the process ends and the records expire; the wait for open connections comes
  before mDNS is stopped (`wire_server.py:420`); and a port that cannot be bound ends the
  process without `stop()`.
- SIGTERM has no handler: as the first process of a container, which ignores signals that
  it does not handle, the program does not stop on it and is killed after the grace
  period, so that the last save does not happen.
- A second interrupt during `stop()` skips the last save.

## 6. Not modelled

- *FastAPI variant.* Its routes are in `ShellyRpc`. Its lifespan starts and stops the same
  parts in the order of `Sigelly`; when it is run, and what becomes of open connections
  then, is uvicorn's.
- *Settings* are read once and are the constants. *Scripts* have no state.
- Formats (JSON, HTTP headers, the SHA-1 of the handshake, the big-endian floats of the
  charger, the records of mDNS) and constant payloads (device, configuration, method list)
  are left out where no property is about them. `/`, `/healthz`, `debug_dict`, `recent()`
  and the other status accessors only read.
- Values beyond a binary32, a second `start()` of the Modbus server, and bytes a WebSocket
  client sends before the handshake is answered.

## 7. Plan

Done, in this order: `DurableCounter`, `EnergyStore` and its proofs; `AlfenClient` and
proofs; `WireServer`; `ModbusServer`; the registers; `Meter`, `ShellyResponses` and
`MeterPath`; `ShellyRpc` with the trace; `ShellyMdns` and `Sigelly`; proofs about the
bounds of the store, `ModbusServer`, `WireServer`, `Sigelly`, `MeterPath` and `ShellyRpc`.

Left, in the order of what it would add:

1. `QuietAfterStop` for a `stop()` that comes before the responder is made: the statement that
   holds is that the process ends and the records expire.
2. The lifespan of the FastAPI variant, once its server's behaviour at shutdown is stated.

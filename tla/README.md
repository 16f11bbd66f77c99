# BMX8bit: a TLA+ verification project

BMX8bit is a bare-metal emulator for the Raspberry Pi: VICE and atari800 on top
of the Circle framework, without an operating system. The emulators are
vendored; what is BMX8bit's own, and what is modelled here, is the machinery
around them: the cooperation of the processor cores, the devices that come and
go, the takeover of the display from the firmware, the C library's files, the
network services, the HTTP interface for developers, and the updater that
replaces the files of the SD card while the program runs from it.

- [1. The system](#1-the-system): inventory of the components
- [2. How the parts interact and what is hard about it](#2-how-the-parts-interact-and-what-is-hard-about-it)
- [3. Modules and the code they model](#3-modules-and-the-code-they-model)
- [4. Runs: what TLC checks](#4-runs-what-tlc-checks)
- [5. Fairness](#5-fairness)
- [6. Proofs: what TLAPS checks](#6-proofs-what-tlaps-checks)
- [7. Findings](#7-findings)
- [8. What is not modelled](#8-what-is-not-modelled)
- [9. Plan](#9-plan)

Paths below are relative to `src/src/` unless they begin with another
directory. `PROJECT.json` maps every definition to its source lines.

    tlc -workers 2 -config HandOffs.cfg HandOffs               # a run
    tlapm RemoteControlProofs.tla                              # a proof

## 1. The system

| Component | State it keeps | Operations | What makes it correct |
|---|---|---|---|
| Remote control exchange (`remote/command_mailbox.*`, `remote/remote_capture.cpp`, `RemoteService::ExchangeControl` and `Stop`, `CKernel::ProcessRemoteCommand`) | one command cell, one control cell with state and token, the audio capture, the screenshot buffer, `stop_requested_`/`running_` | Post, PostControl, TakeControl, CompleteControl, PollControl, CancelControl; BeginAudio, AppendAudio, PumpAudioCancel; screenshot acquire/release; Stop | answers reach their own request, buffers have one owner, the request is stable under its handler, exchanges and shutdown end, no use after delete |
| Core 0 dispatcher (`core0_mailbox.h`, `kernel.cpp`) | one request, its state, the event registers | call from core 1, dispatch on core 0 | every call returns, with its own result; no wake-up is lost |
| SID worker (`sidworker.cpp`) | one job, two semaphores, the busy flag | submit, wait, the worker's loop | a job is whole while it is calculated, its result is its own, waits return |
| Sound output (`vicesound.cpp`, `audio_pacing.h`, `kernel.cpp`) | the selected output and rate, the pending change of USB | USB change, restart, priority, late initialization | the output follows the priority; a device that is gone is noticed |
| Pi 4 display (`fbl.*`, `pi4kms/*`, `pi4v3d/pi4_v3d.cpp`, `kernel.cpp`) | takeover flags, the saved firmware list, two list slots, V3D targets, overlay buffers, hardware registers | present, preview, show, hide, free, settings; capture, claim, restart, commit, restore | the scanned list is whole and of this mode, the firmware's picture can be restored until the commit, a buffer in use is not written, frames are preserved, one core at a time |
| USB input (`usb_keyboard_state.cpp`, `mouse_input.cpp`, `kernel.cpp`) | keys and their owners, suppressed keys, the consumer of the mouse | report, removal, setup; the menu opens, closes, monitors | no key or button is stuck, no press is invented |
| C library files (`new_io.cpp`) | open file, cache, position | open, read, seek, write, fsync, close | a program cannot tell whether its file is cached, spilled or on the card |
| Developer log (`remote/developer_log_ring.cpp`, `developer_log_device.cpp`, `RouteLogs`) | ring, sequence numbers, streams | append, read, resume | readers see a contiguous text or an explicit gap |
| Asynchronous network (`async_network.cpp`) | 8 connection slots, generations, sockets, two byte queues each | start, stop, read, write, status; the worker's Connect, PumpConnected, CloseSocket, FreeSlot | handles stay valid, sockets are closed exactly once, streams are neither cut nor mixed, slots come back |
| File transaction (`remote/developer_file_transaction.cpp`) | temporary and backup sibling, received length, hash, flags of the target | Begin, Write, Finish, Abort | the old file survives until the new one is in place, Ok means installed, nothing foreign is touched, nothing is left behind |
| Update file system (`update/fatfs_update_filesystem.cpp`) | the volume | Stat, CreateFile, Sync, Rename, RemoveFile | what callers may rely on after a failure |
| Update installer (`update/simple_update_installer.*`) | planned actions, pass, temporary file | Install: inventory, hash, prepare, passes, deletions, identity | `BMX-BUILD.json` tells the truth, files are whole, the order of passes, user files stay |
| Update service and download storage (`update/update_service.cpp`, `release_offer.cpp`, `update_policy.cpp`, `draft_test_ticket.cpp`, `fatfs_update_storage.cpp`, `body_sinks.cpp`) | the offer, the consent, the device code and token of a draft, `.part` and archive | Check, Begin/CompletePreparedDraftTest, Install, Cancel | what is installed was offered, verified and agreed to; authorizations end |
| Network jobs (`network/network_service.cpp`, `update/update_progress_mailbox.h`, `update/update_foreground_progress.cpp`) | one update job, one scan job, cancel flag, progress ring | Submit, Poll, Cancel, ProcessJobs, Checkpoint | every job is answered, with its own answer; cancels do not leak; mandatory phases are not cancelled |
| HTTP server (`remote/http_server.cpp`, `remote/http_response_writer.cpp`, `remote/file_response_stream.cpp`) | connections, timers, writer states, `polling_` | Poll, PollResponsesCooperatively, Terminate, Stop | objects are deleted once, slots are released, no re-entry, timers are right, requests end |
| Routers (`remote/*_router.cpp`) | `active_upload_`, log and event stream slots | Route, Probe | slots are bound to requests |
| Native layers of the 64-bit builds (`fbl_native_kms.cpp`, over `pi5kms/`, `pi4kms/pi4_native_kms.cpp`, `pi5v3d/`) | shown layers, `dirty_`, two copies per layer, two KMS buffers, the composed picture with its snapshot and pending rectangles | Show, Hide, FrameReady, PresentLayers, palette and source changes, screenshot; V3D, plane and software presents | what a present has shown is up to date whatever failed before; a buffer on the screen is not written |
| Pi 5 display, CRT effects, Atari bridge | hardware state, tables | control lists, shaders, translation of calls | see section 8 |
| Parsers and codecs, signatures and trust, configuration migration | none beyond their input | functions of one buffer | see section 8 |
| Transport and discovery, HTTPS clients, application shell, menus, emulators | device and library state | adapters | see section 8 |

## 2. How the parts interact and what is hard about it

Core 0 runs Circle's cooperative scheduler: the HTTP task, the network service
task, the modem worker, plug and play, and the drivers. Core 1 runs the
emulator, the menu included. Core 2 calculates a second SID. Cores share memory
and spin locks, and sleep in WFE; nothing else orders them.

- *Core 0 -> core 1*: an HTTP request is put into the mailbox; core 1 takes it
  at a safe point of the emulation. The client may give up at any moment, and
  an audio capture goes on for many sound writes after the request was taken.
  USB devices come and go on core 0 while core 1 plays and reads them.
- *Core 1 -> core 0*: modem traffic through slots and queues; menu jobs through
  `NetworkService`, polled by token; display calls through the core 0 mailbox,
  until the native display is committed, from when on core 1 makes them itself.
- *Core 1 -> core 2*: one SID job at a time. All cores wake each other with the
  same event, so that one wait may consume what was sent for another.
- *Shutdown*: core 1 stops the HTTP task on core 0 and deletes the service,
  while that task may be waiting for core 1.
- *Core 0 with itself*: file work in a router yields, and the yield polls other
  connections from inside the first one's poll. An update yields while it
  downloads, and the HTTP server may write to the card meanwhile.
- *The display hardware* goes on beside both cores: a list that was submitted is
  scanned from the next VBlank on, and the one before is in use until then.
- *The card*: uploads and updates are sequences of FatFs calls. Each may fail,
  and the power may go between two of them; there is no journal.

The hard behaviours are therefore interleavings of cores and hardware, late
answers and wrapped tokens, cancellation, ownership across error paths, nested
polling with stale timestamps, consent to a state that changes afterwards, and
partial failure and power loss. `PROJECT.json` lists the hazards one by one,
each at the line where it bites, with the properties that would catch it.

## 3. Modules and the code they model

One action stands for one critical section (of a spin lock or a mutex), one
call that may fail (of the file system or a socket), one access to memory that
another core reads, or one handler that runs without interruption. A name that
ends in an adjective (`CancelControlFreesRunning`, `HashOkUnchecked`) and has a
comment "Mutant" is a deliberately wrong variant of the definition after it; no
specification uses it.

Components that neither share state nor call each other share a run: `HandOffs`,
`Services` and `Devices` are such sums. Their initial states choose the `part`
that moves; the others keep one initial state, so the run explores the sum of
the components' states and not the product, and each component behaves exactly
as under its own specification; a fairness condition of a part has that part's
variables as its subscript, which is the same because the others do not move. (`Devices` has the input twice, with only the
keyboards and with only the mouse in use: they share no more than what the menu
wants, and no property relates them.)

### CommandMailbox, RemoteCapture, RemoteControl

`CommandMailbox` has the members of `CommandMailbox` (`control_state_`,
`control_token_`, ...) and one operator per method, as the transition it makes
under the lock. `RemoteCapture` adds the audio capture and the one screenshot
buffer; a payload is the pair of its kind and the number of the request it
answers. `RemoteControl` composes them with their two callers. The HTTP task is
in `Serve`, `Poll`, `Check` (between two polls of `ExchangeControl`),
`CancelAudio` (between `CancelControl` and `RequestAudioCancel`), `Leaving` (after
`HttpServer::Stop`, before `running_` is cleared) or `Exited`.
The emulator goes through the steps of `ProcessRemoteCommand` and `Stop`, and
`SoundWrite` is `circle_sound_write`. What an operation does to the machine is
left out: an answer carries the number of its request, so that a wrong one is
visible. The timeout is a nondeterministic choice, certain after `MaxPolls`.

### CoreEvents, RemoteCall, Core0Mailbox, SidWorker, Cores

`CoreEvents` (external: the processor) has the event registers that SEV sets and
WFE waits for. `Core0Mailbox` is `core0_mailbox.h` with both its users, from
`SubmitCore0Request` on core 1 to the loop of `RunCore0Scheduler`; each access
to `mState`, each Signal and each WFE is an action. `RemoteCall` states what a
caller expects (the call is carried out once, with these arguments, and the
caller leaves with its result); `IsRemoteCall` is the refinement. `SidWorker`
has the accesses of submit, wait and `bmx_sid_worker_run` in their order and the
two semaphores of `semaphore.c`. `Cores` composes both over one event register:
core 1 is in one of its waits at a time while a job may be calculated.

### SoundOutput

Core 0 scans USB and tells core 1 (`TellUsbChange`, two variables one after the
other); core 1 applies the change between two sound writes and reopens VICE's
sound when the rate differs. A device may be exchanged for one of another rate
at any moment in between. Start-up (`mViceSound` still null, the boot of the
cores not complete) is part of the model, samples and pacing are not.

### UsbInput

Reports of several keyboards, an error report, removal and arrival; the merged
state (`USBKeyboardState`), the difference that becomes presses and releases,
the raw-input monitor that takes everything, and the menu. The mouse's consumer
and its suppressed buttons are `BmxMouseStatusState`. `strayed` and `unplugged`
are histories that name the two cases in which the code gives up on a key or
button (section 7, observed).

### Pi4Kms, Pi4Layers, Pi4Display, DisplayOwner

`Pi4Kms` has the driver's globals with `RecoveryLifecycle`, the list memory and
the registers `pending` and `active`, which change roles at `VBlank`. A list that
is being written is `Torn`. `Pi4Layers` runs one call of the frame buffer layers
through the steps of `PresentPlanes` and `RestoreFirmwareScanout` in the code's
order, every failure included: a fence that times out, a write or a restart that
fails, a list that does not become active, a restore that gives up half way.
`timing` is the mode that pixel valve, HDMI and PHY are set to and `clocks` the
one whose rates the pixel, M2MC and BVB clocks have: `RestartDisplayPipeline`
programs the clocks for every native mode (`ClocksFor`), but the firmware's rates
come back only where `RestoreFirmwareClockRates` is called (`ClocksToRestore`),
which is after a native mode of another size. A clock call that fails may leave
them `mixed`.
`VIC` is the emulator's picture, rendered by the V3D into two targets that take
turns; `UI` stands for the overlay layers. `Pi4Display` says which core runs the
call. `DisplayOwner` is the promise to the caller: one call at a time, layers
changed only by the core that owns them, ownership passed once; `OwnerSpec` is
the refinement.

### NativeLayers

`fbl_native_kms.cpp`, the layers of the 64-bit builds. `PresentLayerList` tries
the V3D with overlays as planes, then a plane for each layer, then a composition
by the processor; `path` says which is next. Each keeps copies: two buffers per
layer with valid flags (`hwscale`, `hwFront`), two full-screen buffers
(`kmsBuffer`) with the rectangles they have missed (`kmsPending`), and the
composed picture with a snapshot of the layers it was drawn from. `MarkDirty`
makes them stale. A path may fail at every plane, at the render and at the
present, after it has cleared `dirty_` and swapped buffers, and the next one
starts from that. `stranded` is a history variable: the overlays whose front
index the last present to fail on every path has moved away from the buffer that
is shown.
 A copy is fresh, stale or invalid; a column of a composed
picture is the set of layers drawn in it. After `InvalidateSoftwareComposition`
nothing looks at the composed picture, its buffers and pending rectangles until
all of it is drawn anew, so the model forgets them; `MarkDirty` on composed
pictures is what becomes of their meaning and has no line of its own. The board
is the one the build is for (the Pi 4 alone has a fence before a present) or
`Firmware`, the frame buffer without native KMS.

### StdioFiles

`new_io.cpp` for one file: open with each mode, read, seek, write, fsync, close;
the cache that is filled at open or at the first seek, its write-back, the spill
when a file outgrows it, and direct writes. FatFs is external: calls may fail
(after which `FIL.err` refuses the rest) or write short. `logical` is what the
program wrote.

### DeveloperLog

The ring that all cores write and that overwrites itself, the two streams of
`RouteLogs` with snapshot and follow, a browser that loses its connection at any
byte and resumes with epoch and cursor, and reboots. A byte is named by its boot
and sequence number, so that a spliced text is visible.

### AsyncNetwork

The fields of `g_slots` are variables; the emulator's entry points (`StartBegin`
to `StartSkip`, which scan the slots one mutex at a time, and
`NetCalls`'s stop, read, write) interleave with the worker's, which visits one
slot after the other and calls the network stack without a lock. Every byte
carries its connection and position. `ByteQueue`'s ring is a sequence. Sockets
are numbered by the connection that opened them.

### UpdateFileSystem, FileTransaction

`UpdateFileSystem` is the volume as a function from paths to contents (with
`Missing` and `Partial`), shared by the modules that write files.
`FileTransaction` is one upload after the other to one target; a body may be
short, too long or corrupt; `BeginDiscard` is the upload whose content is
already there. `mistaken` is a history variable: Stat of a foreign file under a
backup sibling's name has failed and its name is in `backup_path_`, or what came
of that is still the target. `OtherRequest` is a DELETE or a rename through the API:
`bmx_api_router.cpp` 1254-1289 does not look at `active_upload_`, so
`target_existed_` and `discard_` may be stale when `Finish` uses them.
`SyncContainingDirectory` always succeeds in the FatFs implementation; its
failure branch is that of the interface and is kept because the code handles it.
`Rename` may report a failure after it happened (it checks the result).
`PowerLoss` forgets the transaction and keeps the volume. A single FatFs call
is assumed atomic under power loss.

### UpdateInstaller, UpdateService, MCUpdate

`UpdateInstaller` is `Install` from the inventory to the identity. `Shipped`,
`Pass`, `Preserve` and `Deletions` are the signed manifest; the order of files
inside a pass is the manifest's, hence any. A file is extracted to
`BMX-UPD.TMP`, synced and renamed over the target, where `RenameUnlink` and
`RenameEntry` are the two FatFs calls inside `Rename(..., true)`. `UserEdits`
happens between attempts. The initial state is a factory image.

`UpdateService` composes it with its caller: the check and the offer, the
assessment of the configuration and the consent to a reset, the device code and
the token of a prepared draft, the download into `.part` with its verification
and rename, the call of the installer and what is cleaned up on each way out.
While an operation waits for the network, `FileEdited` and `TicketPlaced` are
uploads of the HTTP server; `UpdatePowerLoss` keeps the card only. What the
installer's module calls the start of an attempt is here the one place where the
service calls it: `InstallerSpec` is the refinement, so that everything shown of
the installer alone holds under its real caller.

After a power loss between the two calls of a rename, a kernel may also be
missing, and a new kernel with an old `BMX-BUILD.json` may find an updater ABI
mismatch (`update_service.cpp`, near 1047). Both follow from the same gap as the
`Retryable` finding; the model shows the files, not the boot.

### UpdateProgressMailbox, NetworkJobs

`NetworkJobs` has the fields of `NetworkService` under `m_jobLock`, one action
per locked section, and the checkpoints of `UpdateForegroundProgress`. The menu
is the only caller today; the model has a set of callers, so that a submission
also meets a job that is not its own. A cancel before the first checkpoint makes
`BeginExplicit` return false, and the menu then shows "Network service progress
could not be initialized." (`network_service.cpp` 835-846); in the model that is
a result with `canceled`. `history` and `shown` record the transitions presented
and shown.

### HttpServer

`stack` is the nesting of `HttpServer::Poll` and `PollResponsesCooperatively`;
a frame has the age of its `now_ms`, the connection it is at, and the call that
is under way. Time is kept as ages, so that the state space is finite, and
passes between polls and inside the calls that work on whole files or wait for
the emulator (`Probe`, `Begin`, `Finish`). A request has at most one object that
deletes itself (sink, stream or completion): `live` counts its news minus
deletes and `slot` says whether a router still counts it. Parsing and framing
are abstract: a head is incomplete, complete or refused.

`http_server.h` 119-122 says that a cooperative poll does not re-enter
filesystem work on another connection; the `Read` of a file's stream reads from
the card. The model has that call (`PollStreamRead` inside a
yield), and the properties hold with it.

## 4. Runs: what TLC checks

Each passing run fires every action of its modules; every property has a mutant
of a mapped definition that violates it. Violations are findings (section 7).
Type invariants are conjuncts of the properties they belong to
(`SidJobOwned`, `RequestsIsolated`, `FilesFaithful`, `LogFaithful`, `JobsSound`,
`ListsSound`) or theorems.

| Run | Bounds | Distinct states | Properties |
|---|---|---|---|
| `hand_offs` | 3 remote requests of 4 kinds, 2 tokens, 2 audio chunks, 1 poll; 2 core 0 requests, 2 SID jobs; 2 sound rates, 4 USB changes; 2 network slots, 4 connections, 2 generations, no bytes | 84,108 | AnswersOwnRequest, HandlingIsolated, SidJobOwned, PriorityKept, SlotsConsistent; ExchangeReturns, StopTerminates, HandledCellReleased, IsRemoteCall, CoresReturn, RemovalNoticed, SlotsComeBack |
| `async_network_streams` | 1 slot, 2 connections, queue 3, chunks 2, 4 bytes each way | 1,483,349 | StreamsExact |
| `http_server` | 2 connections, 1 byte of body, 1 stream slot, header, body and idle timeout 2, write timeout 1 | 264,572 | RequestsIsolated, StreamCancelledOnce, SlotsHeldByRequests; RequestEnds |
| `update` | factory image and 2 releases, of which the second is a draft; 6 files in 4 passes, 1 deletion; unlimited attempts | 444,740 | CardTruthful, ArchiveVerified, AuthorizationEnds; NothingTakenEarly, InstallerSpec, ConsentHonoured |
| `services` | 3 uploads, 2 versions, 2+2 sibling names, 1 of each kind occupied, 2 chunks; cache limit 2, file 3, writes of 2; log ring 2, 4 bytes, 2 boots, 2 browsers; 2 callers, 2 tokens, progress ring 2, 3 checkpoints | 333,067 | UploadSafe, CleanWithoutFaults, FilesFaithful, LogFaithful, JobsSound, TransitionsInOrder; SnapshotEnds, JobAnswered |
| `devices` | 3 display plans; 2 keyboards, 2 keys, 2 buttons; 1 base layer, 1 overlay, 2 columns, 3 boards | 2,548,704 | ListsSound, TakeoverSound, FencedBuffersFree, CrtFramePreserved, InputFaithful, PictureCurrent, ShownBuffersKept; OwnerSpec, InputFresh |
| `remote_audio_cancel` | 2 audio requests | - | AbandonedCellReleased (violated) |
| `file_transaction_sibling` | as in `services` | - | ForeignFilesKept (violated) |
| `update_installer_retry` | as in `update` | - | Retryable (violated) |
| `http_stale_timestamp` | 2 connections, timeouts 1 | - | WriteTimeoutEarned (violated) |
| `pi4_crt_off` | 1 display plan, of the firmware's size | - | EachFramePreserved (violated) |
| `pi4_same_size_fallback` | 1 display plan, of the firmware's size | - | FirmwareModeRebuilt (violated) |

Why the bounds are enough for the cases they are for:

- *Remote control*: with two tokens the third request reuses the first one's, so
  a late completion, a late cancel and a new request of the same token occur in
  one behaviour; two chunks let a cancel fall before, inside and after a
  capture. The fourth request, tried outside the runs because of
  its size, changes nothing (119,115 states of this part).
- *Cores*: two calls and two jobs, so that each wait meets an event that was
  sent for another one and a state left by the call before it. The state and
  the semaphores have no memory beyond the previous call.
- *Sound*: four changes of USB are a device that comes, is exchanged for one of
  the other rate and goes, with one change still pending, at any place of a
  restart.
- *Asynchronous network*: two slots so that a scan passes an occupied slot and
  the worker is in one slot while the other is taken; two generations and four
  connections so that one slot sees the same generation twice. Bytes do not
  matter for slots, and slots do not matter for bytes, so the two questions have
  bounds each: the slots are a part of `hand_offs`. In `async_network_streams` a chunk is smaller than the queue and
  does not divide it; a partial send of one byte of two, and a full queue, both
  happen.
- *File transaction*: three uploads are one whose leftovers the second meets and
  whose names run out for the third; of the temporary and of the backup siblings
  one each is a foreign file from the start, so that a failing Stat can take
  either for the transaction's own.
- *C library files*: the limit of the cache lies inside the largest file, so a
  write can fit, spill in the middle, or meet a file that is too large from the
  start; a write is longer than one byte, so it may be cut short.
- *Log*: two bytes of ring and four of log overrun a reader by a whole ring; two
  boots make a cursor of the first one valid by number in the second.
- *Network jobs*: three checkpoints over a ring of two make it overflow; phase 1
  is the first mandatory one, so a cancel falls before and after it.
- *Update*: one file of each kind that the passes and policies tell apart; the
  published release and the draft make an offer that is superseded, and one
  that needs an authorization; attempts are not bounded.
- *HTTP server*: nesting depth is bounded by the number of connections, since a
  connection is polled once at a time; two give one polled from inside the other.
- *Display*: no native mode, one of the firmware's size and one of another size,
  which are the cases that `ConfigureNativeMode` leaves behind; the two list slots and the two V3D targets are those
  of the code.
- *Native layers*: a base layer that fills the screen and an overlay over one of
  its two columns, so that a column may show the base layer alone, both or
  nothing, and a dirty rectangle may be a part of the screen. Presents are not
  bounded. The overlay appears in one place; with two places, tried outside the
  runs because of their size, both properties hold as well (1,689,122 states).
- *Input*: two keyboards that hold the same key, a second key, and two buttons:
  keys are independent of each other except through an error report and the
  monitor, which concern all of them.

Deadlock is not checked where a behaviour may really end: when the bounds of
requests, uploads, bytes or USB changes are used up (`HandOffs`, `Services`), when the newest release is installed or no `BMX-BUILD.json` is left
to update (`Update`). It is checked for the network streams, the
HTTP server, the displays and the input.

## 5. Fairness

Safety needs none. The liveness properties assume:

- `AsyncNetwork`, `NetworkJobs`: weak fairness of the worker. Both are endless
  loops of a task that sleeps 1 ms per turn; their network calls have timeouts,
  so a call that was begun returns. A caller of a job polls in a loop until it
  is answered (`RunNetworkUpdateJob`), hence weak fairness of `PollLoop`; nobody
  is obliged to press cancel before it was pressed.
- `RemoteControl`: weak fairness of the steps inside `ExchangeControl` and
  inside the safe point, each a loop of its core; strong fairness of
  `SoundWrite`, because the emulator produces sound between safe points and so
  over and over, though not during one; a server loop that sees
  `stop_requested_` leaves, and one that has left clears `running_`. Nothing obliges a client to send a request.
- `Cores`: weak fairness of each core's next instruction (`Core1Goes`,
  `Core0Goes`, `Core2Goes`). A core in WFE has none until its event register is
  set, which is the point of `CoresReturn`.
- `SoundOutput`: weak fairness of the USB task and of the emulation on core 1,
  both endless loops.
- `DeveloperLog`: weak fairness of `StreamRead` for each stream: the HTTP server
  reads on while a connection can send.
- `HttpServer`: weak fairness of the server task and strong fairness of `Tick`:
  the clock advances between polls again and again, but not at every moment of
  one.

## 6. Proofs: what TLAPS checks

Eight modules with about 12,500 obligations; the theorems hold for every value of the
constants that satisfies the named assumptions (`TokenLimitAssumption`,
`AsyncNetworkAssumption`, ...), which say no more than that sizes are positive,
names are distinct and a manifest passed its validation. TLC evaluates each
assumption in a run. The bounds (`MaxRequests`, `MaxConns`, `MaxUploads`) are
constants too, so the theorems hold for behaviours of any length. In
`Pi4Display` little is a constant (`Plans`, the native modes there are), so there
TLC and the prover look at nearly the same system, the prover by another
argument: the invariant says why.

Every safety property of a passing run, and every refinement, is a theorem.

**RemoteControlProofs** (TypeCorrect, AnswersAreOwn, PayloadsOwned,
ScreenshotExclusive, RequestStable, CaptureOwnsCell, DeletedUnused, and
HandlingIsIsolated, which is the property of the run). The answer
to a request is its own because a client that still polls *finds its own request
in the cell* (`ClientOwnsCell`); so does the handler (`HandlerOwnsCell`) and the
capture (`AudioOwnsCell`). The cell is only freed by whoever owns it, so a token
is never in use twice although tokens wrap, for any `TokenLimit >= 1`. That is
`RemoteControlInv`. The payload properties need `PayloadIds` in addition: a
payload bears its request's number, and those being sent answer requests other
than the one in the cell; therefore no two owners share one (`PayloadInv`, proved in a
second induction on top of the first).

**AsyncNetworkProofs** (AsyncTypeCorrect, HandlesStayValid, SocketsNeverLeak,
ReceivedBytesFit, SlotsStayConsistent, StreamsStayExact). `AsyncInv` says at each place of the
worker what it may still
assume of the slot it left unlocked (`WorkerInv`): only the worker frees a slot
or changes its socket, the emulator only sets flags. `PumpInv` is the argument
for the receive path: the emulator can only make room between the check and the
push. `SocketsInv` counts the open sockets one by one, from which
`SocketsAccounted` follows as an equation of sets. The order of the bytes is a
third induction (`OrderInv`): each queue is the run of its connection's stream
that is neither gone yet nor still to come, and the lemmas `StreamAppend` and
`StreamDrop` say that what pushes and pops do to a run is again a run.

**FileTransactionProofs** (FileTypeCorrect, OldFileSurvives, OkIsInstalled,
TargetAlwaysComplete, UploadIsSafe, NothingLeftBehind). `FileInv` states for each phase what the
directory holds
(`BeforeInstall`, `BodyVerified`, `BackupHolds`). `OldNeverLost` alone is not
inductive: that the undo may put the backup back needs `BackupHolds`.
No assumption is made on which siblings are foreign files. With a foreign file
under a backup sibling's name the code may, after a failing Stat, take it for the
old target and rename it to the target (the second finding of section 7); the
history variable `mistaken` marks these behaviours, TargetComplete excepts the
foreign file at the target's name in them and nothing else, and `BackupsWhole`
shows that without such a Stat a foreign file is never the transaction's backup.
NothingLeftBehind needs to follow the names a transaction has at each phase
(`SiblingsClean`): while nothing has failed, a sibling it does not name is as it
was found.

**UpdateProofs**, the installer (InstallTypeCorrect, IdentityIsTruthful, FilesAreWhole,
CardIsTruthful, DeletionsFollowFiles, UserFilesAreKept, NothingIsTakenEarly).
`InstallInv` carries the plan through
the attempt: what was decided while hashing still holds (`Planned`), what was
installed is still there (`WorkDone`), earlier passes are complete
(`PassesDone`), the temporary file is the entry (`EntryDue`), and the identity
is not that of the release before its turn (`IdentityLast`). IdentityTruthful at
the last rename follows from the first three. The last three theorems are action
properties proved from the same invariant.

**UpdateProofs**, the service (ServiceImplementsInstaller, ConsentStaysCurrent,
ResetHasConsent, ConsentIsHonoured, ArchiveIsVerified, AuthorizationIsTemporary).
`ServiceImplementsInstaller` is a refinement: the service, with its download and
its checks, starts the installer only with a release newer than the one on the
card, so that everything proved of the installer holds of the whole.
`ServiceInv` says where an offer may be and that it is eligible
(`OfferEligible`, `OperationOffer`), that the installer only moves inside its
operation (`InstallerCalled`), and that the consent is the one the user saw and
includes the reset when one is required (`ConsentSeen`). `OperationsStart` is
needed because a check and an authorization begin without offer and consent:
otherwise a consent to an earlier offer could meet a later one.

**CoresProofs** (MailboxIsRemoteCall, SidJobHasOneOwner, CoresMailboxIsRemoteCall,
CoresSidJobOwned, PriorityIsKept). The mailbox of core 0 implements a remote
call: between post and return the command is the one core 1 gave and the result
is the command's (`Core0Inv`). A SID job is in at most one place, and its
arguments and its result stay its own (`SidInv`). Both hold for each part alone
and for `Cores`, where the parts share the event register: a step of one is a
stutter or a SEV for the other (`CoresStepProjects`). `SoundInv` says until when
what core 1 has loaded of the USB output is up to date; PriorityKept is not
inductive without it.

**ServicesProofs** (JobsAreSound, TransitionsKeepOrder, LogIsFaithful,
FilesAreFaithful). `JobsInv`: one caller has the job while the worker has it
(`JobsOwned`), the operation and the cancel are his on the whole way to the
result (`OperationKept`, `CancelKept`), and a cancelled job has shown only phases
before the installation (`PhasesKept`); for any number of callers and tokens that
wrap. `RingInv` is the ring of progress (`RingHolds`) and what was shown of it
(`ShownInv`), for any ring size, on lemmas about places modulo the size. `LogInv`
adds to LogFaithful that a stream and its browser agree on boot, cursor and end
(`StreamsAgree`). `StdioInv` says where the bytes of a file are, in memory or on
the disk (`BytesKept`), and where FatFs stands (`PlaceKept`), for any limit of the
cache.

**HttpServerProofs** (RequestsAreIsolated, StreamsAreCancelledOnce,
SlotsStayWithRequests). `HttpInv` has three parts. `FramesOK`: only the innermost
frame of the nested polls is in its loop, each of the others is in a call of a
connection of its own. `ConnsOK`: what a connection is in each of its states, and
while a call of its `Poll` is under way; a step in one frame cannot disturb a
connection that another frame is in, because `polling_` keeps it out. `SlotsOK`
counts the slots of the router. It holds for any number of connections and so
for any depth of nesting.

**DevicesProofs**, input (KeysMirrorTheKeyboards, NoKeyIsStuck, NoButtonIsStuck,
PressesStayFresh, NoClickIsPhantom, InputIsFaithful, InputIsFresh). A machine's
key is down only while some keyboard holds it or the menu swallowed its release.
The invariant needs to know which keyboard a merged key belongs to
(`OwnersMerge`) and that the emulator's matrix follows the merged state
(`KeysMirrorKeyboards`); the exceptions are exactly `strayed` and `unplugged`
(`MenuStrays`, `NoStuckButtons`).

**DevicesProofs**, Pi 4 display (ListsAreSound, TakeoverIsSound,
FencedBuffersAreFree, CrtFramesArePreserved, and DisplayHasOneOwner, which is the
refinement OwnerSpec). `DisplayInv` says at each step of a call what the driver
knows (`TakeoverSteps`) and what the registers hold (`ScanState`), that a list that
is scanned is whole (`WholeLists`) and is the frame that was wanted
(`ListWanted`), which buffers the submitted list has (`SubmittedBuffers`), that
nothing is rendered before the fence (`RenderFenced`), where a frame is on its
way (`FrameOnItsWay`), and which clocks run in which mode (`ClockState`): they are
those of the mode that is set, unless a native mode of the firmware's size was
given up, which is the exception `TimingFitsList` names and the run
`pi4_same_size_fallback` shows.

**DevicesProofs**, native layers (PictureIsCurrent, ShownBuffersAreKept).
`NativeInv` has one part for each way to the screen: an overlay that is not dirty
has a copy that is up to date (`CopiesInv`); the buffers of the base layer and of
the composition that are shown are the front ones, and behind the fence the list
that is scanned is the one that was submitted (`PlanesInv`); an overlay is shown
from its front buffer, or a path of this present has built the other one, and
then it is clean and no later path builds it again, or it is `stranded`
(`OverlayPlanes`); a column that the processor composed holds what the
snapshot says unless a layer changed, and a buffer has the columns it has not
missed (`SoftInv`). For any number of columns, overlays and places of an overlay,
where the run has two columns, one overlay and one place.

Only model-checked are the liveness properties SlotsComeBack, RequestEnds,
ExchangeReturns, StopTerminates, HandledCellReleased, CoresReturn,
RemovalNoticed, SnapshotEnds and JobAnswered, because fairness and ENABLED are
out of the prover's reach; and, naturally, the six properties that are violated.
No module uses RECURSIVE operators.

## 7. Findings

1. **An audio request that times out blocks the remote control**
   (`remote_audio_cancel`, `remote/remote_capture.cpp:119`). `PumpAudioCancel`
   frees the capture without completing its request; the cell stays
   `ControlAbandoned`, although the comment in `CancelControl` says that
   `CompleteControl()` will release it. `HandledCellReleased` shows that every
   other operation is fine.
2. **A failing Stat lets Abort delete somebody else's file**
   (`file_transaction_sibling`, `remote/developer_file_transaction.cpp:225`).
   The same cause has a second effect: when Stat of an occupied backup sibling
   fails in `Finish` (385), its name stays in `backup_path_`; if another client has
   deleted the target meanwhile, `Abort` (444-461) renames that file to the target,
   where its comment says that it restores the previous one. This is the
   exception `mistaken` in `TargetComplete`.
3. **An interrupted update is not always retryable**
   (`update_installer_retry`, `update/fatfs_update_filesystem.cpp:654`): between
   unlink and rename there is no `BMX-BUILD.json`, and the menu then takes the
   card for a legacy installation.
4. **A stale timestamp ends a response that is moving**
   (`http_stale_timestamp`, `remote/http_server.cpp:302`).
5. **With the CRT effects off the native Pi 4 display does not show the last
   frame** (`pi4_crt_off`, `fbl.cpp:2449`). `RenderPi4V3dFrame` refuses, the
   frame's slot is marked not ready, and `TryPi4KmsPresent` presents the other
   slot (`fbl.cpp:2675`) with the last picture that had effects, or none; the
   log says `present=framebuffer`. `kernel.cpp` 3556-3558 says that each frame
   is preserved.
6. **A failed native mode of the firmware's size leaves its clocks behind**
   (`pi4_same_size_fallback`, `pi4kms/pi4_kms.cpp:2067`). The native clocks are
   programmed for every native mode (1002), the firmware's are saved (1751) and
   put back (2067, 2154-2157) only when the size changes. The fallback and the
   restored list then run with the firmware's timing on the native mode's clocks,
   while the log says `clocks=restored` and the comment at 1052-1054 that the
   captured mode is rebuilt, clocks first. It does no harm where the native mode
   has the firmware's pixel clock; with another refresh rate it has not.

Observed without a run, because no document says which behaviour is meant:

- *Remote control*: the result of the reboot's `Post` is ignored
  (`remote/developer_router.cpp:305`), so a promised reboot may not happen when
  the mailbox is taken. The SYS volume is writable through the API
  (`remote/bmx_api_router.cpp:267`).
- *Update*: a configuration that is uploaded through HTTP after the second
  assessment, while the archive is being downloaded, is not noticed. The early
  returns of `InstallChecked` keep the offer but drop the authorization.
- *Input*: a key that is held while the menu opens and closes stays down in the
  machine; `uiLeftShift` and `uiRightShift` stay set (`kernel.cpp` 3053-3095). A
  mouse or gamepad that is removed with a button held leaves it pressed. The
  ring of pending keys (16) has no overflow check.
- *Sound*: a USB device that arrives between `circle_sound_init` and
  `circle_boot_complete` has its change consumed while `mViceSound` is null. A
  change of the priority takes effect at the next restart only.
- *Files*: `O_WRONLY|O_TRUNC|O_APPEND` on a file that is not empty always fails.
- *Log*: a client that sends `since` without `epoch` after a reboot may get a
  text of the new boot as the continuation of the old one.
- *Pi 4 display*: a present that is held back shifts the parity of the V3D's
  targets against the frames (hence the condition in `FencedBuffersFree`);
  DispmanX is entered from core 1 after the commit; overlay buffers are freed
  while they may still be scanned; `Preview` renders without a fence.
- *Native layers*: the Pi 5 has no fence before it reuses buffers and list slots
  when two presents fall into one frame (only `RASPPI == 4` has one, near line
  2343), so for it `ShownBuffersKept` is about the submitted list only. After a
  V3D frame was copied by the processor and its present failed, the next
  software present may show that copy outside its dirty rectangle (`Foreign` in
  `PictureCurrent`). After all paths failed, the front index of an overlay that
  the present had built has moved (`BuildKmsLayerPlane`, 1210-1224, moves it
  before anything is presented) and the next present writes the buffer that is
  still shown (`stranded` in `ShownBuffersKept`). The two properties except
  exactly these cases: an overlay that a path has built before another one is
  tried, or in a present that succeeded, is not excepted.

## 8. What is not modelled

- *Parsers, codecs, hashes, signatures*: functions of one buffer that host tests
  reach; a state model adds nothing. Where a model needs their verdict (a hash
  matches, a head is complete) it is a choice.
- *Configuration migration*: a table-driven function from text to text.
- *Transport, discovery, TLS, drivers*: adapters of libraries. The models have
  every result they can give.
- *Display*: the VDC layer (a second emulated picture), filters and sizes, the
  resources of DispmanX, GL shaders, pixel memory and register layout.
- *Pi 5 display*: its control lists, shaders and registers (about 12,000 lines)
  are data for the hardware; the V3D's own targets are one memory in
  `NativeLayers`.
- *Native layers*: two base layers at once (VIC and VDC of the C128), which the
  V3D path refuses; that a change of the interpolation redraws the whole
  picture; the shadow copy with which the status layer converts changed rows
  only; start-up and the boot test.
- *CRT effects*: about 20,000 lines are generated tables of shader code.
- *Input*: GPIO, gamepads, the movement of the mouse, the menu's own handling of
  events.
- *Files*: directories, paths, stat, two descriptors of one file.
- *Atari bridge, menus, emulators*: translations of calls, layout, or vendored.
- *What an API operation does to the emulator*, the content of requests and
  answers, authentication; the event streams of `bmx_api_router.cpp`.

The mapped lines are a small share of the repository's own code for this reason:
what has state that several actors share is modelled, and the bulk of the lines
(shader tables, control lists, tables of the emulators' options, menus) has none.

## 9. Plan

Done so far: what two cores share (remote control, modem, core 0 calls, SID,
sound), what a power loss can hurt (uploads, updates), jobs, log and the HTTP
server, the C library's files, input, the display's takeover and the layers of
the 64-bit builds; and the proofs of all their safety properties. What is left,
in this order:

1. **Event streams** of `bmx_api_router.cpp` (677-738, 1086-1132, 1974-2011),
   which an API change invalidates, composed with `HttpServer`.
2. **ByteQueue's ring** as a refinement of the sequence in `AsyncNetwork`, and
   an atomic file that `FileTransaction` implements when nothing fails.
3. **USB diagnostics** and the menus' state around updates.

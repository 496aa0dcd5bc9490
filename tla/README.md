# Formal models of mcp-midi-control

TLA+ specifications of the MIDI server in this repository, the TLC
configurations that check them on small instances, and theorems that TLAPS
checks for every value of the constants. Paths below are relative to the
repository's `packages/` unless they start with `tla/`.

## 1. The system

The server answers MCP tool calls by talking to MIDI gear. Every handler is
an `async` function on one Node event loop. A handler runs to its next `await`
undisturbed, and handlers interleave at their awaits. Nothing serialises the
calls that address one device: the per-endpoint lock of
`docs/design/connection-arbiter.md` is not implemented. A client that waits for
each answer never sees an interleaving; a client that issues tool calls in
parallel does.

| component | state it keeps | operations | what makes it hard | what makes it correct |
|---|---|---|---|---|
| native MIDI transport, `core/src/midi/transport.ts` | open handles, `lastSendError`, `slowSendSuspect`, handler sets, `liveConnections` | `connect`, `send`, receivers, `close`, exit hook | a replug leaves a handle that looks open; a send that dies wedges the port; ports are exclusive | every open handle can be closed, ports come free, no double close |
| connection registry, `core/src/server-shared/connections.ts` | per label: handle, `consecutiveTimeouts`, `cold`; stored connect errors | `ensureConnection`, `recordAckOutcome`, `reconnect_midi` | looked up by label while calls hold handles across awaits | one live handle per endpoint; suspect handles are replaced; good ones are kept |
| retry wrappers, `core/src/server-shared/handleHealth.ts` | the call's own handle and attempt | `withHandleFaultRetry`, `withReconnectRetry` | the retry drops a handle other calls may share | one retry, only for a handle fault |
| serial transport, `core/src/midi/serialTransport.ts`, `serialFraming.ts` | deferred open, send queue, pending receivers, byte framer | open, flush, send, receive, close | the open and the close complete later than asked | queued sends are neither lost nor reordered; the exclusive port comes back |
| acknowledged write, `am4/src/shared/wireOps.ts` | none | `sendAndAwaitAck` | a cold handle drops the first write; an ack names neither value nor call | one resend, on a cold handle, and one recorded outcome |
| channel memory, `am4/src/shared/channels.ts` | `lastKnownChannel`, `lastKnownType` per block | `switchBlockChannel`, `observeWrittenParam`, `invalidateChannelCache`, the gate of `set_params` | it outlives the device state it describes; an unconfirmed switch may have happened | a write lands on the channel the caller named; a refusal has a reason |
| file transfer of the Circuit Tracks, `circuit-tracks/src/ncs` | one session: frames sent, inbox | upload, download, delete, probe | lost and late ACKs, a session left open, a device still flushing | ok means stored; the session is closed; a delete hits the file that was backed up |
| dirty-buffer gate, `core/src/server-shared/bufferDirty.ts`, `safeEdit.ts`, `am4/src/tools/safeEdit.ts`, `fractal-gen2/src/tools/shared.ts`, `fractal-gen3/src/guard.ts` | dirty flag per label | guard of a switch: warn, discard, save first | the flag lags the device; gen 2 and 3 clear it as the frame goes out | no unsaved edit is lost without consent |
| block-layout cache, `core/src/protocol-generic/dispatcher/blockLayoutCache.ts` | layout, time, handle | get, invalidate | filled after an `await`, invalidated during it | an edit is never checked against a layout older than the edit before it |
| modulation routes, `dispatcher/modRouteState.ts`, `navigation-modroute.ts` | slot allocation | `set_mod_route` | the patch cannot be read; a failed attempt leaves its allocation behind; calls interleave at every write | a reported route stays; a slot that was handed out holds a whole route |
| library workflows, `dispatcher/deleteProject.ts`, `backup.ts`, `backupSweep.ts`, `uploads.ts`, `patterns.ts`, `preset.ts` | backups on disk | delete, backup, restore, upload, apply | several device sessions, the device may change in between; answers late or lost | nothing is destroyed without a backup of it; no report is wrong |
| device packages (`am4`, `fractal-gen1/2/3`, `hydrasynth`, `spd-sx`, `boss-rc`, `ve-500`, `arturia`, `roland-midi`, `openrig`) | mostly none | codecs, readers, writers | wire formats | outside these models except where named above |

`PROJECT.json` lists every component with its status and every hazard with its
line and the property that covers it.

## 2. The modules

| module | models | proofs |
|---|---|---|
| `tla/MidiTransport.tla` | a native handle: its ports, its health signals, what closing does to it, unplug and replug | within the next |
| `tla/ConnectionRegistry.tla` | `connections.ts`, `handleHealth.ts`, `openCtx` and `sendAndAwaitAck`: tool calls that share handles | `ConnectionRegistryProofs.tla` |
| `tla/EndpointLease.tla` | the abstract promise of the registry: one holder per endpoint, replacements are fresh | refined by `ConnectionRegistry` |
| `tla/SerialFacade.tla` | `serialTransport.ts`: the facade returned before its port is open | `SerialFacadeProofs.tla` |
| `tla/FileUpload.tla` | `runUploadFramePlan` with its plans, its retry and the device's file session | `FileUploadProofs.tla` |
| `tla/SafeEdit.tla` | the dirty-buffer gate of the AM4 and the calls it guards | `SafeEditProofs.tla` |
| `tla/FlagGate.tla` | the same gate on gen 2 and gen 3, which only have the server's flag | `FlagGateProofs.tla` |
| `tla/DeleteProject.tla` | `delete_project` of the Circuit Tracks: probe, backup, erase, verify | `DeleteProjectProofs.tla` |
| `tla/ChannelMemory.tla` | what the server remembers of a block of the AM4 between calls | `ChannelMemoryProofs.tla` |
| `tla/ModRoutes.tla` | the slots of modulation and macro routes of the Hydrasynth | `ModRoutesProofs.tla` |

`MC*.tla` instantiate them for TLC.

**Steps.** One action is the code between two awaits. A call in a module is a
program counter that says which await it is in, and its locals that survive
that await: `pc`, `hdl`, `wasCold`, `retried`, `left` in `ConnectionRegistry`;
`pc`, `job`, `frame`, `inbox` in `FileUpload`; `pc`, `call` in `SafeEdit`.
Timers are actions that may happen whenever the code waits; what a timer cannot
overtake in practice is a guard with a name (`Quiet`, `Forgets`) or a constant
(`Late`, `MaxFlight`).

**`ConnectionRegistry`.** `reg`, `timeouts`, `cold` are the fields of
`ConnEntry`, `err` is `connectionErrors`. `EnsureConnection` is
`ensureConnection`, `Reconnect` its drop-and-open branch; `Send`, `Ack`,
`Resend`, `NoAck` are `sendAndAwaitAck`; `Throws`, `RetryAfterFault` are
`withHandleFaultRetry`; `Exit` is both exit hooks. `Signals` says which health
signals a connection of each label exposes: all three on a native handle, none
or one behind the wrappers that copy it. Bytes and ports are left out: a send is
accepted or throws, and a port is taken or free. `missed` and `resends` are
history. A writer whose ack is missing goes on (`ReportsNoAck`), after the one
resend of a cold handle; a channel switch resends on no handle and throws
(`ChannelSwitchThrows`).

**`SerialFacade`.** A facade is `searching` (waiting for the port list),
`opening`, `granted` or `refused` (the driver answered, the callback has not
run), `open`, `failed`, `aborted` (it found itself closed before it asked for a
port), `closing` or `released`. A receiver is `deaf` when a close in mid-open
forgot it: only its timer is left. `queue` holds what was sent
before the open resolved. Closing is asynchronous: the COM port is `owner`'s
until `OsClosed`.

**`FileUpload`.** `Plan` is `buildUploadFrames` or `buildKitUploadFrames`:
what each frame is and whether its ACK is awaited. `Starts`, `Proceeds`,
`TakesAck`, `TimesOut`, `Aborts` and `Finishes` are the frame loop of
`runFramePlanOnce`, `Ends` and `Retry` its `withReconnectRetry`. The device is
external: it is modelled from the comments and decoded captures in `transfer.ts`,
`sampleTransfer.ts` and `uploadProject.ts` as a session with a slot and a count
of blocks, which ignores frames while it plays, rejects what does not fit, and
may lose a reply. Payloads are block numbers.

**`SafeEdit`.** The device is a buffer and its locations, each a set of edits, an
edited bit that may lag a write, and a player who edits, saves and changes presets
by hand. A call is one of the four kinds of `Jobs`; an answer wakes every call
that waits for one of its kind, because `isWriteEcho` and `isCommandAck` compare
the register and not the location, and a late one may wake the call after.
`BufferDirty` is `isActiveBufferDirty`, `MarkDirty` and `MarkClean` keep the flag,
`Stores` is save_active_first. `clean` is history: the edits made before the last
acknowledged request that the code clears its flag for. An apply's batch of writes
is one write. Left out here: the cold resend and the handle retry (both in
`ConnectionRegistry`), the read of the preset's name (text of the warning), the
overwrite gate and the composite rename.

**`FlagGate`.** The device and the player are those of `SafeEdit`, but there is
no bit to read: the flag is set by `set_param` and by the device's broadcasts,
and cleared by the send hook of `midi.ts` when a store or a switch goes out
(`MarkClean`; `CleanedInVain` when the send throws or the device ignores it).
`SwitchPreset` is the guard and the switch, `Stores` a store, `StoreFails` what
each caller does when it is rejected or not answered, `TimesOut` also gen 3's
reading of silence as success. `noticed` are the edits a client was told of,
`forsaken` those of them that a failed store or switch left unflagged.

**`DeleteProject`.** `phase` is the pass of `executeDeleteProject`, `wait` the
await of `probeSlots` or `deleteSlots` it is in, `named` and `i` the loop.
`Begin` holds the gates that need no port; `Closes` goes from pass to pass,
`Throws` is any send that throws. The device is external: a card with a file per
slot, a directory that follows it late (`Flushes`), answers that are late or
never sent, and somebody who stores projects. A file is the number of the save
that made it. `BacksUp` is `backupProjectSlot`, which writes a file or aborts.

**`ChannelMemory`.** One block with its channels, each of which holds a type.
`knownChan` and `knownType` are the two caches. `Begin` is a call up to its first
await: it is refused (`Gated`), switches the channel (`Switches`) or writes;
`Goes` continues it with an echo, `TimesOut` without; `Learns` is
`observeWrittenParam` and every `invalidateChannelCache`. Echoes name the
register only (`Register`), and arrive in order. `doubt` is the history that
excuses the code: since the channel was last forgotten, a request went
unconfirmed, somebody was at the device, or two calls moved the block at once.

**`ModRoutes`.** `itemToSlot` and `used` are the maps of `modRouteState.ts`,
`Allocated` is `allocateSlot`, `Plan` the writes of one call, `Write` one
`executeSetParam`. `Load` replaces the patch, by `switch_preset` or
`apply_patch`, whose `Reset` comes later, or by the tools that have none. The
blanks are a patch from INIT, as the allocator assumes.

## 3. The runs

| run | question | bounds |
|---|---|---|
| `registry_sequential` | is a write resent once, a handle given up only for cause, a missing ack never retried, and does every call end, for a client that waits? | one endpoint, three handles, two writes per call, threshold 2 |
| `registry_concurrent` | is one live handle kept per endpoint and every port recoverable, and does the registry hand out only healthy handles, and refine `EndpointLease`, when two calls interleave? | one endpoint, four handles (two leased, one registered, one fresh), one write |
| `serial_facade` | does the deferred open keep its queue and its port, and whom does a failed open leave waiting, through unplug, editor and close? | two facades, so that a reconnect overlaps the facade it replaces |
| `uploads` | does success mean stored, is the session closed, does every upload end? | two uploads in a row, two slots, two blocks: a second upload finds what a failed first one left |
| `upload_late_project` | do ACKs and frames stay in step with replies as late as they like? | one project |
| `safe_edit` | is an acknowledged edit ever discarded silently, or a navigation refused that nothing was edited for? | one call of any kind beside one that edits, two locations, two edits, one late answer |
| `flag_gate` | is a clean flag ever wrong, or a noticed edit discarded silently, on gen 2 or gen 3? | two calls of any kind, two locations, two edits, one message on its way while others act |
| `delete_project` | is only what was backed up erased, and is the report true? | two calls in a row, three slots (two named and a free control), one project stored meanwhile |
| `channel_memory` | does a write land on its channel, and is a refusal founded? | two calls at once, three calls or reconnects, two channels, two types, one loss, one change by hand |
| `mod_routes` | do reported routes stay, and is every slot handed out for a whole route? | two calls at once, four in all, two items, two slots in either table, one fault: a table is full, and an item is moved onto another's slot |
| `flag_gate_store_failed`, `wrong_channel` | see section 6 | the smallest instance that shows it |

Symmetric sets are used where no liveness is checked. Handles are recycled once
no call and no label refers to them; that is sound because nothing compares a
handle with one of the past.

**Fairness.** The registry and the uploads assume that the code between two
awaits runs and that timers fire (`CallEnds`, `Host`): every await in this code
is raced against a timer. Of the device `FileUpload` only assumes that a frame on
the wire is eventually taken, ignored or lost, and `SerialFacade` that the driver
answers an open and a close. No run assumes that a device answers, that a user
starts a call, or that anything is plugged in. The other modules check no
liveness: their calls end by the same timers as those of the registry.

**Deadlock** is checked except where a bound on the calls stops the system
(`FileUpload`, `DeleteProject`, `ChannelMemory`, `ModRoutes`).

## 4. What is proved

For every number of labels, calls, handles, facades, sends, slots, blocks,
uploads, locations, edits, items and depths, under the named assumptions on the
constants (no more than types and positive bounds). Two groups of theorems have a
hypothesis besides: `TakesTurns` and `ShowsSendError` for part of the registry,
`InStep` for part of the uploads. TLC shows that each is needed: without it the
property is violated.

- `ConnectionRegistryProofs`: `OneHandlePerEndpoint`, `PortsRecoverable`,
  `AcquireIsHealthy`, the refinement of `EndpointLease`, and the types. The
  invariant `IInv` is `TypeOK`, the first two properties together (only because a
  registered handle is never closed does replacing it release its ports), and
  that a call under way has a label and a handle (`BusyCallsHold`). Every change
  of the registry goes through `ReconnectStep`, one lemma that says what dropping
  and opening does. This covers what the runs do not: several endpoints at once,
  where a drop for one label must not touch another's ports.

  While the calls of each endpoint take turns (`TakesTurns`: the client calls an
  endpoint, or has it reconnected, only when its call before has returned; calls
  to other endpoints may overlap), also `ResendOncePerHandle`, `StaleDropIsEarned`
  and `NoAckPropagates`. A client with one call at a time takes turns
  (`OneCallTakesTurns`), which is the sequential run. `Sequential` says what is
  lost when two calls to one endpoint overlap: the handle a call holds is the
  registered one, no send has failed on it since the one whose ack the call waits
  for, and the entry's counter is what its own handle missed in a row. Each of the
  three properties is violated with two calls: a late outcome is charged to the
  handle that replaced its own, another call's failed send is taken for the call's
  own, two calls find the same handle cold. Nor does anything keep the retries of
  two calls apart: the second may close the handle that the first has just opened.
  `ResendOncePerHandle` adds `Once`: a handle that was resent to is warm, or is in
  its resend, or failed to send (`Spent`). A resend that throws leaves the handle
  as cold as it was, so only the next acquire's look at `lastSendError` keeps it
  from a second one; hence `ShowsSendError`, which every connection made by
  `connect()` satisfies and one without that getter would not: then one call is
  enough to resend twice.
- `SerialFacadeProofs`: `QueueIsFifo`, `WaitersAreDiagnosed`,
  `DroppedSendsAreRecorded` and the types.
  `WaitersListen` strengthens: a pending receiver listens to some facade, which
  that facade's failure therefore reaches, unless the receiver is deaf, and then
  that facade was closed.
- `FileUploadProofs`: `SessionClosed` and the types. `SessionClosed` speaks of an
  upload that has ended; to be inductive it needs what holds on the way
  (`Closing`): once the sender is at the end of its plan, or idle, the last frame
  on the wire is a CLOSE or the device has taken it, unless the handle died or the
  CLOSE was lost; and a sender that retries has a dead handle. That every plan ends
  in a CLOSE is `PlanType`.

  `OkMeansStored`, `AckIsForFrame` and `ResetReopens` are proved for uploads
  `InStep`: no reply outlasts a wait, with any number of uploads of either kind,
  or replies may be late and there is one project upload. These are the constants
  of the two runs. `Sync` says that the ACK of the frame sent last is the only one
  there can still be, and that a fixed wait leaves no frame behind that anything
  answers; `Kept`, that the file of every frame behind the sender is in its slot;
  `Reopens`, that an OPEN of a project has a CLOSE before it. The fixed waits are
  what the proof turns on, and that a kit deletes before it writes; the drain
  before a frame that waits is not: in step it finds nothing. Beyond `InStep` all
  three fail. After an upload that timed out, its frames and their ACKs are still
  under way when the next one begins; a late ACK is taken for the next upload's,
  which reports success.
- `SafeEditProofs`: `NoSilentDiscard`, `RefusalHasCause` and the types, which say
  that no save or switch is sent without a location. `IInv` adds that a call under
  way has its job (`Busy`), that a call is only woken by an answer of the kind it
  waits for (`Woken`), and that the answer to "which location" names one
  (`Located`): save_active_first stores to nothing else. `Knows` is what the flag,
  the answers under way and the calls know of the device. `Flagged`: while an
  acknowledged edit is unsaved, the flag is set, and it is still trusted over the
  bit as long as the bit lags. `Queued`: whatever an answer says when it is sent
  is still so when it is taken (`Sound`), in the order they come (`After`), and an
  acknowledged save covers what any call goes by (`Covers`). `Keeps`: a call that
  has been told the bit is clean spares only what was acknowledged, and one that
  is about to refuse knows of an edit. `Spared`: what a request must not discard
  is safe from the moment it is sent.
- `FlagGateProofs`: `CleanMeansSafe`, `NoSilentDiscard` and the types. `Core` adds
  to them that every edit known of was begun (`Begun`), and that every result on
  its way, or being handed out, is of a store whose edits are not unsaved any more
  (`InboxSound`, `WokenSound`): this is what lets a switch trust a result although
  results name nothing and may be late.
- `DeleteProjectProofs`: `ErasedIsBackedUp`, `ReportIsTrue` and the types. `Order`
  relates the passes to the slots they have behind them, `Saved` says that each
  slot behind the backup is on disk, `Untouched` that a slot whose DELETE is yet
  to come holds a file, so that an ACK means that something was erased, `Acks` that
  no ACK of an earlier call outlives the listing this one began with, and `Marks`
  relates what the pass notes of a slot to what it did to it.
- `ModRoutesProofs`: `RoutesStay`, `SlotsAreBuilt` and the types. `AloneSound` says
  that a call still `alone` is the only one at its slot and that the parts it has
  written are there, `RouteSound` that a reported route's slot is its item's and
  no other's, `Built` that a call is still
  to write whatever a slot lacks.
- `ChannelMemoryProofs`: `LandsWhereAsked`, `RefusalIsFounded` and the types.
  `Followed` says where the block is while nothing is in doubt: at most one call
  is moving it, it is where a switch in progress wants it, and once no call moves
  it, it is where the server remembers it. `TypesSound` says the same of its type,
  for which `JobsSound` keeps that a call is still `alone` only if the others
  change nothing, and `Changed` that whatever may have changed the type is on
  record. Two lemmas carry the calls: `GoesOut` for a step that sends a request
  and waits, `EndsKept` for one that ends its call.

Every property of a passing run is stated by one of these theorems, except
liveness (`CallsEnd`, `PortComesBack`, `UploadEnds`), which needs ENABLED and
stays with TLC.

## 5. Reading the properties

- `StaleDropIsEarned`: a call's acquire gives up a handle that no signal speaks
  against only after as many missing acks in a row *on that handle* as the
  threshold says.
- `AcquireIsHealthy`: what a call gets has no signal against it at that moment.
- `PortsRecoverable`: whatever holds a port can still be closed. Closing the
  output first is what makes it so (`releaseNativeHandles`).
- `OkMeansStored`: an upload that reports success has every block of every file
  it was given in its slot.
- `ResetReopens`: the OPEN of a project upload meets a device without an open
  session, whatever the upload before left, unless a CLOSE was lost.
- `NoSilentDiscard`: a switch that was not told to discard takes no edit from the
  buffer unsaved that a client had been told of before the call began, nor one
  that the edited bit spoke for. It holds although the bit lags, answers are lost
  or late and calls overlap, because the flag is set by the acknowledgement, in
  the order acknowledgements arrive. Three kinds of edits are not protected and
  not claimed: one made between the guard and the switch; one whose
  acknowledgement was lost while the bit lagged; and one made by hand when the
  read of the bit fails.
- `RefusalHasCause`: the other side of the gate; the device was edited since the
  last acknowledged save, or switch of switch_preset, before the call. The flag is
  cleared by the save's own acknowledgement and not by the switch after it. The
  switch of apply_preset clears nothing, so it does not count; with every
  acknowledged save and switch counted the property would fail (section 6).
- `NoAckPropagates`: a missing ack is an answer of the device and never earns the
  reconnect that a fault of the handle earns. `lastSendError` belongs to the
  handle, so this needs calls that take turns.
- `WaitersAreDiagnosed`: after a failed open only deaf receivers of a facade that
  was closed in mid-open wait on, which the comment on `openFailureRejecters` does
  not except (section 6). A receiver registered after that close is rejected like
  any other.
- `CleanMeansSafe` and the `NoSilentDiscard` of `FlagGate`: what the server's flag
  alone is worth. It is cleared as the frame goes out, so a store that fails
  leaves the buffer unprotected on three of four paths; the properties say that
  nothing else does: not late broadcasts, not two calls, not a player.
- `DroppedSendsAreRecorded`: `send()` accepted bytes that no port will ever take
  only if `lastSendError` says so in the end.
- `ErasedIsBackedUp`: no slot is erased before all named slots are on disk, and
  the file that is erased is the one on disk unless somebody stored there since.
- `ReportIsTrue`: "erased" is only said of what this call erased; what it erased
  without being sure is "unknown", never "left alone". It needs both oracles: the
  listing alone may be behind the card.
- `LandsWhereAsked`: the cache may be trusted as long as nothing in `doubt`
  happened, with late echoes, echoes of another switch, timeouts of other writes
  and reconnects of either kind. `RefusalIsFounded` says the same of the types,
  for the channel the block is on: `set_params` refuses by what it remembers.
- `RoutesStay`: two calls that interleave write by write, on items that move
  between slots, never overwrite a route that was reported. `SlotsAreBuilt`: a slot
  is not lost to a call that gave up, except by a throw, and no macro destination
  is left at the button value that slams it.

## 6. Where code and comments disagree

Two are runs that TLC finds violated; `PROJECT.json` quotes the text.

- `flag_gate_store_failed`: the Axe-Fx II guard's save_active_first refuses to
  navigate when its store fails, and leaves the flag clear; the next switch
  discards the edits. Its own save_preset flags the buffer again for this reason.
- `wrong_channel`: `switchBlockChannel` keeps the old channel when a switch is not
  confirmed in time, although the block may have switched; the next write for the
  old channel sends no switch and lands on the other one, which the refusal says
  it avoids.

Known, read in the code or shown by a small change of a model, and not run:

- registry, with two calls at one endpoint (set `Op` to two calls in
  `MCConnectionRegistry_sequential.cfg`, with four handles, and TLC shows each when
  it is the only property checked):
  - `ResendOncePerHandle` fails: two calls read a fresh handle as cold before either
    has an outcome (`wireOps.ts:106`), and both resend; `connections.ts:56-58` says at
    most once per handle lifetime.
  - `StaleDropIsEarned` fails: `recordAckOutcome` charges by label
    (`connections.ts:88`), so a late miss on a replaced handle counts against its
    successor, which one miss of its own then discards; `connections.ts:40` says two
    are needed.
  - `NoAckPropagates` fails: a channel switch whose ack is missing is retried with a
    reconnect when another call's send failed on the handle meanwhile
    (`handleHealth.ts:168`); `handleHealth.ts:160-163` says that `lastSendError`
    speaks of the call's own send, and `handleHealth.ts:202-204` that a missing ack
    propagates on the first try.
- registry, with one call: a connect error is stored and answers later calls after
  the device was plugged in (`connections.ts:169`), though `midi-control.ts:116` says
  not to call `reconnect_midi` for that. `slowSendSuspect` is documented as speaking
  of the most recent send and is a latch.
- gen 3: a spread copy of a handle freezes its getters (`fractal-gen3/src/midi.ts:144`,
  `244`), so `lastSendError` and `slowSendSuspect` never change on it, against
  `transport.ts:130` and `serialTransport.ts:170`. Its save_preset leaves the flag
  clear after a rejection.
- serial: `close()` clears the rejecters of the receivers that wait for the open
  (`serialTransport.ts:361`); if it then fails they run into their timers, which
  `serialTransport.ts:164-165` says they do not. A reconnect during a slow open that
  fails is enough. `send()` is accepted, and lost, on a facade closed by another call's
  reconnect (`serialTransport.ts:285`), not only during the open latency
  (`serialTransport.ts:45`); a reconnect is refused by the server's own closing port.
- uploads: a sample plan's DELETE waits for no ACK (`sampleTransfer.ts:193`); if
  its ACK takes longer than the settle, every frame is acknowledged by the one
  before it, and a rejected SET_FILENAME passes, which `sampleTransfer.ts:130-132`
  rules out. A failed kit has lost its first slot. With late replies, an upload
  after one that timed out takes its ACKs: `OkMeansStored`, `AckIsForFrame` and
  `ResetReopens` fail with `Late` and two uploads, even of projects.
- `SafeEdit`: apply_preset does not clear the flag when its switch is acknowledged
  (`applyExecutor.ts:1162`, on purpose by the comment at 1234). If its first write
  is lost, a flag set before it stays over a freshly loaded preset, and the next
  navigation within 2 s, or with a failed read of the bit, is refused;
  `bufferDirty.ts:16-17` says the flag tracks edits since the last preset load or
  save, and `am4/src/tools/safeEdit.ts:62` that only a save at the front panel
  clears the bit under a set flag. It is a needless warning. A footswitch between
  the read of the location and the save makes save_active_first store the new
  preset's buffer over the old location.
- delete: `deleteProject.ts:15-19` calls the read the evidence that the file backed
  up is the file destroyed, but nothing compares them. `deleteSlots` loses the
  results of slots already erased when a later send throws (`fileDelete.ts:393-453`).
- channel memory: `lastKnownType` is never forgotten and kept per block though each
  channel has its own type; `set_params` refuses by it, where `writer.ts:438-442`
  says that across calls there is only a warning. `channels.ts:42` says reads fill
  it; `observeReadParam` has no caller. A handle that is replaced for its timeouts
  keeps the memory that `midi-control.ts:198-200` says is not trustworthy then.
- routes: init_patch and an apply_patch without routes never reset the allocator,
  so a table is refused as full with the advice to call init_patch
  (`navigation-modroute.ts:97`); the same gap makes a macro destination that is
  used again, on the new patch, keep its uninitialised button at -128, where
  `modRouteState.ts:21` calls the gap cosmetic. The retry of a call whose first
  attempt threw counts as reuse and never initialises the button. A slot given
  explicitly resets an authored button. A route made between a load and its reset
  is forgotten and its slot handed out again. `modRouteState.ts:19` says
  apply_patch does not reset; `patch.ts:682` does when there are routes.
- the layout cache's header says that calls on one device serialise at the handle,
  which nothing does.

## 7. Not modelled

Codecs, generated parameter tables, text and schemas; pattern, recipe, song and
OpenRig transformations; audio measurement; installer and research scripts. They
are pure or thin I/O, and a finite instance would restate them. They are also
nearly all of the repository's lines: generated tables, decoders, one-off scripts
and golden tests make up most of its 381,000 lines, and the code that keeps state
across an `await` is what the modules map. Port name matching and the byte framer
are deterministic functions with goldens. The block-layout cache only decides
whether a warning is added.

Left out within the modelled parts:

- `FlagGate`: a refused call is no step; apply_preset, scan_locations and the
  rename before a store; the retry of a handle fault; gen 3's set_bypass, which
  never flags; VP4 and AX8, whose frames the hook does not recognise.
- `DeleteProject`: two deletes at once; the transport's retry of a whole pass.
- `ChannelMemory`: the cold resend; an apply's batch, which goes on after a
  channel write that was not acknowledged; get_param's own channel switch, which
  is a `Switches` followed by a read.
- `ModRoutes`: a load is one step, though it takes seconds; set_param on the
  registers of a slot.

## 8. Plan

1. The serial framer as a state machine over a stream cut anywhere, against the
   reference of the uncut stream; the backup sweep with its abort after three
   failures in a row; the download direction.
2. Proofs: what the registry keeps of one handle when two calls to its endpoint
   do overlap, what an upload keeps after a late one, and each new component's
   own invariants.

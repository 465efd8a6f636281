# projectMM v2 in TLA+

projectMM v2 is a runtime for LED controllers: effects render frames of pixels, layouts say
how large they are, drivers and previews send them out, and all of it is a tree of modules that
a user builds in a web page while it runs, on an ESP32 or a PC. This directory holds TLA+
modules that model the parts of it whose correctness depends on sequences of events, TLC
configurations that check them, and proofs that TLAPS checks. Sources are named relative to the
repository's root (`src/core/...`); `PROJECT.json` names them with one more `src/` in front.

## 1. Inventory

| Component | State | Operations | Hard because |
|---|---|---|---|
| **ModuleManager** (`src/core/ModuleManager.*`) | `modules_`, a vector of owned modules in depth-first order; `mu_` | `add`, `remove` (a subtree), `reorder` (roots or children), `reparent`, `find` | four structures describe one tree (vector, `parent_`, `children_`, the flagged input) and every operation updates some of them |
| **MoonModule** (`src/core/MoonModule.*`) | controls, child list, parent, `enabled_`, timing | dispatch wrappers, child lists, `setControl`, save and load | the wrappers recurse, so the shape of the tree decides who ticks |
| **Scheduler** (`src/core/Scheduler.*`, `src/main.cpp`) | `stop_`, per core: the sampled clock and the time each cadence ran last | `run`, `core_loop`, `stop` | two cores, a wrapping clock read before the mutex is taken, detached tasks, teardown with the mutex held |
| **DataBuffer / DataRegistry** (`src/core/`) | slot, revision word `published_`; entries by id | `allocate`, `publish`, `invalidate`, reader's `try_acquire_read`; `declare`, `undeclare`, `resolve` | readers cache a raw pointer and a revision across resizes and deletion; sentinels live in the number space of the revision |
| **Effects** (`PixelEffectBase.h` and subclasses) | cached layout pointer, size, pixels, buffer | setup, poll at 1 s, render at 20 ms, teardown | geometry is found by polling cached pointers; three allocations may each fail; sizes of memory wrap |
| **ArtnetOut, Preview** | cached buffer, cursor, preview: frame buffer and header | 20 ms read, preview: 1 s poll | stale pointer, stale size, stale header |
| **Layouts** | width, height, depth, maps | settings | tell nobody that they changed |
| **REST API** (`HttpServerModule.cpp`) | HTTP worker threads | the requests that drive all of the above | run beside the cores; the server is itself a module |
| **HTTP server** (`PalHttp.h`) | PC: thread pool; ESP32: `bodyBuf_`, bodies by request address | collect a body, call a handler | pieces of several bodies interleave, connections end early, addresses are used again |
| **StateStore** (`StateStoreModule.h`, `PalFs.h`) | files `modules.json`, `state/<id>.json`, their cached text | save at 1 s and 10 s, load | crash between two writes or inside one, failed writes, two-pass load |
| **WebSocket** (`WebSocketModule.cpp`, `PalWs.h`) | last client and module counts, dirty flags | schema and state push at 1 s | changes told by counts; frames dropped at a fixed size |
| **WifiSta** (`WifiStaModule.h`) | connection state, power step, deadlines | connect, staircase of power levels, promotion probe | timeouts, retries, edits in between |
| **Logger, MemTracker, SystemStatus** | ring of 64 lines; metrics | log, read | ring boundary |
| **Web UI** (`frontend/app.js`) | none of its own that matters here | drops, deletions, edits | decides which requests really come |

How they interact: core tasks walk `modules_` under `mu_` and call every module's hooks; HTTP
handlers take the same mutex, so a request falls between two passes. Effects find layouts, and
readers find effects' buffers, by id through the manager and `DataRegistry`, then keep raw
pointers. StateStore and WebSocket are modules that poll all others from their own slow hooks.

What makes each correct: the tree stays a forest that all four structures agree on, and only whole
groups die; every module is called by the passes it should be, in tree order, on time; a reader
reads buffers that exist, does not take a frame for new twice, stays inside memory, and changes
arrive; what is saved is what is loaded; a client that connects gets the schema; a device that can
connect does; the log is the last 64 lines in order.

`PROJECT.json` lists all components with their status, and under `hazards` each place where this
can go wrong, with the properties that watch it.

## 2. Plan

1. `ModuleTree` - the tree, first because all else stands on it. **Done**; every invariant and
   action property is proved.
2. `DataPath` - the frames' way. **Done**; every invariant and action property is proved.
3. `Scheduler` - cores, cadences and shutdown over the tree; extends `ModuleTree`. **Done**; all but
   the liveness property is proved.
4. `StateStore` - the tree, its files and its caches, with power losses; implements
   `DurableTree`, an abstract tree that is saved and restored. **Done**; the type invariant and
   the refinement are proved.
5. `WsPush` - how a page learns of a change; extends `ModuleTree`. **Done**, invariants proved.
6. `WifiSta` - timeouts, staircase, probe, edits, reboots. **Done**, invariants proved.
7. `EspHttp` - bodies on the ESP32. **Done**, invariants proved.

Three modules extend `ModuleTree` and use its actions unchanged, so what a request does to the
tree is written once: `Scheduler`, `StateStore` and `WsPush` compose their component with it.
`DataPath` stands alone, as the nesting it needs is one pointer per effect.

## 3. The modules

### ModuleTree

State: `modules` is the vector; `kind` the type of each live id; `parent`, `children`, `flag`
and `link` are `parent_`, `children_`, `parentControlIdx_` and the values of the text inputs.
Ids stand for pointers, as the HTTP layer refuses an id that exists; a pointer to a destroyed
module is `Freed`; following it, and writing past the end of a child list, is `Crash`, which ends
the modelled program.

The 8-bit members are constants. `MaxChildren` is what fits a child list: its capacity grows by
four in a `uint8_t`, so at 252 children the next one wraps it to 0 (`HasRoom`). `ChildWrap` is the
256 of the cast in `reorder`. `Stored` is what is left of an id in an input's buffer, which is 24
bytes (`strncpy`), against ids of any length.

Actions are requests, each one whole handler under the mutex: `AddModule`, `RemoveModule` (detach,
tear down, destroy the subtree), `Reparent` (input match by type, category or wildcard, write
input and flag, relink, sort), `Promote` (drop on the top level), `ReorderChildren` (with lists
that name strangers, or a child several times: `NewOrder` is the array the code builds, of which
`reorderChildren` compares the low 8 bits of the length), `ReorderRoots` (with what its last loop
does), `SetInput`. `SortDepthFirst` is part of the actions whose code ends with it.

`Spec` allows every request of the REST API; `UiSpec` those the web page makes: drops on roots
other than the dragged module, lists of children that name each once (`NamesOnce`), and no reorder
of the roots (the page does offer that; see findings). The page disables its delete button on a
module with children, so deletion of a group comes from REST clients; `UiSpec` allows it.

The tree itself does not tick here: where it holds a cycle, the recursion of `runLoop` does not
end. `remove` detaches before it walks, which cuts a cycle through the removed module.

### DataPath

State: `shape` of the layouts; `eff`, the fields of every `PixelEffectBase`; the buffers by
address (`heap`, `slot`, `word`); `entry` of `DataRegistry`; `source`, `at`, `seen` of the two
readers; `frame`, the preview's size and header. Pixels are not modelled, only the sizes of the
memory for them.

A shape is width, height and depth, any of which may be 0, as `setControl` keeps no number within
its slider. `Bytes` is `n * sizeof(RGB)` as `allocate_` computes it, with `n` in a `uint32_t`
(`UintWrap` values) and the product in a `size_t` (`SizeWrap`: the same on the ESP32, 2^64 on a PC);
the memcpy of `loop20ms` computes it alike. `PreviewBytes` is the preview's own product, in a
`size_t` throughout. `Is3d` effects multiply by the depth, others take it as 1 (`Geometry`).

`sent` is for a property: how often a reader has sent the frame that is in a slot, since the reader
attached. A reader that attaches anew (the preview does after a change of size) starts at 0, as its
cursor does, and may send that frame again.

Actions: one per request that touches these (`SetShape`, `AddEffect`, `NestEffect`,
`RemoveLayout`, ...), one per hook (`EffectSlow`, `EffectFrame`, `ReaderFrame`, `PreviewSlow`).
A hook is one action because the mutex is held around it. Inside a pass modules tick in
vector order; since any module can be disabled for a pass and enabled for the next, every order
of ticks of different modules is possible, and the actions are left unordered. `Allocate` keeps
the order of `allocate_`: old pixels freed, new pixels, buffer, slot, declaration, each allocation
possibly failing. `Teardown` includes what `~DataBuffer` does to the word. Reading a freed
buffer yields what the destructor left, or the word of a new buffer at that address, or the end
of the program. Readers are not removed themselves: a new reader starts as the initial one.

`KeepSpec` has no deletions, and fairness.

### Scheduler

Extends `ModuleTree`: its requests (`UiNext`) are what an HTTP worker's `Serve` does between
passes. Every core goes `start`, then round `sample` (reads `stop_` and the clock), `pass`
(under the mutex), `rearm`. `RunHook` is the recursion of the four wrappers, `Dispatch` one
module of a pass, `calls` the calls of the pass just made. `since` and `age` are true times kept
only to be compared with the wrapping clock. After `stop_`, main removes `http-0` with the mutex
held (`mutex`), and the server's destructor returns once no handler runs (`ServerJoined`; that
`httplib` joins its workers is external knowledge). Locals that go out of scope return to their
initial value.

Left out: the head modules, which are roots without children and tick as such; that core 1 may
still run while static objects are destroyed after main has returned (`Scheduler.cpp:40` says
so); a client that deletes `http-0` itself; `runLoop1s`'s timing statistics.

### StateStore and DurableTree

Extends `ModuleTree`. `modules_json` and `state_json` are the files, `last_modules_json` and
`last_state_json` the caches `loop1s` and `loop10s` compare with. A file is a value of the model,
`Torn` when a write was cut short, `NoFile` when absent.

A boot goes through `load` (`LoadEntry`: pass 1, one entry per step, with the settings file of the
module), `link` (`LinkEntry`: pass 2, `Reparent` by the saved parent) and `run`. The load happens
inside `ModuleManager::add`, which holds the mutex, so no request falls into it; power may be lost
in it. `Edit` is a request of the web page (`UiNext` of `ModuleTree`, so no cycles and no reorder
of the roots) or an `enabled` switch, `Loop1s` and `Loop10s` are the saves, each of whose writes
may fail (the caches are updated all the same). `PowerLoss` strikes between steps or inside a
save, where it leaves the file torn, and `loop10s` part of the way through.

`DurableTree` is what a user may expect: a tree that is edited, saved now and then, lost by a torn
save, and after a stop the one saved last. `StateStore` implements it with the refinement mapping
`tree <- ` the user's tree in what `snapshot_modules_` would write now, while the program runs,
and `saved <- ` the user's tree in the file. The user's tree of a list (`UserTree`) is the modules
that `main.cpp` does not add itself, each with type, id and parent, and which of two under the same
parent, or of two roots, stands before the other. Modules nested in the state store itself come
back as roots (`Late`), because pass 2 runs before the manager knows the store.

What is not promised: the place of the head modules among the user's roots (heads are added first
at every boot, so a root that stood before one comes back behind it), and what happens when a
client deletes a head module and adds its id again with another type.

### WsPush

Extends `ModuleTree`. `dirty` are the modules with `schemaDirty_`, `last_client_count` and
`last_module_count` the two members of the module. Of a page: whether its connection is in
`clients`, whether its tab is `hidden`, and the fingerprint `heard` (`lastSchemaIds_`). `dead`
counts closed connections the PC server has not noticed. Actions: `Request` (a request of
`ModuleTree` with what it flags), `Connect`, `Lose`, `Hide`, `Show`, and `Loop1s`, which holds the
mutex whenever it looks at the tree. `Broadcast` sends the schema if it fits; as `broadcastText`
swallows a `bad_alloc` of `textAll`, and a client's queue may be full, it may be dropped for any of
the clients, while `Loop1s` settles counts and flags all the same. `steady`, `unflagged`, `lost`,
`hid` and `missed` (pages a schema was dropped for) are history variables for the properties.

Left out: the first listing a page fetches by GET (it does not touch `lastSchemaIds_`), the state
push, how long a frame that is not dropped travels, reordering of roots, and the flag that
`clearControls` raises when a control changes an effect's controls (`SineEffect.h:45`): one more
push of an unchanged tree.

### WifiSta

One action for each way through `loop1s` (`StartProbe`, `EndProbe`, `Connected`, `StepDown`,
`GiveUp`, `Retry` or nothing), one for each control (`SetEnabled`, `SetCredentials`, `SetPref`),
and `Reboot`. `file` is what `load_creds_` would make of `/wifi.json`: an edit saves
(`SaveCreds`), the write may fail or be cut short, which is only logged, and `Reboot` starts with
what the file holds. Time is in seconds, on a clock that wraps. Around the module: the radio
associates (`Associate`) when it is told to and its level is one that works, drops the link
(`Drop`) when it is not, and what works changes (`Surroundings`).

### EspHttp

`at` is the request object at an address, `bodyBuf` the map keyed by that address. `Accept` and
`Disconnect` are the web server's; `BodyBytes` and `RequestComplete` are the two callbacks of
`onPost` and `onPatch`. A piece is a pair of its request and its number, so a mixed-up body shows.

## 4. The runs

| Run | Specification | Checks | States |
|---|---|---|---|
| `tree_ui` | `UiSpec`, 5 ids | `ParentsAlive`, `Acyclic`, `DepthFirst`, `DestroysExactlyAGroup`, `RootsKeepOrder` | 14 573 |
| `tree_api` | `Spec`, 4 ids | `TypeOK`, `ChildListsAgree`, `VectorHoldsLive`, `FlagFitsParent` | 11 030 |
| `data` | `Spec`, 2 effects, artnet-out, registry of 1, failing memory, wraps at 8 | `TypeOK`, `BuffersOwned`, `RegistryNamesLiveBuffers`, `FrameFits`, `DeliversOnce` | 785 000 |
| `data_keep` | `KeepSpec`, 2 effects, the preview | `AttachedToSource`, `DeliversOnce`, `GeometryReachesReaders` | 65 500 |
| `sched` | `SchedSpec`, 2 cores, an effect and a reader | `SchedTypeOK`, `DueOnTime`, `TicksItsModules`, `HooksOnTime`, `ParentFirst`, `HooksKeepRunning` | 129 000 |
| `store` | `StoreSpec`, a head, the store, a layout, an effect and a preview | `StoreTypeOK`, `RestoresTree`, `QuietReachesDisk` | 28 200 |
| `wifi` | `WifiSpec`, 2 rungs | `WifiTypeOK`, `OffWhenDisabled`, `StatusTellsAttempt`, `StaysReachable` | 659 000 |
| `ws` | `WsSpec`, 2 pages, 3 modules and a fourth | `WsTypeOK`, `OnlyKnownGaps`, `PagesAreTold` | 635 000 |
| `esp_http` | `EspSpec`, 4 requests, 2 addresses | `EspTypeOK`, `OwnBodyLast`, `OnlyAbortedLeaveBytes` | 15 700 |
| `tree_root_reorder` | `Spec` | `RootReorderKeepsModules` is violated | |
| `sched_affinity` | `SchedSpec` | `TickedByOwnCore` is violated | |
| `sched_stop` | `SchedSpec` | `StopEndsProgram` is violated | |

What the passing runs show:

- **tree_ui**: whatever is dropped and deleted from an up-to-date page, no cycle and no dangling
  parent appears, the vector stays in pre-order (which the passes rely on), a deletion takes the
  group and nothing else, and sorting never changes the order of the roots among themselves.
- **tree_api**: any requests, cycles, destroyed roots, overfull child lists and order lists with
  repetitions included, keep child lists and parent pointers converse to each other, the vector a
  list of the live modules, and the flag on an input exactly where there is a parent.
- **data**: buffers have one owner; the registry names live buffers only, with the size of their
  slot, also after a resize that failed half-way; the copy of a frame stays in `pixels_` and in the
  slot even when the sizes wrap, and rendering stays in `pixels_` when they do not; and artnet-out
  sends no frame twice while it keeps its pointer, across resizes that restart the revision, deleted
  buffers, a new one at the same address, and the wrap of the revision through its two sentinels.
- **data_keep**: as long as nothing is deleted a cached pointer is the right one, and the preview
  sends no frame twice while it keeps it; and a layout's new size reaches effect, registry and
  preview once clients are quiet (`<>[][Tick]_vars`). Of `GeometryReachesReaders`: it assumes that
  every module's hooks go on being called, so that none stays disabled for ever, and that no
  allocation fails; it compares sizes in bytes where the code does (the preview).
- **sched**: a pass of a core calls each enabled module of that core and no disabled one, once
  unless it is nested in another module of the core, and a parent before its children; slow hooks
  come exactly in the passes they are due in, whether or not the clock has wrapped, and keep
  coming on both cores while clients' requests compete for the mutex.
- **store**: whatever is edited, fails to be written or loses power in between, what runs after a
  boot is the tree that was saved last, nesting and order included, or none if the file was torn;
  and once clients are quiet the files hold the present tree and `enabled` switches, but for a file
  whose last write failed. Text inputs are in the model's files, but not compared by the property.
- **wifi**: no timer, probe or edit turns the radio on behind the switch; "connecting" is shown
  exactly during an attempt; and a device that is reached at the level it ends up with is
  connected again and again, whatever failed before.
- **ws**: a page that missed no schema knows the tree or is about to be told, unless the change
  was one that flags nothing; and a page that stays, visible, with no schema to it dropped and no
  connection lost, is told in the end.
- **esp_http**: a handler gets the whole body of its own request at the end of what it gets, and
  what may stand before it comes from requests that were cut off at the same address.

What the violations show is in `PROJECT.json` under `findings`: reordering the roots destroys
them; a module nested under one of another core is ticked by both cores, against
`Scheduler.h:12-13`; a request in flight at SIGINT keeps the program from ending.

Disagreements met and not given a run of their own:

*Tree and scheduler*

- `reparent` accepts a parent inside the module's own subtree, or itself (`ModuleManager.cpp:199`),
  and `runLoop` then recurses without end; `docs/architecture/system.md:109` says "Cycles are
  rejected at wire time."
- The pass also visits nested modules again from the vector, so a module nested in others of its own
  core has its hooks called several times per pass (`MoonModule.cpp:54`, `Scheduler.cpp:58`).
- `reorder` casts the number of ids to 8 bits before it is compared (`ModuleManager.cpp:140`,
  `MoonModule.cpp:392`): with two children, a list that names one of them 257 times gives an array
  of 258 entries, passes as 2, and leaves that child in the list twice and the other out. The
  properties and theorems of child lists therefore speak of order lists of at most 256 ids
  (`ShortLists`); the page sends each child once. With one id more in
  `MCOrderRequest`, TLC finds this in `tree_api`. The model stops at such a list (`broken` in
  `ReorderChildren`): what a program does whose next `removeChild` leaves a dangling child is not
  followed.
- The capacity of a child list wraps at 256 (`MoonModule.cpp:368`): the 253rd child is written past
  a new array of no entries.
- `reparent` and `setControl` cut an id to the input's 24 bytes (`ModuleManager.cpp:210`,
  `MoonModule.cpp:224`): a longer id never resolves again, although `parent_` is right.
- `setControl` may write the flagged input and leaves `parent_` (`MoonModule.cpp:224`), while
  `docs/architecture/system.md:60` says the relation lives in that value alone.
- `type_` of a module of an unknown type points into a string of `unknown_types_`, which moves
  when the vector grows (`ModuleManager.cpp:25`); short strings move with it.

*Data path*

- `~DataBuffer` stores `kNone` over the `kDead` of `invalidate()` (`DataBuffer.h:102`), so a
  reader of a deleted effect never sees the mark that `DataBuffer.h:80` promises.
- `reparent` calls `onUpdate` before it links (`ModuleManager.cpp:215`): an effect moved between
  layouts keeps the geometry of the first, while `PixelEffectBase.h:122` says the parent wins.
- A resize restarts the revision (`DataBuffer.h:57`), so a reader may take a new frame for the
  one it has, and skip it.
- Between a resize and its 1 s poll the preview copies its old frame size from the new slot
  (`PreviewModule.h:85`). It compares sizes in bytes only (`PreviewModule.h:61`): turn a panel by
  90 degrees and the header keeps the old width and height.
- `setControl` does not keep a number within its slider (`MoonModule.cpp:443`): a bpm of 0 divides
  by zero (`LinesEffect.h:68`), and for a grid far above its maximum `n` or `n * sizeof(RGB)`
  wraps (`PixelEffectBase.h:158-160`; on 32 bits by width and height alone): `pixels_` is smaller
  than the `w_ * h_ * d_` pixels that `render_` writes (`:77`). `FrameFits` says of these sizes
  only that the copy, which wraps alike, stays inside. On 64 bits the preview's product does not
  wrap where `n` does (`PreviewModule.h:117`), so it copies more than the slot holds.
- After a change of size the preview attaches anew and may send the frame it has sent once more
  (`DataBuffer.h:122`).
- `FlowFluidEffect.h:55` allocates twelve fields and looks at one of them before it uses them all.

*State store*

- The caches are filled from memory, not from the files (`StateStoreModule.h:56`, against the
  comment above it), so a setting that was not restored looks saved. Settings of head modules are
  saved and never loaded (`:154`): one that was switched off comes back on.
- State files of deleted modules stay (`:86`) and are applied to a new module of the same id.
- A failed write is not tried again until the next change (`:65`).
- A promoted module's input is lost when its file still has the older value at a reboot.

*WebSocket and page*

- A single page that loses its connection and comes back gets no schema: without clients `loop1s`
  returns before it looks (`WebSocketModule.cpp:23`), so the count it compares with is still 1;
  the module's page in the docs says the schema is broadcast once per client that connects.
- Promotions and reorders flag nothing, nor do as many removals as additions in one second.
- A schema over 4095 bytes is dropped and its flags cleared (`:73`, `:48`). So is one for which
  `textAll` finds no memory (`PalWs.h:102-104`): counts and flags are settled (`:34`, `:39`,
  `:45-50`), nothing repeats it, and a page that stays connected may never be told, although
  `docs/user-guide/network/web-socket.md:9` promises one broadcast per connect.
  `docs/development/backlog.md:150-152` knows of the low heap, and of a worse end: the JSON
  document itself throws, outside the `try`.
- A hidden page throws schemas away and fetches nothing when it is shown (`app.js:2134`).
- The PC server's destructor closes the listening socket, which does not wake `accept` on Linux,
  and handshake threads are detached with `this` (`PalWs.h`).

*WiFi*

- The probe is entered only while connected (`WifiStaModule.h:68`), so the branch that falls back
  to the reduced level (`:244`) is never reached; a probe that lost the link is called a success
  after the reconnect. `:174` says "if it disassociates, we demote back".
- The probe and its end raise the radio over the user's preference (`:236`).
- A device that needs full power never reconnects once it has stepped down: retries keep the
  reduced level (`:108`).
- Emptying the ssid while connecting lets the timeout walk down the staircase. If the driver
  reconnects by itself the status stays "failed".
- A failed or cut write of `/wifi.json` is logged only (`:225`): after a reboot the device has the
  old credentials, or none.
- `now < next_probe_ms_` (`:236`) is not safe across the wrap, and 0 stands for no probe.

*HTTP on the ESP32*

- `bodyBuf_` is keyed by the address of the request object (`PalHttp.h:125`, `:175`) and an
  aborted request's pieces are never removed: they stand before the body of a later request at
  that address.

### Bounds

- *Ids.* Two layouts, an effect and two readers are every kind of nesting the shipped types allow
  (by type, by category, by wildcard) with a choice between two parents; four ids with two
  mutually acceptable readers are enough for cycles.
- *8-bit members.* `tree_api` has `ChildWrap` 4 and `MaxChildren` 2, so that lists of as many ids as
  `ShortLists` allows, with repetitions, and full child lists both occur; one reader's id stands for
  one too long for an input.
- *Shapes.* `data`: 1x1x1, the default, and 3x3x3, which a 2D effect takes as 3x3x1: both exceed
  the 8 values of the two integers, and leave fewer bytes than pixels. `data_keep`: 1x1x1 and
  1x2x2, which differ in depth for one of the effects only and have the same width.
- *Words* (values of `published_`, 2^32): 3 in `data`, so that every few frames pass the
  sentinels; 4 in `data_keep`, so that two revisions are live. *Addr*: as many as effects, so
  addresses are used again; they are interchangeable (SYMMETRY in `data`, which checks no
  liveness). *MaxEntries* 1 in `data` fills the registry. *SourceValue*: in `data` the reader
  stays with one effect, which is deleted and added again; in `data_keep` it changes between two.
- The two readers differ where the preview may leave a frame and sizes a frame buffer. `data` has
  artnet-out, which sends all it can, `data_keep` the preview; both at once, deletions and a failing
  frame buffer of the preview are left to the proofs, which hold for any readers.
- *Wrap* 3 and *MaxLag* 2: the clock wraps after three periods; a core may be kept from its pass for
  up to `MaxLag` (the guard of `Millisecond`), the largest difference the clock can tell; in the
  code that is 49 days. *Period* 1 gives passes that are early, on time and late. One cadence,
  as cadences do not read each other's state; one worker, as workers do not either.
- `sched`'s reader is of a type of core 0 or core 1, so nested modules of the same and of another
  core both occur.

- `store`: one head, the store, and a layout, an effect and a preview, two of which may nest in
  others; `MaxEdits` 2 and `MaxFaults` 2 allow an edit, a fault, an edit after it and a second
  fault. `SavedBefore` gives the first boot lists of earlier runs: none, siblings, and a chain of
  three, so that two edits are enough for every change of nesting and order.
- `wifi`: `Lowest` 2 has a middle rung. The clock wraps after a few timeouts, so that a run passes
  the wrap in every state. `MaxAssociate` is at most the timeout, as a radio slower than the
  timeout never connects. `MaxEvents` bounds requests, reboots and changes of what works.
- `ws`: two pages, so that one may mask the other in the count; three modules, a fourth that can
  be added, and `MaxFit` 3, so that a tree fits and outgrows the buffer; two effects that can
  stand in one layout in two orders; `MaxRequests` 3 (nest both, reorder them) and `MaxNet` 2
  (lost connections, dropped schemas, hidden tabs).
- `esp_http`: two addresses and four requests: interleaved bodies of two pieces, an aborted one,
  and a later one at its address; one url that nobody handles.

### Fairness

`KeepSpec`: weak fairness of each hook, as `core_loop` calls every module's due hooks in every
pass. `SchedSpec`: weak fairness of each core's steps, of the clock and of a handler that has
begun; none of clients and users. That a core gets the mutex although other threads use it is
weak fairness of `Pass`: it assumes that the mutex does not starve a waiter; every holder releases
it in each round, and `core_loop` yields after it.

`StoreSpec`: weak fairness of the boot and of both saves. `WifiSpec`: of `loop1s`, of time, and of
association where it is possible (a driver retries by itself). `WsSpec`: of `loop1s`; no page has
to connect and no schema has to get through, `PagesAreTold` speaks of pages that stay connected
and had none dropped. `EspSpec` has none: it has no liveness property.

`CHECK_DEADLOCK FALSE` stands where the program may stop: after a crash of the modelled program
(`ModuleTree` with any request, `DataPath`), after main has returned or while it waits for ever
(`Scheduler`), when requests and faults are used up and all is saved (`StateStore`), and when all
requests have been served (`EspHttp`).

## 5. Proofs

What TLC checks on an instance, these modules prove for every value of the constants that the
named assumptions admit (`TreeAssumption`, `SchedulerAssumption`, `DataPathAssumption`,
`StoreAssumption`, `WifiAssumption`, `WsAssumption`, `EspAssumption`; TLC evaluates them on every
run). Every invariant of a passing run is stated by a theorem, and so are every action property
and the refinement.

The assumptions say no more than the code or the environment does: ids and types are finite sets
of names; requests carry ids; the ids `main.cpp` gives to its modules differ (`HeadModules`,
`AtBoot`); no client adds a second state store, or a module of another type under the id of a head
module (`AddRequest`; an id the page makes has an underscore, `app.js:1117`, and no head's has); the
list an earlier run left loads back, and a torn file is no list (`SavedBefore`, `Torn`); `Cadence`
names hooks of `Slow`. That a list loads back (`LoadsBack`: ids differ, a parent is listed and takes
what is nested in it, no cycle) is no more than what the program leaves behind: `ListingLoadsBack`
shows it of every list that is saved.

`ModuleTreeProofs` holds, for any set of modules, types and names:

- `TreeTypeCorrect`: the types of all but the vector under any requests.
- `ChildListsCorrect`: `ASSUME ShortLists PROVE Spec => []ChildListsAgree`. The hypothesis is the
  limit of 256 ids above; it is needed, as the code breaks the property beyond it. Within it an
  array passes the comparison of 8 bits only if no child is named twice (`NewOrder` and its
  lemmas); what overflows a child list has ended the program. The invariant `TreeInv` is the types
  and `ChildListsAgree` itself: that a child occurs once and only in its parent's list is what
  makes `removeChild` of the first occurrence enough. Lemmas about `Without` (what closing the gap
  leaves) and about appending carry every action.
- `FlagCorrect`: `FlagFitsParent`, under `ShortLists`. `FlagInv` adds that an id not in use has no
  flag, as an id may be used again.
- `UiKeepsAForest`: `UiSpec => [](ParentsAlive /\ Acyclic)`, and `ParentsOutliveChildren`, its first
  half. The argument: a drop goes onto a root other than the module itself, and a root's chain of
  parents is empty, so it cannot run through the dropped module; a removed subtree is closed under
  children, so by `ChildListsAgree` no survivor has its parent in it. `ParentsStep` shows that the
  first half needs no web page: of all requests only a reorder of the roots leaves a pointer
  dangling.
- `GroupsGoTogether`: `UiSpec => DestroysExactlyAGroup`. What `dfs_` collects through the child
  lists is what hangs on the module through the parents (`SubtreeIsNested`).

`ModuleVectorProofs` is about the vector and what rebuilds it. `Keep` (`std::remove`) and
`PreOrder` (`dfs_` with its stack made explicit: `Visit` is one call) are recursive functions; that
they exist, and what they leave, is shown by induction over a set of numbers (`NatSetInduction`),
as the library's induction theorems cannot be instantiated.

- `VectorCorrect`: `VectorHoldsLive`, and `TypeCorrect`: `TypeOK`, both under `ShortLists`.
  Between two calls of `dfs_` no module has been moved twice or waits twice (`Walking`), also
  where the parents form a cycle; what no root reaches is appended.
- `RootsStayInOrder`: `UiSpec => RootsKeepOrder`: the walk enters the roots in vector order, and in
  a forest it reaches all (`SortNests`).
- `VectorDepthFirst`: `UiSpec => []DepthFirst`. The invariant says that the members of a subtree
  stand in one block behind its head, as a statement about who stands before whom (`Nested`):
  addition appends a block, removal takes whole blocks out, a sort makes them anew (`Arranged`,
  block by block of the walk). `NestedIsDepthFirst` turns it into positions.

`DataPathProofs` holds for any effects, readers, addresses, shapes, and widths of the revision and
of the integers sizes are computed in:

- `BuffersHaveOneOwner`, `RegistryCorrect`, `FramesFit`: they are inductive together
  (`ProducerInv`), with the facts that an effect that is gone leaves nothing (`GoneAreBlank`), that
  its parent is never a deleted layout and a cached layout is deleted only as `Freed`
  (`LayoutsKnown`), and that an entry has a size (`EntriesSized`). `BytesInFull` says that a size
  that does not wrap has all its bytes.
- `DataTypeCorrect` and `FramesSentOnce`: the readers' half, of a reader for as long as it keeps
  its pointer. A frame that has been sent is not fresh any more (`SentIsSeen`): the word is a
  sentinel or the revision the reader saw last, also after the buffer has been freed, or freed and
  another allocated at its address.
- `ReadersStayAttached`: `KeepSpec => []AttachedToSource`: a resize keeps the address, and a new
  source is resolved at once.

`SchedulerProofs` holds for any number of cores, hooks, periods and any wrap of the clock:

- `SchedulerTypeCorrect`: `SchedSpec => []SchedTypeOK`, which the next one uses for the ranges of
  the clock, the samples and the cursors.
- `SchedulerClockCorrect`: `SchedSpec => []DueOnTime`. The invariant relates each core's `last`
  to the clock: `last + since` is the clock, or the clock plus one `Wrap`, and `since` is at most
  `MaxLag`, which is less than `Wrap`; likewise `age` with the sample. One conditional lemma about
  `%` then gives that the difference is the age.
- `EveryModuleTicks`, `SlowHooksOnTime`, `ParentsTickFirst`: the three action properties of a pass,
  from `PassInv` (the clock's invariant and the nesting of the tree). `RunHookCount` counts the
  calls of a module in the recursion: it is 1 below the module called and 0 elsewhere, because
  child lists share nothing (`BelowDivides`) and the recursion ends (`BelowShrinks`, with the
  number of ids as its depth); `FlattenCount` adds the modules of the vector up. A parent is called
  first because it stands before its children in the vector (`Nested`) and in the recursion
  (`RunHookLed`).

`StateStoreProofs` holds for any heads, old files and any sequence of failures:

- `StoreTypeCorrect`: `StoreSpec => []StoreTypeOK`. An entry of the file names a module and a
  parent because the vector holds live modules only and no parent dangles (`VectorInv`,
  `ParentsAlive`), through both passes of the load; the store itself never gets an entry because its
  id keeps its type (`StoreStaysStore`).
- `StoreRestoresTree`: `StoreSpec => RestoresTree`, the refinement of `DurableTree`. Every step
  but the end of the boot maps at once. For that one `BootInv` says how far the two passes have
  come: the entries before `next` are modules of their types, roots in the order of the file
  (`Loads`), and under their parents, children in the order of the file (`Links`). `RelinkStep`
  shows that a step of pass 2 succeeds and keeps this: the parent takes the child, the half-linked
  tree has no cycle (`BootIsAcyclic`), and the sort at its end leaves alone what was linked
  before. `BootRestores` reads the user's tree off the result: roots stand in the order of pass 1,
  siblings in that of their child list, which in a pre-order is that of the vector (`Nested`).
  `RestoreInv` adds what keeps the next list loadable: the vector is in pre-order, inputs fit,
  heads keep their types.

`WifiStaProofs` holds, for any staircase, timers and surroundings:

- `RadioObeysSwitch`: `WifiSpec => []OffWhenDisabled`, and `StatusCorrect`:
  `WifiSpec => []StatusTellsAttempt`. They are inductive together: every action of `loop1s` needs
  the switch on, and credentials edited while it is off do not change the attempt, which
  "connecting implies enabled" makes harmless. `WifiTypeCorrect`: `WifiSpec => []WifiTypeOK`.

`WsPushProofs` holds, for any modules, pages and requests:

- `NoPageIsForgotten`: `WsSpec => []OnlyKnownGaps`. `OnlyKnownGaps` is not inductive, because a
  schema may be due only for a client that goes away again. `Announced` says that the tree itself
  announces the change (count or flag), and speaks of hidden pages too; it is.
  `WsTypeCorrect`: `WsSpec => []WsTypeOK`, from the types of the tree.

`EspHttpProofs` holds, for any requests, pieces and addresses:

- `HandlerGetsOwnBody`: `EspSpec => []OwnBodyLast`, and `BufferHoldsOnlyAborted`:
  `EspSpec => []OnlyAbortedLeaveBytes`. The invariant describes the buffer of an address piece by
  piece: first what aborted requests left, then the pieces of the present one in order. Lemmas
  about `EndsWith` carry one more piece, a cut-off, and the translation to `SubSeq`.
  `EspTypeCorrect`: `EspSpec => []EspTypeOK`.

Model-checked only:

- liveness: `GeometryReachesReaders`, `HooksKeepRunning`, `QuietReachesDisk`, `StaysReachable` and
  `PagesAreTold` rest on fairness, which the prover does not treat (it has no rule for `ENABLED`);
- the three violated properties, which are statements of the documentation that the code does not
  keep: a counterexample on the instance settles them.

## 6. Not modelled

- What effects draw, the DMX packing and the maps of ring and wheel: arithmetic on one frame
  without state. Nothing calls the maps.
- `Logger` (two atomic functions on a ring), `MemTracker` and system metrics (shown only),
  `onPostBinary` (without a caller), `rebuild_controls_` (a Sine effect exchanges its controls
  when its `type` changes, and keeps their values: only it reads them, and the flag raised is
  described under `WsPush`), UDP and task creation (one call each into the operating system), the
  handshake and framing of the WebSocket server.
- Rendering in the page, formatting and parsing of JSON, build scripts.
- `src/lib/httplib` is a vendored server and `frontend_bundle.h` the compressed page: together
  two thirds of the C++ lines of the repository and no logic of this program. The server's worker
  threads and joins are modelled from how `PalHttp.h` uses them.

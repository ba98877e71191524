# Verification of the Cardputer Codex Companion

TLA+ models of the Cardputer Codex Companion, the TLC runs that check them on small
instances, and theorems about them that TLAPS proves for every value of the constants. All
source paths are relative to the root of the repository.

## 1. The system and its parts

The firmware (`firmware/main`) turns an ESP32-S3 Cardputer into a BLE keyboard with profiles,
a pet display, a Wi-Fi configuration page and a BLE microphone. A macOS companion
(`companion/`, Swift and C) and a Windows agent (`windows-agent/`, Go) send it status and pets
and receive audio.

| Part | State it keeps | Operations | Talks to |
|---|---|---|---|
| Microphone (`product/microphone_*`, `audio_*`, `ble_audio_transport`) | seven-state machine, capture on or off, pending packet flags, silence counter | sink ready / lost, click, window verdict, one frame | audio task in `product_controller.cpp`, `ble_services.cpp` |
| Wi-Fi manager (`product/wifi_manager`) | credentials, attempt, deadline, scan flags, event mailbox | begin, stage, timeout, got-ip, disconnect, persist | ESP event loop, timeout task, web, onboarding |
| Onboarding (`product/onboarding`) | persisted checkpoint, current step | scan, select, credentials, BLE, heartbeat, acknowledge, restart | UI task, Wi-Fi manager, NVS |
| Boot recovery (`product/boot_recovery`) | keys held at power-up, what is wiped | look at the key, hold, ask, erase namespaces and sectors | NVS and flash of every part, onboarding |
| Settings and menu (`product/device_settings`, `settings_menu`) | the record in NVS and its copies, the row, the editor and what is typed | load, apply; keys, results, lists of networks and profiles | `keyboard_event()`, UI task, web, display |
| Pages (`product/ui_model`, `display`, `ui_navigation`) | page, offset, contents, two revisions | navigate, scroll, return to the pet, set contents, draw | keyboard, UI task, setters of every part |
| Pet store (`product/pet_store`, `pet_bundle`) | two flash slots, active marker, upload transaction | begin, append, commit, boot selection | web handlers, BLE companion, upload task |
| Profile catalog (`product/profile_*`) | two flash banks, sequence number, active profile | load, create, publish, remove, activate | web, UI, profile task |
| BLE services (`probe/ble_services`, `hid_engine`) | connection, encryption, passkey, HID state, bound companion, subscriptions | GAP and HID callbacks, advertise, watchdog, notify | NimBLE host task, HIDD loop, watchdog, audio task |
| Keyboard, macros, G0 (`keyboard_matrix`, `macro_engine`, `g0_dual_action`, `input_router`, `probe/keyboard_probe`) | keys pressed, keys captured by navigation, mode, macro queue, report queue | key events, chord, page and mode changes, release all | UI, macro and G0 tasks, HID sender, BLE link |
| PIN rotation (`product/pin_rotation`) | current and previous PIN, grace time, revision, the same in flash | save, authorize, migrate, expire | web server, settings, agents |
| Companion protocol (`product/companion_protocol`) | last sequence, last time, snapshot, pending action | heartbeat, action, snapshot, expiry | web server, UI task, agents |
| Agents: Windows (`windows-agent/`, Go) and the Codex half of the macOS companion | Codex process, threads, approval, last snapshot, wire sequence, PIN | poll, perform, post, migrate, pair | the device, the Codex app-server |
| macOS link (`ProductGATT*`) | peripheral, session phase, pending write, recovery phase and timer | start, stop, suspend, resume, callbacks, timers | CoreBluetooth, the audio bridge |
| macOS audio bridge (`AudioBridgeCoordinator`, `AudioDriverConnection`, recovery policy) | connection, readiness, recovery policy | reconnect, heartbeat loss, suspend, resume, quit | the link, the server of the driver |
| Audio driver (`AudioDriver/`, `CAudioBridge/`) | lease with deadline, ring in shared memory, clients | claim, renew, release, write, read, reset | the companion, CoreAudio |

What each part must get right, and what makes it hard:

- **Microphone.** The capture runs exactly while the display shows a recording, starts only by
  a click, and stops when the sink goes. Hard: several tasks and callbacks feed one queue that may
  be full; readiness is two flags read and queued in separate steps; every hardware call can
  fail in the middle of a transition; lost packets carry the flags a receiver needs.
- **Wi-Fi manager.** A candidate is tried for fifteen seconds, saved only if it works, and the
  saved network comes back otherwise; a page that asks for networks gets an answer. Hard: two
  entry points of other tasks change the machine first and the radio later; addresses and
  disconnects come in order but late; the credentials are two keys in flash; the clock is read
  long before it is compared; a scan request is two stores that race the loop.
- **Onboarding.** Completion is recorded only after Wi-Fi, Bluetooth and agent gates, and no
  page that ignores keys stays for ever. Hard: events come in any step, their commits fail, they
  get lost when a mutex is taken, and power is cut between the commits of two components.
- **Boot recovery.** Nothing is wiped unasked, and a wipe that stops halfway leaves stores that
  their next boot understands. Hard: each command may fail, power may be cut between any two.
- **Settings and menu.** What is in force is what the next start finds, and what is typed for one
  purpose is used for no other. Hard: four copies of one record, changed by the menu, the UI task
  and the web server; commands wait in a queue while the user types on, scans end at any time.
- **Pages.** The display shows the page as it is. Hard: it draws only when one of two revisions
  changed, and every setter has to change the right one; the UI task returns in two critical
  sections.
- **Pet store.** A pet is shown only if all of it was received and verified; the old one stays
  until then. Hard: uploads that are abandoned, resumed or repeated, flash commands that outlive
  the thirty seconds of their caller, power cuts.
- **Profile catalog and handlers.** A change that was acknowledged survives every restart, a
  page never overwrites what it did not read, the keyboard runs the profile shown as active.
  Hard: a change is a sequence of flash commands; several pages, the menu and shortcuts share
  one active profile that lives in RAM, in NVS and in the catalog.
- **BLE services.** State that belongs to one connection is never used for the next, and the
  device can be reached again. Hard: GAP and HID callbacks come on two tasks, separately and
  late; a watchdog acts on what it read before them.
- **Keyboard, macros, G0.** Every key pressed at the host is released again, and no key meant
  for the device reaches the host. Hard: full queues, a lost link in the middle of a chord, a key
  pressed on one page and released on another.
- **PIN rotation.** A companion keeps access through a rotation or is asked for the new PIN.
  Hard: grace times and clients that miss one.
- **Companion protocol and agents.** No snapshot is applied twice or out of order, no action is
  carried out twice, an approval reaches the process that asked, and an offline device comes back.
  Hard: lost answers, late posts, restarts on either side, copies of the state in two tasks.
- **macOS link and audio bridge.** The sink is declared exactly while there is one, and every
  loss is recovered from. Hard: callbacks that never come, calls that meet a write under way, two
  connections to the driver at once, a lock taken by a thread that stops itself.
- **Audio driver.** One process at a time writes, and CoreAudio hears every frame once. Hard: no
  lock between writer and reader, resets from other processes, a holder that stalls past its
  deadline and goes on writing.

## 2. The modules

```
RecordingSwitch  <--implements--  MicrophoneController  (uses MicrophoneState)
      ^ extends
MicrophoneRuntime

WifiManager  --its reports, as WifiActs-->  Onboarding
BootRecovery  <--extends--  DeviceSettings
SettingsMenu  <--extends--  DeviceUi

DurableCatalog   <--implements--  ProfileCatalog  <--extends--  ActiveProfile
PetOnShow        <--implements--  PetStore        <--extends--  PetSync
AudioChannel     <--implements--  SharedRing      <--extends--  AudioLease

GattLink         <--extends--  AudioRecovery
PinRotation, CodexProcess  <--extends--  CompanionLink
BleLink, KeyboardReports   <--extends--  KeyboardLink
```

The theorems are in eight modules beside these: `Microphone_proofs` (controller and runtime),
`WifiManager_proofs`, `Setup_proofs` (first-run setup, boot recovery, settings and pages),
`ActiveProfile_proofs` (with the catalog),
`PetSync_proofs` (with the store), `AudioBridge_proofs` (ring, lease and audio link),
`CompanionLink_proofs` and `KeyboardLink_proofs`.

Each `MC` module instantiates one of them for TLC; its `.cfg` files give the constants their
values. `MCMicrophone` and `MCSetup` hold two and three that share no variable: `part` says which of
them a behaviour is of, and the others stay where they begin. In `MCMicrophone`, `MCActiveProfile`
and `MCAudioLease` it also divides one module: each part bounds what the others let go far, so that
together they meet what one bound for all could not (see Bounds). An operator with a suffix after
`_`, such as `Target_InUse`, is a plausible mistake in the operator it stands beside: replacing one
by the other must break a property.

### Microphone

`MicrophoneState` is the pure state machine of `microphone_state.cpp`: each event is an operator
from a machine to a new machine and a command. `MicrophoneController` is the object around it
(`microphone_controller.cpp`): one action per public method, with the command the transition
asks for and the transition that command triggers, all before the method returns. `capture` is
the PDM hardware; `heard` is history, the rate of the last packet the radio took. What start,
stop, read and send answer is left to the environment. Samples, ADPCM and statistics are left
out.

`RecordingSwitch` says what the controller promises, in four modes. `MicrophoneRuntime` uses it
as the controller and adds what surrounds it in `product_controller.cpp` and `ble_services.cpp`:
the queue of events and its reset for critical ones, the flags of the link, the callbacks that
compute readiness, exchange it with the last one, store it, read both flags and queue the
result, each in a step of its own, the G0 task and its full-queue fallback, and the audio task
that drains the queue, captures and notifies. GAP callbacks run on the host task of NimBLE, HIDD
events on a task of their own, so two callbacks may interleave. `untold` and `overlap` are history:
a full queue threw away the last word of the sink, and two callbacks overlapped; each ends where the
code repairs what it left.

### Wi-Fi

`WifiManager` holds `WifiStateMachine` (`machine`, `waited` for its deadline), the loop of
`wifi_timeout_task` as a program counter `task`, `product_wifi_save` and `product_wifi_reconnect`
in their two steps (the machine, then the radio), the radio, the mailbox, and the three keys in
flash. Other tasks call at any time, also between any two steps of the loop; one call at a time is
under way. `late` is TRUE when an attempt began after the loop had read its clock; the unsigned
difference of the two is then huge.

The scan scheduler is in the same module, because it shares the loop and the mailbox: `scan` is
its three atomics, the two stores of `request()` and those of a refused start are steps of their
own, and the driver may refuse a scan, in particular while the radio joins. `asked` and `crossed`
are history: a page waits for an answer, and its request took back a failure that would have been
one. The back-off of a scan, the choice of the twelve networks to list and the start of the access
point are left out. `prone` is drawn at the start and says which of the `Faults` this behaviour
meets: writes that stop halfway (`flash`) and requests for scans (`scan`). `doubts` is history: what
the code took on trust. `trial`: the candidate was staged while an address of another network was on
its way; `rollback`: a call came in the middle of a trial, or a write failed; `flash`: the pair in
flash is of one of these; `report`: nobody will tell how an attempt ended. Each is taken back by the
step of the code that sets it right.

### Onboarding

`Onboarding` holds `OnboardingStateMachine` with its record in flash, the editors of
`OnboardingController`, the queue of two commands, and the handlers of `product_controller.cpp`
that feed them. `gates` is history: which gates were opened since setup began. The Wi-Fi manager
is what its reports show: a candidate joins, fails or is rolled back (`WifiActs`).
What a fault may be is a constant: `burst` (keys faster than the UI task), `commit` (a write of
the record fails), `power` (a power cut while a Wi-Fi status is on its way), `lock` (an event
that finds the input mutex taken for a second is dropped). `prone` is the part of them that a
behaviour meets, so that one run covers every set of faults and a property can name the faults it
does not hold with.

### Boot recovery and settings

`BootRecovery` is `boot_recovery.cpp` from power-up to its return: `boot` is where it is, `keys` the
keys of the question that are down, `heldFor` the detector, `next` what is erased next, one action for
each erase command. A wipe that failed stays on its screen until power is cut. `names` and `sectors`
are what flash holds, which the rest of the firmware writes to once the device is up. `before` and
`agreed` are history: what was there when the wipe began, and that Y was pressed for it.

`DeviceSettings` goes on from there: the record in NVS (`nvsRecord`, gone with its namespace), the
copy of `DeviceSettingsStore` (`current`), that of the menu (`menuCopy`), what the display was given
(`inForce`), the confirmed changes in the queue of the UI task (`confirmed`) and what the web page
read and has not committed yet (`webDraft`). The three rows of the menu for brightness, return and
frame rate behave alike and are one number. A commit may fail after `nvs_set_blob()`, whose record
may then be there (`torn`). That `nvs_flash_init()` may erase a partition without room is left out,
and so are records of older versions.

### Menu and pages

`SettingsMenu` is `settings_menu.cpp` as operators on a record: rows, lists, editors, and what each
key makes of them. A character is the editor it was typed in, the network that was chosen then, and
its digit if it is one; its text is nothing else. `DeviceUi` has the menu as a variable and adds
`UiModel` (`page`, `offset`, the contents as `chrome`, `codex`, `age` and `rows`, the revisions as
`dirty` and `petDirty`), the display (`screen`: the page drawn, and whether it would be drawn so
now), `keyboard_event()` from the backtick to the page keys, the queue of settings commands, and
`ui_task()` with its command, its timer, its two critical sections of the return, and its drawing.
`uiProne` says what the environment of a behaviour does: a key comes between those sections
(`preempt`), or the contents change (`contents`). The escape key of the menu is left out, because
`keyboard_event()` takes the backtick before the menu sees it, and so are a mutex that is not free
for a second and the first-run pages of `UiModel`.

### Profiles

`ProfileCatalog` is `profile_catalog.cpp`: two banks, the one in use, the catalog in RAM and the
change under way, one action for each group of flash commands (erase, payload, header,
verification), with a failure at each of them and a restart between any two. A torn header or
payload is a bank that does not read; the byte layout and CRC are left out. A request that is
refused is a guard that is not met. The fault `check` is a read that fails during a change
(`flash` a command). `DurableCatalog` says what that promises: the catalog in use,
and what a restart finds, which is that catalog or the one with the change under way.

`ActiveProfile` adds the handlers of `product_web.cpp` and `product_controller.cpp` that read,
publish, create, remove and activate profiles, the copy of the active one that the keyboard
runs (`working`) and the id in NVS (`persisted`). A page of the web editor (`web/src/app.js`) has a
`selected` id, which changes at once, and a profile (`held`), which comes when the call that asked
for it is answered: `calls` are those under way and their answers, which come late, in any order, or
never. A body carries, as history, the id it was read under. `amiss` is history: an activation or a
publish that failed halfway left the bindings (`bindings`) or the id in NVS (`record`) apart from the
active id, until one succeeds. When the import of an older profile fails there is no catalog until
the next restart (`unavailable`): GET and PUT then serve the profile in RAM and the record of the
older firmware (`legacy`). The limit on the length of a payload and the answers of the catalog list
are left out: a page may select any id there ever was.

### Pets

`PetStore` is `pet_store.cpp`: two slots of flash (`flash`), the slot number in NVS, the
transaction (`transfer`, with the request it began with and the last chunk it took), the mailbox
through which the web task hands a command to the upload task, and what is on show. A bundle is
its chunks, a slot an array of cells; a cell that is written over other data is garbage, because
flash bits are only cleared. The web task writes the arguments into the mailbox before it asks
whether the mailbox is in use (`Post` in `Submit` and in `Refuse`), so a call that is refused
still changes the arguments of a command under way, and a chunk that comes frees the buffer of
the chunk being written (`owned`). The upload task looks at a command when it takes it
(`TakeBegin`, `TakeAppend`, `TakeCommit`), works on flash in steps of their own (`Erase`, `Write`,
`Validate`, `Persist`, `Activate`), answers, and clears the flag one step later (`Release`). A
caller waits thirty seconds (`TimeOut`); the command goes on without it. `doubt` is history: the
last attempt to write the slot number failed. A transaction id is 64 random bits; a new one is an
id that nobody holds.

`PetOnShow` says what the store promises: one whole pet, or none, is on show, and the device goes
to another one in one step that leaves the old one in flash. In the refinement a device that is
off shows what it will show after the restart.

`PetSync` adds the agent, `Synchronize` of `windows-agent/internal/pet/sync.go`: `agent` is the
program counter and the local variables, with one `After...` operator for each answer. Requests
reach the device in any order (`inbox`), the web task takes one at a time (`serving`), and a
request the agent gave up on is carried out unheard (`live`). The macOS coordinator differs in
one step: it ends the synchronization where this one puts a chunk a second time without knowing
what became of the first. Faults are constants: `flash`, `nvs`, `power`, `wait` (a command
outlasts its caller) and `link` (the agent gives up on a request).

### Audio: ring and lease

`SharedRing` is `CardputerAudioRing.c`: `write`, `read` and `reset` hold, for each caller, where it
is in the function (`copy`, `store`) and what it loaded, and each load, copy and store is an action.
A frame is the writer and the place of the recording, so a wrong or repeated frame shows. `spoiled`
is history: a reset fell into a read, or two writes into each other, and no undisturbed reset has
come since; the code promises nothing then, and the properties say so. `AudioChannel` is the
abstract queue: `Put`, `Get`, `Given` and `Flush`.

`AudioLease` extends it with who may write. `owner` and `expired` are the lease of the server
(`CardputerAudioIPC.c`), `conn` is where each process is in claiming, using and giving up its
connection (`AudioDriverConnection.swift`), with the reset of the ring that each change of the
owner makes; `mapped` and `clients` are the CoreAudio plug-in. Processes stall for any time, die,
and the server restarts with a new ring. `late` is history: somebody wrote who no longer held the
lease.

### Audio: link and recovery

`GattLink` is `ProductGATTConnection` with its session and its recovery policy, which all run on one
serial queue: `work` is what other threads posted there, `owed` the callbacks that CoreBluetooth has
still to deliver, and a callback for a peripheral that is no longer held is taken and ignored as in
the code. `declared` is what the device was last told about the sink. `AudioRecovery` adds the main
loop (`main`), the coordinator with its lock and its connections (`current`, `candidate`, `ready`,
`handler`), the heartbeat of each connection (`beat`) and the policy that decides under a lock what
is posted outside it. `leased` are the connections whose lease the server knows: it forgets them when
it restarts, between two heartbeats or for longer, and when a lease runs out, and refuses the next
heartbeat. `hung` is TRUE once a thread waits for a lock it holds itself.

### Companion and PIN

`PinRotation` is the PIN of the device with the two values it is saved as, and its grace.
`CodexProcess` is the Codex app-server behind an agent: which process runs, the threads, the one
shown, the last approval asked for. It is `kind` `windows` (`internal/codex`) or `mac`
(`CodexAdapter`, `JSONRPCProcess`), which differ in what they forget when a process dies.
`CompanionLink` composes them with the device: `pc` is where the agent is in its step
(`agent.go`, or the LAN bridge of the macOS companion), each request with each of its answers, lost
and late ones included (`queued`); the web server, the UI task and `update_web_status` hold what
they have read (`server`, `ui`, `update`) and act on it later. `unheard` and `takenAt` are history.

### Keyboard and its link

`BleLink` is what `ble_services.cpp` keeps of the keyboard connection. The stack's host task
(`callback`), the HIDD event loop (`hiddEvents`) and the watchdog (`watchdog`) interleave; `air`,
`secure`, `input` and `closing` are the connection itself, `link`, `ready`, `handle` and `passkey`
what the code believes of it. `KeyboardReports` follows a key from the scanner through
`keyboard_event()`: passkey digit, navigation, mode, profile, macro; through the queue of
`KeyboardProbe` to the host, whose keys (`down`) are those of the last report. `KeyboardLink`
composes the two. `disordered`, `private` and `crossed` are history: a report was lost or
overtaken; a key was pressed for the device alone; the state of a connection was reset while it goes
on, by an event of another one or by the watchdog, whose terminate the stack may refuse.

## 3. What is checked

The properties are named as in `PROJECT.json`. Where one is a conjunction its parts are named too; they
are definitions of their own in the module, with a comment each.

| Run | Shows |
|---|---|
| `microphone` | The controller under every sequence of calls with every answer of hardware and radio. `RecordingIsSafe`: no hot microphone (`CaptureMatchesState`), a receiver can resynchronise after any loss (`NextPacketFlags`), an error is shown as one (`FailureIsError`). `RecordingSteps`: a recording starts only by a click (`StartNeedsClick`) and its rate only falls (`RateOnlyFalls`). The controller implements `RecordingSwitch` call by call. And the runtime, all tasks and callbacks interleaved: a lost sink ends the capture, a press ends the recording it meant (`RecordingEnds`); whenever nothing is on its way, the machine agrees with the link (`AgreementAtRest`), with HIDD events on a task of their own. What two overlapping callbacks leave behind is excepted until one that finds the link changed has run alone, a word that a full queue threw away until the next one. |
| `wifi_settled` | Two calls at any time, with a wrong password, lost links, writes that stop halfway and a restart anywhere; or requests for scans at any time. `SavedIsTrusted`: what is in flash was joined (`SavedWasJoined`), a trial in vain goes back to it (`RollsBackToSaved`); excepted are the `doubts`, from the step of the code that is at fault to the one that sets it right. `StationSettles`: an attempt ends in a report, a lost link is noticed, a request for a scan is answered. |
| `setup` | First-run setup: a user who may press any key in any step, failed and rolled back candidates, power cycles, every set of the four faults. `CompletionIsEarned`: completion is recorded after all three gates (`CompletionNeedsGates`, where the only fault is a fast user) or after none (`CompletionIsAllOrNothing`, always). `ScanStepHasScan`, `VerifyEnds`. Pages: any keys, scans, results and timers; `ScreenIsTrue`: a page that counts as drawn is on the display (`ScreenIsFresh`) and the selected row is visible (`SelectionIsVisible`); `SecretsStayApart`. Recovery and settings: keys, failing commands and power cuts anywhere; `WipeIsHonest`: "complete" means empty (`CompleteIsBlank`), a wipe was asked for (`WipeIsChosen`) and does not make a device look set up that is not (`WipeKeepsSetupApart`); `SettingsSurvive`: what is in use is what the next start finds (`StoreMatchesRecord`), and it goes with a wipe (`RecordHasNamespace`). |
| `active_profile` | Two pages whose calls are late or fail, the menu and the shortcuts over the two banks, activations, flash commands and reads that fail at every step, power cuts between any two. `CatalogIsSafe`: an acknowledged change is what a restart loads, ids are not reused, the active id is listed. `ActiveIsOne`: the keyboard and the next boot run the active profile; what a failure between two of its steps parts stays so no longer than to the next activation, publish or start that succeeds. `PutReplacesWhatWasRead`: a body that was read under an id replaces exactly the version that was read. The banks implement `DurableCatalog`. |
| `pet_sync` | An agent, the web task and the upload task, one fault of any kind at any step and a change of selection. `StoreIsSafe`: the slot on show is whole, counted chunks are in flash, the mailbox is not lost, a restart shows the same pet. The agent never believes more than was written (`AgentIsNotAhead`), the store implements `PetOnShow`, and the selected pet is shown in the end unless an upload of another length was abandoned (`Heals`). |
| `audio_recovery` | The link, the device, Bluetooth or one request fails once, and the driver's server goes and comes back, or only loses the lease. `SinkIsHonest`: what the companion believes of the sink is what the device was told (`ReadyIsDeclared`), a sink without a bridge is on its way to be withdrawn (`SuspensionIsHeeded`). `AudioComesBack`: a device in range is reached again (`LinkRecovers`), a late driver brings audio (`LateDriverUpgrades`). Quitting withdraws the sink (`QuitWithdrawsSink`). |
| `audio_lease` | Two processes and CoreAudio at one ring of two frames, with blocks of one or two that wrap; a process stalls or dies at any step, the server restarts. No cell is written while it is read (`CellsApart`), the ring implements `AudioChannel`, what waits in it is the owner's (`OwnerIsHeard`), and a lease whose holder hangs comes free (`LeaseComesFree`). |
| `companion_link` | An agent polls, performs and posts while the PIN changes, Codex works, messages are lost or late, and agent, Codex and device restart. `ActionOnce`, `AnswerGoesToAsker`, `ShownIsPosted`, `SnapshotsInOrder`, and `CompanionReturns`: a device that went offline hears of the agent again (`OfflineHeals`), an agent follows a new PIN (`PairingFollows`). |
| `keyboard_link` | Keys, macros, page and mode changes on a link that closes, pairs, fails and is made again. No key stays down on the host (`LastReportIsHeld`, `KeyUpArrives`), a key for the device is not reported (`LocalKeysStayLocal`), readiness is real (`ReadyIsReal`), and the link stays of use (`LinkStaysOfUse`): the device can be reached again (`StaysReachable`), a half-open link ends (`HalfLinkEnds`). |

The type invariants are in the modules (`...TypeOK`). They are no property of a run where a theorem
shows them; `RuntimeTypeOK`, `SyncTypeOK`, `ActiveTypeOK` and `LinkTypeOK` were checked by hand with
the constants of the runs.

Three runs show where the code does not do what its documents say (`findings` of `PROJECT.json`
quotes them):

| Run | Violated | What happens |
|---|---|---|
| `pet_abandoned` | `InterruptedUploadIsResumed` | After an interrupted upload the selection changes to a pet of another length: the agent cannot resume the transaction, the device refuses to begin another, and nothing ends the first one but a restart. |
| `settings_restored` | `SavedSettingsAreInForce` | The display is set up before the record is read, with the defaults, and nothing applies the record afterwards: after every restart the saved brightness, return time and frame rate are shown in the menu and not in force, until one of the rows is confirmed again. |
| `keyboard_captured` | `CapturedKeysStayLocal` | A key that scrolls a page with Fn stays in `g_pressed`. Fn let go first, the next report has the key, and its own release is captured: the key is stuck at the host until another key event. |

### Variants of the runs

Take the configuration of a run, change the constants named, and make the property its only one (I
for INVARIANT, P for PROPERTY). Each variant, but the last, ends in a counterexample. `hazards` of
`PROJECT.json` refers to them by name.

| Variant | Configuration and changes | Property | What it shows |
|---|---|---|---|
| `lowest_rate` | `MCMicrophone` | `LowestRateFails` P | At 16 kHz the second bad window in a row restarts the capture; the design asks for the error state. |
| `full_queue` | `MCMicrophone` | `NotReadyStopsCapture` P | A G0 click counts as privacy critical: on a full queue it clears the queue, a waiting `sink_lost` included, and then starts a recording for a sink that said it is not ready. |
| `hid_race` | `MCMicrophone` | `ReadyMeansSink` I | A HID disconnect handled late and a callback of the host task overtake one another: ready without a sink. |
| `wifi_stale_address` | `MCWifiManager`, `Faults = {}`, `BootLimit = 0` | `SavedPairWasJoined` I | An address of the previous network is taken for the candidate, which is saved untried. |
| `wifi_clock` | `MCWifiManager`, `Spec`, `Factory = NoCreds`, `Faults = {}`, `BootLimit = 0` | `TrialGetsItsTime` P | A save between the read of the clock and the tick times out at once. |
| `wifi_late_address` | `MCWifiManager`, `Spec`, `Factory = NoCreds`, `Faults = {}`, `BootLimit = 0` | `OnlineIsSaved` P | An address at the very end of the fifteen seconds is reported online and neither kept nor saved. |
| `wifi_second_save` | `MCWifiManager`, `Spec`, `Factory = NoCreds`, `Faults = {}`, `BootLimit = 0` | `RollbackIsHome` I | A save during a trial takes the candidate, not the saved network, as the one to go back to. |
| `wifi_silent` | `MCWifiManager`, `Spec`, `Factory = NoCreds`, `Faults = {"flash"}`, `BootLimit = 1` | `ConnectingEnds` P | A first network that cannot be saved is never reported as failed. |
| `wifi_torn_save` | `MCWifiManager`, `Spec`, `Factory = NoCreds`, `Faults = {"flash"}`, `BootLimit = 0` | `SavedPairWasJoined` I | A save that fails after its first key leaves a new name with an old password. |
| `scan_race` | `MCWifiManager`, `Faults = {"scan"}`, `BootLimit = 0` | `EveryScanIsAnswered` P | `request()` takes back the failure of the scan it has just asked for; nothing answers it. |
| `scan_full` | the same with `MailboxSlots = 1` | `UncrossedScanIsAnswered` P | A full mailbox drops `scan_done`, and a scan is in flight for ever. |
| `onboarding_rollback` | `MCSetup`, `Faults = {}` | `FailedTrialRetries` P | A candidate that fails with a saved network behind it reports online, and setup goes on to Bluetooth as if it had been joined. |
| `onboarding_power` | `MCSetup`, `Faults = {"power"}` | `CompletionFollowsGates` I | A power cut between the saved credentials and the first checkpoint makes the next boot skip all gates. |
| `onboarding_ble` | `MCSetup`, `Faults = {}` | `BleGateOpens` P | A host that is connected before the Bluetooth step never completes it. |
| `onboarding_keys` | `MCSetup`, `Faults = {"burst"}` | `ScanPageHasScan` I | A rescan on a full queue leaves a page that ignores keys and waits for no scan. |
| `menu_chord` | `MCSetup` | `MenuKeepsChord` P | The menu commits the copy it was given at the start: a chord set on the web page since then goes back to the old one with the next change of the brightness. |
| `web_display` | `MCSetup` | `WebKeepsDisplay` P | The web page commits what it read before the UI task stored a new brightness: the brightness goes back. |
| `page_blank` | `MCSetup` | `PageIsNotBlank` I | A page of Codex that was scrolled and then has fewer lines shows none of them. |
| `result_left` | `MCSetup` | `ResultStays` P | The time to return runs on while a result is shown; the design suspends it. |
| `catalog_boot` | `MCActiveProfile`, `Legacy = {}`, `Faults = {"boot_read"}` | `AcknowledgedIsStored` I | Two banks that cannot be read at one boot restart the sequence at zero; what is saved then is lost at the next boot. |
| `catalog_failed_change` | `MCActiveProfile`, `Faults = {"check"}` | `FailedChangeStaysOut` P | A change whose verification cannot be read is answered `storage_error` and is there after the next restart. |
| `profile_switch` | `MCActiveProfile` | `FailedActivationIsSafe` P | An activation whose NVS write fails leaves the bindings of the profile that was not activated; the design asks for SAFE. |
| `profile_page` | `MCActiveProfile`, `Faults = {"memory"}` | `PutReplacesAnyBody` I | An activation out of memory changes the id alone; a page then reads one profile under the id of another. |
| `profile_late_get` | the same with `Faults = {}` | `PutReplacesAnyBody` I | A page that selects a profile and publishes before, or without, the answer sends the body of the profile it showed: with an equal revision it overwrites the other one. The design of a save that carries its base revision (2026-07-24, line 291) rules that out. |
| `pet_refused` | `MCPetSync` | `ErrorKeepsShown` I | Writing the slot number fails after its first key: the commit is refused, and the next restart shows the refused pet. |
| `audio_sink` | `MCAudioRecovery`, `MaxFaults = 0` | `DriverLossWithdrawsSink` P | A suspension that comes while the sink is being declared is ignored: the sink stays declared without a driver. |
| `audio_ready` | `MCAudioRecovery`, `MaxFaults = 0` | `RecoveredDriverIsReady` P | A resume that meets a pending write is dropped: the sink is never declared again. |
| `audio_hang` | `MCAudioRecovery`, `MaxFaults = 0`, `MaxLosses = 2` | `NeverHangs` I | The heartbeat of an old connection drops a newer one under the lock of the coordinator and waits for itself. |
| `companion_stale` | `MCCompanionLink`, `MaxRotations` and `MaxPresses` 0 | `SnapshotsArrive` P | A snapshot the device refuses for its number is not sent again while it is polled: an older one stays on show. |
| `keyboard_overtaken` | `MCKeyboardLink`, `QueueDepth = 4`, `MaxEvents = 3`, `MaxFaults` and `MaxAside` 0 | `NothingStaysDown` I | Release all is sent past the queue of reports, and an older report then presses its key again. |
| `keyboard_pairing` | `MCKeyboardLink`, `MaxConnections = 3`, `MaxTurns`, `MaxEvents` and `MaxAside` 0 | `HalfConnectionEnds` P | The passkey an older connection asked for keeps the watchdog from ending a half-open one. |
| `pet_deep` | `MCPetSync`, `FaultLimit = 2` | `SyncTypeOK`, `StoreIsSafe`, `AgentIsNotAhead` I | No counterexample: two faults instead of one, 3.3 million states. |

### Bounds

These are the bounds of the runs. The proofs have none of them.

- Microphone controller: silence limit 3 instead of 16, sequence numbers modulo 4. Every branch
  needs one frame below the limit and one at it; the sequence only wraps.
- Microphone runtime: a microphone queue of 2 and a G0 queue of 1 instead of 8 each. A full
  queue, a discarded event and a click behind another event need no more. Presses of G0 are checked
  with callbacks that follow one another (`presses`), callbacks of both tasks that overlap with one
  click of the serial test at a time (`callbacks`).
- Wi-Fi: networks `home`, `work` (right passwords) and `typo` (a wrong one), so that a candidate
  can replace a good one, or fail after one; fifteen seconds are two loops, three attempts are
  two, so that the last and an earlier one differ; two calls, one lost link, one restart, at most
  three of these together, and two where writes fail or scans are asked for. `MCSpec` keeps those two apart: a
  scan does not touch flash or machine. The mailbox has its real seven slots and fills when a network
  is joined and lost again and again; what it then drops is excepted (`dropped`).
- Onboarding: the real queue of two commands; two power cycles or restarts of setup, enough for
  a fault, the boot that meets it and one more.
- Recovery and settings: one sector, so that the wipe has both of its loops; of the namespaces it
  erases others write to the first and the last, and the settings to the one between; a hold of two
  polls, so that a key may go up in between; two values of a row and two chords, one settings
  command in the queue.
- Pages: nine events (keys, and changes of what the pages show) in a behaviour, seven where faults
  happen too. The eight rows, of which five are visible, are those of the code. A PIN is one of two
  digits, a name or a password one character; one profile, one network and the hidden one; a page
  of Codex that fits and one that scrolls; one command in the queue.
- Profiles: two profiles of two texts, a profile of an older firmware to import, one call of a page
  at a time. Three parts: two pages and three written changes with activations and flash commands
  that succeed (`pages`); one page and four changes with flash that fails and power cuts, so that each
  bank is written twice, and an id can be spent, its profile removed and the next one created
  (`flash`); one page and two changes where every activation, read and write may fail (`halfway`).
  Pages act between two changes of the catalog, not in the middle of one, which holds the mutex they
  would wait for. The profile outside the catalog gets to revision three.
- Pets: two of two chunks and one of a single chunk, so that a transaction can be resumed with
  the right pet, with another of the same length, or not at all; one fault, one change of
  selection; two requests on their way beside the one being served (the server has three sockets);
  five transaction ids, more than are held at a time in any reachable state. The
  theorems about the store alone let any caller ask for anything.
- Audio link: two connections to the driver, so that an old one meets a new one; one fault of
  the link (it drops, the device is out of range, Bluetooth goes off, a request fails or is not
  answered) and one loss of the server, each at any moment.
- Ring and lease: a ring of two frames and blocks of one or two, so that one frame is read while
  another is written, a block wraps, two frames wait and come in order, and the ring is full and
  empty. Without mishaps a block begins in the first two places and may end in the third; with one (a
  stall, a death, a restart) in the first two. Two processes; one reset at a time but for that of a
  stalled process.
- Companion: one agent of either kind, two threads, two PINs, one rotation, one press, one move of
  Codex and one fault, at most two of them in a behaviour (one for a macOS agent); a behaviour is
  about the PIN or about Codex, whose states do not meet. Sequence numbers modulo three: one
  ahead, equal and behind.
- Keyboard: a key of each kind (Fn, one that navigates and is a digit, one that returns to the
  pet and is bound to a chord, one that toggles the mode), three strokes, a queue of two reports and
  of one macro, two connections, a passkey of one digit. Behaviours with the full choice of keys
  start on a ready link and keep to one connection; those about the link have one event of a key.

### Fairness

No fairness is asked of users, hosts, radios or failures: nothing has to fail, and nobody has to
press, select or call.

- `MicrophoneRuntime`: each callback, the G0 task and the audio task go on when they can
  (FreeRTOS preempts and every wait has a timeout); the audio task does not ignore for ever that
  it has drained its queue and may take a frame (strong fairness, because the queue may fill
  again in between); and the queue is empty again and again: a producer adds at most an event
  per key press or radio event, where the audio task needs microseconds for one.
- `WifiManager`: the loop and the callers go on, and a scan the driver began ends. The radio owes
  nothing, so a report must come from the timeout. `ScanIsAnswered` leaves out a radio that joins
  for ever again and again, because the driver refuses to scan while it joins, and one whose joins and
  losses filled the mailbox.
- `Onboarding`: the UI task takes its commands, a scan is answered (a failed one with an empty
  list), which is `ScanIsAnswered` of `WifiManager` but for the race it excepts, an attempt to
  join ends, which is `ReportResolves`, and its status is delivered.
- `PetSync`: the agent synchronizes every five or thirty seconds, the web task and the upload
  task go on, and a device that is off, or came up without a store, is switched on again.
- `AudioRecovery`: the serial queue takes its calls, a timer that is set fires, CoreBluetooth
  delivers what is due, a Bluetooth that is off is switched on, and the main loop and the heartbeats
  go on.
- `AudioLease`: a process that runs claims, waits, writes and gives up as its code does; the
  server finishes a reset and finds deadlines passed and connections ended; CoreAudio finishes a
  read.
- `CompanionLink`: the agent goes on with its step, every request ends (time-outs), the web server
  and the UI task go on, and a device that is not heard of for thirty seconds goes stale.
- `KeyboardLink`: macro task, sender, HIDD loop, host callbacks and watchdog go on, time passes,
  and a connection that was terminated closes.
- `ProfileCatalog`, `ActiveProfile` and `SharedRing` have safety properties only.

## 4. What is proved

TLAPS checks the following for every value of the constants their `ASSUME`s allow. Every
invariant, action property and refinement of the passing runs is stated by a theorem. Those about
profiles need one assumption, which holds in the run: a boot can read what is in flash
(`BanksCanBeRead`). Without it they are false, as the variant `catalog_boot` shows.

**Microphone controller** (`Microphone_proofs`). `IInv` is the type invariant with the
four relations between machine, capture, packet flags and failure. They need each other: that
the capture is off in every state but the live ones is only kept if no call leaves the machine
in `starting` or `stopping` (part of `LiveOnlyWithSink`), and that START stays pending only if a
live state was reached by a click. A lemma says what each event of the state machine returns;
one lemma per call then keeps the invariant. `RecordingStaysSafe` and `RecordingStepsHold` put
together what follows, and `Implements`: each call is a call of `RecordingSwitch`, or the mode does
not change.

**Microphone runtime** (the same module), for both tasks of callbacks, interleaved at every load and
store, and queues of any depth. `MicrophoneKnowsItsSink` is
`AgreementAtRest`, which says nothing of a state with events or callbacks on their way. `Told`
is what the microphone will believe once the queue is drained: what the last event in it says
that is not a click, or what it believes now. `RuntimeInv` says when no two callbacks run (`Apart`),
follows one that runs alone through the flags it sets in their turn, whatever an overlap left in them
(`Alone`, `Published`), and says that unless a step that will tell it is due, the microphone has been
told what is published (`ToldIsPublished`). Lemmas say what appending, draining and clearing the queue
make of `Told`.

**Wi-Fi manager** (`WifiManager_proofs`). `TypeCorrect` and `SavedStaysTrusted` hold with every
fault and with calls between any two steps. The property is not inductive: `IInv` adds that the radio
tries the candidate or nothing from when its caller comes to the radio, unless a `trial` is doubtful,
so that an address in the mailbox is the candidate's own (`CandidateIsHeard`), that what is being
saved was joined (`PersistIsOfJoined`), and that the machine knows the network boot would select
unless a `rollback` is doubtful (`BootIsKnown`). Steps that decide nothing share the lemma `RadioStep`;
one lemma for each decision.

**Onboarding** (`Setup_proofs`). `IInv` adds to the type invariant which steps a checkpoint
admits (`StepFits`), that without a record setup is in its first gate or was migrated
(`NoRecordYet`), and that the record tells which gates were opened (`GatesMatch`). `TypeCorrect`
holds with every fault, and so does the part of `CompletionStaysEarned` that says all or nothing.
The part that puts the gates first is for behaviours whose only fault is a fast user; its proof
adds that saved credentials without a record have a report on its way, which `power`, `lock` and
`commit` would break. `ScanPageIsLeft` follows the command for a scan through the queue: a command
behind it does not displace it, and the one that leaves the queue starts the scan.

**Boot recovery** (the same module), for any number of sectors and polls and any namespaces that
others write to. `WipeStaysHonest`: that a device is empty when it says so rests on `Erased`: in each
loop, what comes before `next` is gone. That credentials never outlive the record of the setup rests
on their being erased first, and on a restart that begins a new wipe with what the last one left.

**Settings** (the same module), for any values, chords and depth of the queue. `SettingsAlwaysSurvive`
relates the copy of the firmware to the record through menu, queue, web page, wipe and restart; every
commit writes the record before the copy, and only one that failed after writing may leave them apart.

**Pages** (the same module), for any number of profiles and networks, lengths of secrets and of the queue.
`ScreenStaysFresh` is one lemma for all steps: a step that changes what the page would draw sets
the revision that page is drawn by, or the page it leaves to was never drawn (`Noticed`). It is not
inductive by itself: `FreshInv` adds that the revision of the pet counts as drawn only while the
pet is on the display, also when another page was entered and is not drawn yet. `SelectionStaysVisible` and
`SecretsStaySafe` share the invariant of the menu, `MenuInv`: the selected row and the one to come
back to are visible in their lists, and what was typed belongs to the editor it is in. One lemma for
each handler says that its answer keeps it (`Answers`); commands are clean when they are queued
(`CleanOrders`), and the offset of the page follows the list, except after a key in the middle of
the return.

**Profile catalog** (`ActiveProfile_proofs`), under `BanksCanBeRead`. Flash
may still fail in every step of a change. The properties
are not inductive: that a restart finds the newest catalog depends on what the other bank may
hold in each step. `IInv` adds that the bank in use holds the catalog in RAM with the number in
RAM (`InUse`), that the other one never has a larger number except with the planned change
(`Spare`), that the planned catalog differs from the one in use by one profile (`Planned`), and
that ids are spent in the order of the sequence numbers (`Ids`), so that a new id was never
used before. `CatalogStaysSafe` follows, and `Implements`: a lemma computes what a restart would load
from the invariant; each flash command leaves it or makes it the planned change, and an answer or a
restart adopts it.

**Profiles in use** (the same module), for any number of pages and calls, with activations, reads
and writes that fail at any step; `BanksCanBeRead` is assumed for the catalog below. `CatalogIsSafeInUse`
and `RuntimeImplements` carry the two results over to the handlers, which begin a change only with what
the catalog admits; a PUT without a catalog changes nothing of it but the record to import (`Outside`).
`OneActiveProfile` and `NoVersionIsLost` share an invariant. `Runs`: unless something is `amiss`, the
keyboard runs the active profile except between the commit of a PUT and its answer, and a change under
way leaves the active profile alone unless it is such a PUT. `Asked`: what a request was compared with
is still in the catalog. `PagesKnow` is why a body that was read under its id cannot overwrite a version
it is not: what a page holds, sends or is about to get is the present version (`Known`), or one with a
smaller revision, or of a profile that is gone and whose id does not return.

**Pet store** (`PetSync_proofs`), for any pets, any number of faults of any kind, and callers
that ask for anything at any time. `IInv` adds to the type invariant what each stage of the upload
task presumes (`Phases`: a write continues the transaction at `received`, a slot that is recorded
or shown holds the bundle), what the slots hold (`SlotsAgree`), that NVS names the slot on show
except while the next one is about to be shown or after a failure (`Recorded`), and that a caller
who waits has a command to wait for (`Awaited`). The argument for `ShownPetIsWhole` is that every
write goes to the other slot, and that the slot changes only after it was found whole with nothing
written in between: a caller that has given up can change the mailbox, but not what the upload task
decided on. `StoreImplementsPetOnShow` takes one case per action: only `Activate` switches; before
it, a power cut between writing the slot number and answering shows the new pet after the restart,
which is a switch too. `StoreStaysSafe` puts the invariants together.

**Pet synchronization** (the same module), for any number of faults, where the run has one.
`SyncStoreIsSafe` and `SyncImplementsPetOnShow` carry the results over to a store whose caller is
the agent. `AgentIsBehind` needs to know every place from which a number could come back to the
agent: requests on their way, abandoned ones included (`InboxIsSound`), the one being served
(`ServingIsSound`), the command that the web task waits for (`Waits`), and the answer that is ready
(`Heard`). The last one is delicate: an answer may be that of an earlier command whose caller has
given up, and it still says no more than the transaction does.

**Shared ring** (`AudioBridge_proofs`), for any capacity, any block size and any number of writers
and of processes that reset. `RingInv` says, unless a read or write was disturbed, that the
counters are at most a turn apart (`CountersFit`), and what a write, a read and a reset that are
under way hold of them: a write loaded a read counter that can only have grown, and has copied
exactly what it will publish (`WriteFits`, `WriteIsCopied`), a read what it will take (`ReadFits`).
`CellsAreApart` follows from an arithmetic lemma: places less than a turn apart have different
cells. `RingImplementsChannel` maps the store of a write to `Put`, the copy of a read to `Get`, its end to
`Given`, and the store of a reset to `Flush` or a stutter.

**Lease** (the same module), for any number of stalls, deaths and restarts. Each step of the lease
is a step of the ring or leaves it alone, so that `RingInv` holds (`LeaseCellsApart`) and
`LeaseImplementsChannel` follows. `LeaseOwnerIsHeard` adds `WriteIsOwn`, that a write has copied
frames of its own, and `OwnerWaits`: what waits in the ring is the owner's, from the front of the
ring on or, while the reset of a claim is under way, from the place up to which it will drop.

**Audio link** (the same module), for any number of connections to the driver, faults and losses.
`OfferedSinkIsDeclared` and `SuspendedSinkIsWithdrawn` are about one session, its pending write, and
callbacks that CoreBluetooth owes. `GattInv` says that a handshake begins afresh with each
link (`HandshakeBegins`), that what the connection waits for is what the device was sent
(`WriteAgrees`), that each stage rests on those before it (`StagesFollow`), and that a link which
closes has nothing to deliver but a late withdrawal (`ClosingIsOver`). It is not inductive by itself:
a second start of a session would reset it under a device that was told of a sink. `OneAudioStart`
is why there is none: over the policy, the main loop and all calls that wait on the serial queue, a
session with audio is started once and by the last start.

**Companion** (`CompanionLink_proofs`), for every number of presses, lost answers and restarts.
`ActionIsTakenOnce`: each press is in one place only, held by the device, on its way in an answer,
or told to Codex; `Heartbeat` moves it, and no failure puts it back. `AnswersReachTheAsker`: what
an agent has read, or may still read, is of the process that runs, because every way to another
process forgets both. `AgentKnowsWhatIsShown`: what the agent takes for its last snapshot is on
show, through a post that the server has shown and not yet answered, and with a server that works
for an agent that is gone (`PostedIsShown`). `NewestIsKept`: what is shown is no later than what
waits to be posted, and a late post that is older has been overtaken in number too (`InOrder`).
For this the numbers have to wrap at three or more (`Modulus`); those of the code have 32 bits or more.

**Keyboard** (`KeyboardLink_proofs`), for any matrix, profile, depth of the queues and number of
connections, faults and commands. The three properties need one invariant of the two halves.
`LinkInv`: except between the end of a connection and its callback, what `g_hid_state` says of the
connection is so, whatever the HIDD loop and the watchdog have changed in it (`ReadyMeansSecure`
follows). `KeysInv`: a key of the user is down on the host only while the next key event would go
there (`ReleaseFollows`), because each step that takes the keys away also releases them, and a
passkey is asked for before the link is encrypted; and a key that is down for the device is not in
`g_pressed` when reports are made of it (`LocalIsApart`). `NoKeyStaysDown` and `LocalStaysLocal`
follow, with one lemma for each taker of a key and each task.

**Only model-checked.** Liveness and fairness are out of TLAPS's reach: `RecordingEnds`,
`StationSettles`, `VerifyEnds`, `Heals`, `AudioComesBack`, `QuitWithdrawsSink`, `LeaseComesFree`,
`CompanionReturns`, `KeyUpArrives` and `LinkStaysOfUse`. So are the runs and variants that end in a
counterexample. No module uses a RECURSIVE
operator.

## 5. Plan

What would add most next, in this order:

1. The safety part of what is only model-checked: for each liveness property the invariant that
   names the step which is due (that a closing link has a callback to come, that a lease whose
   holder hangs has a deadline), as a theorem.
2. `DeviceUi` with the first-run pages, and `SettingsMenu` with the rows whose values are now in
   `DeviceSettings`, so that menu and settings are one model.
3. The rest of `product_web.cpp`: pages and device actions, and two savers of a PIN at a time.

## 6. What is not modelled, and why

How a page is drawn, web pages and JSON (`display*`, `profile_codec`, `web/`) compute values
without state of their own. Audio coding, the order of received frames and concealment work on
data in one thread and have tests. What the menu does to PIN, Wi-Fi and profiles is in their
models. A mutex that is not free for a second gives up in many places; only setup, where an event
is lost by it, has that as a fault. The probe build of phase 0
is not part of the product except for the parts of `probe/` that the product links
(`ble_services`, `hid_engine`, `keyboard_probe`). Installers and tools run once. A mapping of the
ring that is replaced during a read, chords with delays, and the serial commands of the test rig
beside one key event are left out of the modules that would hold them. `PROJECT.json` lists every
part with its status, and under `hazards` what can go wrong in it.

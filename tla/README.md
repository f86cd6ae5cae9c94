# ptt-fix: a TLA+ model

ptt-fix listens for one key on input devices (evdev) and injects a key or mouse
button into an X display while it is held. This directory holds TLA+ modules
for its concurrent core, its handling of the X keyboard map over the lives of
several processes, its start from a configuration file, and its table of keysym
names; TLC configurations that check them on small instances; and theorems
about all of these parts, with proofs that TLAPS checks. Line numbers refer to
the files under `src/`.

## Inventory

| component | source | state | operations |
|---|---|---|---|
| supervision | `ptt-fix.go` (`run`, `main`) | two error groups, the signal context, the unbuffered channel, the exit status, the configuration file | write or choose the configuration, start a goroutine per device, wait for them, wait for the handler, exit |
| listener | `listen.go` | place in `Run`/`listen`, the event it is sending, the device file | open, check capability, read, send, close, wait and retry; a watcher goroutine closes the file when the context ends |
| evdev device | `internal/evdev` | file, capability bits; the kernel's queue behind it | `Open` (with its ioctls), `NextEvent`, `Close`, `HasEventCode` |
| handler | `handle.go` | X connection, sender, the event it is applying | open, receive, `applyEvent`, close |
| scratch bindings | `internal/xdo/xdo.go` | copy of the server's map, undo table `scratches`, connection | `Open`, `Keycodes` (reload, `ensureScratches`, resolve, `bindScratch`), `Close` (`restoreScratches`), the garbage collector's cleanup `finalize` |
| key binding | `internal/xdo/xdo.go` | `held` | `BindKeys`, `Down`, `Up`, over `KeyDown`, `KeyUp` |
| config parser | `internal/config` | `Config` | `Load`, `Parse`, one method per directive |
| mouse sender | `handle.go`, `internal/xdo/xdo.go` | the button number | `ButtonDown`, `ButtonUp`, `ValidButton` |
| keysym names | `internal/xdo/keysyms.go`, generated by `gen_keysyms.go` | a table | generate; `lookupKeysym`, `splitKeysequence` |
| service unit | `ptt-fix.service` | | start, restart on failure |
| profile, logging | `ptt-fix.go` | | I/O |

How they interact. `run` starts one listener per configured device and one
handler. Listeners send transitions of the key on one unbuffered channel, and
the handler receives them and calls the sender, which makes X requests.
Cancellation goes the other way: a signal, an error of the handler or the end
of the last listener cancels the context, which the selects and the watchers
see. The keyboard map on the X server is shared with every other client.

What is hard: the order in which several listeners reach the channel; a
listener blocked in a read or a send when the other side goes away; devices
unplugged at any line; which of several errors becomes the exit status; other
clients changing the map between two requests; requests that fail, or whose
answer is lost, in the middle of a loop; presses and releases that no longer
match; a process that is killed and leaves bindings and pressed keys to its
successor; a configuration file cut short, a key number that does not fit.
`PROJECT.json` lists these hazards with their lines and the properties about
them.

What makes each part correct:

* supervision: the process ends when its scope does, and the status is 0 only
  after an interrupt; one device's trouble is not another's;
* listener: no transition is forgotten or reordered, a lost device is retried;
* handler: events are applied in order, the map is restored on every return;
* scratch bindings: the undo table is complete, names resolve to keycodes that
  type them, foreign keys are left alone;
* key binding: `Up` releases what `Down` pressed, also what an earlier process
  pressed;
* config parser: what a user wrote is what is used, or an error;
* evdev: a device is listened to exactly if it has the key;
* keysym names: each name has its canonical keysym, each sequence all its names.

## Modules

    Context, InputDevice <- Listener, Handler <- PttFix ~> PushToTalk
    KeyboardMap <- Xdo <- Talk <- Session        Talk ~> KeyBinding
    Strings <- Config, KeysymNames
    Config, KeysymNames, Evdev <- Startup        KeysymNames <- Keysyms

    PttFix <- PttFixProofs       KeyBinding <- KeyBindingProofs
    Startup <- StartupProofs     Keysyms <- KeysymsProofs
    Xdo <- XdoProofs <- TalkProofs <- SessionProofs
    Lemmas <- PttFixProofs, XdoProofs, StartupProofs, KeysymsProofs

`A <- B` says that B extends A, `A ~> B` that A implements B.

* **Context** is the cancellation scope: `ctx` is "live" or the cause of the
  cancellation, `egErr` the first error of the outer error group. One variable
  stands for the signal context, the group's context and the listeners' child
  contexts; the module says why nothing tells them apart.
* **InputDevice** is the environment of a listener: whether the device exists
  (`plugged`), its key (`phys`), the open file (`file`) and the kernel's queue
  of it (`kq`), which on overflow keeps SYN_DROPPED and the newest event. `lost`
  records that the newest transition of a device is gone: overflow, disconnect,
  closed file. `Unplug` takes the node away, `Fault` makes an open file fail
  while the node stays; the file is "dead" after either. Kernel and user actions
  are external.
* **Listener** has one action per outcome of each call and each select of
  `listen.go`; the deferred calls of `listen` are part of the action that
  returns. The failure of `os.Open` and that of the ioctls of `init` are
  separate steps, as a device can vanish between them. The ioctls can fail on a
  live node too, with ENOTTY on the legacy `-mouse` nodes that the default glob
  `/dev/input/by-id/*` matches, or with a temporary errno, which is retried.
  `listen` then leaves the file open, as its `Close` is not deferred yet: `file`
  is "none" again, since nobody holds the file, and `stray` (history) records
  where it was left.
* **Handler** is `handle` with a sender of one Boolean on the server
  (`pressed`), as the mouse sender is. `applied` is history.
* **PttFix** composes them: `Deliver` is the rendezvous on the channel,
  `ListenersDone` the goroutine waiting for `liseg`, `Exit` the end of `run` and
  `main`, `Interrupt` the signal.
* **PushToTalk** is the abstract service: each device's transitions are
  injected once, in order; losses take the newest events, never the middle.
* **KeyboardMap** holds the pure lookups on a map, a row reduced to its base
  column and one other. **Xdo** makes one step of each X request: `server` is
  the shared map, `local` the client's copy, `scratches` the undo table (the
  saved row is always the empty one, since only fully empty keycodes are
  bound). The loops over Go maps take their entries in any order. `Remap` is
  another client; a request can be refused, or the connection can break before
  or after the server acted. `changed`, `mine` and `unrestored` are history.
  `Drop` and `Finalize` are the cleanup of a value nobody closed, which the
  package promises to its users; the program itself always closes.
* **KeyBinding** is `Down`, `Up` and the loops of `KeyDown` and `KeyUp`, one
  XTest request per step, with `Keycodes` abstracted to "what the map says
  now, or an error".
* **Talk** composes Xdo and KeyBinding as `handle` uses them: `call` says for
  whom `Keycodes` runs, `Resolve` is one step of it and hands its keycodes to
  `Presses` or `Releases`, `Inject` is one XTest request, for which the actions
  of KeyBinding are used. `assigned`, what KeyBinding calls the resolution of
  the moment, is history here: the last one that was complete.
* **Session** puts processes one after the other on a server that keeps its map
  and the keys that are `down`. `Kill` ends a process at any step, `Restart`
  follows an exit; both forget everything but the server. `leftover` (scratches
  of earlier processes) and `foreign` are history. That the server carries out
  the last request of a process before its successor connects is an assumption.
* **Strings** has the functions of Go's `strings` on sequences of tokens: a
  token is a word the code never takes apart, a blank or a "+". A part that
  `SplitPlus` returns is what lies between two consecutive cuts; `Ascending`
  lists a set of numbers in order, as a glob lists its matches.
* **Config** is the parser, one line per step: `ReadLine` has a disjunct per
  directive, `LineRefused` is the error. Numbers, durations and globs are tables
  (`Uints`, `Durations`, `Globs`), and device nodes come and go between lines.
* **Evdev** has what `init` and `HasEventCode` compute: the request of each bit
  array, the kernel's answer to it, and the test of one bit, with the panic
  where the index is beyond the array.
* **Startup** is `run` up to the working service: `-createconfig` in a process of
  its own, with every way its write can be cut short; the choice between file
  and default; the parse; the check of each device; the sender, with the byte of
  a mouse button. PttFix takes over where Startup's listeners listen.
* **KeysymNames** is the lookup of a sequence in a table of names, and
  **Keysyms** the generator that makes the table from header files, which may
  be missing, disagree, or have a value that does not fit.
* The **MC** modules hold the symmetry and the constants TLC needs; KeyBinding
  needs none. The refinement mappings are beside what they map, in PttFix
  (`Promise`) and Talk (`B`), where the proofs use them too.
* **Lemmas** has what several proofs need: the least number of a set, what
  follows from it in place of induction over data, facts about SelectSeq, Last,
  appending and dropping, about cuts, and about `Ascending`.

Operators commented "Mutant of ..." are plausible bugs. They are used by no
action; `PROJECT.json` pairs each with the property that finds it.

## Runs

| run | instance | question | distinct states |
|---|---|---|---|
| `retry` | 2 devices, queue 2, no autorepeat, retries on | types, pipeline, supervision, the inductive invariants, the refinement of PushToTalk | 1.0 million |
| `live` | 1 device, queue 3, all events, fairness | termination and progress | 31,000 |
| `disconnect` | 1 device | a promise of the default config, violated | |
| `xdo_faults` | 3 keycodes, 2 unmapped names, all faults | scratch bindings | 1.4 million |
| `xdo_realkeys` | the same, no faults | a promise of the package comment, violated | |
| `binding` | 2 names, 3 keycodes, all faults | presses and releases | 26,000 |
| `binding_remap` | the same, no faults | a promise of `KeyBinding`'s comment, violated | |
| `talk` | 3 keycodes, 2 unmapped names, all faults | the sender over the server implements KeyBinding | 880,000 |
| `session` | the same, any number of processes | what processes leave to each other | 1.7 million |
| `startup` | 28 files, 3 nodes, one of which comes and goes | configuration, capabilities and the sender | 154,000 |
| `names` | 36 header trees, 10 sequences | the table of names and its lookup | 900 |
| `xf86` | the same | a promise of the package comment, violated | |

What the passing runs show:

* `retry`. `NeverWedged`: once cancelled, some goroutine can always move until
  the process is gone, with two listeners. `ErrorInv` and `FileInv` are the
  invariants the theorems rest on. `FileInv` and `ExitReleasesAll` say that
  every file that passed `init` is closed whichever way `listen` returns, and by
  the exit; a file whose ioctls failed is the only one that may be left open
  (`stray`). `PipelineEndsAtKey`: what has been applied plus what is on its way
  ends in the state of the physical key, unless the newest transition was lost.
  `SettledKeyAgrees`: with nothing on its way and the devices in agreement,
  the server agrees too, whatever order the listeners reached the channel in.
  The refinement mapping of `ImplementsPushToTalk` takes `inflight` to the event
  being applied, the one being sent and the transitions in the queue. An
  overflow maps to a move that loses a suffix, a reconnect to a loss of
  everything. The others are about errors and retries.
* `live`. Whatever cancels the scope ends the process; so does the end of the
  last listener; a send completes. `GuardedFairness`: the fairness the proofs
  of liveness assume follows from `FairSpec`.
* `xdo_faults`. `UndoTableComplete` and `CloseRestores`: every binding still on
  the server is in the table whichever request failed, so `Close` removes it.
  `OverwritesOnlyUnseen`: outside `Close`, a row of somebody else is written
  only if it was put there after the reload, or carries the very keysym of the
  scratch recorded for it. `ScratchesBound` also shows that the branch of
  `keycodeForKeysym` at line 404, for a recorded scratch without a base
  mapping, is never reached through `Keycodes`.
* `talk`. `ImplementsKeyBinding`: `Down` and `Up`, whose resolution takes many
  requests that fail anywhere, behave like those of KeyBinding, where it is one
  step, so that `HeldIsDown` and the others hold of the composition.
  `PressTypesNames`: what is pressed types its name on the server, unless
  another client has changed the keycode since the reload.
* `session`. `RestartsDoNotLeak`: scratches that killed, broken or failed
  processes leave never add up, since the next process finds them as native
  keys; it never restores them either. `UpReleasesForPredecessors`: the first
  `Up` of a later process releases what an earlier one left pressed, because
  names resolve to the same keycodes again, whether the binding was left or
  taken away, unless another client has changed the map meanwhile.
* `startup`. `TornFileNeverListens`: no prefix of the default file that parses
  leads to a service that listens, as the devices come last. `MatchesAreListed`:
  a node that exists throughout the parse is never lost, one that is missing at
  its line is. `CheckMeansCapability`: requests, array lengths and bit test
  together say of a key whether the device has it; a number beyond the kernel's
  keys can panic, and a number beyond 16 bits is another key.
  `SetTwiceOnlyAfterZero`: a second directive is accepted after a zero alone.
  `SenderMeansLine`: a sequence with blanks, cut at the first of them, makes no
  sender, and never one of some of its names.
* `names`. `FirstDefinitionWins`, `CoreNamesKeepKeysyms`: a table that is
  written is complete, and vendor headers never change a name of keysymdef.h.
  `SequenceKeepsEveryName`: a sequence resolves name by name or not at all.
* `binding`. `HeldIsDown`: between calls the server sees pressed exactly what
  `held` names, as long as no second `Down` came with another resolution.

The violations are described under "findings" in `PROJECT.json`: a device
unplugged during the ioctls of `Open` is not retried; `Close` empties a keycode
that another client has taken over; a second `Down` after a remap leaves the
first keycode pressed; `XF86XK_Clear` means the keysym of `XK_Clear`. A smaller
one has no run: the default file says that the number of a mouse button is "any
integer" (default:28), and `ValidButton` wants 1 to 255.

### Bounds

* Two devices are the fewest with a race for the channel and with one device's
  failure beside another. `Symmetry` permutes them; no definition tells them
  apart. The liveness run has no symmetry, and one device, since with two the
  check of the fair behaviours is too slow to be repeated; what two listeners
  could do to each other is the wedge that `NeverWedged` rules out as a safety
  property.
* `MaxQueue` is the size of the kernel's queue. 2 is the least size at which an
  overflow keeps both of its events, and `retry` reaches overflows; 3
  lets a transition and its successor wait behind a foreign event.
* `Noise` is empty in `retry` and everything in `live`: `listen` skips both kinds,
  and with two devices they only multiply the contents of queues. What `listen`
  skips in `retry` is SYN_DROPPED; the theorems hold for any `Noise`.
* `SignalCauses` is the cause of an interrupt. `retry` has "canceled", the only one
  that can end in status 0, `live` both; the theorems hold for either.
* Retries and reconnects are unbounded: no counter is kept. `RetryOn` is TRUE in
  every run, where a listener both waits and gives up; that the errors and files
  are right without retries too is what the theorems say.
* Three keycodes allow no, one or two empty ones beside a foreign key; two
  unmapped names compete for them. The rows other clients write (`MCForeignRows`)
  are the ones the code tells apart: empty, an unrelated key, a native mapping
  of a wanted keysym, a wanted keysym on a second level.
* Two names are the shortest sequence with a first and a last key.
* In `talk` other clients empty a keycode or write a native mapping of the first
  name, which also takes the slot of the second; in `session` they empty it or
  take it for an unrelated key. `session` leaves the history variables no guard
  and no property of it depends on out of the fingerprint (`SessionView`).
* The files of `startup` have every directive, doubled, with bad and with zero
  values, comments, unknown words, overlapping, empty and bad globs, and the key
  numbers at each edge (767, 768 and more, 824, 65592). `Shorter` has what is
  left of a word that is cut.
* The headers of `names` have the conflicts the real ones have: a name of
  keysymdef.h in XF86keysym.h and in a vendor's, and a value that does not fit.
  `MaxValue` stands for 2^32 - 1.

### Fairness

`FairSpec` assumes that Go's scheduler runs a goroutine that can run, that the
X server answers and that timers fire (weak fairness of each goroutine), that a
`select` with several ready cases, which picks at random, does not refuse one
for ever, and that senders on a channel are served in order (strong fairness of
those cases). Nothing is assumed of devices, of the kernel, or of the user.

`GuardedFairness` is the same with a guard in place of each ENABLED, which the
provers do not know: the handler moves in `open` and `apply`, and in `select`
under a cancelled scope; a listener moves as long as it has not ended under a
cancelled scope; its watcher closes an open file; the cases of its selects are
taken if they are ready again and again. Each guard says when the code cannot
block. A guard too wide would be a wrong assumption, so `live` checks that
`FairSpec` implies `GuardedFairness`, which fails when a step that a guard
promises is not there.

## Proofs

Seven modules prove theorems, with the lemmas they share in an eighth, for every
value of the constants that the assumptions allow: any set of devices, any queue
size, range of keycodes, sequence of names, files, headers, number of processes.
Those about safety are of the form `Spec => []P`, with the specification of its
module, or `Spec => P` for an action property or a refinement.

| module | theorem | property |
|---|---|---|
| PttFixProofs | `TypeCorrect` | `TypeOK` |
| | `ErrorsInvariant`, `FilesInvariant` | `ErrorInv`, `FileInv` |
| | `CleanExitTheorem`, `NoDevicesTheorem` | `CleanExitMeansInterrupted`, `NoDevicesMeansAllIgnored` |
| | `ClosedFileTheorem`, `ExitTheorem` | `NoReadOfClosedFile` (the part of `FileInv` that makes `listen.go:81` dead code), `ExitReleasesAll` |
| | `ReaderRetriesTheorem`, `IsolationTheorem` | `ReaderRetries`, `DeviceFailureIsolated` |
| | `PipelineInvariant` | `PipelineInv` |
| | `PipelineTheorem`, `SettledTheorem` | `PipelineEndsAtKey`, `SettledKeyAgrees` |
| | `PushToTalkRefinement` | `ImplementsPushToTalk` |
| | `ListenerEndsTheorem`, `HandlerEndsTheorem` | each goroutine ends once cancelled |
| | `NoListenerTheorem`, `SendTheorem` | `NoListenerLeadsToExit`, `SendCompletes` |
| | `CancelTheorem` | `CancelLeadsToExit`, up to three devices |
| KeyBindingProofs | `BindingTypeCorrect` | `BindingTypeOK` |
| | `HeldIsDownTheorem`, `HeldIsPressedTheorem` | `HeldIsDown`, `HeldIsPressed` |
| | `FailedDownTheorem` | `FailedDownLeavesNoKey` |
| XdoProofs | `XdoTypeCorrect` | `XdoTypeOK` |
| | `LocalMirrorsTheorem`, `UndoTableTheorem` | `LocalMirrorsServer`, `UndoTableComplete` |
| | `CloseRestoresTheorem`, `ScratchesBoundTheorem` | `CloseRestores`, `ScratchesBound` |
| | `ResolvedTypesTheorem`, `OverwritesTheorem` | `ResolvedTypesKeysym`, `OverwritesOnlyUnseen` |
| TalkProofs | `PressTypesTheorem` | `PressTypesNames` |
| | `KeyBindingRefinement` | `ImplementsKeyBinding` |
| | `TalkBinding` | the three of KeyBinding, of the composition |
| SessionProofs | `RestartsTheorem`, `UpReleasesTheorem` | `RestartsDoNotLeak`, `UpReleasesForPredecessors` |
| StartupProofs | `ParsedInvariant` | `StartupTypeOK`, `ParsedInv` |
| | `SetTwiceTheorem`, `MatchesTheorem` | `SetTwiceOnlyAfterZero`, `MatchesAreListed` |
| | `TornFileTheorem` | `TornFileNeverListens` |
| | `CapabilityTheorem`, `ButtonTheorem` | `CheckMeansCapability`, `ButtonIsConfigured` |
| | `SenderTheorem` | `SenderMeansLine` |
| KeysymsProofs | `GeneratorInvariant` | `GenInv` |
| | `FirstDefinitionTheorem`, `CoreNamesTheorem` | `FirstDefinitionWins`, `CoreNamesKeepKeysyms` |
| | `SequenceTheorem` | `SequenceKeepsEveryName` |

### The arguments

**PttFix.** `TypeOK` is inductive. `CleanExitMeansInterrupted` is not: a
listener could hold "canceled" in `lisErr` that becomes `egErr` later.
`ErrorInv` therefore follows the errors through all three places they can be
in, and says when "no devices available" may be the cause of the scope: only
when no listener is left that could return that cause as its own error.
`FileInv` relates the file of a listener to its place (a listener about to open,
waiting or done holds none), says that a file is left open in `init` alone, and
relates `g1` and `status` to the goroutines they wait for; `ExitReleasesAll` is
its value at the end. The
two action properties use `FileInv` (a file closed under a reader implies a
cancelled scope) and `ListenerMoves`, which says what a listener's step can do
to the errors.

The pipeline of a device is the event being applied, the one being sent and the
transitions in the kernel's queue. `NextPipelines` puts every step of the
program into one of a few classes (`PipelineStep`): it keeps a pipeline, drops
the newest part of it, adds the key's new state, or moves its oldest transition
to the server. From this one lemma follow both `PipelineEndsAtKey`, with
`QueueInv` (only an open file has a queue), and the refinement, where each class
is an action of PushToTalk or a stutter. `SettledKeyAgrees` needs `PressedInv`
besides: the server shows what was applied last for some device. The sequences
have any length; `TransitionsOf` is a SelectSeq, and what it makes of an
appended or a removed event is proved once, from what SelectSeq is.

**Liveness of PttFix.** The theorems assume `Spec /\ GuardedFairness`, or the
part of it about the goroutine in question. A listener's place is `lpc` with the
state of its file: `open`, `init`, `Holding` (a file the watcher has not closed),
`Draining` and `Closing` (a closed one), `wait`, `done`. `PlacesInOrder` says
that no step of anybody takes a listener back, except from `wait` to `open`, and
`FairStepsForward` that each fair step takes it on. So a cancelled listener
stays in no place: weak fairness takes it out of each, and strong fairness of
`WaitCanceled` out of the loop of retries. `ListenerEndsTheorem` is this for any
listener among any set of devices, and `HandlerEndsTheorem` the same for the
handler, whose loop of events is left by `HandleCanceled`. `LiveInv` supplies
what the steps need: a listener that waits for its file has one, and an error of
the group has cancelled the scope. With `AllListenersDone`, `ListenersDone`
returns an error, so that the handler ends and `Exit` follows
(`NoListenerTheorem`). A send waits for a handler that is never done in a live
scope (`SendTheorem`).

`CancelLeadsToExit` needs the end of all listeners from the end of each. For a
set of any size this is an induction over a temporal formula, which is out of
the provers' reach; `CancelTheorem` does it for three devices or fewer.

**KeyBinding.** The invariant follows `down` through the loops of a call:
`PressInv` (`down` is what was pressed before, and the keycodes before index
`i`), `UnwindInv` and `ReleaseInv` (without those after `i`), and `IdleInv`
between calls. A sequence that names a key twice is included: `Part` is a set.

**Xdo.** `XdoInv` has the types and one conjunct for each pair of things that
must agree: the loops and the undo table (`LoopInv`), the copy and the server
(`MirrorInv`), the bindings on the server and the undo table (`MineInv`), the
table and the copy after the first pass (`BoundInv`), the resolved keycodes and
the copy (`TypesInv`). None is inductive alone: that a scratch on the server
stays in the table needs the copy to be right about it.

**Talk.** `InterlockInv` says who may move when: Keycodes runs while the sender
is idle, the loops of KeyDown and KeyUp while Xdo is. With it every step of Talk
is a step of KeyBinding or a stutter (`BindingSteps`), and the invariant proved
in KeyBindingProofs, instantiated there as `BP`, holds of the composition. That
yields `TalkBinding`, the refinement, and with `XdoInv` `PressTypesNames`.

**Session.** `RestartsDoNotLeak` follows from `SessionInv`: a process knows the
leftovers of its predecessors from its reload, as `changed` has none of them.
For `UpReleasesForPredecessors`, which spans processes, `PlacesInv` claims that
while no other client writes there is one assignment of keycodes to names that
every process uses: native names keep their keycode, and the others are handed
the empty keycodes from the highest downwards, in the order of the sequence, so
that a process finds the bindings of the one before or makes the same again.

**Startup.** `ParserTypeOK`, `ServiceTypeOK` and `PhaseInv` (who runs when) are
the base. `SetTwiceOnlyAfterZero` and `MatchesAreListed` are strengthened by
`SymIsSet` (a `sym` directive never leaves the zero value) and
`MissingIsFlapped`, and read off the lines a directive has had so far.
`TornIsTruncated` says that a torn file is a prefix of the default one; the
lemmas on TrimSpace and Cut then compute what each prefix can mean.
`SenderInv` adds that the symbol is what the one `sym` line says, and that the
sender is one of this symbol; `TypedArgument` and `UntypedArgument` turn this
into what the line says.
`CapabilityTheorem` goes from the requests over the lengths of the arrays to the
test of one bit, for words of 32 and of 64 bits.

**Keysyms.** `GenInv` says that the table is the first definitions of the lines
read so far. `CoreNamesTheorem` adds the order of the headers, X11's own first.
`SequenceTheorem` compares the parts that `SplitPlus` cuts with the maximal
stretches of text in the string, by a bijection of the two.

**Lemmas.** The provers cannot instantiate the library's induction rules, whose
parameters are operators. `LeastOfSet` (a nonempty set of naturals has a least
one) and `UpToInduction` (a set with 0, closed under successor up to n, has all
up to n) state induction about sets instead; the sets are given by
comprehension where they are used.

### Assumptions

A proof uses the assumptions of the modules it is about, and TLC evaluates each
in the runs. What justifies the less obvious ones:

* `QueueAssumption`: the queue holds two events, the least at which an overflow
  leaves SYN_DROPPED and an event. The kernel's is never smaller than 64.
* `SignalCausesAssumption`: what `context.Cause` reports of a signal context.
* `KeycodeAssumption`, `KeysymAssumption`: X's keycodes start at 8, and
  NoSymbol is no keysym.
* `KeysAssumption`: `Keys` is not empty, since `Keycodes` refuses an empty
  sequence before it binds anything (xdo.go:201), which ends the program.
* `ConfigAssumption`: the nodes are finite, and the tables for strconv, time and
  path/filepath have results of the right type.
* `StartupAssumption`: what is left of a cut word of the default file has no
  blank, and a glob that is cut matches no device node.
* `CapsAssumption`: a device has keys up to KEY_MAX (767). `WordBitsAssumption`:
  a uintptr has 32 or 64 bits.
* `TreesAssumption`: what the expression `defineRe` yields of a header.
  `HeadersAssumption`: X11's own two headers have one prefix each, and one value
  for each macro. Nothing is assumed of a vendor's header.

Proving changed the model in two ways. `SettledKeyAgrees` was false without
devices and now speaks of the set of the keys' states. And a few operators
(`TransitionsOf`, `Ascending`, `SplitPlus`, the table of codes in Evdev) were
folds or chains of `:>` and `@@`, of whose recursion the provers know nothing;
they are now given by SelectSeq, by comprehension or by function constructors.

### What is only model-checked

* `NeverWedged`, which is stated with ENABLED.
* `GuardedFairness`, that is, the step from `FairSpec` to the assumption of the
  liveness theorems, for the same reason.
* `CancelLeadsToExit` under `FairSpec`, with one device. For more than three
  devices it rests on the theorems about each goroutine and on the finiteness
  of the set.

The four runs that expect a violation state what does not hold.

## Not modelled, and the plan

Not modelled: the garbage collector, which closes a file that `listen` left open
at some time before the exit; events that are not key events beyond their
existence; the name
and the ID of a device, which only the log has; a server that changes the number
of columns of its map; how strconv, time and path/filepath parse (tables stand
for them); systemd's conditions and its limit of restarts; profiling, where
`os.Exit` skips the deferred end of the profile, and logging.

Done, in this order: Context, InputDevice, Listener, Handler, PttFix (the
behaviour that matters most), PushToTalk and the refinement, the first theorems,
KeyboardMap and Xdo, KeyBinding; then Strings, KeysymNames and Keysyms, Evdev,
Config and Startup, the cleanup in Xdo, Talk and its refinement, Session; then
the proofs of all safety properties and of both refinements. No module declares
a RECURSIVE operator.

After these came the proofs of liveness, and `SenderMeansLine`.

What is left needs other tools than these: `NeverWedged` and the step to
`GuardedFairness` a prover that knows ENABLED, `CancelLeadsToExit` for every
finite set of devices one that can do induction over temporal formulas.

# TLA+ model of atv-homekit-remote

The program pretends to be a HomeKit remote control: an Apple TV pairs with it
over HAP, writes its target list and its Active flag, opens HomeKit Data Stream
(HDS) connections, receives button events, and accepts Siri audio. This
directory models the stateful core of `src/src/atv_homekit_remote/`, checks it
with TLC and proves part of it with TLAPS.

File names without a directory (`remote.py:258`) are under
`src/src/atv_homekit_remote/`; `README.md:14` in a finding is the repository's
own `src/README.md`.

## Inventory

| Component | State | Operations | Modules |
|---|---|---|---|
| `SiriSession`, `audio.py` | pcm buffer, encoded frames, sequence number, `_ending`/`_closed`/`_eos_sent`/`_close_sent`, cancel reason, open task, io lock | `write`, `finish`, `cancel`, `_open`, `_flush_locked`, `_send_close`, `handle_ack`, `handle_close` | `SiriSession`, `AudioStream`, `SessionLife` |
| `HDSConnection`, `hds.py` | nonce counters, send lock, pending requests, closed flag | `_send`, `send_request`, `send_event`, `_dispatch`, `close`, `_run` | in `SiriSession` (sending) and `TargetControl` (identity) |
| `HDSServer`, `hds.py` | prepared sessions, expiry timers, open connections | `start`, `stop`, `prepare_session`, `_accept`, `close_for_client`, `close_all` | `HdsServer` |
| Target control, `remote.py` | targets, buttons, selected target, activating HAP session, connections by target | `hap_target_list_write`, `hap_active_identifier_write`, `hap_active_write`, `set_active_identifier`, `press`, `_hds_whoami`, `_hap_connection_lost` | `TargetControl`, `Characteristics` (`press`, HAP writes), `TargetConfiguration` (the list as bytes) |
| Persistence, `remote.py` | `targets.json` | `_save_targets`, `_load_targets` | in `TargetControl` |
| Siri access, `remote.py` | the Siri lock, active session, watching task, sessions by stream id, advertised capability | `start_siri`, `_watch_siri_session`, `_siri_session_opened`, `recover_hds`, `stop`, `start` | `SiriAccess`, `SessionLife`, `UtteranceLock` |
| HDS codec, `hds_codec.py` | the table of values seen, within one call | `encode`, `decode` | `HdsCodec`, `HdsMessage` |
| TLV8, `tlv8.py` | none | `encode`, `segments`, `decode`, `decode_list` | `Tlv8`, `TargetConfiguration` |
| HAP adapter, `hap.py` | a value for each characteristic | reads, writes, rollback of a setter that raises, notifications | `Characteristics` |
| HTTP API, `http_api.py` | none | requests with timeouts that cancel calls | its timeouts, in `SiriSession` and `SiriAccess` |
| Opus encoder, CLI, constants | none worth modelling | | not modelled |

### How the parts interact

The process has one thread and one asyncio event loop. HAP-python calls the
adapter's setters, which call the remote without awaiting. The HTTP API calls
coroutines of the remote under `asyncio.timeout`, so that a late answer cancels
them at whatever await they are in. Each HDS connection has a reading task that
dispatches messages: a response resolves the future of `send_request`, a
`whoami` goes to the remote, an `ack` or `close` goes to the Siri session
registered under its stream id. A Siri session has a task that opens it, the
task of the caller that writes and finishes, a task that watches for its end
and gives the Siri lock back, and any number of tasks that cancel it.

### What is hard

* Anything read before an `await` may be stale after it: the selected target in
  `press`, the closed flag in `_flush_locked` and `_send_close`, the registry of
  stream ids.
* A result and a message that arrive together are handled in an order the
  author did not choose: the response to `dataSend/open` and the close or the
  end of the connection right behind it.
* Calls are cancelled at their awaits: by an HTTP timeout, by another task.
* Saves may raise in the middle of a handler; the process may die at any time.
  A write whose setter raised is rolled back in the characteristic, not in the
  remote.
* A characteristic is set by the remote, written and read by several sessions;
  who is told of a new value depends on the way it came about.
* Writer and reader of bytes must agree on lengths that fill a segment or a
  length class, and on what a reference refers to.
* An Apple TV may never answer, acknowledge, connect or close.

The list, with the line where each hazard bites and the property that covers
it, is under "hazards" in `PROJECT.json`.

## Modules

### `SiriSession`: one utterance on one connection

One action is what a task does from one suspension to the next point where
another task could see a difference. `running` names the task that holds the
event loop; a step that suspends sets it to `Idle`, and only then may another
task step. `lock` holds the two `asyncio.Lock`s as queues, holder first: the io
lock of the session and the send lock of the connection. `pc` is where each
task is:

* `"open"` is `_open`: send the request (`OpenBegin`), await the response
  (`OpenSent`), honour a cancellation that came first or flush the audio that
  has queued up (`OpenAccepted`, `OpenFlush`), refuse a stream id that is negative
  or that another session is registered under (`OpenUnregistered`: the id stays
  stored, the session ends, no close is sent), fail (`OpenRefused`,
  `OpenTimeout`, `OpenCancelled`).
* `"user"` is the body of `send_pcm`: writes, then `finish`, and `cancel` when
  anything raises or when the HTTP request is cancelled (`UserAbort`).
* `"reader"` is the connection's reading task.
* `Cancellers` are tasks that call `cancel()`: those of
  `_schedule_session_cancel`, `stop` and `recover_hds`. They may be cancelled
  themselves, as `recover_hds` is when `POST /recover` times out
  (`http_api.py:151`): while they wait for `_open` (`CancelGiveUp`), or in
  `_send_close` (`CancelAbort`). A close that was still waiting for the send lock is
  then never written, and its task is left at `"unsent"`.

Sending (`Send`, `Transmit`, `Drained`, `SendFailed`) is the same for all
tasks: queue for the send lock, encrypt with the next nonce and write, drain,
release. `wire` records what was written and is what the properties speak of.

Abstracted: audio is counted in units, `FrameUnits` to a frame, and a data
message has the index of its first frame, its sequence number and its count.
Reasons are NORMAL, CANCELLED and TIMEOUT. A timer may fire whenever its await
is pending. `registered` says that `_open` has got through
`_siri_session_opened`: only then do acks and closes reach the session. Which ids are
taken is a matter of `SiriAccess`; here any answer may be refused. The task that `send_pcm` shields while it
cancels is modelled as the user's own task going on. The time between the
resolution of a future and the resumption of the task that awaits it is any
number of steps, which is more than the event loop allows. `pad_final_frame`
keeps its default, true.

`AudioStream` is the abstract specification: a stream is requested once, only a
close follows the end of stream, and nothing follows the close. The packets are
numbered without a gap or a repeat: the first frame of each is the one that was
`next` after the packet before. `MCSiriSession` maps `wire` to its four variables;
every message written is counted (`messages`), so none can pass for a stutter.

`SessionLife` is the abstract specification of what those who hold a session see
of it: its request is pending, answered, stored or failed, it is closed or not,
and its connection is up or not. The session ends once, with its connection at
the latest, and otherwise not before the request is settled. `MCSiriSession`
maps the future of the request, the stream id and the end of `_open` to it.

### `TargetControl`: targets, selection, activation, HDS registry

Every handler runs without an await, so a handler is one action. The saved file
is a variable replaced as a whole: `_save_targets` writes a temporary file,
syncs it and renames it. An action that saves chooses `ok`, whether the save
succeeds or raises, and what the code does after a save is skipped when it
raises. `siri.stranded` marks a session whose cancellation was skipped that
way. `Restart` is a crash and a start at any time: memory is what
`_load_targets` finds in the file, connections are gone. `Stop` is `stop()`
as far as it changes this state, and `start()` may follow in the same process;
`CloseHds` is what `recover_hds` does to the connections.

An Apple TV's HDS message is dispatched some time after it was read
(`HdsWhoamiArrives`, `HdsWhoami`). A handler that raises before it has changed
anything is a stutter and not an action. The Siri session appears as far as
these events end it: `SiriAccess` has its lock and `SiriSession` its inside.

### `Characteristics`: the same handlers as HAP sessions see them

Extends `TargetControl`: each action is one of its actions conjoined with what
the handler does to the characteristics ActiveIdentifier and Active. A
characteristic has its value and, for each HAP session, what that session was
last told of it. `set_value` notifies every session that listens, if it changes
the value; `client_update_value` notifies all but the writer, after the setter
has run (`ClientUpdateValue`); a read asks the getter and leaves its answer in
the characteristic (`GetValue`). Those three are HAP-python's, as `hap.py` and
`remote.py` use them. A session listens once it has read and subscribed
(`Read`); before that it knows nothing.

`WriteIdentifier` and `WriteIdentifierFails` are the write of ActiveIdentifier
whose save succeeds or raises. The second gives the characteristic its old
value back while the remote keeps the new one; `rolled_back` remembers that.
An Apple TV writes Active when it was last told that it is selected, and the
write may arrive much later (`ActiveSent`, `CharActivate`). `press` awaits
between its two events and is two actions (`PressDown`, `PressUp` or
`PressRaises`); `presses` has the target that saw the button go down.

`CharStop` leaves the characteristics as they are, as `stop()` does, but for
Active, which the loss of the activating session may still set back.

### `Tlv8`, `TargetConfiguration`, `HdsCodec`, `HdsMessage`: bytes

Pure definitions with the names of the functions they stand for. The limits of
the formats are constants, so that a small instance reaches them: `MaxChunk` is
255 in the program, `References` 48, `MaxItems` 12, `MaxPairs` 14, `MaxDepth`
64; the tags, and the length classes of texts, data and integers, are the real
ones.

* `Tlv8`: `Encode` splits values into segments (`Segmented`) and writes them out
  (`Extended`); `Segments` reads them, `Collapse` joins them and `Groups` splits
  them at the items of a list, each with a loop of the code as a recursive
  function. `Meaning` and `Items` say independently what a reader should find.
* `TargetConfiguration`: `target_list_value` and `_parse_target`. Base64 and
  UTF-8 are left out; they are one-to-one on what is written.
* `HdsCodec`: the encoder with its table of values seen, the decoder with its
  own. A document is listed as the encoder comes to it: an atom, the beginning of
  a container, its values, its end. `EncodeNext` and `DecodeNext` are what the code
  does at one of these; the recursion of `_value` over containers is a stack of
  frames that wait for values (`Receive`, `Deliver`, `Close`). `Building` is the same
  stack for the document itself, and with it `Plain` says which Python value comes
  back for the one that went in: an `Int64` is an integer, a date is a float, a UUID
  is its text, and `True` and `1` are the same key of a dictionary. The encoder
  raises by `ok` at an integer or a length that no size is for, and at `MaxDepth`;
  the decoder knows all tags, also of texts and data that end at a byte, which no
  encoder here writes.
* `HdsMessage`: header and message of a payload, each with a table of its own.

`MCCodecs` has no system in it: its variable is an input that grows by an entry,
a target, a value or a wrapping per step, and every property compares what is
read with what was written. The parts of it that are about TLV8 alone are `MCTlv8`,
where the inputs are all sequences of entries, and `MCTargets`, where they are sets
of targets; `Tlv8Proofs` is about these two, `HdsCodecProofs` about the documents and
messages of `MCCodecs`.

### `HdsServer`: prepared sessions and TCP connections

A session prepared for a HAP session is identified with its keys. A TCP
connection is accepted when its first frame decrypts under the keys of a
session that is pending by then. An Apple TV connects after it has the answer
to its setup request, so which keys it will present is fixed when it connects,
but several connections may present the same ones, at any time. `_accept` and
`stop` await and are two actions each, with anything in between.

### `SiriAccess`: who may hold an utterance

The lock of `start_siri` as `asyncio.Lock` implements it: a lock that is free
belongs to the first of its waiters, and a waiter that times out or is
cancelled leaves the queue. A session goes by the name of the call that made
it. `Watched` is the task that waits for its end, removes it from the registry and
releases the lock. `recover_hds` and `stop` are the steps between their awaits,
with the disconnections they cause, and every one of them may be interrupted.

`LateOpen` says whether `_open` may resume after the watching task when the
connection closes behind the response. In Python 3.11 `wait_for` wraps the
future in a task of its own and takes another turn of the loop: a session that
is over is then registered, and stays so until its stream id is given out again
and refused. Both are possible in the runs; `MessagesReach` says that a session
in progress is nevertheless found.

`OpenAborted` is the HTTP timeout that cancels `_open`, through the await in
`finish` (`audio.py:207`), before it has begun: none of its handlers runs, and the
session stays unmarked until the `cancel` that follows (`Ended`). A cancellation
at a later await of `_open` is `OpenFailed`.

`UtteranceLock` is the abstract specification of the lock: one caller speaks, the
others wait, and they come to speak in the order in which they asked, but for
those that leave. `MCSiriAccess` maps the session that is live and the waiters of
the lock to it; and it maps each session to a `SessionLife` of its own.

Whether the target is selected and activated is `TargetControl`'s subject;
here `start_siri` may refuse at any time. A new connection that replaces an
open one closes that first: two steps here. `stop()` is not itself cancelled
while it awaits the watching task, and the 2.5 seconds it allows that task are
taken to be enough for a task that is ready.

### How the modules join

`SiriSession` runs on one connection that may end at any time: `TargetControl`
and `HdsServer` say when. Its cancellers are the actions that schedule a
cancellation in `TargetControl` (`Cancelled`) and the cancelling parts of
`SiriAccess` (`RecoverCancel`, `StopCancel`). The session of `SiriAccess` is the
life cycle of `SiriSession` seen from outside: pending, answered, done, closed.
`SessionLife` is that interface: `SiriSession` is shown to implement it, and each
session of `SiriAccess` is, so neither supposes anything of a session that the
other does not keep to. When a stream id is taken only `SiriAccess` can tell: its
`Opened` then ends the session as it opens, as `OpenUnregistered` does in
`SiriSession`.
`HdsServer`'s `ConnectionClosed` covers the whoami handler of `TargetControl`
that closes a connection it does not want.

## Runs

Passing runs:

| Run | Instance | What it shows |
|---|---|---|
| `session_smooth` | one canceller, aborts and losses, sends that do not suspend, chunks of 1 and 4 units, frames of 2 units, packets of 2 frames | the stream of every session that was registered is closed; the wire is a run of `AudioStream`; a cancelled session closes; `finish` ends |
| `session_paused` | two cancellers, aborts and losses, sends that may suspend in `drain` | flushes and transmissions exclude each other; packets leave in order under their own numbers; the end of stream covers all the audio, unless a cancelled `cancel()` left its close unwritten; no task keeps a lock or a place in one; the session leads the life of `SessionLife` |
| `target_control` | three targets of which two fit, two HAP sessions, two HDS connections, failed saves, stops, restarts | selection, activation, registry and Siri session stay consistent |
| `characteristics` | two Apple TVs with a HAP session each, a button, one `press`, failed saves, stops, restarts | who listens knows the selected target and whether it is active; the file holds what memory holds |
| `codecs` | three TLV8 entries, two targets, documents of up to seven items and two containers deep, messages | what is written is read back; what is cut off or goes on is refused |
| `hds_server` | three HAP sessions, three sessions of which two may be pending, two TCP connections | keys are used once; streams end with their HAP session; nothing escapes `stop`; what is pending ends |
| `siri_access` | three calls of `start_siri`, two stream ids, two connections, a recovery, stop and start, a fair event loop | one utterance at a time; the lock is never orphaned, and of an utterance that is over it reaches a call that waits, past those that gave up; withdrawal and stop are quiet; acks and closes reach the session in progress; calls take turns as `UtteranceLock` says, and each session lives as `SessionLife` says |

Violation runs, each for a finding of `PROJECT.json`:

| Run | Property | What the code does |
|---|---|---|
| `lost_close` | `CloseHandled` | a `dataSend/close` read before `_open` has resumed is dropped |
| `press_release` | `PressReleased` | the release goes to the target selected by then |
| `siri_ready` | `SiriReadyMeansActivated` | Active set by an Apple TV that is no longer selected counts for the one that is |
| `siri_withdrawn` | `TemporarilyDisabled` | a cancelled recovery leaves Siri withdrawn |
| `small_integers` | `WrittenIsRead` | the integer 39 is written as a tag that the decoder does not know |

### Bounds, and why they are enough

* Audio: `MaxUnits` stops new writes; with frames of 2 units, packets of 2
  frames and chunks of 1 and 4 units there are partial frames, several frames
  from one write, full and partial packets, and utterances without audio.
* Cancellers: two are needed for two waits on the open task and two closes to
  meet; one is enough for every race with `_open`, `finish` and the reader.
* Targets: two for a selection that changes, three for a full list. HAP
  sessions: two, lost and back any number of times. HDS connections: two, for
  one that replaces another; a closed one may come back as a new one.
  `target_control` has no buttons and `characteristics` no HDS connections:
  each keeps to what its properties speak of.
* `codecs`: `MaxChunk` 4 with values of 0, 1, 3, 4, 5, 8 and 9 bytes has one and
  two full segments and one byte more and less. `References` 4 with up to five
  texts before two chosen values (`MaxCount` 7) has the last value that a reference
  can name, the first that it cannot, and values after it. `MaxItems` 3 and
  `MaxPairs` 2 have containers of each form, `MaxDepth` 2 one level too many and one
  within another. Texts of 32, 33, 255 and 256 bytes are the real borders of the
  length classes, alone also of 65535 and 65536, and so are the integers up to 32
  bits; topics reach from 195 to 236 bytes, around a header of 255. Integers of 64
  bits and lengths of eight bytes, which TLC cannot count to, are in the theorems.
* `HdsServer`: every session is prepared once, every TCP connection used once.
  Two connections are enough to present the same keys twice, three HAP sessions
  to fill a list of two.
* `SiriAccess`: three calls, so that one holds the lock, one waits and one
  comes late or gives up in the queue; two stream ids and two connections, so that
  both may differ or recur; one recovery next to `stop`. Recoveries that overlap
  one another are covered by the theorems, which state the six invariants for
  every set of calls, ids, connections and recoveries.

### Deadlock

The runs of `MCSiriSession`, `MCTargetControl` and `MCCharacteristics` check
deadlock;
`SiriSession` has a stuttering step for the state in which all tasks have ended.
The runs of `HdsServer` and `SiriAccess` have finite supplies (sessions,
connections, calls) and may stop when they are used up; an input of `MCCodecs`
that cannot grow any more is simply done.

### Fairness

`SiriSession`: weak fairness on the steps of each task. The event loop does not
forget a task that is ready or a timer that is due. Nothing is assumed of the
Apple TV, of the network, or that anybody calls `cancel()` (`CancelCall` by a
canceller is not fair). The liveness properties are checked with sends that do
not suspend: `drain()` has no timeout, and an Apple TV that stops reading may
hold a sender, and with it the send lock, for as long as it likes.
`HdsServer`: weak fairness on the expiry timer (`call_later`) and on the accept
timeout (`asyncio.timeout`).
`SiriAccess`: weak fairness on the tasks that are ready: the watching task of a
session that is closed, an `_open` that has its answer, the first waiter of a
free lock. Nothing is assumed of the callers (`Ended`), of the timeouts
(`StartTimeout` may never come: a wait of any length is covered) or of the Apple
TV. `TargetControl`, `Characteristics` and the codecs have no liveness
properties.

### Limits worth knowing

`RegisteredStreamsAreClosed` and `ImplementsAudioStream` hold when sends do not
suspend. When `drain` suspends between the test of `_close_sent` and its
assignment (`audio.py:284`), a second close can follow the first, and a data
packet can follow a close sent by another task; no text of the repository rules
that out, so it is documented here and is not a finding.

`RegisteredStreamsAreClosed` speaks of sessions that `_open` has registered under
their stream id, and two streams are left open beyond its reach. One is that of an
id which `_open` stores and then refuses, because it is negative or because
`_siri_session_opened` raises (`audio.py:109` to 113, `remote.py:618`): `_open` ends
the session with its id stored, and sends no close (`audio.py:125`). `SiriAccess`
reaches the second of these, with a late registration under an id that the Apple TV
gives out again. The other is that of a late answer, when an HTTP timeout has
cancelled `_open` itself through the await in `finish` (`audio.py:207`). No text of
the repository promises a close for either, so they are documented here and are not
findings.

`EosComplete` excludes the runs in which a `cancel()` was itself cancelled while its
close waited for the send lock (`CancelAbort` at `"send"`). `_mark_done` still runs
(`audio.py:279`), but the close is gone from the queue, and an end of stream that
`_open` or `finish` had queued behind it goes out with the partial frame missing and
no close before it. Two tasks have to suspend in their sends for that, one of them
under a timeout: `recover_hds` on an Apple TV that has stopped reading.

`finish` returns without an error, and perhaps without an end of stream, when another
task has cancelled the session (`audio.py:208`): its caller does not learn that the
utterance was not sent.

A save that raises in a HAP write of ActiveIdentifier leaves the new target
selected in memory, the old one in the characteristic and in the file, and
nobody told (`hap.py:85`); `IdentifierKnown` excludes the time until the value
changes again or everybody has read it. `Durable` excludes the same time by
`dirty`.

`target_list_value` writes nothing between two targets (`remote.py:418`), so a
configuration of a multiple of 255 bytes would be read as going on in the next;
`TargetsReadBack` excludes it. It takes a configuration with many named buttons.

A value beyond the 48th that recurs is written again each time, and counted by
the decoder but not by the encoder (`hds_codec.py:112`): the tables differ from
then on, and `DocumentsReadBack` shows that no reference is ever made to the part in
which they do.

The encoder writes the integers -1 to 39 as one byte, `0x08 + value`, so that 39 is
0x2F; the decoder takes 0x2E for the last of them (`INTEGER_39`, `hds_codec.py:62`) and
refuses 0x2F. A document with a plain 39 in it is therefore written and not read.
`DocumentsReadBack` says exactly that (`Recognised`), and `small_integers` shows it. A
request identifier is not affected: it is an `Int64`.

## Proofs

Every theorem holds for every value of the constants that meets the named
assumptions of its component, without bounds on sessions, messages, audio or
restarts: `TargetAssumption` (targets are positive numbers, finitely many, and
every HAP session belongs to one), `ServerAssumption` (finitely many sessions, a
positive limit), `AccessAssumption` ("nobody" is not the name of a caller,
a stream id or a connection), `TaskAssumption` (the tasks of a session are different),
`AudioAssumption` (a frame and an event are not empty, nor is a chunk),
`MaxChunkAssumption` (a chunk has at least two bytes and at most as many as its length
byte can count), `LengthsAssumption` (lengths are numbers), `LimitsAssumption` (each
limit of the HDS codec fits its range of tags, and a container may be written at
all) and `SamplesAssumption`
(targets are what `_parse_target` may return: a positive identifier and a type of at
most four and two bytes, a name of 1 to 255 bytes or none, buttons of any names under
any ids of one byte).

| Theorem | Property | Argument |
|---|---|---|
| `TargetControlProofs!TypeCorrect` | `TypeOK` | inductive as it stands; it includes that a connection has an owner |
| `ActiveIsConfigured` | `ActiveConfigured` | inductive once `ActiveInv` bounds the saved list too: a restart takes its targets from the file |
| `SavedIsDurable` | `Durable` | needs `ActiveInv`: `_load_targets` would select a target of its own if the file selected one it does not configure |
| `ActiveClientIsConnected` | `ActiveClientConnected` | inductive with the types |
| `ConnectionsAreRegistered` | `ConnectionsRegistered` | every way to leave the registry closes the connection first; `ClosingHds` and `ClosingRegistered` say so once for REMOVE, RESET and the loss of a HAP session |
| `SessionFollowsItsTarget` | `SessionFollowsTarget` | uses the three before it: whatever closes the session's connection ends the session, and whatever changes selection or activation schedules its cancellation or marks it stranded |
| `CharacteristicsImplement` | | a refinement: each step of `Characteristics` is a step of `TargetControl` or leaves its variables alone, so every safety property above holds of it |
| `CharTypeCorrect` | `TypeOK` | through the refinement for the variables of `TargetControl` |
| `IdentifierIsKnown` | `IdentifierKnown` | what a session was last told is strengthened to an invariant over all three ways of being told (read, notification, own write) and the one of being untold (roll back); `Told` and `Forgotten` say what each does to a session |
| `ActiveIsKnown` | `ActiveKnown` | the same argument for the characteristic Active |
| `CharDurable` | `Durable` | from the refinement and `SavedIsDurable` |
| `HdsServerProofs!TypeCorrect` | `TypeOK` | inductive as it stands |
| `KeysAreUsedOnce` | `KeysUsedOnce` | a session that is prepared is fresh, so that nobody presents its keys yet |
| `OpenConnectionsAreListed` | `OpenAreListed` | `stop` clears its list without looking, so the list must be empty by then: `StopInv` says that no connection being accepted can claim a session once `stop` has begun, even one prepared meanwhile, since nobody can connect |
| `StreamsEndWithHapSession` | `StreamsHaveHapSession` | rests on `OpenAreListed`: `close_for_client` reaches only what is listed |
| `PendingIsBounded` | `PendingBounded` | a preparation drops the pending sessions of the same HAP session before it counts the others |
| `SiriAccessProofs!TypeCorrect` | `TypeOK` | inductive with lemmas about what leaving a queue does to it |
| `OneUtteranceOnly`, `LockIsOwned`, `StoppedIsQuiet` | `OneUtterance`, `LockOwned`, `StoppedQuiet` | all three from `AccessInv`: a live session is the active one and is on the current connection, the active one is the one watched, the lock is locked exactly while there is one, and there is no connection once `stop` has closed it |
| `WithdrawnIsQuiet` | `WithdrawnQuiet` | a step that brings a session to life finds Siri advertised (`LiveStep`), the step that withdraws it ends every session with their connection (`WithdrawalStep`) |
| `MessagesAlwaysReach` | `MessagesReach` | an id may be handed out again and a session that is over may be registered late, so ids are not unique; a session is registered only under an id that is free or its own, and fails otherwise, and only its own end removes it, so that registering another never displaces the live one; `AccessInv` says that there is one at most |
| `SessionsLiveOn`, `EachSessionImplements` | `SessionsLive` | a refinement of `SessionLife`, for one session and for all; see below |
| `TurnsAreKept` | `TurnsAreTaken` | a refinement of `UtteranceLock`: a session that comes to life takes the place of the first in the queue, or finds it empty; see below |
| `SiriSessionProofs!TypeCorrect` | `TypeOK` | inductive; the lemmas about queues say what joining and leaving one does at any place |
| `FlushIsExclusive`, `SendIsExclusive` | `FlushExclusive`, `SendExclusive` | inductive together, because a task that is cancelled in the middle of a queue changes nothing for the task at its head |
| `DataIsOrdered` | `DataOrdered` | see below |
| `EndOfStreamProofs!EosIsComplete` | `EosComplete` | see below |
| `LocksAreGivenBack` | `LocksGivenBack` | from `QueueInv` for the send lock and `IoInv` for the io lock: a task is in a queue once, so that leaving it, from the head or the middle, leaves nothing behind |
| `AudioStreamProofs!StreamsAreClosed` | `RegisteredStreamsAreClosed` | where `drain()` does not suspend (`~Backpressure`); see below |
| `SessionImplementsStream` | `ImplementsAudioStream` | where `drain()` does not suspend: each step maps to a step of `AudioStream` or to none; see below |
| `SessionLivesAsPromised` | `ImplementsSessionLife` | each step maps to a step of `SessionLife` or to none, whether sends suspend or not; see below |
| `Tlv8Proofs!TlvReadsBack` | `TlvRoundTrip` | from `EntriesReadBack` and `ListReadBack`, which rest on `SegmentsReadBack`; see below |
| `CutsAreNoticed` | `CutOffNoticed` | from `CutOffRead`: by induction from the end of the bytes, a cut is noticed or falls between two segments |
| `TargetsReadBackAlways` | `TargetsReadBack` | from `TargetReadBack` and `TargetListReadBack`, and that AddTarget keeps identifiers apart; see below |
| `HdsCodecProofs!EveryDocument` | | for every document, of any size, nesting and values: from `Lockstep`, kept by each value; see below |
| `DocumentsBegun` | | inductive: what is encoded is a document at each of its values (`BegunOn`) |
| `DocumentsAreReadBack` | `DocumentsReadBack` | from `EveryDocument` and `DocumentsBegun` |
| `EveryMessage` | | from `EveryDocument`, once for the header (`HeaderIs`) and once for the message; see below |
| `MessagesSent`, `MessagesAreReadBack` | `MessageRoundTrip` | from `EveryMessage`, and that Message sends what it may (`MessageIs`) |

`DataOrdered` is far from inductive: whether a packet may be written depends on
what two tasks have taken off the list and not written yet. `OrderInv` says of
each task how far it is: as long as no close is on the wire and the connection is
up, the number of the event it has taken is the one due on the wire (`Pending`),
the one it has just written was the last (`JustSent`), and in between the
session's own number is due and there is no end of stream (`Ready`). A flush that
is abandoned, by a failed send or a cancelled task, breaks this for whoever would
flush next, so `RestInv` claims it only while some task may still flush
(`MayFlush`), and `WayInv` shows that nobody may after such an end: the flush of
the user's task comes after the one of `_open` (`OpenInv`), and an `_open` that
raised has closed the session or was cancelled by a user's task that is giving
up (`RaiseInv`). `AudioInv` keeps the numbers: what is encoded is what is numbered
plus what is still on the list.

`EosComplete` would be easy if `finish` were the only way to end a session: it pads
the partial frame before it sets `_ending`. But `cancel` sets `_ending` too and pads
nothing, so a `finish` that comes after it, or an `_open` that resumes, may send an
end of stream that is short (`Broken`). What saves the property is the order of the
send lock's queue: `BrokenInv` says that as long as such an end of stream can still
be sent, by a flush that is under way (`Forced`) or one that may be entered
(`Streaming`), the close that `cancel` asked for is in the queue (`Warned`), and that
an end of stream already there comes after it (`Behind`). `QueueInv` says that a task
is in that queue once, and only while it sends; `Moves` lists the four things a step
can do to it, so that "comes after" is shown once for each of them (`WarnedKept`,
`JoinsBehind`) instead of once for each action.

The queue keeps its promise as long as nobody leaves it early. A `cancel()` that is
cancelled does: `NoneUnsent` is part of what `Broken` supposes, `UnsentInv` says that
a task which left its close unwritten stays where the property excludes it, and
`FullInv` says that an end of stream that covered all the audio goes on doing so.

`StreamsAreClosed` and `SessionImplementsStream` assume `~Backpressure`, and have to
("Limits worth knowing"): a task that suspends in `drain()` has tested `_closed` and `_close_sent` before others
change them. Where none does, a task that sends or flushes holds the
event loop until it is through (`Places`), and each test is still true when the
message is written. `CloseInv` follows the sessions that end: one registered under its
stream id (`Registers`: when the id is stored, or never) ends with a close on the wire, or because the Apple TV sent one (what the
reader finds in its inbox says so), and `_open` is neither cancelled nor finds the
session closed while it does not know the id. Nobody can be cancelled in a send
either (`NoAborts`). The refinement adds what the wire looks like whenever a task is about to write (`Fits`): nothing before the request
(`Requested`), no close yet (`ClosedOnce`), and the event that is due, which is
empty only at the end (`Counted`, and `OrderInv` again): what is `Due` is the `next`
of `AudioStream`, and the number of the last packet (`First`) its `first`. All of it is claimed as
long as the connection is up; nothing is written once it is not.

`LocksGivenBack` and `ImplementsSessionLife` need no such assumption. For the first,
`Orderly` lists what a step of a task may do to the io lock's queue: nothing, join
at the end when it was not in it, or leave; a join repeated, or a leave that misses
an entry, is what would leak a lock, and `IoInv` excludes both by "once". For the
second, `LifeInv` says where tasks are only once `_open` has stored its stream id
(`NeedsOpened`: every place from which a session can be ended but the cancels, and
those wait for `_open`), that a connection that is closed has ended the session,
and that nothing else has ended it while `_open` is still on its way.

The two refinements of `SiriAccess` rest on what `MessagesReach` and `OneUtterance`
have established. `BegunInv` adds that what ends, holds the lock or is registered
has begun, so that a life starts when its session is made and not before, and that
a session is on a connection that was made and is not made again. A disconnection
ends every session of the connection in the step that takes it down, and `AccessInv`
says that no other is live. For the turns, `AccessInv` says that nobody is live
when the lock is free, and the lock's waiters are exactly the abstract queue: the
fast path of `acquire` (`StartCall`) is only taken when the lock is free and
nobody waits, also in the time between a release and the wake-up of the first
waiter, and a waiter that gives up (`StartTimeout`) leaves the others in order.

That TLV8 reads back is shown for all entries, tags and values, and every
`MaxChunk`. What the loops of the code compute is an induction over data, which the
library's induction theorems state of an operator and no installed prover can
instantiate; `Induction` states it of a set of numbers instead, from the
well-foundedness of `<` (`WFMin`). Two descriptions carry the argument. One says
where the parts lie in a sequence that is put together (`FlattenHas`): the bytes of
segment k in what is written (`ExtendedHas`), and the segments of entry k among
those of all (`SegmentedHas`). The other says how a loop goes on from there
(`SegmentsReads`, `CollapseSteps`, `GroupSteps`). `SegmentsReadBack` walks back from
the end of the bytes: at the place of each segment, what is read is that segment and
those behind it, whatever its value looks like. `EntryCollapses` and `EntryGroups`
walk forward: at the place where entry m ends, what is known is what the first m
entries mean, and the groups are the items they make. Within an entry every chunk but
the last is full and continues the one before (`RestContinues`); between entries
nothing seems to (`FirstDoesNotContinue`), and only this needs `Separated`.
`CutOffRead` asks nothing of who wrote the bytes.

`TargetsReadBack` applies all of this three times over: to the buttons of a target, to
the target, and to the list. The list of buttons has nothing between two of them;
`PartsSeparated` shows that it does not need it, because a button ends with another tag
than the next begins with, and `PartsAreItems` that the items of what is written part
by part are those parts, by counting the entries of the separator's tag up to each
place. The entries of a target have ascending tags, so that each keeps what those
before it mean (`OptionalMeans`), whichever of them are there. `SortedAre` says of
the order by identifiers that it is one of all members, each once: a greater
member has more members below it (`RanksAre`), and a map of a finite set into as many
ranks that takes none twice leaves none out. The list of targets, unlike that of buttons, needs
`Separated`, and the property says so.

`EveryDocument` says what `DocumentsReadBack` says, of all documents: those with
integers of 64 bits and texts of any length, containers with any number of values,
any depth and any `References`. `Encoding`, `Decoding` and `Building` go through a
document value by value; `Lockstep` compares them after each. If all so far can be
written, the encoder has written bytes, and a decoder given any data that agrees with
these bytes as far as it goes (`Agree`) has come to their end, unless the data is
shorter or a plain 39 was among them; then it has failed (`Decoded`). Where it has
come, two things hold. Its frames are those of the document (`Mirrored`), but that a
container which ends at a terminator counts down from -1. And its table of values is
in step with the encoder's (`InStep`): where a reference can reach, both have the same
at the same place; beyond that the decoder may have counted values that the encoder
has not. `Matches` puts the two together. An atom (`JointAtom`), the beginning of a
container (`JointOpening`) and its end (`JointEnd`) each keep this, whatever comes
after: what is written never depends on what follows, nor does what is read
(`NextDecoded`). The tags are told apart by their ranges (`TagRanges`), numbers by
their bytes (`SignedReadBack`). The end of the document leaves the one value in the
lowest frame; a byte too few has failed, and a byte too many is noticed because the
decoder stops before it (`StopIs`).

`EveryMessage` adds that a header is a dictionary of atoms (`DictIs`), with distinct
texts for keys, so that each is looked up with its value (`MappingIs`); that the
length byte finds the end of the header and the beginning of the message
(`PayloadParts`); and that `_decode_message` takes the kind, the names and the numbers
from it (`MessageRead`). `IsMessage` is what it asks of a message: a protocol that is
not empty, which every caller gives, and a dictionary without a plain 39.

Only model-checked: the liveness properties (`CancelTakesEffect`, `FinishEnds`,
`PendingEnds`, `LockHandedOn`), which are beyond TLAPS, and the violations. Every
invariant and every refinement that a passing run checks has a theorem.

## Not modelled

* The hello handshake, framing, encryption and Pair Verify: cryptography.
  A frame under the wrong keys is `Reject`.
* Of the HDS codec: what UTF-8 does to a text (a text is its bytes, and all bytes
  are a text), and what a float packs to (a float is those bytes: minus zero equals
  zero in Python and NaN not itself).
* Opus encoding, a call into libopus; the command line; constants.
* The accessory database of `hap.py` (services, formats, permissions): fixed
  tables. The values of its characteristics and their roll back are modelled.
* HTTP routing and formats: requests keep no state. The timeouts by which they
  cancel the calls they make are.
* A `stop()` that is cancelled while it awaits the watching task
  (`remote.py:198`): it has forgotten the active session by then, which only
  matters to a program that starts the same object again.
* A `targets.json` that cannot be parsed, and its quarantine.

## Plan

Done, in this order: `SiriSession` and its refinement of `AudioStream`;
`TargetControl`, its proofs and its composition with HAP sessions in
`Characteristics`; `HdsServer` with its proofs; `SiriAccess` with its proofs; the
codecs; the proofs of `SiriSession`; the interface between a session and those who
hold it (`SessionLife`), the order of the callers (`UtteranceLock`), and the proofs
that the detailed modules implement them; the proofs that TLV8 and the target list
read back as they were written; the HDS codec without recursive operators, and the
proofs that its documents and messages do.

Left: the start of the process with a damaged `targets.json`.

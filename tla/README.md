# Botslab Doorbell: models, checks and proofs

This directory holds TLA+ models of the Home Assistant integration in
`src/custom_components/botslab`, the TLC runs that check them on small instances and the
TLAPS proofs of their main properties for every instance. `PROJECT.json` lists the runs, the
lines of code every definition stands for, a mutated form of the code for every property
(each property finds its own), the hazards of the code and the theorems.

    tlc -workers 2 -config MCLiveManager.cfg MCLiveManager      # a run
    tlapm LiveManagerProofs.tla                                 # a proof

Paths below are relative to `src/custom_components/botslab`.

## 1. Inventory

The integration talks to three remote parties: the Botslab cloud (HTTPS), a push gateway
(TCP) and the relays of the live view (TCP and QTP over UDP). Everything runs on Home
Assistant's event loop except the live engine (a thread) and ffmpeg (a process).

| component | state | operations | talks to |
|---|---|---|---|
| API client `api.py` | `q`, `t`, `sid`, `push_alias` | `_call`, `app_login`, `set_tokens`, the queries | cloud; shared by every task |
| Session ladder `coordinator.py` 71-118, `quc_login.py` | the tokens in the entry's data | `ensure_session`, `_full_relogin`, `_relogin` | API client, config entry |
| Event feed `coordinator.py` 121-191, `models.py` | `_seen`, `_primed`, `_snapshot_ctime`, `snapshot_bytes` | `_process_poll_events`, `dispatch_event`, `_cache_snapshot` | the poll, the push tasks, entities |
| Push connection `qpush.py` | `_writer`, `_closing`, the heartbeat tasks | `run`, `stop` | gateway, `coordinator.handle_push` |
| Entry set-up `__init__.py`, `config_flow.py` | the entry's data and options | set-up, unload, reload, reauth | all of the above |
| Live manager `live/manager.py` | `_lock`, `_engine`, `_ff`, `_server`, `_clients`, `_idle_handle` | `async_get_stream_source`, `_on_client`, `_async_idle_stop`, `async_stop` | engine, ffmpeg, local TCP consumers |
| Live engine `live/engine.py` | flags, timers, keys, the legs | `run`, `stop`, the stream loop | cloud, tunnel, relays; sink in the manager |
| QTP transport `live/hub.py` | `_rcv_nxt`, `_seg`, `_stream`, `_gaps` | `absorb`, `take_frames` | relay (UDP), engine |
| TCP relay `live/relay_tcp.py`, `relay.py` | the byte stream, the framing guess | `login`, `take_frames`, `drain` | relay (TCP), engine |
| Signalling `live/tunnel_signal.py` | a socket and a counter | one datagram per call | tunnel server |
| Live cloud calls `live/cloud.py`, `cloudcontrol.py`, `schedule.py`, `_http.py` | none | requests | cloud |
| Clip view `http.py` | files of the clip cache | `get`, `_write_cache` | API client, ffmpeg, disk |
| Conversions `crypto.py`, `clip_crypto.py`, `live/crypto.py`, `models.py` | none | pure functions | |
| Entities `camera.py`, `event.py`, `image.py`, `sensor.py`, `binary_sensor.py`, `device_trigger.py` | cached attributes | read the coordinator, call the manager | |
| Media browser, diagnostics | none | listings | API client |

What is hard in each, and what makes it correct:

- **Live manager.** Coroutines suspend with and without the lock and can be cancelled at each
  wait; the engine and ffmpeg end on their own. A session must never be lost sight of, run
  unwatched (the doorbell has a battery) or be torn down under a consumer.
- **QTP transport.** Datagrams are lost, reordered and repeated, and are never sent again by
  the relay. A decoder must only see whole frames, in order, once.
- **Event feed.** Pages of different sizes and ages arrive in any order; each new event must
  be announced once, none twice, none from before the start; pictures must not go back.
- **Session.** Several tasks climb one ladder of log-ins on one shared object while another
  device logs in on the same account. The session must heal; the user must not be asked
  without cause; what is stored must be what is in use.
- **Push connection.** Failures at every step, silent breaks, lost acknowledgements, an
  unload at any await. Pushes must come through in the end and nothing may stay open.
- **Engine.** Retries, re-dials and wake-ups on timers, stop from another thread, a gate on
  the first keyframe, a memo shared by engines that follow each other. It must end when told,
  get a picture from a sleeping device, use each credential for what it was minted for, and
  never feed the decoder P-frames without a keyframe.
- **Pacing.** A thread hands frames to the event loop, a bounded queue drops the oldest, a
  pacer follows the device's clock. The picture must start at its keyframe and stay near live.
- **TCP relay.** Frames are cut from a stream whose framing is guessed, whose lengths are not
  trusted and whose chunks end anywhere. Each frame must be cut out once and at its place.
- **Clip cache.** Concurrent requests share a file, a temporary name and an eviction, and
  their clients may leave at any await. A served file must be whole; nothing may pile up.
- **Clip decryption.** Slices and audio frames are scattered over packets and escaped. All that
  was encrypted must come back byte for byte and nothing else may change.

## 2. The modules

| module | what it is | checked by | proved in |
|---|---|---|---|
| `LiveManager` | the life cycle of live sessions | `MCLiveManager`, 2 runs | `LiveManagerProofs` |
| `EngineLife` | abstract: the life of an engine thread | through `LiveEngine` | `LiveEngineProofs` |
| `LiveEngine` | the engine thread, implements `EngineLife` | `MCLiveEngine` | `LiveEngineProofs` |
| `LivePacing` | a frame's way from the engine to ffmpeg | `MCLivePacing` | `LivePacingProofs` |
| `FrameChannel` | abstract: a lossy channel of whole frames | through `QtpReassembly` | |
| `QtpReassembly` | the QTP receiver, implements `FrameChannel` | `MCQtpReassembly`, 2 runs | `QtpReassemblyProofs` |
| `TcpRelayFraming` | login and framing of the TCP leg | `MCTcpRelayFraming` | `LiveEngineProofs` |
| `EventFeed` | events and pictures | `MCEventFeed` | `EventFeedProofs` |
| `AccountSession` | log-ins, set-up, reload, reauth | `MCAccountSession` | `AccountSessionProofs` |
| `PushLink` | the push connection | `MCPushLink` | `PushLinkProofs` |
| `ClipCache` | requests for clips and their cache | `MCClipCache` | `ClipProofs` |
| `ClipDecryption` | decryption inside a transport stream | `MCClipDecryption` | `ClipProofs` |

How they fit together:

- `AccountSession` says how a page of events comes to be fetched, `EventFeed` what is done with
  it, `PushLink` how the push that asks for it arrives. They are kept apart because their state
  is: the feed never reads the session's, nor the link the feed's.
- `LiveManager` and `LiveEngine` meet in `EngineLife`. The engine is checked
  (`LifeKept`) and, for the safety part, proved (`EngineLives`) to implement it; the manager's
  `engine[s]` has its three states, and the manager relies on its fairness: an engine that was
  told to stop ends. The manager may tell an engine that has ended, or tell one twice
  (`_stop_engine_locked` does not look); what is checked of its side is that no caller is let
  on with an engine that was told to stop or has ended (`NobodyJoinsADyingEngine`).
- `LivePacing` takes the sessions from `LiveManager` and the frames from `LiveEngine`, cut down
  to when they come and what time they bear. `QtpReassembly` and `TcpRelayFraming` are the legs
  that `LiveEngine` dials; what they hand on are its frames.
- `ClipCache` has the download of a clip as one step; what is done to its bytes there is
  `ClipDecryption`, whose `DecryptAnnexb` is also what the engine does to an access unit.

Every module follows one scheme. An action is what the code does between two suspension
points (`await`, a blocking call); its guard is the code's condition. A definition called
"Mutated form of X" is X with a plausible bug; nothing uses it but the mutation check.
Timeouts may fire at any moment, which includes every real schedule. Counters that
only bound a model (`MaxFaults`, `MaxNews`, `N` ...) are constants named so.

### LiveManager

Processes are the calls of `stream_source` (viewers), `_on_client` (connections),
`_async_idle_stop` and `async_stop`; `pc` says where each is suspended. `holder` and `waiters`
are the asyncio lock: first in, first out, and a cancelled waiter leaves the queue. A session
is named after the call that started it. `engine[s]` and `ff[s]` are its thread and process,
which may end at any time. `_stop_engine_locked` is three waits (`stopEngine`, `stopTasks`,
`stopFf`), each of which a cancelled viewer may leave half way. Media itself is left out but
for the first chunk; so is the idle grace of the timer, which may fire whenever it is armed.

`server.wait_closed()` is modelled as Python 3.13 has it (`pyproject.toml` requires it): it
returns when every accepted connection is gone.

### LiveEngine

One camera's engines, one after the other (`NextSession` is the manager starting the next);
`memo` is what `_SETUP_CACHE` keeps between them. A step is one call that blocks, or one
operation of a pass of `_stream_loop`. Each call of the set-up succeeds or fails
(`SetupFails`); `tries` counts the attempts of `run`, which reuse the object, so that what an
earlier attempt left in it is still there. `told` is `_stop`, set from another thread at any
moment. Time is left out: a timer may be due at any pass. Requests and replies are UDP, so
they are lost, repeated and overtaken; in flight they are a set. The device sleeps when it
likes, is woken by the cloud, and sends video once the authorisation has reached it. The key
list is "fresh" or "stale" against the cloud's last rotation; `late` is the answer of an engine
the manager gave up on, which it stores into the memo some time later.

Left out: the audio leg's own frames (what the loop does with them changes none of this
state), logging, and the keep-alives, whose only effect is that a failing send ends the loop
(`LoopBreaks`).

### LivePacing

`Emits` is `_sink` in the engine's thread, `Enqueue` the callback it puts into the loop, `Takes`
and `Writes` the two halves of `_pace_ffmpeg` around its sleep. Time is a counter that does not
pass while a task of the loop can run. `heirs` remembers the engines that outlived an earlier
session (the five-second wait of `_stop_engine_locked`), or whose frames did.

### QtpReassembly

Datagrams are numbers, the byte stream a sequence of them, byte offsets are counts of
datagrams. `absorb` and each turn of `take_frames`' loop are actions. Sequence numbers are
taken modulo `SnMod`, and compared as the code compares them. `Plain` is the case the theorems
are about: a stream whose numbers neither start at 0 nor wrap, and whose ciphertext never
reads as a frame head.

### TcpRelayFraming

The stream is a sequence of tokens of one byte or more: a QTP header (two tokens, so that a
length field may end inside it), the head of an app-frame, pieces of its body; it is given by
where each frame's body begins (`Begins`). `read` is how many have arrived, `pos` how far the
parser came; a chunk may end after any token, and each turn of `take_frames`' loop is an action
(`CutsFrame`, `NoFrameLeft`). `Overrun` says by how many tokens a frame's length field is too
large, from none to beyond all that follows: the code cuts such a frame at the next genuine
head, if it sees one. When the chunk and the length field end inside that head it does not, cuts
the head in two and loses the frame. What is left at the front is then the rest of a body, a
header or a head, and `_strip_qtp` reads some length out of it: `StripsTo` takes 14 bytes of it
or none, `Detected` allows that these pass for a QTP header, and `TrimsTo` cuts a buffer without
a head down to its last three bytes once it is longer than `Trim` (2 MB in the code). The
relay wraps its frames or not, and understands only a login in its own framing.
`LoginTimesOut` makes the second attempt, with what the first one read still in the buffer.
The specification is `RelaySpec`, as the engine's proofs use the module beside the engine's own.

### EventFeed

An event is its place in the account's history; `Ctime` is its own clock, in any relation
to it. A page is its newest event and its size; it may be `Lag` events old when it is
processed. `_seen` is an ordered dict with eviction: an id is remembered until `SeenMax`
others were put in after it (`order`, `puts`). `_process_poll_events` has no await, so nothing
comes between the actions of one page; it is split so that each event is one action.
`RoomAssumption` is the only demand on the sizes: `SeenMax >= 2*(Lag+PollPage)-1`, in the code
512 against pages of 20, so that pages may be 236 events late.

### AccountSession

The cloud keeps one valid pair of tokens per account (the README's note on one active
session), so `TakeOver` mints new ones; sids are valid for an epoch. Each task is suspended at
one call at a time: `asked` is the header built when it was made, `answer` what came back. The
tasks are the poll and those that pushes start. A re-login persists the tokens
(`quc_login.py:151`) before it hands them to the API object; once the set-up has registered the
update listener, that asks for a reload, which cancels the tasks and starts from the stored
tokens.

Assumed: an entry has credentials; the reauth flow ends with the right password;
`device_property` for several devices is one call; a reauth flow overtaken by a reload is
left out.

### PushLink

`run` is suspended at the session, the dispatcher, the connect, a drain, the read or the
backoff. A connection can break with a sign (`lost`) or without (`dead`); a dead one is
noticed only by a heartbeat. A heartbeat that a second acknowledgement of the bind makes run
forget is not cancelled and ends by the error of its own write. The gateway keeps a push until
it is acknowledged. Home Assistant (2024.12, `hacs.json`) runs `stop` and cancels the task in
one go, so the cancellation is the next thing `run` sees.

### ClipCache

A request is a call of `get`. A step is what happens between two awaits of the handler, or one
system call of the thread of `_write_cache`, which goes on when its request is cancelled. The
directory maps a clip and a name (its own, or the temporary one) to an inode; an inode is
named after the request that created it and is whole or short. So an open that truncates, a
rename over another file and a removal of an open file do what a file system does. An hour may
pass (`_CACHE_TTL`), clients leave at any await, and Home Assistant restarts at any step. The work
directory of `_remux` is made (`MakesWork`), filled (`Prepared`), used and removed (`Cleaned`). The
disk may fail in each: an error while it is filled comes before the `try` that removes it
(`WorkFails`), and `rmtree` is told to ignore errors. A cancelled request goes to its `finally`
while its ffmpeg runs on, so its directory is removed, or not empty in the end, or its removal is
never begun. `broken` remembers the requests that the disk or a restart kept from cleaning up. The
process id of Home Assistant, which is part of the temporary name, is taken to be the same after a restart, as it is in a
container.

### ClipDecryption

`decrypt_mpegts` with everything it calls, run once over a clip. An external encoder makes the
clip from a recording: a sequence of NAL units with start codes of three or four bytes, the
payloads of the audio frames, how many bytes the clip is short of at its end (`drop`), and what
piece of which stream each packet carries. It encrypts a slice's RBSP behind the boundary, escapes
it, and cuts the streams into packets (`Encoded`). `RecordingsAreClips` says what a recording is:
any units of at least one byte and any frames, and packets that carry each stream from its
beginning to its end, in order; the streams may be interleaved in any way and cut at any byte.

Bytes have two bits, enough for start codes and emulation prevention; the offsets (0x100, 12
bytes of IV, 0x20) are constants. The cipher is any keystream that depends on the IV
(`Keystream`). `Rbsp` is the set of positions that `_rbsp_map` lists, and the order of the bytes in
it is counted (`NumberOf`, `BeforeEnd`); `AdtsFrames` is the loop of `_decrypt_adts`.
An audio frame is its sync byte, its length and the rest; the sync byte is 2, or 3 when a CRC of two
bytes follows the length, so that the payload begins two bytes later (`HeaderLen`).
`VideoRecovered` and `AudioRecovered` compare with what the camera saw, not with another way to
compute the same.

## 3. The runs

| run | distinct states | what it shows |
|---|---|---|
| `manager` | 486,000 | two viewers, a consumer, an idle task, an unload, every interleaving: no orphan session, none unattended, no unjustified teardown; an engine ends unless somebody watches (`BatterySpared`), each viewer is answered unless an unload hangs (`ViewersAnswered`), nobody is let on with a dying engine (`NobodyJoinsADyingEngine`) |
| `manager_unload_ends` | | **violation**: `async_stop` waits, with the lock held, for a connection that waits for the lock |
| `engine` | 223,000 | engines without end, each set-up call failing, losses, sleep, key rotation, stop at any moment: `OneMint`, `RefusedIsForgotten`, `PictureStartsAtKeyframe`, the refinement of `EngineLife`, and a session gets its picture but for four named reasons (`FirstPicture`) |
| `pacing` | 2,000,000 | two sessions, the first one's engine outliving it, bursts larger than the queue, a clock that jumps either way: `PictureFirst`; `NearLive`, while no earlier engine emits |
| `qtp_safety` | 136,000 | eleven datagrams of five frames under every loss, order and repetition; refinement of `FrameChannel` |
| `qtp_wrap` | | **violation**: after the 16-bit number wraps everything is dropped as stale |
| `relay_stream` | 3,200 | six frames, three with overrunning lengths (into the next header or head, and beyond), in every division into chunks, wrapped or not, with every time-out of the login: `FramesAsSent`, `StartsUnderstood`; a frame is lost only behind a length field that ends in its header or head |
| `events` | 432,000 | five events, two devices, pages and downloads in any order, reloads |
| `account` | 140,000 | poll and push task against take-overs, expiries, failed answers and reloads: `SessionHeals`, `EventsAreNoticed`, `AskedWithCause`, `TokensAreStored` |
| `qpush` | 71,000 | one push over at most three connections, binds repeated or refused, breaks of both kinds: `OneSocket`, `EveryPushHandled`, `LinkEnds` |
| `clip_cache` | 509,000 | three requests for two clips, evictions, cancelled requests, disk errors, restarts: a bad answer comes of two threads on one file only; a work directory is left only by a client that went, a disk that failed, a restart |
| `clip_decryption` | 94,000 | slices with up to six zeros and threes (or four other bytes) behind the header, other units before and behind them, every two short audio frames, with a CRC and without, clips that end in the second, slices and frames cut by packets: what was encrypted comes back |

The two violations check the sentence of the repository their finding quotes. Where the code
does not keep what one would wish in full, the passing run names the exception as a definition
of its own, and the property is the strongest we found to hold: `Stuck` (account), `Stranded`
(qpush), `OutOfDials`, `Dark`, `SoundOnly` and `Forgotten` (engine), `heirs` and `dropped`
(pacing), `EndsInHead` (relay), `disturbed`, `gone` and `broken` (clip cache). Section 5 has what
these stand for. A hazard whose bad case is just such an exception has a note saying so instead of a
property.

**Bounds.** Manager: two viewers and a connection let one wait for the lock, one hold it and
one be cancelled. Engine: two attempts are one retry, two dials one re-dial; the number of
engines is not bounded, so what one leaves to the next shows. QTP: a frame of five datagrams
has room for two gaps, two keyframes frame it, and `GapSkip` 2 lets the window fill, be skipped
and fill again. Pacing: a queue of three overruns with a burst of five, a jump ahead is longer
than `Reanchor`, and twenty units outlast both sessions. TCP relay: after a message and the login's answer, the third frame's length field ends in the
next head if wrapped, the fourth's in the next QTP header or head, the fifth's beyond both, the
sixth is plain; `Trim` 3 is the least the assumption allows, so that every longer leftover is
trimmed. Events: `SeenMax` 5 is the least room that `RoomAssumption` allows, so that an
off-by-one in the eviction shows; the fourth event's clock lies before the second's. Account:
one of each trouble is enough for every pair of them to meet; two push tasks need more memory
than they show. Push: three connections, so that the wait reaches its maximum. Clip cache: one
clip with two writers and a later reader, or a second clip's writer that evicts. Clips: six
bytes behind the header hold the boundary, an escape on either side of it and one across it.

**Fairness.** The manager: coroutines that are ready go on, timeouts fire, a process told to
terminate and an engine told to stop end (`EngineLife`); nothing makes viewers come, consumers
leave or calls be cancelled (`PoliteSpec` adds consumers that leave, for the violation that
needs it). Engine: every blocking call of the set-up has a timeout and each step of the loop
recurs (weak fairness); a request, reply or wake-up that is sent again and again gets through
some time, and a device that sends video sends keyframes (strong fairness, since losses and
sleep disable them in between); nothing makes the device wake by itself or the keys stay. QTP:
only `take_frames`, which does not wait for anything. Account: the scheduled refresh, a reload
asked for, and the answer of every call (each has a timeout). Push: `run`, the heartbeats (a
sleep and a write each), and a gateway that answers a bind, resends what is not acknowledged
and receives what is sent on a working connection. Reauth and the troubles have no fairness.
`CHECK_DEADLOCK FALSE` stands where the system does come to rest: nobody watches any more, the
entry is unloaded, all requests are answered, the stream, the clip or the time of the run is
over.

## 4. The proofs

| module | theorems | assumes |
|---|---|---|
| `LiveManagerProofs` | `IInv`, `TypeOK`, `NoOrphanSession`, `TeardownJustified`, `WatchedOrTimed`, `NobodyJoinsADyingEngine`, `WaitersQueued` | the sets of processes are disjoint |
| `LiveEngineProofs` | `IInv`, `TypeOK`, `OneMint`, `RefusedIsForgotten`, `PictureStartsAtKeyframe`; `EngineLives`: the refinement of `EngineLife` without its fairness | positive bounds |
| `LiveEngineProofs`, on `TcpRelayFraming` | `RelayInv`, `FramesAsSent`, `StartsUnderstood` | `SourceAssumption`: no body is empty, a length field is right or too large by any amount, 2 MB are more than a header and a head |
| `LivePacingProofs` | `IInv`, `PictureFirst`, `DInv`, `NearLive`, `PacerNeverStalls` | `PacingConstants` (types and order of the constants), `SteadyClock`: a device's clock goes on with its frames, or jumps back or ahead |
| `QtpReassemblyProofs` | `IInv`, `TypeOK`, `WindowBounded`, `GapsRecorded`, `NothingNewIsDropped`, `EmittedIntact`, `KeyframesSurvive`, that each turn of the loop consumes (`TurnsConsume`), and the refinement of `FrameChannel` | `Plain`, frames do not overlap |
| `EventFeedProofs` | `IInv`, `TypeOK`, `ExactlyOnce`, `OnlyNew`, `PictureNeverGoesBack`, `PictureFollows` | `RoomAssumption` |
| `AccountSessionProofs` | `IInv`, `TypeOK`, `AskedWithCause`, `TokensAreStored` | `SourceAssumption` |
| `PushLinkProofs` | `IInv`, `TypeOK`, `OneSocket`, `NoSocketAfterStop`, `RedialsArePaid`, `NoPushGivenUp` | `SourceAssumption`: pushes are not answers to a bind |
| `ClipProofs`, on `ClipCache` | `IInv`, `TypeOK`, `OnlyRacesSpoilClips`, `NameMeansWhole`, `WorkIsCleaned` | `None` is no request |
| `ClipProofs`, on `ClipDecryption` | `RecoveryInv`, `VideoRecovered`, `AudioRecovered` | `OffsetsAreOffsets`: positive offsets, the IV fits before the payload; `RecordingsAreClips` |

Where `TypeOK` or `IInv` is proved and not in the list of a run, the proof makes the run's
check of it needless; TLC agreed with each before it was proved.

*LiveManager.* The safety properties are not inductive: what a coroutine may rely on after a
wait depends on who else can run. The strengthening adds that only one process is between
taking and releasing the lock (`LockOwner`) and what the holder sees at each suspension
(`HolderView`: at `exec` and `closing` there is no session; while stopping there is one that
was told to stop, at `stopFf` its ffmpeg too). One lemma per kind of process, one step per
action. That nobody joins a dying engine needs in addition that the current engine has not been told
to stop while the lock is free (`CurAtRest`), and is told only by the lock's holder.
`WaitersQueued` says that the lock's queue is right whatever is cancelled when: nobody waits
outside it and nobody in it has gone, so that a release always finds somebody who goes on.

*LiveEngine.* `OneMint` needs that no credential exists before the last call of an attempt
(`MintedLast`), the bound on attempts that one is left whenever one may begin (`AttemptLeft`),
the gate that something was given exactly if the keyframe was good (`GivenWhenGood`). For the
refinement each action is shown to start, tell or end the engine's life or to leave it alone.

*TcpRelayFraming.* Its theorems are in `LiveEngineProofs`, which extends both modules. The
invariant says what may be at the front of the buffer (`FrontIs`): a frame whose head the front has
passed and that was not cut out is missing behind a length field that ends in its head
(`MissingBehind`); what is left of a QTP header follows a length field that overran
(`TornHeader`), as does a head that stands bare at the front (`BareHead`); without wrapping the
front is a head or a frame is missing (`UnwrappedFront`). A turn of `take_frames` either cuts the
next frame, exactly when its end can be told and where `CutAt` says (`FrameEndIs`), or into the
next head; both keep this (`CutLeaves`), and so do stripping and trimming (`StripLeaves`,
`TrimLeaves`), which never pass the head of a frame that has arrived. Between two drains none
has that the front has not passed (`NoneArrived`). The framing is guessed from the front, so
`StartsUnderstood` follows (`FramingFits`). The positions are sums, given as a constant with the
assumption that it grows, so that no induction over the frames is needed.

*LivePacing.* While nothing was dropped and no other engine emits, the frame ffmpeg will get
first is this engine's first wherever it is on its way: among the calls in the loop
(`CallsInOrder`), at the head of the queue, or in the pacer's hands (`FirstOnItsWay`). Who may
emit is `EmittersKnown`.

Its two bounds on waiting are deadlines (`DInv`), which hold when a frame joins the queue, and
time passes only while the pacer sleeps. Each frame ahead costs one capped sleep at most
(`SleepsAhead`), which gives `PacerNeverStalls`. For `NearLive` each frame ahead costs one
spacing, if it starts the clock anew, or is written when its clock says, which is `Reanchor`
after that clock's start at the latest (`Deadlines`); this needs the frames to be this engine's,
in order (`OwnFrames`). With an earlier engine's frames between them the bound does not hold: two
clocks that take turns kept a frame for 15 units where it allows 14. So the property excludes
them, and `PacerNeverStalls` is what is left.

*QtpReassembly.* The frames emitted are intact because the stream is, up to the gaps that are
noted (`GapsRecorded`): two neighbours in the stream are neighbours as sent, or an offset in
`_gaps` lies between them. That needs the cursor to stand at the last datagram ever taken
(`CursorAtLast`), and emitted frames to lie before the stream (`EmittedInOrder`), which also
carries the refinement. That no keyframe is lost in the parser takes the converse: a gap is noted
only where something is missing (`GapsAreReal`), the stream still holds the latest of what has been
in it (`StreamIsLatest`), and the head of a keyframe that came is in the stream, or was emitted,
or lacks a datagram that the cursor has passed (`LostForGood`, `KeyframesKept`).

*EventFeed.* The heart is the lemma `UnseenIsNew`: an event on a page that is not in `_seen`
was never put there, so it is new. It needs that a page is at most `Lag` events old
(`PagesAreRecent`), that ids enter `_seen` in an order which `OrderIsInsertion` bounds (between
an event's insertion and its page at most `Reach` older and `Reach` newer ones are put in), and
how far the page under way has come (`PageProgress`).

*AccountSession.* The poll alone asks the user, and rests then (`AskingRests`), so no refusal of
an old password is on its way to a task that asks again once the right one is there
(`RefusedWithCause`). What an answer brings fits the call it answers (`AnswersFit`).

*PushLink.* The writer is the last connection made, and there is one only while `run` is on it
(`WriterIsConn`); every open socket is the writer's (`OpenIsWriter`). Then `connect` happens only
when the connection before it is closed, and `stop` closes all there is. That connections do not
run out is an account: each one but the current was paid for by a fault (`DialsPaid`), and each
heartbeat of a connection by an acknowledgement of its bind (`BeatsPaid`).

*ClipCache.* An inode has one name and one creator (`OneName`, `CreatedOnce`). For a clip that no
two threads disturbed, a writer is alone (`WriterAlone`), holds what is under the temporary name
from its open to its rename (`WriterHoldsTmp`), and what it renames is whole
(`WrittenIsWhole`); a request about to open finds the file (`OpenFindsIt`).

*ClipDecryption.* The invariant (`RecoveryInv`) is short: at each stage the packets carry the
camera's streams, decrypted so far, and audio packets keep their PES headers (`HeadersKept`). What
it takes is that the passes over the bytes do what they should, for streams of any length. The
provers apply no induction, so it is got from the least element of a set of numbers
(`WFMin` of the library): `LeastOf`, and from it `AllNumbers`, which every argument about a length
uses with the set of the numbers it holds for. From there:

- `FlattenIsBlocks` places the bytes of joined sequences, so that `PositionsAre` says where in the
  packets each byte of a stream is, and `StreamAtPositions` and `StreamRewritten` what is read and
  what putting back changes: the one stream, and nothing else. `EncodedCarries` is the camera's
  side.
- `FramesFound`: the search of `_decrypt_adts` finds the camera's frames one behind the other,
  and then nothing before the cut one, so that each byte is decrypted with the keystream of the one
  frame that holds it (`AudioDecrypts`).
- `EscapedPlaces`: escaping moves byte j of a unit to a place at[j], with only threes behind two
  zeros between; hence `StartsAre`, start codes are where the camera put them and never inside a
  unit, and `RbspIs`, `_rbsp_map` finds these places again. `CountOf` and `NumberIs` count them, so
  that the IV and the number of each byte in the keystream are the camera's (`PayloadIs`,
  `VideoDecrypts`). The two ways of naming the boundary, by the raw offset and by the RBSP, agree
  because both sides escape alike before it (`EscapedAlike`, `BoundaryIs`): the bytes in clear are
  the same before and after the encryption.

**Only model-checked:** the liveness properties (`BatterySpared`, `ViewersAnswered`, `FirstPicture`,
the fairness in `LifeKept`, `TakeFramesEnds`, `SessionHeals`, `EventsAreNoticed`,
`EveryPushHandled`, `LinkEnds`), as fairness and ENABLED are out of the prover's reach. Every safety
property of a passing run is proved.

## 5. Seen while modelling, without a run of its own

Live view:

- `live/manager.py:185`: a viewer queued for the lock behind `async_stop` gets it next and
  starts the session again, after the unload.
- `live/manager.py:208`: a re-open looks at the engine's future only; when ffmpeg died and the
  engine runs on, the viewer joins the dead session, which is what the docstring of
  `_ensure_engine_locked` calls "a URL backed by a dead engine".
- `live/manager.py:390`: the engine is waited for five seconds; one that takes longer runs on
  beside the next session, where the class docstring (line 115) speaks of one, and its frames
  go into that session's queue (`heirs`).
- `live/manager.py:401`: a viewer cancelled inside a reap raises out of `stream_source`; the
  camera's streaming flag (`camera.py:72`) is not reset then.
- `live/manager.py:284`: the clock is anchored anew every two seconds of a steady stream, since
  `dt` counts from the last anchor, where line 272 speaks of a timestamp jump. The "~6s cap"
  (223) holds for the queue alone; a frame may wait up to 2 s longer (`NearLive`), and with an
  engine that outlived its session longer still, since the clock starts anew with each of its
  frames; but not longer than one capped sleep for each frame before it (`PacerNeverStalls`).
- `live/manager.py:297`: the comment says a pacing glitch never kills the stream; any exception
  ends the task, and with it the stream. `stdin` is written without a drain (304).
- `live/engine.py:160`: `_t`, the token of line 132, is overwritten by the table of timers, so
  a login of the engine itself (without the coordinator's sid) sends an empty table for T
  (`live/cloud.py:69`); the model takes it that the cloud refuses that login (`HeldT`, `Login`).
- `live/engine.py:417`, `:434`: the relay is dialled eight times at most, and a device that was
  authorised or published once is asked or woken no more when it falls asleep.
- `live/engine.py:617`: only the session's first keyframe is validated; when it is corrupt the
  session stays dark, where the docstring (598-600) speaks of dropping a keyframe. The docstring
  at 99 says a keyframe's slice is longer than 0x100; the code does not look.
- `live/engine.py:229`: an engine that was given up on stores its key list into the memo when its
  answer comes, also after a rotation.
- `live/hub.py:155`, `live/tunnel_signal.py:132`: sends are not guarded; one that fails ends the
  session.
- `live/hub.py:228`: a stream whose first sequence number is 0 is indistinguishable from no
  stream until number 1 arrives; a repetition of datagram 0 restarts it.
- `live/hub.py:304` and `:257`: a gap at the boundary of two frames is forgotten, so the frames
  lost there are not noticed; and after a resync, ciphertext that reads as a head is taken
  for one and waited for up to 2 MB (`:289`).
- `live/relay_tcp.py:128`: "Decide once", but the framing is decided again at each chunk; after
  a wrapped frame with an overrunning length it flips to unwrapped. Only the front frame's
  header is stripped (142), so the next one's is cut off with the frame before it.
- `live/relay_tcp.py:181`: a length field that is too large by less than a head, with a chunk that
  ends there too, makes `take_frames` cut the next head in two: that frame is lost, where the module
  docstring (12-14) and the one of `take_frames` (165-168) say frames are capped at the next genuine
  boundary and every complete one is returned. What is left of it may be 14 bytes long and flip an
  unwrapped peer to wrapped (`StartsUnderstood` names the case).
- `live/relay_tcp.py:174`: a buffer of more than 2 MB without a head is cut down to its last three
  bytes, which may behead the frame whose head is arriving. In the model, which has nothing but
  frames in the stream, only the rest of a frame lost as above makes a buffer so long.

Account and push:

- `coordinator.py:97`: an expired sid is mended only where `message_list` is refused, and
  `device_list`, which comes first, is refused before (`Stuck`); README.md:25 and `api.py:58`
  speak of sessions that heal.
- `quc_login.py:151`: a re-login changes the entry, which reloads the integration
  (`__init__.py:77`); what rings meanwhile is only primed after the start and not announced.
- `coordinator.py:104`: a timeout is no `BotslabError`, so the `device_property` call the
  comment calls non-fatal fails the refresh when it times out.
- `coordinator.py:163`: deleting messages in the app lets older, unseen ones slip into the page,
  and they are announced as new.
- `qpush.py:93`: "clean reconnect resets backoff" never happens while the client runs:
  `_session_once` returns only when it is closing, every other way out is an exception.
  From the seventh break in the life of the task on, every reconnect waits 300 s.
- `qpush.py:182`: no read has a timeout; a connection that dies silently before the alias is
  sent strands the task (`Stranded` in `EveryPushHandled`).

Clips:

- `http.py:72`: the temporary name of a clip is one for the whole process: a second writer
  truncates the first one's file, which may then be renamed and served short, where the
  docstring (138) says complete; and its own rename finds nothing and fails.
- `http.py:150`: a file found valid may be evicted before it is opened. `http.py:160`: errors of
  `ensure_session` are not caught and become a server error.
- `http.py:217`: `_write_work_dir` makes the directory and fills it before the `try` whose `finally`
  removes it, so a disk that is full, or a client that leaves then, leaves it behind. A client that
  leaves later cancels `communicate()` without killing ffmpeg (248), which may write into the
  directory while it is removed; `ignore_errors` (261) hides that it stays.
- `clip_crypto.py:144`: a slice whose ciphertext ends in a zero byte, before a start code of
  three bytes, keeps its last byte encrypted; the zero counts as the start code's (`PlainNal`
  states it).
- `clip_crypto.py:160` and `:180`: the last packet is not looked at for the PIDs, so that a
  stream of one packet, or audio that begins in the last one, is not decrypted (`FindsPid`).
- `clip_crypto.py:4`: "AAC audio [is] in the clear", but the code decrypts it; lines 11-12 give the
  boundary by the RBSP, the code by the raw bytes. `live/crypto.py:4` says live media must not
  be unescaped; the engine uses `decrypt_annexb`, which does so.

## 6. Not modelled, and what is left

Not modelled, and why:

- `crypto.py`, `models.py` and the layout of messages, signals and datagrams: pure conversions,
  covered by unit tests; what the models need of them is named where they use it.
- `config_flow.py` but for the reauth flow: forms of one step without state between them.
- The entities: they read the coordinator's data; the camera's calls into the manager are in
  `LiveManager`.
- The media browser and diagnostics: read-only listings. The browser's calls of
  `ensure_session` are one more task of `AccountSession`'s kind.
- RC4 and the unused `raw_decrypt_slice`.

Left for the future, in order: a page model with holes for deleted messages in `EventFeed`; the
acknowledgement numbers of `hub.py`.

# A verification project for android-webrtc-aec

The library plays what an application receives from the far end, records the
microphone, and cancels the echo of the one in the other. It is a few hundred
lines of Java around a native canceller, and nearly all of its difficulty is
concurrency: three threads and a callback that share plain fields, two byte
rings without a lock, one class-wide monitor, and Android devices that block,
fail, or report late.

Paths below are relative to `src/libwebrtcaec/src/main/java/com/android/aec/`
(Java) and `src/libwebrtcaec/src/main/jni/native/` (C, C++).

## 1. The system

| Part | State it keeps | Operations | Interacts with |
|---|---|---|---|
| `core/AECCore.java` | session flags (`mIsWorking`, `mIsPlayThreadAlive`, `mIsRecodeWorking`, `audioRecodeStart`, `isFirst`, `isClearing`, `shouldClear`), `playCount`, `playPosition`, the AudioTrack and the AudioRecord, two threads | `start`, `stop`, `release`, `putData`, `getFilterData`; the play thread, the record thread, the position callback, a delayed notifier | the rings, the Android devices, the canceller, the application's listeners |
| `core/FilterBuffer.java` | byte ring: two volatile indexes, a plain flag `isNextLine`, the array, the array handed to the reader | `putAll`, `takeAll`, `alignIndex`, `clear`, `release` | play thread to record thread (`playBuffer`), record thread to application (`filterBuffer`) |
| `core/FilterBuffer2.java` | the same with a 16-byte header per frame, and `shouldCache`, `cacheIndex` | `putAll`, `takeAll`, `getFrame`, `clear`, `release` | application to play thread (`buffer`) |
| `api/AudioPlayer.java` | the singleton, `mHasInit`, `mPlayer` | `init`, `start`, `stop`, `release`, pass-throughs | creates AECCores |
| `util/WebRtcUtil.java`, `com_android_aec_util_WebRtcUtil.c`, `audio_aec.cpp`, `webrtc_aec.cpp` | one global handle and a mutex; the record behind the handle; the globals `apm`, `far_frame`, `near_frame`, `SAMPLE_RATE` | `init`, `bufferFarendAndProcess`, `free` | called by the AECCore constructor, the record thread and `release`; calls WebRTC's AudioProcessing |
| `profiles_management.c` | a text file of settings, a mutex made by its first user | `read_profile`, `write_profile` | would be called by `ingenic_apm_init` (`#if CONFIG_FILE`, which is 0) |
| `api/AudioFrame.java` | header and data of a frame | getters and setters that encode little-endian | `FilterBuffer2` |
| `AECCore.onVolumeChanged`, `MyVolumeReceiver` | `volume`, `near_v`, `far_v` | on each volume broadcast | read by the record thread |

How a frame travels: the application calls `putPlayData`; the play thread
takes the frame from `buffer` (or silence), puts it into `playBuffer` and writes
it to the AudioTrack; the record thread takes it from `playBuffer`, reads one
frame from the AudioRecord, lets the canceller subtract the one from the other
and puts the result into `filterBuffer`; the application polls
`getFilterData`. The canceller is only right if the frame taken from
`playBuffer` is the one that is being heard while the microphone frame is
recorded. When `playBuffer` runs dry, the record thread therefore stops the play
thread (`isClearing`, the monitor of `AECCore.class`), drains the microphone until a read
takes 10 ms, empties `playBuffer` and the AudioTrack together, sets both counts to zero and
lets the play thread go on.

What is hard, and what would make each part right:

* **AECCore.** The play thread waits without a timeout in two places. Every
  wait must have somebody who will still notify (`NoLostWakeup`,
  `PlaybackGoesOn`), whatever of the devices fails, and `stop`, which joins both
  threads while it holds the player, must return (`StopReturns`, and how:
  `StopNeverStuck`, `StopGoesForward`) and leave
  nothing behind (`StoppedIsQuiet`). A clear must really leave the two streams
  in step although `isClearing` is tested long before it matters
  (`ClearedTogether`). A detected underrun must be dealt with
  (`UnderrunIsCleared`), and recording must begin (`WarmUpEnds`). One loop of the code need
  not end, the drain loop of a clear (468-486), and section 5 says what hangs on it.
* **FilterBuffer.** Two threads, no lock, and a flag both of them write: the
  copies must not overlap (`RegionsDisjoint`), the flag must never hide a frame
  (`NoFrameMissed`), no room may be lost (`RefusedOnlyWhenFull`), and altogether
  the ring must be a lossless stream (`ImplementsStream`).
* **FilterBuffer2.** The same, plus the header arithmetic, the caching gate and
  a `clear` that is called by the consumer. Its frames are not aligned with the array, so
  that much of what makes `FilterBuffer` right does not carry over. A frame that the
  application offers again and again should be accepted at last: while the ring refuses, it should
  have a frame to hand out (`NoOtherJam`), and the reader should get at it (`NoThirdJam`).
* **AudioPlayer, canceller.** There is one native canceller for all AECCores. `init`
  replaces it without the mutex, `release` does not stop the player: it must not be freed
  (`NeverFreedUnderUse`) or replaced (`NeverRebuiltUnderUse`) under the thread that
  uses it, threads of an old player must be gone (`ReplacedAreDone`), the
  joins must end (`CallsReturn`), and a handle should mean a canceller
  (`HandleMeansReady`). Down in the globals, a frame must meet one complete canceller
  (`Complete`), each chunk of the far end its chunk of the near end (`Paired`), chunks must be as
  long as what is processed and lie in the frame although the rate is kept twice
  (`WithinFrame`), all output but an incomplete last chunk must be new (`OnlyTailIsStale`),
  and no native object may be lost (`NothingLeaks`).
* **Profiles.** A mutex that is initialized by whoever comes first (`OneInsideUnlessRaced`),
  some twenty error paths under it (`HolderIsInside`), and searches in a text that is
  truncated and written again: the file should be an atomic map of settings, of which a dying
  process loses nothing, or everything if it was writing, a read finds each setting that is there, and a write
  changes no other setting (`ImplementsSettings`).

The complete list of hazards, each at its line, is `hazards` in `PROJECT.json`.

## 2. The modules

| Module | Contents |
|---|---|
| `FrameStream` | abstract specification of a ring: a lossless stream cut into frames |
| `FilterBuffer` | `FilterBuffer.java`, one step per access to a shared field, its properties, `ImplementsStream` |
| `FilterBuffer_proofs` | its theorems |
| `MC_FilterBuffer` | the lengths put, for TLC |
| `FilterBuffer2` | `FilterBuffer2.java`, on top of an instance of `FilterBuffer` for what `takeAll` has in common |
| `FilterBuffer2_proofs` | its theorems |
| `MC_FilterBuffer2` | for TLC |
| `AudioPlayer` | the facade, the native handle, its mutex and its canceller, and what record threads do to it |
| `AudioPlayer_proofs` | its theorems |
| `MC_AudioPlayer` | for TLC |
| `Canceller` | the native layer in detail: handle, record, globals, objects made and deleted, the chunks of a frame |
| `Canceller_proofs` | its theorems |
| `MC_Canceller` | for TLC |
| `Settings` | abstract specification of a profile: an atomic map of settings whose users may die |
| `ProfileText` | the searches in a profile's text, as operators |
| `Profile` | `read_profile` and `write_profile`, their lock and their file; `ImplementsSettings` |
| `Profile_proofs` | theorems about its lock |
| `ProfileText_proofs` | theorems about the searches: what reads find and writes leave in a text of any length |
| `ProfileSettings_proofs` | the theorem that `Profile` implements `Settings` |
| `MC_Profile` | keys of `webrtc_aec.cpp` and two threads, for TLC |
| `AECCore` | a player: API, play thread, record thread, callback, notifier, AudioTrack |
| `AECCore_proofs` | its theorems |
| `MC_AECCore` | for TLC |

### FilterBuffer

`putAll` is `PutBegin` (the comparison with one read of `mReadIndex`),
`PutCopy` (the arraycopies), `PutFlag` (`isNextLine = true`, only when the write
goes around) and `PutAdvance` (the new `mWriteIndex`); a refused `putAll` changes
nothing. As in the code, only a put that goes around (line 37) and a take behind the write index or over the end (82, 94)
take their index `% Capacity`. In line, `mWriteIndex` and `mReadIndex` are just added to (27, 43, 75), and that they
stay below `Capacity` is a matter of the tests before (`TypeOK`). `takeAll` is `TakeBegin` (the snapshot of `mWriteIndex`), then
`TakeFound` or `TakeNull` (the three tests), `TakeCopy`, `TakeAdvance`, and
`TakeFlag`. Every interleaving of these steps of one producer and one consumer is
a behaviour. `Clear` needs both to be idle, as `stop` calls it after it has
joined them; `Release` may come at any time, and an arraycopy that finds null
throws.

Bytes are named by their position in the stream since the last `clear`, so that
"the right bytes" is an equation. The copies are single steps, which is sound
because `RegionsDisjoint` shows that the other thread is never in the bytes being
copied. What one thread writes is seen by the other in program order: the indexes
are volatile and the flag is written before (`PutFlag`) or read after them.

`filterBuffer`'s consumer is `getFilterData` (synchronized on the player), its
producer the record thread. `playBuffer`'s are the record and the play thread.

### FilterBuffer2

The application's frame is `offered` until `putAll` accepts it, which is the loop of
`MainActivity`; a refusal changes nothing, so that it is not a step. `PutBegin` chooses by
`FitsInLine`, `FitsAround` or `FitsBehind`; the last is line 60, which compares
without the header. `PutCopy`, `PutFlag`, `AddCacheIndex` and `PutAdvance` follow in
the order of the code, and `PutThrow` is the `arraycopy` that fails after the header was
written. `getFrame` is `TakeBegin`, `TakeGate` (the test of `shouldCache`), `TakeClose`
(line 107) and then `takeAll` of `FilterBuffer`, which is the same code line by line; the one
index update that is not wrapped is `TakeAdvance`. All index updates are as in the code:
`mWriteIndex` of a put behind the reader is not wrapped either.

The ring is modelled while the sound is on. `clear` is then only called by `stop`, after the play
thread was joined; the model also asks that no `putAll` is running when the ring is cleared or
released, which `putData`, `stop` and `release` guarantee by being synchronized.

### AudioPlayer

The application calls `init`, `start`, `stop` and `release` one at a time and in any order
(`MainActivity` calls them from the main thread), record threads run beside it. `init` is
`InitCall` and `InitJoin` (the stop of an old player), `InitRefuse` (no context) or
`InitNew`, `Build`, `SetHandle` and `Construct`: while `ingenic_apm_init` replaces `apm` and the frames,
`canceller` is `"building"`. `mHasInit` is set before, `mPlayer` after; in between the constructor may throw
(`InitThrows`: no `hz`, no native library, no memory for the rings, a refused audio mode or receiver), and then `mHasInit` is set
with no player or with the one before, which is stopped. That is why `init` does not stop a player just because
`mHasInit` is set (`AudioPlayer.stop` asks for null), and `start` fails without one.
`Release` takes the buffers, `Free` is `WebRtcUtil_free` under the mutex. A record
thread is in its warm-up, at the top of its loop, before the mutex, or inside. The mutex is
held from `RecLock` to `RecProcess`; `init` does not ask for it. `RecCrash` is a
frame processed by a canceller that was not made, or not yet: it may end the process.

The record threads of all players share the monitor of `AECCore.class`. One that clears (`RecClear`) holds it while
`ClearFrames` frames go through the canceller one after another (`RecThrough`; `left` counts them), which it does not break
off when it is told to stop, and through the drain loop (`"drain"`), which it may never leave. `RecAnnounce` and the clears of others wait for it.
`abandoned` is a history variable: `release` was called while the record thread ran.

### Canceller

`AudioPlayer` has the calls that reach the native layer and keeps of it one variable; `Canceller`
is that layer, with any order of `init` and `free` and record threads that come at any time. `init` is
`InitCall`, `Malloc` (the record), `SetRate`, `Create`, `Initialize`, `NewFar`, `NewNear`,
`Publish`: one step per global written or object made, and a step for each failure
(`NoMemory`, `CreateFails`, `InitializeFails`). `Publish` follows whatever
`ingenic_apm_init` returned. `Free` holds the mutex throughout and is one step. A frame is `Lock` (the chunk is
computed from the record: `aecsize`), then `Far` and `Near` for each chunk, which process
`SAMPLE_RATE` units whatever `aecsize` is, and `Unlock`. `FarCrashes` and `NearCrashes` are the
use of a null pointer.

A pointer is the number of the `init` that made its target, so that "of the same canceller" is an
equation; `live` has the objects that were not deleted. Lengths are in units of which a rate
has one or more in 10 ms. Three history variables say under which
circumstances the properties are claimed: `failed` (the last `ingenic_apm_init` reported failure),
`replaced` (a handle was overwritten that had not been freed) and `overlapped` (an `init` ran
while a frame was processed). That the facade does not let the last one happen, as long as no player is
abandoned, is `NeverRebuiltUnderUse` of `AudioPlayer`, proved there.

### Profile

`profile_lock` is `CheckInit`, `InitMutex`, `SetInit`, `Lock`: the test of `lock_init`, the
initialization (after which nobody holds the mutex, whoever did), the flag, and the lock. `Read` is the whole
of `read_profile` between lock and unlock, which opens the file once and reads all of it into a buffer without
room for a NUL: it searches that and what lies behind (`Tails`), which may be the text of a profile that was freed. `write_profile` is
`Load`, then `AppendSection` (`fopen "a+"`) if it did not find the token, or `Truncate`
(`fopen "w+"`) and `Store`. `Load` finds no token in a file that it cannot open with `"r+"`: the code goes to `create_new` (235) then,
whether the file is missing or not, and appends a section that the file may have already. `Fail` is an error path that ends the
call with the file as it was: no memory, an `fseek` that fails, an `fopen` with `"r"`, `"a+"` or `"w+"` that fails.
`Die` may come between any two
steps, any number of times, and leaves the file as it is. `ProfileText` has what is searched for and what is
written; a text is a sequence of pieces, cut so that a name that contains another one contains its
piece.

`Setting` says what a text means by its format, independently of the searches of the code: the value in the line `parameter=value`
of the first section that is headed `[token]`. The refinement maps the file, while it is empty between `Truncate` and `Store`, to what the
writer has in its buffer: the setting changes when the file is written. `Settings` is an atomic map with three exceptions, each of them
a thing the code does: `Die` loses everything if a write is going on; `Get` may answer anything for a setting
that is missing, since it may be found in memory; and a write that could not open the file (`Miss`) answers that it was done and
is lost if its token had settings (`Lost`).

### AECCore

One `pc` per thread; a step ends where another thread can see the difference.

* `start` is `Start` (flags, play thread) and `StartRecord`: the play thread runs
  already when the record thread is created. `stop` is `Stop` (tell, interrupt the
  record thread), `StopJoinRecord` (joined; interrupt the play thread),
  `StopJoinPlay` (joined; empty the rings, reset). All three methods are
  synchronized, so that one variable `apiPc` says where the API is. `Release` only takes
  the rings away; the threads meet null.
* The play thread: `PlayCreate`, then for ever `PlayFrame`, `PlayFirst` with the
  first wait, `PlayClearTest` with the second wait, `PlayPut`, `PlayWrite`,
  `PlayCount`. The tests of the flags outside and inside the monitor are separate
  steps. `playCount = playCount + 1` is a read (`playTmp`) and a write.
* The record thread: `RecAnnounce`, `RecWarm`, `RecCreate`, the loop
  (`RecTake`, `RecRead`), and the clear: `RecDry` (`isClearing = true` before the
  monitor), `RecClear` (frames of silence through the canceller), `RecDrain` (the microphone is read until a read takes 10 ms),
  `RecEmpty` (`playBuffer`), `RecPause`, `RecFlush`, `RecZero`, `RecEndClear`, `RecNap`. `pause()` and `flush()` are two steps:
  the play thread may call `play()` between them, and `flush()` does nothing to a track that plays (`"zeroFull"`). A device whose reads come
  back at once with an error keeps the thread in the drain loop (`"spin"`), inside the monitor and deaf to `interrupt`, until `RecSpinEnds`,
  which nothing in the code brings about. Any
  exception leads to `RecFinally`, `RecDie`, and a notifier thread that calls
  `notifyAll` later.
* `HwPlays` is the AudioTrack playing a frame and posting a notification, which the
  callback takes up any time later (`CbBegin` ...), with its own two-step updates of
  the counts.
* Failures: the devices may not be created, a write or read may fail or the
  listener may throw (`PlayFault`, `RecFault`), `interrupt` ends a wait or a sleep,
  the track may become null under the record thread (`RecPause`, `RecFlush`).

Here `playBuffer` is a number of frames: that it hands them over in order and
without loss is what `FilterBuffer` shows. Not kept apart: the single microphone reads
of one clear, of which it matters only whether they end, the single `takeAll` calls that drop the warm-up frames (one step), and
the two halves of `shouldClear`'s test-and-reset at the end of a clear.
`stale` is a history variable: this session found `shouldClear` set by an earlier
one, and nobody has cleared it yet.

## 3. The runs

| Run | Instance | Shows |
|---|---|---|
| `filter_buffer` | ring of 8 bytes, frames of 2, puts of one or two frames, 20 bytes between two clears | all the properties of the ring, its refinement of the stream, and that a frame in the ring is taken |
| `filter_buffer_ragged` | ring of 5, frames of 2, puts of 1 to 4 bytes, 12 bytes | for any length no copy leaves its array; a consistent ring delivers bytes that were never put only when less than a frame is pending and it ends the array |
| `aeccore_safety` | warm-up 1, underrun from 1, rollover at 2 by 1, two frames in `playBuffer` and in the track, one pending notification, two sessions | the safety properties of a player, with every failure and `release` at any time; a thread that `stop` waits for never goes back, and nothing but the drain loop can keep it |
| `aeccore_liveness` | one session, one frame in `playBuffer` and the track, counts to 2 | `stop` returns, playback goes on, an underrun is cleared, unless the record thread stays in the drain loop for ever; the warm-up ends |
| `aeccore_restart` | the same with two sessions | a disagreement, see section 5 |
| `app_ring` | ring of 11 bytes, header 1, audio 2, gate at 2 puts, 39 bytes between two clears | the ring is a lossless stream, no overlap; a retrying application gets in, unless gate or flag jam the ring, and no state is stuck in another way |
| `app_ring_retries` | the same | a jam does happen, see section 5 |
| `app_ring_header` | ring of 19, header 3, audio 4, 84 bytes | the one way in which the ring loses track |
| `audio_player` | three calls of `init` that reach the native canceller, any number of the others, four frames in a clear (`msInSndCardBuf / 50 + 3` with 60) | the canceller is neither freed nor replaced under use; calls return unless a drain loop never ends |
| `audio_player_handle` | one call of `init` | a disagreement, see section 5 |
| `canceller` | three inits, 10 ms of one or two units, frames of three | one complete canceller per frame, chunks in pairs and inside the frame, nothing lost |
| `profile` | two threads, three keys in two tokens, two values, memory with nothing, a half section and a whole one behind the buffer, any number of deaths of the process | the lock keeps threads apart, no path keeps it, and the file is an atomic map of settings with the exceptions of `Settings` |

**Bounds.** 20 bytes take both indexes of the 8-byte ring around twice and a half, so
that the flag goes up, down and up again within one stream, and any number of
streams follow each other through `Clear`. In `AECCore`, `MaxStarts` is the only bound on the
length of a behaviour: two sessions are the smallest number in which something
can be left behind. The counts saturate at `MaxCount` and `-MaxLag`; the program's
thresholds 6, 10, 1000 and 100 are scaled down in their order, and the theorems hold
for every value that keeps that order. In the liveness instance `MaxCount = Rollover`, so the rollover never
fires: scaled down, a rollback of half of the count would starve the warm-up, which
100 out of 1000 does not. In `FilterBuffer2`, what matters of the
sizes is the rest of the array after whole frames. The demo's 8 kHz and 16 kHz rings have rests
(176 of 816 bytes, 976 of 1616) in which a frame's audio does not fit, as in `app_ring` (2 of
3 bytes, where a frame needs one byte to spare); there the forgotten header does no harm.
`app_ring_header` has a rest of 5 of 7 in which the audio fits and the header does not, and
indexes that reach every byte, so that a copy overruns the reader and another one throws.
39 and 84 bytes are more than three laps, enough for both sides to go around twice. Three players let one
linger while the second is replaced by the third; so do three inits in `Canceller`, where a frame of
three units is not a whole number of chunks at one of the two rates, and two players may have different rates. In
`Profile`, `AGC` is a part of `AGC_enable`, so that token and parameter may be mistaken for each
other, and one token has two parameters. No write begins on a text of more than `MaxText` = 16 pieces, which is two
sections: of two tokens, where the first is rewritten with the other behind it, or of one token twice, where the second is one
that a write appended in vain. Without the bound such writes would make the file grow for ever.
`CONSTRAINT NotRaced` cuts off what follows two threads that meet in the initialization of the mutex: two of
them may then be in the file, and nothing is claimed. `MaxDue` bounds the notifications that are queued; a late one is
enough for every race with the callback.

**Deadlock** is checked in the runs of `AECCore` (any state must have a next step, if
only another call of `stop`); not in `FilterBuffer`, where a released ring, or one
that reached `MaxBytes`, may stop, nor in `FilterBuffer2`, for the same reason, nor in
`AudioPlayer` and `Canceller`, where the process may have crashed and `MaxInits` ends the calls of `init`.

**Fairness.** `FilterBuffer!FairSpec`: a consumer polls again and again (the record
thread's loop, the application's polling), and an accepted `putAll` runs to its end;
nobody has to put anything. `FilterBuffer2!FairSpec`: the play
thread polls, and the application, once it has a frame, offers it again after every refusal.
`AudioPlayer!FairSpec`: record threads run and a call that has begun continues; a warm-up need not
end by itself. `AECCore!FairSpec`: threads run (weak fairness of the play
and the record thread, of the notifier, the callback and the AudioTrack), and an API
call that has begun continues; nobody has to call, and no fault has to happen.
Strong fairness is assumed in one place, for the play thread's passing of the
monitor: after each clear the record thread leaves the monitor for a sleep of
100 ms, and a woken thread that is ready to pass gets in within it. The flags that
are not volatile (`isClearing`, `mIsPlayThreadAlive`, `mIsRecodeWorking`) are
assumed to become visible: every loop that reads them also reads volatile fields or
enters a monitor.

## 4. The theorems

Everything named here is proved for every value of the constants that satisfies the
assumptions of its module, with no bound on the rings' sizes or the number of sessions.

**FilterBuffer_proofs.** `TypeCorrect`, `ArrayBoundsHold` and `PhantomOnlyAtRaggedSeamHolds` hold
for puts of any length. `TypeCorrect` is that every test that lets an index be added to leaves its sum below `Capacity`; the last one follows from what the consumer found out in its tests and nobody else can
change (`Decided`). The rest assume `Aligned`: the capacity and the puts are whole
frames. That is how `playBuffer` is used with the default frame size (`hz/10` bytes in a
ring of `hz*4`); `filterBuffer` is, except for the bytes drained in a clear. Under it
`RegionsDisjointHold`, `NoFrameMissedHolds`, `RefusedOnlyWhenFullHolds` and
`Refinement` (`Spec => ImplementsStream`) follow from one inductive invariant
`IInv`: the indexes are multiples of the frame size (`OnFrames`), the pending bytes
are where the indexes say and carry the right names (`Counts`, `Contents`), a put
under way has room even if the reader does not move (`PutHasRoom`), its bytes are in the
array once copied (`Copied`), the snapshot of the reader is never ahead of the
writer (`Snapshot`), the frame copied out is the next one (`Taken`). The part that is the
reason why the unsynchronised flag works is `Announced`: whenever the write index is,
or is about to be, behind the read index, `isNextLine` is set; the consumer may take it
down only when it is at the start of the array again, and the producer cannot go around
in the meantime since it needs a read index above 0.

**FilterBuffer2_proofs.** `TypeCorrect`, `RegionsDisjointHold` and `Refinement` assume
`RestIsShort`: the array is some whole frames and a rest of at least one byte in which a frame's
audio does not fit, as with every rate of `Frequency` and the default frame size. Without it
even the types are wrong: `mWriteIndex` may become `Capacity`. Frames are not aligned
with the array here, so the argument of `FilterBuffer` does not carry over. Instead the pending bytes are whole
frames (`Counts`), and so are those the snapshot shows (`Snapshot`). The free room is then the
rest and whole frames (`RoomForHeader`): where line 60 finds room for the audio alone,
there is room for a whole frame more. And a frame is never taken in halves: whatever `isNextLine`
says, a snapshot that shows something shows a frame (`TakeFoundKeeps`). The flag decides only whether a frame is
seen, which is where the jam of section 5 comes from. `NoOtherJamHolds`: an idle ring that refuses a frame is
full (`RefusedIsFull`), and then the reader sees a frame, unless the gate is closed or the frame is behind the flag
(`TwoJams`). That needs a ring larger than one frame (`MoreThanAFrame`): one that holds exactly one refuses
even when it is empty.

For sizes for which `RestIsShort` is false, `ConsistentUntilHeader`, `StreamUntilHeader` and `NoOtherJamUntilHeader`
prove types and regions, the stream and the jams under `HeaderFits`: at no step does line 60 accept a put behind
the reader where the audio fits and the header does not (`HeaderHasRoom`). `HeaderFits` is a safety property of steps,
so that this says of any behaviour that everything is right until the first such put: it is the only way in which the
ring can begin to go wrong. `HeaderAlwaysFits` is that `RestIsShort` excludes it, and the theorems above follow.

**AECCore_proofs.** `TypeCorrect`, `StoppedIsQuietHolds`, `NoLostWakeupHolds`,
`ClearedTogetherHolds`, `StopNeverStuckHolds` and `StopGoesForwardHolds`. The inductive invariant adds to the types: the devices exist
only while their threads do (`DevicesOwned`); what the API knows of the threads
(`SessionKept`); `mIsRecodeWorking` and `audioRecodeStart` are true statements about
the record thread (`FlagsTellTruth`), which is what a waiting thread relies on; a
thread that waits has a reason and somebody to wake it (`WaitsForSomeone`); and the
play thread may hold one frame in its hand when `isClearing` goes up, so a frame in hand
counts as put (`FrameInHand`). `ClearedTogetherHolds` claims at most one frame of `playBuffer` in any case, and at most one of the track
where it was flushed; a track that the play thread starts between `pause()` and `flush()` keeps what it holds, up to its
capacity, while the counts go to zero. The last two theorems are the safety half of `StopReturns`: a thread that `stop` is
joining is held by no sleep, wait, monitor or full track, and it only goes forward, through each of its places at most once
(`RecPlace`, `PlayPlace`). One of the places is the drain loop, in which it may stay. They need to know that a thread which was told to stop
does not wait or sleep any more (`Told`) and that the play thread has a track wherever it uses one (`TrackInUse`).

**AudioPlayer_proofs.** `TypeCorrect`, `NeverFreedUnderUseHolds`, `NeverRebuiltUnderUseHolds` and
`ReplacedAreDoneHolds`, for any number of players. The invariant needs three facts
besides: there is a canceller wherever there is a handle, and it is being rebuilt only
inside `init` (`HandleBacked`); while no player is initialized, and from the join of
`init` to its end, every thread that still runs belongs to an abandoned player
(`OnlyAbandonedRun`), which is why `init` gets away without the mutex; and the calls under way have a
player to work on (`CallsBacked`), also after an `init` that threw with `mHasInit` set.

**Canceller_proofs.** Types and all five invariants, for any number of inits, any rates and frame sizes. The
invariant: exactly the holder of the mutex is inside (`Exclusive`), and an `init` that meets it is
remembered (`Remembered`); what has been made at each step of `init` (`Built`), so that after one that did not
fail, everything has the number of the handle (`Whole`) and the global rate is that of its
record (`Rated`); what was processed last is the far end the thread inside goes
on from (`Used`); and where its chunks and its output stand (`ChunkFits`, `Chunks`, `Fresh`).

**Profile_proofs.** `TypeCorrect`, `HolderIsInsideHolds` and `OneInsideUnlessRacedHolds`, for any number
of threads, any keys and any contents of the file. Unless raced, a thread that initializes the mutex is
alone in it and nobody is inside yet (`StartsAlone`), and then whoever is inside holds
the mutex (`InsideHolds`).

**ProfileText_proofs.** What the searches find, in texts of any length. The assumption on the names is `WellNamed`:
no name or value has a mark (`[`, `]`, `=`, newline) in it; a token is no part of another token, of another
token's parameters or of a value; `parameter=` is no part of another parameter's of the token. That is true of the nine keys
that `webrtc_aec.cpp` reads (lines 268 to 361), and TLC evaluates it for the names of the run. Of the memory behind a buffer nothing is assumed.
The argument is about positions, without induction; a first hit exists since the natural numbers are well-founded. A text is a
profile (`Profiled`) if every position is in a header `[token]` or in the line of a key in its section, and no
parameter is twice in the first section of its token; a write that could not open the file leaves further sections of the same token
behind. Then a mark tells where it is (`OpenIs`, `CloseIs`, `EqualsIs`), a name is only where it
was written (`TokenIs`, `ParameterIs`), and what a search hits is determined. `ReadFindsSetting`: a read gives the setting the
profile has by its format, whatever lies behind the buffer, and finds that it has none if no `parameter=` lies
there. A write splices a line in between two others
(`Spliced`, `Replaces`); headers and lines before the place stay where they are and those behind it move by one distance
(`Moved`), so that nothing else changes. There are three kinds of them: `WriteChangesSetting` if the token was found, `AppendAddsSetting` if it is
not there, and `AppendInVain` if it is there and was not found, where every setting, the one written too, is what it was before. All of them
leave a profile again.

**ProfileSettings_proofs.** `SettingsImplemented`: `Spec /\ []~raced => ImplementsSettings`, for any number of
threads, keys, values and deaths, with the failed opens and whatever lies in memory. `[]~raced` is that no thread comes to `profile_lock` while another is initializing the
mutex; without it two threads may be inside at once and nothing holds, which is the hazard of the lazy initialization.
The invariant (`TextInv`): the text that is kept is a profile, and where there is a header of a token there is a setting of it
(`Filled`), so that `Settings` can say of a lost write that the token had settings (`KeptIsProfile` is both); a file that does not exist is empty; a thread that
goes on to rewrite has the whole file in its buffer and its token is in it; between
`Truncate` and `Store` the file is empty; and a thread has no answer before it is done. A write takes effect at `AppendSection` or
`Store`, a read at `Read`; `Truncate` changes nothing unless the process dies there, and then everything is lost.

**Only model-checked.** The liveness properties (fairness and `ENABLED` are out of the
prover's reach), and `LostOnlyToHeader`, whose first loss is what the theorems under `HeaderFits` are about, and of which
TLC also shows what comes after. No `RECURSIVE` operator is used.

## 5. What was found

`aeccore_restart` refutes `StartedPlays`. `resetStatus` (AECCore.java:139) resets all
flags of a session but `shouldClear`. If `stop` comes after the callback has requested
a clear and before the record thread has done it, the next `start` creates a play
thread that waits for that clear before its first write, and a record thread that
waits for frames to be played: silence, until `stop`, and again in every later session
of the player. `PlaybackGoesOn` and the other liveness properties therefore except such sessions
(`stale`).

`app_ring_retries` refutes `RetriesEnd`: the demo's retry loop need not end. Its trace is the jam of the gate.
The reader sees the ring empty and is preempted (it logs a line there) before `shouldCache = true`. The
application fills the ring and opens the gate as it does so; then the reader closes it. The ring
has no room for as many puts as it takes to open it again: `takeAll` returns null and `putAll` false for
ever.

There is a second jam, which `NoThirdJam` names (`Wedged`) and without which it fails. `takeAll` publishes
`mReadIndex` and takes `isNextLine` down afterwards. In `FilterBuffer` the producer cannot use the interval
(section 4), but here frames are not aligned with the array: the new index is above 0 and
may be enough for a full ring to accept a frame that goes around and sets the flag. The flag is then taken
down, the frames behind the write index are invisible, and again neither side moves. With the default sizes this
needs a full ring with `mReadIndex` at 31360 or above.

`NoOtherJam`, which is proved, is that an idle ring is stuck in no other way; `NoThirdJam` shows that a retrying application
gets in if neither happens.

`audio_player_handle` refutes `HandleMeansReady`: `audio_process_aec_create` ignores the
result of `ingenic_apm_init`.

`LostOnlyToHeader` is not a finding for the demo's sizes, but it is for frame sizes that leave a rest which
holds the audio and not the header: line 60 of `FilterBuffer2` then overruns the reader, or throws.

The drain loop of a clear (AECCore.java:468-486) ends when a read takes 10 ms. If `AudioRecord.read` fails at once,
it ends only by an exception: of `putAll`, which gets the error code as a length while `mIsRecordAudio` is set, or of a listener. With
neither, the record thread stays there, with the monitor of `AECCore.class`, and `interrupt` does not reach it: `stop` hangs in its
join, and the play threads of all players wait. `StopReturns`, `PlaybackGoesOn`, `UnderrunIsCleared` and `CallsReturn` except
just that (`[]Spinning`, `[]Draining`), and so show that nothing else can hang. It is no finding since the repository
says nowhere what a failing microphone should lead to.

The `flush()` of a clear (495) may do nothing: a play thread that is at the top of its loop may call `play()` (320) after the
`pause()` (494). `playBuffer` is empty then and the track is not, and the counts start at zero.

`read_profile` searches for the token without the closing
bracket (line 125, `write_profile` with it), so that a section whose name contains the token, AECM for AEC, is
taken for it if it comes first; `WellNamed` excludes such names. It searches in a buffer without room for a NUL (line 112), so that a
setting that the profile does not have may be found in the memory behind it; and `write_profile` answers success for a write that
had no effect if the file could not be opened with `"r+"` but with `"a+"`. The last two are in the model, and
`SettingsImplemented` is that nothing else is wrong. Since nothing compiles the file, none of them is listed as a finding.

## 6. Not modelled

The modules came in this order: `FilterBuffer` (every frame goes through it), `AECCore` (every
thread is in it), `FilterBuffer2`, `AudioPlayer`, then the native side, `Canceller` and `Profile`, and last the
proofs about `FilterBuffer2` and about the text of a profile. What is left out, and why:

* **The ring with the sound off.** The play thread then calls `clear` on every turn without the lock
  of `putData`; a put that is under way goes on with index 0 or brings its old index back, or its `arraycopy`
  fails because the first piece has become the whole array. The code promises nothing about frames put
  meanwhile, and the next `clear` repairs the indexes, so that there is no property to state of it.
* **Several callers of AudioPlayer.** `start`, `stop` and `release` are not synchronized and `init` sets
  `mHasInit` before `mPlayer`. The only caller in the repository makes all calls from one thread, and that is
  modelled.
* **Two AECCores on the monitor of the class**, where `notify` may wake the thread of the
  other one. One of them has 8 million states with the smallest useful constants.
* **A listener that calls back** into the player, and an **interrupted caller of `stop`**: nothing in the
  repository does either.
* **Data.** The volume arithmetic, the four-byte encodings of `AudioFrame` (a time stamp is a long and
  comes back as an int), the contents of the profile's values, and the signal processing of the vendored
  WebRTC. No step of any thread depends on them.
* **In `profiles_management.c`**: `read_dir_file`, which nothing calls; values with a bracket or a newline; names
  longer than the fixed buffers and names that begin as they end; a file larger than a stdio buffer; `fread`,
  `fwrite` and `fclose` that fail or write a part (a full disk), whose results the code does not look at.
* **In `webrtc_aec.cpp`**: `dump`, which `ingenic_apm_init` calls (line 397) and which only logs; what the compiled configuration leaves out (AGC, level
  estimator, voice detection, and the settings from a profile); a `new` that throws.
* **Never used**: `RingBuffer`, `RingCacheBuffer`, `alignIndex` of `FilterBuffer2`.
* **Logging, debug files, settings, the demo's screens**, and the construction of the Android
  devices, of which the models keep that it may fail.

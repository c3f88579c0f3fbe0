# waxxy.live: TLA+ models and proofs

waxxy.live is an iOS application in which hosts (DJs) broadcast audio and video
and listeners watch them.  Its own logic has two halves:

- **LFLiveKit with MuxLive** (`Pods/LFLiveKit`, `Mux Live/`): capture, encode,
  put on one timeline, buffer, and push over RTMP, with reconnects.  It has real
  threads, queues, timers and a lossy network.
- **the application's screens** (`Host Controllers/`, `Common Controllers/`,
  `Listener Controllers/`): sign-in, registration, creating a stream at Mux's
  API, publishing it in Firestore, and taking it down again.

This directory models the parts where order, failure and concurrency decide
whether the program is right.  `tlc -config X.cfg M` runs a check, `tlapm M.tla`
checks the proofs of a module.  `PROJECT.json` lists runs, mutants, the source
lines behind each definition, the hazards and the findings.

## Inventory

| Component | State | Operations | Interacts with | Hard behaviour |
|---|---|---|---|---|
| `LFStreamRTMPSocket` | `_rtmp`, `_error`, `isConnected/isConnecting/isReconnecting/isSending`, retry count, heads | start, stop, sendFrame, reconnect, _reconnect, RTMP264_Connect | serial queue `rtmpSendQueue`, main queue, librtmp callbacks, `LFStreamingBuffer`, `LFLiveSession` (delegate) | two threads on one handle, lost links, retries, stop against reconnect |
| `LFStreamingBuffer` | `sortList`, `list`, `lastDropFrames`, `_startTimer` | append, pop, remove all, expire, tick | encoder threads, `rtmpSendQueue`, main queue (tick) | fields used outside the lock, a full buffer, order |
| `LFLiveSession` | `uploading`, `hasCaptureAudio`, `hasKeyFrameVideo`, `relativeTimestamps`, `state` | startLive, stopLive, socketStatus, encoder delegates, bitrate | capture, encoders, socket, MuxLive | unlocked fields shared by three threads |
| `MuxLive` | `_liveSession` | start, stop, liveState | session, screens | statuses arrive later on the main queue |
| Encoders | leftover audio, `compressionSession`, `_currentVideoBitRate`, `isBackGround` | encode, background, `setVideoBitRate` | session | late or reordered pictures, a session made anew under another thread |
| `LFAudioCapture` | `running`, `isRunning`, the audio unit, `taskQueue` | setRunning, interruptions, dealloc | session, the system | the main thread waits for its queue, notices arrive late |
| Adaptive bitrate | `thresholdList`, `currentInterval`, bit rate | tick, `currentBufferState`, `socketBufferStatus`, `setVideoBitRate` | buffer, session, encoder | two first ticks, limits, resets between reading and keeping; off in this application |
| pili-librtmp, chunk layer | `m_vecChannelsOut/In`, `m_channelTimestamp`, chunk sizes | SendPacket, ReadPacket | the peer | two sides must agree on headers left out and on the chunk size |
| pili-librtmp, negotiation | socket, `m_stream_id`, `m_methodCalls`, `m_bPlaying`, `m_is_closing` | Connect, ConnectStream, HandleInvoke, Close | socket class, the server | answers late, twice or never; Close reached from inside every failed call |
| Going live (`LoginViewController`, `HostRegistrationViewController`, `HostStreamingViewController`, `MuxViewController`) | the Host handed on, the stream key, `hosts/<username>.stream` | sign in, register, createStream, stop | Auth, Firestore, Mux's API, other devices of the same host | callbacks in any order, a blocked main thread, kills |
| Listener account (`ListenerRegistrationViewController`, `LoginViewController`, `ListenersTabBarController`) | the form, the account, `listeners/<username>`, `guestInfo` | finish, back, sign in, settings | Auth, Firestore | the form changes between two answers, errors and kills between two steps |
| Tag editors | the tag field, `genreTags` | load, appear, add, remove | `WSTagsField` (callbacks) | two lists that must follow each other |
| Listener playback, browse, schedule | fetched documents | screens | Firestore | little control |
| Other vendored pods | | | | third-party |

What makes each modelled component correct is stated by its properties, below.
`PROJECT.json` lists every component, modelled or not, with the reason.

## Modules

| Module | Models |
|---|---|
| `RtmpSocket` | one `LFStreamRTMPSocket` with the session and MuxLive that own it |
| `LiveStates` | what a client of `MuxLive.liveState` is promised; `RtmpSocket` implements it |
| `RtmpSocketProofs` | the proofs about `RtmpSocket`: types, safety, the refinement of `LiveStates` |
| `RtmpConnect`, `RtmpConnectProofs` | pili-librtmp's negotiation on one handle, its failures and `PILI_RTMP_Close`; its proofs |
| `RtmpHandle` | what `RtmpSocket` relies on in a handle; `RtmpConnect` implements it |
| `RtmpChunks`, `RtmpChunksProofs` | pili-librtmp's chunk layer: a sending and a reading side; its proofs |
| `RtmpChannel` | every channel a FIFO of whole messages; `RtmpChunks` implements it |
| `StreamingBuffer`, `StreamingBufferProofs` | `LFStreamingBuffer` with two encoder threads and the socket's send block; its proofs |
| `FrameTimeline`, `FrameTimelineProofs` | the session's alignment and time base, with both encoder threads and the statuses; its proofs |
| `AudioCapture` | `LFAudioCapture` and the system's interruptions |
| `BitrateControl` | the buffer's ticks, the session's adjustments, the video encoder's session |
| `LiveMedia`, `LiveMediaProofs` | the composition of both on the main thread; its proofs |
| `GoLive`, `MCGoLive`, `GoLiveProofs` | sign-in, going on air, publishing, coming off air; two symmetric devices for TLC; its proofs |
| `ListenerAccount`, `ListenerAccountProofs` | a listener's registration, sign-in and settings; its proofs |

### RtmpSocket

A handler is one action unless it blocks on the network.  There it is cut, `pc`
says where the thread is, and other threads run.  The cuts are
`RTMP264_Connect:` (`BeginConnect`, `ConnectSucceeds`/`ConnectFails`,
`SendMetaData`, `SetConnected`), a packet being written (`SendBlock`,
`SendReturns`) and `_stop` inside `PILI_RTMP_Close` (`StopBlock`, `StopFrees`).
`rtmpQueue` is the FIFO of blocks of `rtmpSendQueue`; `mainQueue` holds the
status blocks; `scheduled` counts the blocks that will arm `_reconnect`, `timers`
the armed ones.  `Connect(t)` runs on the rtmp queue from `_start` and on the main
thread from `_reconnect`.

Decisions worth knowing:

- `_error` is a field and is never reset; `CloseCallbacks` says when closing a
  handle calls the error callback because of it.
- A failing connect calls `reconnect` once or twice: the library may have called
  the error callback itself before `Failed:` does.
- `isSending = NO` queues another `sendFrame` (the observer); `clean` writes the
  variable directly and does not.
- The delay of `_reconnect` is a second or more.  `DelayIsOver` therefore lets it
  fire only when no `reconnect` block waits; nothing else about time is assumed,
  and a connect or a send may take longer than the delay.
- A connect may report success on a handle that the library has closed without a
  callback (`rtmp.c` 1365-1366 and 1059, `ReturnHollow` in `RtmpHandle`): then
  `rtmp` is "closed" after `ConnectSucceeds`, and `hollow` remembers it.
  `sendMetaData` writes without asking whether the handle is connected, so on such a
  handle it fails and leaves its code in `_error`; frames are not even tried.
- The buffer is a count here; `StreamingBuffer` has its contents.
- When another thread frees the handle a thread is using, that thread is put in
  `dangling`; its next step is `Crash`.
- A main-thread application call (`Start`, `Stop`) needs the main thread idle.
- MuxLive makes a new session for each start, so one start and one stop is the
  whole life of a socket.

### StreamingBuffer

`appendObject:` is cut at the unlocked `_startTimer` (`Offer`, `StartTimer`), at
the lock (`AppendObject`), between the read and the write of
`lastDropFrames += n` (`ReadDrops`, `RemoveExpired`) and before the move to
`list` (`Push`).  The send block is cut between the unlocked `list.count`
(`CheckCount`), the pop (`PopFirstObject`), and the two statements that carry the
drop count over (`CountDrops`, `ResetDrops`).  `sortList` is a set: it is sorted
each time it gives up a frame, and the sort need not keep the order of frames
with equal timestamps.  Each encoder's timestamps never go back.

### FrameTimeline

`audioEncoder:audioFrame:`, `videoEncoder:videoFrame:` and `pushSendBuffer:` are
cut at every access to a shared field.  The compression session may deliver
pictures out of order, not across a key frame.  A picture is one frame and a
capture one audio buffer: when the encoders make several, each goes through
`Arrive` again.  Timestamps are computed modulo `Wrap`.

### RtmpConnect

One thread at a time uses a handle, so a call of the library is one step.  A
function that may fail is an operator from the handle `r` to the *set of handles*
it may leave behind: `SendReleaseStream(x)` holds the handle with the request
written and the handles on which the write failed, which `WriteN` has already
closed.  `Then` chains such functions the way the C code calls them one after the
other without looking at results (`HandleResult` for `connect`).  `Close` writes
`FCUnpublish` and `deleteStream`, each of which may fail and call `Close` again,
which `m_is_closing` turns away.

The server is external: once it has got a request it may answer it at any time,
twice, late or never, refuse it, ping, change the window, close the stream, or
fall silent (`ServerStops`).  A read that gets nothing for two seconds fails with
the error callback, a peer that has closed fails it without.  `sent`, `told`,
`lost` and `refused` are history.

### RtmpChunks

The wire carries chunks in TCP order.  A body is a number of units, 2^32 and
0xffffff are the constants `TsMod` and `TsMark`, and a header holds the fields its
format has.  The sender's state is the last packet of each channel and the chunk
size; the reader's is the packet it is putting together, the absolute time of each
channel and the chunk size; `hasAbs` is a field of the packet the caller passes in
and is used again for the next message.  The sender is the application (its
commands and frames) and, for what the reader must also accept, a peer that
announces another chunk size (`AnnounceChunkSize`) or interleaves the chunks of
two messages (`Interleave`).  `misread` rises when the reader takes a chunk for
something it is not.  `track`, `flight` and `received` are history, which the
refinement mapping to `RtmpChannel` uses.

### AudioCapture, BitrateControl, LiveMedia

`taskQueue` is a serial queue; `waits` is the main thread in `dispatch_sync`.  The
notices of an interruption are queued for the main thread (`notes`).  The
session's `dealloc` sets `running = NO` and lets go of the capture, whose own
`dealloc` waits for the queue again (`Release`, `LetGo`).  The session's `dealloc`
runs on the main thread, where MuxLive drops it.

`appendObject:` tests `_startTimer` and ticks on an encoder's thread
(`StartTimer`, `FirstTick`), later ticks run on the main thread (`Tick`), and the
window is judged in the same call (`Judge`).  First ticks are over before the next
`Tick`, which comes a second later: this is the only assumption about time.
An adjustment is cut where it reads the rate (`Judge`), where it gives the new one to
the session (`SetVideoBitRate`) and where it keeps it (`KeepBitRate`); a reset where
the session is made anew (`ResetBegins`), where the configured rate is kept
(`KeepConfigured`) and where the session gets it (`SetConfigured`).  Resets run on the
main thread (`WillEnterForeground`) and on the capture thread (`EncodeFails`), so each
step of the one may come between any two of the other and of an adjustment;
`resetting` says how far each is.  `crossed` is history: the last setVideoBitRate met
a reset of the capture thread.  A property set on a session that has meanwhile been
replaced goes to the new one: of two resets at once, that both may release the same
session is left out, as is the use of a released one.  The length of the list is any
sample; it is not taken from `StreamingBuffer`.

`LiveMedia` puts both on one main thread: `MainIsFree` says that it neither waits
for `taskQueue` nor is in the middle of an adjustment or a reset.  A call brings an
interruption and the background, in either order.

### GoLive

A device's main thread is `free` or in `group.wait()`.  `request` is the data
task, which completes on another thread.  `host` is what the screens were given:
nothing (after registration), a Host that has not been filled, or a filled one.
`writes` is Firestore's queue on the device, kept over a kill; `doc` is the field
`stream` on the server.  All devices use one username, so they share the
document.  The server applies a write (`Deliver`) or rejects it (`Reject`): then the
registration form stays, a stream that was to be taken down is left (`left`), and the
present broadcast is on air unpublished (it leaves `published`; createStream gives its
`setData` no completion, so the screen is the same).  The crashes of `try!` and of an
empty array in the answer are covered by `Kill`.

Two simplifications: `createUser` and the `setData` in its completion are one step
(another "finish" on the form then does nothing, as the account exists), and
"login" is not pressed again while its `signIn` or query is under way, though the
button stays enabled; so it is in `ListenerAccount`.

### ListenerAccount

One listener with one e-mail address.  `forms` are the registration screens, those
the user has left included: their closures keep them, and an answer that comes late
reads the form it belongs to.  `creating` counts the calls of `createUser` of each
form; the service accepts one for an address, which is external.  `writes` are
Firestore's, kept over a relaunch without their completions (`Orphan`).  `down`
names the crash: an empty answer whose first document is taken, a screen the
storyboard does not have, settings without a document.

## Runs

| Run | Bounds | Distinct states | Shows |
|---|---|---|---|
| `rtmp_live` | 3 reconnects, 2 buffered, 3 blocks in flight | 1 044 773 | all safety properties of the socket, `IInv`, and the refinement of `LiveStates` |
| `rtmp_liveness` | 2, 1, 2; no loss during a refresh | 89 001 | `OutageHandled`, `StopQuiesces` |
| `rtmp_stop` | 2, 1, 2 | | violated: `StopIsFinal` |
| `rtmp_lost_refresh` | 2, 1, 2 | | violated: `OutageHandled` |
| `buffer` | window 1, list 2, 5 frames, timestamps 0..1 | 4 747 239 | the buffer's bound, order and accounting |
| `golive` | 2 devices, 2 streams, 2 writes under way | 5 451 722 (symmetric devices) | publishing and taking down, with rejected writes |
| `golive_freeze` | 1 device | | violated: `FailureGivesMainBack` |
| `timeline` | clock 1..3, 2 pictures in the encoder, 2 sessions | 3 825 206 | the first picture, late frames, the base |
| `connect` | 6 transaction numbers | 3 744 | the negotiation against any server, and the refinement of `RtmpHandle` |
| `chunks` | timestamps 2 and 5 modulo 8, extended from 3; bodies 1 and 3, chunks 1 and 2; 2 messages in flight | 1 914 215 | both sides in step, timestamps, and the refinement of `RtmpChannel` |
| `account` | 2 names, 1 genre, 2 forms, 2 presses each | 53 598 | one document for an address, shown as saved |
| `media` | 2 notices, window 3, samples 0..3, rate 8 in 6..9, +2/-4 | 1 513 554 | the microphone, and the bit rate through resets on two threads |

Why the bounds are enough: three reconnects give a first, a middle and a last
try, and the two calls of one failure at each of them; two buffered frames tell
an empty from a full buffer and one kind from the other; `MaxBlocks` limits only
how far the encoder runs ahead (the blocks of reconnect, start and stop are not
limited).  A window of one and a list of two make sorting, both kinds of expiry
and the emptying of the list happen within five frames.  Two devices and two
streams let a broadcast meet an older one and somebody else's.  Three clock
values order a frame before, at and after the base.  Six transaction numbers are
one more than the five requests of a negotiation, so that a bandwidth check can
come between any two of them.  In `chunks` one timestamp is below the mark and one
above, so their differences wrap and are extended in both directions; a body of
three units takes two chunks, or three after an announcement; two messages in flight
interleave.  In `media` two notices can wait at once, a beginning and an
end, a window of three has a first, a middle and a last sample, and the rate passes
either limit in one adjustment.  In `account` a second form and a second press meet the first answer before, between and
after
their own.

Deadlock is checked in `account` only: the other systems may stop (a broadcast ends,
the bounds are used up, a crash).

### Properties

`RtmpSocket`
- `HandleSafe`: until stop no thread goes on with a handle another one freed.
- `ReconnectOnItsWay`: `isReconnecting` is never up without a `_reconnect` on its
  way, and before stop there is at most one.
- `RetryBudget`: reconnects tried and on their way never exceed `reconnectCount`.
- `IInv`: the inductive invariant, which contains the type invariant.
- `HeadsMatchHandle`: a kind whose head is up had its header sent, or skipped for want of
  sps/pps or audioInfo, on the present handle.
- `ErrorEndsScheduling`: after `LFLiveError` no reconnect is scheduled.
- `LiveStatesSpec`: the states a client sees follow `LiveStates`.
- `OutageHandled`: the loss of a link that was open leads to a connect that reports
  success, or to an error, or the application stops.  A hollow success is the
  exception on both sides: the socket is never told that its handle is closed.
- `StopQuiesces`: after stop the socket comes to rest.

`StreamingBuffer`
- `ListBounded`, `NoNilFrame` (with the types), `FramesAccounted` (every frame is in one place,
  once), `LateByWindow` (out of order only when later than the window),
  `DropsWholeGops` (P frames expire with those that depend on them).

`FrameTimeline`
- `FirstPictureIsKey`, `BaseSettles` (in the first session: a thread caught
  between two sessions can put a flag or the base of the old one back),
  `OneLateFrame`.

`RtmpConnect`
- `RequestsInOrder`: the server gets each request once and in the protocol's order,
  however it repeats, delays or mixes up its answers.
- `Goodbye`: whoever closes the handle, and at whatever point, `deleteStream` is
  written for a published stream, unless a write fails or the server declared the
  stream failed.
- `OnAir`: a connect that returns TRUE has published, and the handle is open with its
  stream or a write has failed since.
- `HandleSpec`: one result, at most one error callback, no silent loss of a link that
  was handed over -- but for the hole `RtmpHandle` names, below.
- `NegotiationEnds`: when the server falls silent, the connect calls return.

`RtmpChunks`
- `InStep`: at every boundary between chunks the two sides agree on the chunk size
  and the last header of each channel (with the types).
- `TimestampsKept`: a message arrives with the timestamp it was sent with, except
  after a minimum header that stands for a repeated timestamp (below).
- `FifoSpec`: each channel is a FIFO of whole messages, though headers are left out
  and channels interleave.

`AudioCapture`, `BitrateControl`
- `StoppedMeansOff`: once `setRunning(NO)` has returned the microphone is off, and no
  notice turns it on again.
- `NoDeallocOnQueue`: the capture is never deallocated on its own queue, where it
  would wait for itself.
- `MicComesBack`: after an interruption that may be followed by resuming, the
  microphone comes back, whenever the notices arrive.
- `RateInBand`: the rate passes a limit by less than one adjustment.
- `RateIsSessions`: outside an adjustment or a reset the encoder's session encodes at the
  rate that is reported, through background, failures and two resets at once -- but for
  an adjustment that overlapped a reset of the capture thread (below).
- `RateFollowsBuffer`: the rate rises only after a window of empty lists and falls
  only after one in which the list grew at each tick.

`GoLive`
- `AirMatchesDoc`: what a device published and broadcasts is what the document
  shows, when its writes are answered and no other device wrote since; unless the
  publishing write itself was rejected.  Rejections of earlier writes do not matter.
- `QuietMeansUnpublished`: nobody on air, every write answered, then no stream is
  left, except one whose broadcast was killed or whose taking down was rejected.

`ListenerAccount`
- `TabsShowDocument`: the tabs show the document as saved, though the form was edited
  between the answers.
- `OneDocument`: an address gets one document, however often finish is pressed.

### Fairness

The queues run their blocks, blocking calls return (librtmp sets receive and send
timeouts), armed timers fire, the global queue runs: weak fairness on each.
`WF(RtmpThread)` is one condition on the whole thread, as a serial queue gives no
more; the tail of the FIFO gets its turn because every block is taken off when it
runs.  In `GoLive` a data task ends (URLSession has a timeout), Auth and Firestore
call back, writes are applied or rejected.  In `RtmpConnect` the connecting thread runs and a read
that gets nothing times out, so `ReadFails` is fair only while the server is quiet;
the server owes nothing.  In `LiveMedia` `taskQueue` runs its blocks and a tick,
`setVideoBitRate` or reset that has begun on the main thread ends (weak fairness); a notice is handled even if
ticks keep coming, as the main queue is a FIFO (strong fairness).  The user, kills,
interruptions and the good will of the network are never assumed.

## What the checks found

Violated by a run:

1. `rtmp_stop`: stop does not end the broadcast when a reconnect is armed on the
   main thread (it is cancelled on the wrong thread), or when a failure had been
   seen before: the stale `_error` makes the close ask for another reconnect.
2. `rtmp_lost_refresh`: a link lost while a reconnect sends its metadata is never
   noticed again; the broadcast stays on a closed handle, reported as started.
3. `golive_freeze`: a stream that cannot be created freezes the main thread.

Written into a property that holds, as its exception:

4. `TimestampsKept`: the sender leaves the timestamp out when it equals the last one,
   the reader adds the last difference again.  Audio frames cut from one capture have
   equal timestamps and often equal sizes, so the server's clock runs ahead.
5. `RateInBand`: the rate may pass either limit by less than one adjustment.
6. `HandleSpec` (`ReturnHollow`): when the report of the bytes read fails while the
   answer to publish is being read, `PILI_RTMP_ConnectStream` returns TRUE on a closed
   handle and nobody is told, then or later: the socket class reports start and passes
   no frame to a handle that is not connected.  `RtmpSocket` contains it, and
   `OutageHandled` makes the exception (`hollow`).
7. `RateIsSessions` (`crossed`): `setVideoBitRate:` sets the session's rate and then keeps
   it, `resetCompressionSession` does so in the other order on the capture thread, and
   nothing excludes the two; when they overlap, the kept rate and the session's may
   differ until the next adjustment or reset.
8. `AirMatchesDoc` and `QuietMeansUnpublished` (`published`, `left`): a rejected write is
   printed at most.  A host may be on air unpublished and not know it, and a stream may
   stay published after its end.
9. `MicComesBack`: an interruption that ends without ShouldResume leaves the
   broadcast silent.

Stated in their modules and refuted by TLC on the bounds of the passing run, without a
run of their own:

- `StreamingBuffer!DropsCounted`: `lastDropFrames` and `dropFrame` do not count what
  was dropped.
- `FrameTimeline!Aligned`: a frame captured before the base gets a timestamp near 2^64.
- `GoLive!StopSurvivesMissingHost`: stopping with a Host that was never filled brings
  the application down.
- `ListenerAccount!UserInfoSaved`: a failed write, or a kill after `createUser`, leaves
  an account without a document, and registering again fails.
- `ListenerAccount!SignUpIsFound`: a listener registers into `listeners`, sign-in asks
  `guests` and takes the first document of the empty answer.  Its other end
  instantiates `listenerTabBar`, which `Main.storyboard` does not have.

Further facts the models rest on: a server that keeps sending within the two
seconds of the timeout can hold a negotiation for ever; after `Publish.Start` the
library reads nothing any more, so what the server says of a broadcast on air is
not heard; a list that is full and stays full is no "increase" (each sample is
compared with the one before), so a stalled link does not lower the rate.

## Proofs

For every `ReconnectCount`, `MaxBuffered`, `MaxBlocks` and `LossDuringRefresh`
(`SocketAssumption`: the first three are positive, the last a Boolean):

- `RtmpSocketProofs!TypeCorrect`: `Spec => []TypeOK`, with lemmas about the blocks
  in a queue after `Append`, `Tail` and `\o`.
- `RtmpSocketProofs!Invariance`: `Spec => []IInv`, and from it `HandleIsSafe`,
  `ReconnectIsOnItsWay`, `RetryBudgetKept`, `HeadsMatch` and `ErrorEnds`.

None of the properties is inductive alone.  `HandleSafe` holds because a
`_reconnect` runs only when it is armed, it is armed only after `isConnected` went
down, and the rtmp thread enters the handle only with `isConnected` up or from
start.  So `IInv` adds: start's block is the first and finds a pristine socket
(`StartIsFirst`); while the main thread connects, the rtmp thread is idle and not
connected (`ThreadsApart`); each reconnect that was tried or is armed has been
counted (`RetryCounts`); and the key part, `OneReconnect`: while a reconnect call
waits or a `_reconnect` is on its way, the handle is closed or gone and cannot fail
again, so that the two calls of one failure arm one reconnect.  Each conjunct has
its lemma (a step keeps it), with one step per action.  All of it is restricted
to the time before stop, where `StopIsFinal` shows that it ends.

`RtmpSocketProofs!ImplementsLiveStates`: `Spec => LiveStatesSpec`.  The state a
client reads is delivered through the main queue, so the mapping alone says nothing
about what comes next.  `Path` adds that the statuses that wait form a path of
`LiveStates` from the delivered state to the last one reported (`Chain`), and what
the last one is when the next is reported (`Reported`): nothing before start's block
has run, pending or refresh while a thread connects.  It needs `IInv`: that start's
block meets a pristine socket, that one thread at most connects, and that no
reconnect block runs while one does.

`LiveMediaProofs`, for every `MaxNotes`, window, sample bound, rate, limit and
adjustment (`AudioAssumption`; `BitrateAssumption`: numbers are positive, the
configured rate lies between the limits, the downward adjustment is at most the
lower limit, which every preset of `LFLiveVideoConfiguration` satisfies, and a
window has three ticks or more):

- `Invariance`: `Spec => [](MicInv /\ RateInv)`, and from it `TypeCorrect`,
  `StoppedIsOff`, `NeverDeallocOnQueue`, `RateStaysInBand`, `RateStaysSessions` and
  the action property `RateFollows`.

`StoppedMeansOff` is not inductive: the block that stops the unit may have others
before it.  `WaitsForLast` adds that the main thread waits for the last block and
that this block is "stop" when `running` was unset; `StoppedIsIdle` that a stopped
capture has an empty queue, which is why neither a notice nor a dealloc can find a
block there.  For the rate, the one that is asked for or about to be kept must be in the
band (`OnItsWayInBand`); the one about to be kept is the session's (`SettingIsSessions`),
and once no reset is before its keeping step, a reset that has passed it finds the
configured rate kept still (`KeptIsConfigured`), so whichever of two resets ends last
gives the session the rate that is kept.  A window begins with two first ticks at most
(`StartsOnce`).  `RateFollows` rests on two lemmas about
`BufferState`: of the samples of a window, at most the excused one has not gone the
way the window is judged (`WindowJudged`), and a list that has never grown was empty
all the time, as its first sample that is not zero would have grown
(`NeverGrownIsEmpty`).

`FrameTimelineProofs`, for every clock, word length, number of pictures in the
encoder and of sessions (`TimelineAssumption`: the clock has a value, the word is
more than twice as long):

- `Invariance`: `Spec => []TimelineInv`, and from it `TypeCorrect`, `FirstIsKey`,
  `OneLate` and the action property `BaseStays`.

`FirstPictureIsKey` speaks of what has been sent and is not inductive: `KeyOpens`
follows the key frame from the test that opens the video to its push, and says that
until then the video is open for the thread that carries it only.  `BaseIsSet`: a
thread about to send finds a base, and one that has sent is not about to set it.
`LateIsDone`: after a late frame a thread is outside the upload path.  All but the
last are about the first session; `NothingYet` is what holds before it.

`GoLiveProofs`, for every set of devices and every number of streams and writes
(`GoLiveAssumption`):

- `Invariance`: `Spec => []AirInv`, and from it `TypeCorrect`, `AirIsDoc` and
  `QuietIsEmpty`.

Both properties are about empty queues; the invariant looks into them.  The last write
of a device that has published is its stream (`LastIsAir`), and the document is, once
its queue is empty and it wrote last (`DocIsAir`).  As any write may be rejected, what
the last write says is not enough for `QuietMeansUnpublished`: every stream on its way
is explained (`WritesExplained`), as the present broadcast's, a killed one's, or by a
later write that takes it down, and so is the one in the document (`DocExplained`),
which may also be `left`.

`ListenerAccountProofs`, for all names, genres and numbers of forms and presses
(`ListenerAssumption`):

- `Invariance`: `Spec => []AccountInv`, and from it `TypeCorrect`, `TabsAreDocument`
  and `OnlyOneDocument`.

Neither property says why there cannot be a second write.  `OneAtMost` does: there is
no document and no write without an account, which the service gives once, and a write
under way means that nothing is saved yet.  So no later write can change what the tabs
were given.  `FormsExist` says that an answer finds the form it belongs to.

`StreamingBufferProofs`, for every window, list length, number of frames and range of
timestamps (`BufferAssumption`: the list has room for a frame):

- `Invariance`: `Spec => []BufferInv`, and from it `Bounded`, `NeverNil`, `Accounted`,
  `LateIsLate` and the action property `WholeGops`.

None of them is inductive.  `Places` says that a frame stands at its number in
`appended`, so that a new one was nowhere before, and that the five places are
disjoint.  `Room` is why the unlocked `list.count` and `maxCount` are safe: an encoder
between the lock and its release has a full `sortList`, a list that is not empty while
it cuts it and has room when it pushes; so a list that a send block has seen filled is
empty only while the lock is held.  `Sorted` gives the order: the first frame of a
full `sortList` has more than `SortMax` frames of its timestamp or later (`Passed`),
which therefore holds for everything that has left `sortList`, and a frame that is
appended later finds them before it (`Follows`).  `Removed` is the lemma about
`removeObjectsInArray:`: what is left is what was not removed, once and in order.

`RtmpConnectProofs`, for every bound on the transaction numbers (`ConnectAssumption`:
the bound is positive):

- `Invariance`: `Spec => []ConnectInv`, and from it `TypeCorrect`, `InOrder`,
  `GoodbyeSaid`, `OnAirIsOnAir` and the refinement `ImplementsHandle`.

The properties speak of what has been written and of what the calls returned;
`StageInv` ties them to the stage: `n` requests of the protocol are written and the
last may be answered (`Waiting`), or the handle was closed after `n` of them with the
goodbye that it owed (`Over`), and the result says which.  A library function is an
operator from a handle to the set of handles it may leave, so each has lemmas about
every member of the set: from an open handle it goes on or closes, on a closed one it
writes nothing.  `Close` is the heart, as its two goodbyes may themselves fail and
call `Close` again.

`RtmpChunksProofs`, for every timestamp width and mark, body and chunk size and number
of messages on their way (`ChunksAssumption`: sizes are positive, the mark is below
the width, and a head's size, four in the code, is not a frame's):

- `ChunksAgree`: `Spec => []ChunksInv`, and from it `ReaderInStep`, `TimestampsAddUp`
  and the refinement `ImplementsChannel`.

The variables do not say what a chunk on the wire belongs to, so the invariant says
that there is an account of it: for every channel the message received last and those
on their way, with the chunk size each was cut to and how much of the first was read;
for every chunk which part of which message it is; for every place on the wire the
chunk size the reader will have there (`Consistent`).  By it the chunks of a channel
are in order and complete (`OnWire`), the reader reaches each with the size the sender
cut it to (`Sized`), and both keep the header of the message before (`SenderKnows`,
`ReaderKnows`), so what `Compressed` leaves out is what `Base` puts back (`Follows`).
A step has a lemma that gives the account after it: `SendConsistent`,
`InterleaveConsistent`, `KeepsPart` for a part that is not the last and `TakesMessage`
for the last.  TLC cannot enumerate the accounts, so of this invariant it checks only
the consequences, `InStep`, `TimestampsKept` and `FifoSpec`.

Only model-checked: liveness, as fairness and ENABLED are out of the prover's reach
(`OutageHandled`, `StopQuiesces`, `NegotiationEnds`, `MicComesBack`).

## Not modelled, and the plan

Done, with their proofs: the socket and live states, the buffer, the timeline, going
live, pili-librtmp's negotiation and chunk layer, the microphone, the adaptive bit
rate, the listener's account.

Next modules:
1. A composition of `RtmpSocket` with the buffer's contents, so that heads and key frames
   are followed to the server.
2. The tag editors: a field and a list beside it that must stay equal, on three
   screens.
3. How the audio encoder cuts captures into buffers, with the rest it keeps.
4. Two listeners or hosts that choose the same username.

Left out for good: GPUImage filters and the camera (device I/O), configuration
presets, the screens' layout, the software encoder for iOS 7, generated Core Data
classes, and the other third-party pods.  Of pili-librtmp: URL parsing, AMF, playing,
RTMPT, encryption and the server role, which the application does not use.

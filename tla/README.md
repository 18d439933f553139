# A model of the live-subtitles server

The server (Go, `src/cmd`, `src/internal`) takes a speaker's audio from a capture page, a file or a
network stream, has it recognised and translated while it is spoken, and shows the captions to the
audience, to a stream and in exports. This directory models the parts of it in which goroutines,
connections, timeouts and restarts meet, checks small instances of them with TLC and proves what
matters most in most of them with TLAPS.

Contents: [the system](#the-system), [the modules](#the-modules), [the runs](#the-runs),
[bounds](#bounds), [fairness](#fairness), [proofs](#proofs), [findings](#findings),
[other divergences](#other-divergences), [what is not modelled](#what-is-not-modelled), [plan](#plan).

## The system

| Component | State | Operations | Talks to | Module |
|---|---|---|---|---|
| Session manager (`session/manager.go`) | `runs` and `clocks` under `Manager.mu`, the stored state and error of each session | Start, Pause, Resume, Stop, Forget, Close; `finished` of each run's goroutine | store, ingest hub, stream captions, bus, run pipeline | SessionManager, SessionLifecycle |
| Run pipeline (`session/run.go`, `restart.go`, `fallback.go`) | `run.mu`: attached stream, lost stretch, gaps, recovery status, provider, attempts | feed, consume, restartSource, reopen, fallback, stop | source, ASR provider, translation fan-out, bus, store, recorder | RunPipeline |
| Caption bus (`bus/bus.go`, `ws.go`) | per session: tracks (ring, index, interim), subscribers, viewer counts | Publish, SubscribeHistory, Unsubscribe, CloseSession | every producer and viewer of captions | CaptionTrack, CaptionHistory, CaptionBus |
| Caption corrections and lists (`api/handlers/captions.go`, `store/captions.go`) | rows of the caption table | PatchCaption, SaveCaption, EditCaption; ListCaptions page by page, exports | bus, store | CaptionEdits, CaptionPages |
| Translation fan-out (`translate/fanout.go`) | per target: queue of finals, latest interim, wake token | Push, the target's goroutine, Close | translators, bus | TranslateFanout |
| Audio ingest (`audio/ingest`) | the active connection, session clock, jitter buffer, stall state | ServeIngest, write, evict, Start, pump, Remove | capture pages, run pipeline | IngestSource |
| Capture page (`web/src/realtime/ingest.ts`) | socket, buffer of unsent audio | connect, capture, flush, replaced | audio ingest | IngestClient |
| Viewer page (`web/src/realtime/captions.ts`) | the lines it shows | merge of history, captions, reconnect | caption bus | CaptionViewer |
| Stream captions (`streamcc`) | status per session, live sinks, each with a queue | RunStarted, offer, deliver, RunEnded, SetYouTubeURL, SendTest, Forget, Close | session manager, YouTube | StreamCaptions |
| Captions through OBS (`streamcc/obs.go`) | one connection, its lock, the time the last caption was shown | Send with its cues, retries, Close | OBS | ObsCaptions |
| Recording (`recording`) | table of recordings, files, `Recorder.active` | Start, Write, chunks, Close, Delete, Recover, retention | run pipeline, ffmpeg, store | Recording |
| Gemini recognition (`provider/gemini/asr_*.go`) | up to three Live connections, batch, buffer, the open lines, the segmenter | frames, rotation, loss, redial, interims, finals, end of input | Google, run pipeline | GeminiStream, GeminiSegments |
| Whisper recognition (`provider/local/whisper`) | segmenter, queue of finals, latest interim | windows, cuts, transcription with a retry, cancellation | whisper-server, run pipeline | WhisperStream |
| Translators (`provider/gemini/translator.go`, `provider/local/gemma`) | resolved settings, slots per model, the client per key | Translate, Warm, Close | Google, Ollama, fan-out | Translators |
| Provider selection and keys (`provider/selector`, `secrets/store.go`) | cached key, verdict, the shared check | Select, ValidateKey, SetSecret, DeleteSecret | keychain, secrets file, Google | ProviderKey |
| Secrets file (`secrets/file.go`) | the encrypted map on disk | Get, Set, Delete | disk | SecretsFile |
| Model downloads (`models`) | the job of a model, its partial file | Download, the fetching goroutine, Close, restart | web server, disk | ModelDownloads |
| TLS certificates (`tlsutil`) | CA and leaf, provided pair, files | Refresh, load, reload, crash | disk | TlsCertificates |
| Admin events (`session/events.go`, `adminws.go`) | subscribers with a channel each | Publish, subscribe, the snapshot | manager, pages | AdminEvents |
| SRT listener (`audio/ffmpeg/srt.go`) | the run of ffmpeg, its clock, failures in a row | Start, loop, Stop | ffmpeg, run pipeline | SrtSource |
| Sessions, glossaries, settings, ports (`api/handlers`, `audio/srt`) | rows, port offsets | create, read, change, delete, Release, start and stop over SRT or a file | store, manager | SessionAdmin |
| Overlay presets (`api/handlers/overlays.go`) | saved presets by id | create, change, delete, list | store | OverlayPresets |
| Authentication (`auth`) | admin PIN, sessions, failures of a client | Setup, Login, purge, logout | store | AdminLogin |
| Subtitle files (`subtitle/segment.go`) | none: a function | Segment | exports | SubtitleSegment |
| Store (`store/store.go`) | the database's schema | Open with its migrations | SQLite | StoreOpen |
| Hardware check (`hwcheck`) | the benchmark's lock and result, cached runtimes | Benchmark, Report, Runtimes | sidecars, disk | HardwareCheck |
| Metrics (`metrics`, `app/observe.go`) | counters, histograms, open WebSockets | the middleware, Observe, a scrape | every component | ServerMetrics |
| App (`app/app.go`) | what is open, the listeners | New, Run, ServeListeners, Close | every component | AppServer |

How a caption travels: the capture page sends audio to the ingest source, whose pump hands frames
to `run.feed`, which hands them to the attached ASR stream (and to the recorder); `run.consume`
takes the stream's events, publishes source captions on the bus, saves the finals, and pushes them
to the fan-out, whose goroutines publish and save translations; the bus hands everything to viewers
and `streamcc` is offered the finals of one track.

What is hard in it:

- **One lock per component, released around every call.** The manager, the run, the bus, the fan-out
  and `streamcc` each have a mutex that is let go before the store, the network or another component
  is called. What was read before may have changed after. Most divergences are of this kind.
- **Goroutines that outlive what they belong to**: a run that drains while the next one starts, a
  sink that posts after its run ended, a connection handler that detaches after it was replaced.
- **Wake-up tokens** (channels of capacity one) in the fan-out, the stream sink and the run's backoff.
- **Clocks**: every run continues the session clock, over reconnects, lost audio and crashes, and
  recordings, captions and exports depend on it.
- **Providers that crash, stall, answer late or fail** and are replaced while audio keeps coming.
- **Bounded queues everywhere**: subscribers, jitter buffer, page buffer, stream queue, recorder queue.
- **Files and rows written in steps**: secrets, certificates, models, recordings and migrations must
  survive a process that dies between two of them.

`PROJECT.json` lists every component with its sources, every hazard with its line and the properties
that watch it, and the lines each definition models.

What makes each modelled component correct, in a sentence: the manager never has two pipelines of a
session and a stop wins; the pipeline accounts for the audio it lost, but for what the bounded input of a stream that ends held, keeps to one provider at a
time and ends; the bus's history is the last finals in order with corrections in place, and a
viewer who stays is told the viewer count; bus and store agree about edits when nobody works; the
fan-out translates finals in order and loses none; the ingest clock ascends and keeps to the wall
clock; what a page shows is what the bus would tell it; the stream gets finals in order, hears of
those it misses, and no two captions under one number; a recording stays on the session clock, no
two play the same time unless a row could not be written or read, and a deleted one has stopped; a recognition stream loses no audio unsaid and
ends each line it began; a verdict on a key is the key's; what is fetched, saved or migrated is
whole or not there; an admin's page is not left with an old state, and a cookie handed out works.

## The modules

`A --> B`: A extends or instantiates B.

    SessionManagerProofs --> SessionManager --> (SessionLifecycle as its specification)
    PipelineProofs --> RunPipeline
    MC_CaptionViewer --> CaptionViewer --> CaptionBus --> CaptionTrack
    TranslateFanout --> CaptionTrack
    IngestClient --> IngestSource
    MC_Recording --> Recording
    MC_Services --> GeminiStream, WhisperStream, ProviderKey, ModelDownloads, TlsCertificates,
                    AdminEvents, SubtitleSegment, SrtSource, ObsCaptions, AdminLogin
    MC_Library --> CaptionEdits --> CaptionTrack, (CaptionHistory as its specification)
               --> CaptionPages, SecretsFile, Translators, GeminiSegments, ServerParts
    ServerParts --> SessionAdmin, OverlayPresets, StoreOpen, HardwareCheck, AppServer, ServerMetrics
    BusProofs --> CaptionViewer;  IngestProofs --> IngestClient
    StreamProofs --> WhisperStream, SrtSource, ProviderKey, GeminiStream, StreamCaptions
    ServiceProofs --> AdminEvents, AdminLogin, ObsCaptions, ModelDownloads, SecretsFile, TlsCertificates,
                      Translators, TranslateFanout
    LibraryProofs --> CaptionEdits, Recording;  ServerProofs --> ServerParts

`MC_Services` and `MC_Library` put components side by side that share no state in the code either:
the variable `service` is chosen at the beginning and a behaviour is one of that component alone. One
run then checks each of them to its own depth, and a property of one says nothing of the others.
Components whose constants are plain sets need no MC module; their `.cfg` names the component itself.
RunPipeline and StreamCaptions say themselves which combinations of events are worth a run (`FewTroubles`,
`FewPlans`); the theorems hold for any.

**SessionManager.** One action is one critical section of `Manager.mu` or one call to the store,
the hub, the caption sink or the bus, with the private work around it. `req[p]` is an API request
(or the goroutine `Close` starts for a session) with its program counter, `task[r]` the goroutine of
run r, `running`, `runs`, `done`, `clock`, the stored rows, ingest sources, caption sinks and what
viewers were told are the shared state. The pipeline of a run is three actions: it hears audio, it
emits a caption, it ends. **SessionLifecycle** is the state machine the manager promises (`idle ->
starting -> live <-> paused -> stopping -> idle, or error`); `LifecycleSpec` says the manager's
visible state follows it.

**RunPipeline** is the inside of a run: feed, consume and the fall back of a translator as three
threads of control over `run.mu`, with streams numbered as they are opened and frame t the audio
from t to t + 1. Gaps are kept as they are recorded, streams may end, fail to open and crash at any
point, the source may jump, restart or fail. `StreamsApart` joins what keeps a run's streams apart:
audio only goes to the stream of the provider the run is on, and no two share a prefix of segment ids.

**CaptionTrack** has the ring, the index and the interim of one track as operators, used by four
modules; **CaptionHistory** is the abstract history; **CaptionEdits** runs a provider's publish path
(bus, then store) against `PatchCaption` (store, then bus) and refines CaptionHistory (`HistorySpec`).
**CaptionBus** has the session objects, subscribers and viewer counts, and the race between finding an
object and using it; **CaptionViewer** puts a page on top of it whose successive connections are the
bus's subscribers. **CaptionPages** reads one track's rows page by page, as a list, an export or the
replay page does, while captions are stored, edited and deleted between two pages.

**TranslateFanout**: per target a queue, the latest interim, a wake token and the goroutine's place.
The text of a caption is its length, by which `TrackKept` tells a line that shrinks. **Translators** are
what its goroutines call: Gemma with a limit of requests per model, retries and backoff; Gemini with
a client that is replaced when the key changes; both with settings that are reused for a while.

**IngestSource** counts time in half frames; of audio it keeps length and connection. **IngestClient**
composes it with capture pages over connections that are cut, delayed and noticed late. **SrtSource**
is the listener that takes one sender after the other, each a run of ffmpeg that ends or fails.

**StreamCaptions**: the service, one sink per run, posts that reach YouTube at some point before
their answer, retries, a drain limit that may pass at any time, an admin and a deletion.
**ObsCaptions**: the senders of several sessions and their cues over the one connection to OBS.

**Recording**: one sink per run, whose goroutine takes frames from a bounded queue and writes chunks
(row, ffmpeg, entry in `active`, frames, finish), deletions at any point, a crash that cuts the files
being written and the `Recover` that follows. Files are sequences of what they play.

**GeminiStream** is the one goroutine of `stream.run` as handlers over what the connections, the
dialer and the ticker bring; time is a choice of what has become due. **GeminiSegments** is its segmenter:
texts as sequences of words, interims and finals, cut into pieces with ids and times. **WhisperStream**
has the segmenter over windows that are speech or not, and the transcriber next to it.

**ProviderKey**: requests that decide, validate, save and delete, the keychain and the file, the cached
read and checks that several decisions share. **SecretsFile**: the steps of replacing the file, and what
is left of them when the process or the power goes. **ModelDownloads**: requests, the fetching goroutine,
what the server answers, Close and restarts. **TlsCertificates**: the local CA saved file by file, and the
operator who replaces a provided pair between two reads. **StoreOpen**: programs of two releases
that open one database. **SubtitleSegment**: `Segment` as operators over words with a length and a mark.

**AdminEvents**, **AdminLogin**, **SessionAdmin**, **OverlayPresets**: one record per request with its place
between two calls to the store or the service. **HardwareCheck**, **ServerMetrics**, **AppServer**: the
goroutines of the process that keep no session: the benchmark, scrapes, listeners.

A definition that its comment calls a mutant is a plausible wrong version of the one after it; nothing
uses it in the model, and it shows that the property named with it in `PROJECT.json` would notice. Several properties are a conjunction of named parts; each part has a
comment of its own in the module.

## The runs

Passing runs (each mutant in `PROJECT.json` breaks one of these properties):

| Run | Properties | Shows |
|---|---|---|
| `manager_safety` | `OnePipeline`, `DoneSettled`, `StopWins`, `LifecycleSpec` | Two concurrent requests and the goroutines of two runs of one session, in every interleaving: one pipeline at a time, a stop wins, nothing is left behind when done is closed, and the visible state follows SessionLifecycle. |
| `manager_restarts` | `ClockSound`, `CloseDrains` | Two runs of one session with stored captions, a shutdown and a server restart: a later run's captions start after every stored caption, and Close leaves no pipeline behind. |
| `captions` | `RecentShown`, `Reachable`, `ViewersTold` | A page with two connections one after the other, a publisher and CloseSession between the two locks of lockSession, three messages, corrections, a channel of one: nobody waits on a forgotten session object, the viewer count is right or will be sent, and after each reconnect the page shows the bus's recent history. |
| `pipeline` | `StreamsApart`, `AudioAccounted`, `RunEnds` | A run with a provider that crashes, cannot be opened or reports errors, a fallback from consume or from a translator, a source that fails and a pause, in the combinations FewTroubles lists: audio only goes to the provider the run is on, no two streams share segment ids, what no provider took is in a recorded gap or was left in the bounded input of a stream, no input is closed under a send, and a stopped run ends without the stop timeout. |
| `fanout` | `TrackKept`, `CloseReturns` | Five captions of three segments through one target, with partial output, failures, cancellation and closing in any order: finals are done in order and none is lost, a line on screen never shrinks, and Close returns. |
| `ingest` | `NoLostWakeup`, `FramesKept` | Two connections that replace each other, stall and burst, a consumer and a removal in any order: the frame line never goes back nor ahead of the wall clock, a frame never mixes two connections, and the pump never sleeps on a frame. |
| `capture` | `HeardInOrder`, `ReadyFlows` | One page with two connections over a network that cuts and delays them: the source hears its audio in order and no message twice, and a page whose connection is no longer active does not believe itself ready for ever. |
| `stream` | `CaptionsDelivered` | A full queue and a URL change, two sinks draining side by side, a test caption, a deletion, posts that fail and are retried or go stale: what YouTube gets is in order under its own seq, what it does not get is reported, and no sink sleeps on work. |
| `recording` | `RecordingsTrue`, `FoundIsStopped` | Two runs with pauses, dropped frames, an ffmpeg that stops and a crash of the server, and one or two deletions of what is being written: every file stays on the session clock, no two play the same time, every row settles, and a deletion that found the sink has stopped it. |
| `services` | `StreamSound`, `InterimsEnd`, `VerdictsTrue`, `VerifiedFetch`, `TrustKept`, `ReloadMissesNothing`, `PageNotBehind`, `CuesSound`, `SourceGoesOn`, `ShownInTurn`, `LoginsHold` | Ten components that share no state, side by side: Gemini's and Whisper's recognition streams, the Google key, a model's download, the certificates, the admin events, the cues of exports, the SRT listener, captions through OBS, and setup and logins. Audio and lines survive lost connections, verdicts are Google's, what is fetched is verified, a CA in use stays trusted, a page is not left behind, time goes on from sender to sender, and what an admin was answered stays true. |
| `library` | `BusShowsStore`, `HistorySpec`, `PagesWhole`, `SavedSound`, `SecretsWhole`, `CallsFit`, `ProcessSound`, `SegmentsWhole` | Components that share no state, side by side: edits of captions against the provider's, where the ring implements CaptionHistory and bus and store agree at rest; pages of captions read while they are written; sessions, glossaries and SRT ports under concurrent requests; the encrypted secrets file over crashes and power loss; Gemma's slots and the keys of Gemini's client; the benchmark and the runtime checks; the start and the end of the server process; how Gemini's transcriptions are cut into segments; the metrics under scrapes; overlay presets; and programs that open the database at once. |

A run that TLC must find violated, with the statement of a comment as its property
(see the [findings](#findings)):

| Run | Property | What happens |
|---|---|---|
| `manager_stop_returns` | `StopReturns` | A Stop that meets a start with a missing provider waits for ever on a done channel nobody closes. |

## Bounds

Every counter that could grow is capped by a constant named `Max...` and commented `bound:` where it
is declared, or by the budgets of a plan; the `.cfg` of each run gives its value. Timeouts, backoffs
and drain limits have no length: they may pass at any moment they could pass in the code, which covers
every setting of them. The bounds are the smallest at which the case a property is about happens more
than once:

- *SessionManager*: one or two concurrent requests, two runs of one session (so that a run can end
  while the next starts), one second of audio and one restart where the clock matters. The manager
  keeps sessions apart by their id, which is a key of every map; two sessions add no interleaving
  that touches the same state.
- *RunPipeline*: up to two frames, inputs of one frame (so that one is full), one switch, `MaxAttempts` 1 so that the give-up is reached, and the
  combinations of `FewTroubles`: two crashes, two failed opens, an error, a pause, and a crash with an
  error, so that a fallback begins while a stream is being opened.
- *CaptionEdits*: a ring of three finals and five events over four segments, so that slots are reused;
  one edit, one restart, and finals that the store refuses. With two editors bus and store part (see the other divergences).
- *CaptionBus and CaptionViewer*: a channel of one, three messages, two object lives, so that a
  subscriber is dropped and closing meets the race of `lockSession`; a ring of two, of which a page shows
  one, so that a history is longer than the page.
- *TranslateFanout*: five captions of three segments, so that finals queue up behind an interim and
  behind each other.
- *IngestSource*: a frame of two units, so that sub-frame positions exist; two connections that replace
  each other, a jitter buffer of one frame, which overflows; one restart of the consumer.
- *IngestClient*: one page with two connections, two buffered messages, audio and time of four.
- *StreamCaptions*: a queue of two and, in the plans, three finals with a URL change, two runs that
  overlap, a test caption, and a deletion.
- *Recording*: frames and chunks of a few units with a gap shorter and one longer than `MaxGap`; the plans
  combine two runs, a crash, a failure (of the disk, of ffmpeg or of any call to the store) and up to two deletions at once.
- *GeminiStream*: five frames, four connections, two failures and one retry: a loss during a rotation, a
  loss during the redial, a buffer of three that overflows. *WhisperStream*: seven windows, so that an
  utterance reaches its maximum and is cut while the one before is transcribed.
- *ProviderKey*: two requests, a good and a bad key, one fault of the keychain or the file.
  *ModelDownloads*: two requests, two attempts, a file of two blocks, one restart.
- *TlsCertificates*: a CA that lives two units and a leaf of one, five key pairs, three versions of the
  provided files. *AdminEvents*: two publishers, a channel of two, three changes, two connections.
- *SubtitleSegment*: texts of up to four of five words, one of them longer than a line, with
  four kinds of caption after each other. *SrtSource*: four runs of ffmpeg with two frames each.
- *ObsCaptions*: two senders, two cues an item, time up to four with gaps of two or three.
  *AdminLogin*: two requests, two PINs, two failures in a window of two, three logins.
- *CaptionPages*: three rows at three starts, pages of one, one write between two of them.
  *SessionAdmin*: two requests at a time of three, two sessions, one glossary, two ports, two
  values of `settings.srt.port`, the second of which leaves no port for a second session.
- *SecretsFile*: two callers, two names, three saves, a power loss at any step. *Translators*: two calls
  each, two models with one slot, two keys, one retry, a lifetime of settings of two.
- *HardwareCheck*: two requests, three benchmarks, a clip of two frames, and two checks of the runtimes.
  *AppServer*: two requests under way, both listeners, a failure of either or a signal at any point.
- *GeminiSegments*: two connections, two transcriptions that split by sentence and by clause, three
  segments. *ServerMetrics*: one request and two scrapes, one at a time, four families.
  *OverlayPresets*: three calls over four names that meet in their ids. *StoreOpen*: programs of two
  releases with two and three migrations, two of the openings repeated.

Symmetry is used where the members of a set are interchangeable and no definition names one: the
deletions of `Recording` (`Alike`), whose run checks safety only. `CHECK_DEADLOCK FALSE` is in the configurations whose system comes to rest when its bounded
inputs are used up, which is all of them.

## Fairness

Most runs check safety and use no fairness. Four specifications state it, and assume no more than this:

- `SessionManager.FairSpec` (`StopReturns`): each request and each run's goroutine takes a step if it can
  (the Go scheduler, and mutexes that are held for bounded work), and the pipeline of a cancelled run, or of
  one whose source is closed, ends (`domain.ASRProvider`: closing the input flushes, cancelling aborts).
- `RunPipeline.FairSpec` (`RunEnds`): feed, consume and the fallback take steps if they can; a cancelled
  source closes its channel; a stream that was told to end does.
- `TranslateFanout.FairSpec` (`CloseReturns`): a target's goroutine, Push and Close take steps if they
  can; a translation ends, at the latest at its timeout.
- `IngestClient.ClientFairSpec` (`ReadyFlows`): handlers run, and a broken connection is noticed on both
  ends, as the timers of the server and of the page make it.

Each is weak fairness of a goroutine's steps as a whole, never of one of its branches: a model may still
choose that a post fails each time or that a translator returns nothing. Nothing is assumed of people:
nobody has to start, stop, edit, delete or speak.

## Proofs

Each theorem is proved for any sets, sizes and bounds that the named assumption of its module allows;
TLC evaluates those assumptions in the runs. None of the properties is inductive by itself: each proof
goes through an invariant that is, with `Init => Inv`, one lemma for a step (one case per action) and
`Inv => property`.

| Theorem | Property | Inductive invariant, and why the property needs it |
|---|---|---|
| `SessionManagerProofs.OnePipelineHolds` | `OnePipeline`: the goroutines of a run work only while that run is registered, so a session never has two pipelines | `Inv`, below |
| `SessionManagerProofs.DoneSettledHolds` | `DoneSettled`: when `done` of a run is closed, its state is settled and it is out of the map | `Inv`: a run that has begun to finish is cancelled, and one whose `done` is closed was used |
| `SessionManagerProofs.ClockSoundHolds` | `ClockSound`: a run begins after every caption its session stored | `Inv`: the clock in the map, or the one a request carries, is past what is stored, unless the captions could not be read |
| `SessionManagerProofs.CloseDrainsHolds` | `CloseDrains`: after `Close` no pipeline of a session with a row is left | `Inv`: who launches a run after `closed` was set found it unset, and is one of those that `Close` waits for |
| `SessionManagerProofs.StopWinsHolds` | `StopWins`, an action property | `Inv`, and each step: no step of a run that is stopping changes its state but to an end |
| `SessionManagerProofs.ManagerImplementsLifecycle` | `LifecycleSpec`: the manager implements SessionLifecycle | `Inv`, and each step: it changes the visible state of one session along the state machine, or of none |
| `SessionManagerProofs.TypeCorrect`, `LaunchOwnsRunHolds`, `NoFailedWhileRunningHolds` | types; a request that launches a run is the only one to do so; a running session shows no error of an earlier run. They are parts of `Inv`; no run lists them | `Inv` |
| `BusProofs.AlwaysReachable` | `Reachable` | `BusInv`: each channel has one object at most, a subscriber works on the object it found, and an object out of the map is closed by the one who took it out |
| `BusProofs.AlwaysViewersTold` | `ViewersTold` | `BusInv`: the count last told is the number of subscribers, or the timer is set, where a drop within the telling counts again |
| `BusProofs.ViewerUsesBus` | `ViewerSpec => Spec`: the bus with a page implements the bus, so the two theorems above hold of it; no run lists it | none: each step of the page leaves the bus alone or is a step of it |
| `PipelineProofs.AlwaysApart` | `StreamsApart` | `ApartInv`: inputs are closed by the end of the source alone; the stream that consume has open has a name no stream with audio has; and once a stream named in the present switch had audio, consume works on the provider of that switch, so that the number of the switch is not given twice |
| `PipelineProofs.AudioAlwaysAccounted` | `AudioAccounted` | `LostInv`: every moment before the clock or before the offset of a source that starts again is accounted for; an input holds frames of its own stream that were heard, and was not full when one was put there; feed has a frame only of a source with a base; what is being lost began before the last frame |
| `IngestProofs.NoWakeupLost`, `FramesAlwaysKept` | `NoLostWakeup`, `FramesKept` | frames of one connection follow each other in the buffer and on the clock; a pump about to sleep has seen the buffer that the notification was sent for |
| `IngestProofs.AlwaysHeardInOrder` | `HeardInOrder`, for one page at a time | `ClientInv`: what the page keeps, what its socket carries and what the source heard is one ascending line, over all the connections that are still open |
| `ServiceProofs.LoginsAlwaysHold` | `LoginsHold` | `AuthInv`: nobody gets past its check before a PIN is stored, and a setup that got there stored its own; a row was handed out, and goes by logout or at its end |
| `ServiceProofs.PagesKeepUp` | `PageNotBehind` | `AdminInv`: what a publisher carries is no later than the status, and the last event in the channel, or the snapshot being written, or the page, is not behind what was published last |
| `ServiceProofs.AlwaysShownInTurn` | `ShownInTurn` | `ObsInv`: one sender at a time is past the lock, it does not ask before the gap is over, and the last cue shown is the last it counted or, while its answer is awaited, the next |
| `ServiceProofs.FetchesVerified` | `VerifiedFetch` | `ModelInv`: while a goroutine works no other does and the job is its own, so that the partial file it verified is the one it renames |
| `ServiceProofs.NoReloadMissed` | `ReloadMissesNothing` | `ProvidedInv`: what a load saw of a file is no later than the file is now, and the stamps kept are of versions no later than the pair served |
| `ServiceProofs.TrustAlwaysKept` | `TrustKept` | `LocalInv`: a CA that devices have, that is not near its end and that the last start could read (`Relied`) is the one on disk and in memory, such a one is never overwritten, and where a Refresh stands tells which pair is whole |
| `StreamProofs.CaptionsAlwaysDelivered`, `StreamTypesHold` | `CaptionsDelivered`; types | `StreamInv`, below |
| `LibraryProofs.RingIsHistory` | `HistorySpec`: the ring with its index implements CaptionHistory | `TrackOK`: the entry numbered n is in slot n modulo the size, and the index has the numbers of the entries that are there and no others. `Adds` gives the five ways of `track.add`, each a step of the history or none; the lemmas on remainders carry it past the wrap |
| `LibraryProofs.OneEditorShows` | `BusShowsStore`, for one editor at a time (`\A a, b \in Editors : a = b`; with two it fails, see the findings) | `EditsIInv`: an entry has its row's text and flag, or the store refused its final, or the request that edited it or `run.publish` has yet to bring them together; an entry is edited only after its row; and a segment the provider still corrects was pushed at most as many finals ago as segments and edits came since, so it is in the ring |
| `ServiceProofs.SecretsAlwaysWhole` | `SecretsWhole` | the temporary file is synced before it is renamed, and only the holder of the lock has one under way |
| `LibraryProofs.RecordingsAreTrue` | `RecordingsTrue`, where ffprobe works (`ProbeWorks`; without it the file that a crash leaves has the length last saved, and a later run may begin inside it: `ChunksApart`, see the other divergences) | `RecInv`, below |
| `LibraryProofs.FoundSinksStop`, `RecorderTypes` | `FoundIsStopped`; types (a part of `RecInv`) | `RecInv` |
| `ServiceProofs.CallsAlwaysFit` | `CallsFit` | `CallInv`: the slots in use of a model are as many as the calls that hold one, which are finitely many; what is kept of a setting that was replaced runs out at the latest a lifetime after the replacement; a call asks with what it read while that was current |
| `ServiceProofs.TrackAlwaysKept` | `TrackKept`, an invariant and an action property | `FanInv`: the finals pushed are those done, the one in hand and those that wait, in this order and with consecutive segments; an interim waits for the segment after those pushed, and is in hand for the one after those done; and what the track shows of that one is what was last shown of it |
| `StreamProofs.InterimsAlwaysEnd` | `InterimsEnd` | `WhisperInv`: what is shown awaits its final: it is spoken and long enough to be kept, queued, or being transcribed; finals are queued in order; a transcriber that sleeps has a wake token if there is something queued |
| `StreamProofs.StreamAlwaysSound` | `StreamSound` | `AsrSound`: the current, the next and the replaced connection and the one the dialler hands over are different ones and the only ones open; the next one and the handed-over one took no audio yet; only what took audio can have a line; audio is batched with a current connection and buffered without; what was sent, is batched and is buffered ascends and with what was dropped is all that was heard |
| `StreamProofs.SourceAlwaysGoesOn` | `SourceGoesOn` | `SrtInv`: the time is ahead of the wall clock of the last audio by a frame and three half frames for each sender that ended; the failures counted are exactly the quick ones in a row, fewer than three while the loop goes on; an error is set only by the step that ends the loop; the source is marked as running exactly while its loop is |
| `StreamProofs.VerdictsAlwaysTrue` | `VerdictsTrue` | `KeyInv`: what a check in progress was told is true of the key it was started with, and whoever waits for it read that key |
| `ServerProofs.SavedAlwaysSound`, of `SessionsAlwaysKept`, `PresetsAlwaysApart` and `SchemaAlwaysWhole` | `SavedSound` | `AdminInv`: offsets are given to one session each and taken from deleted ones only, and a told port is the kept offset added to the settings.srt.port that was read for it; a reference that a request has checked and has yet to write is to a glossary that is there, or was removed meanwhile. `PresetInv`: a saved preset was created under its id by the request it names, and an id that a creation tried is a built-in's or was taken by another creation. `OpenInv`: what is applied is what is recorded, the migrations up to some number; whoever is in a transaction holds the lock, and has left the rest of its own after those it saw recorded |
| `ServerProofs.ProcessAlwaysSound`, of `HardwareAlwaysSound`, `ServeAlwaysEnds` and `MetricsAlwaysTrue` | `ProcessSound` | `BenchInv`: one call holds the lock, a stream is open only in its hands, and the file tells the last result unless somebody is saving it; `RuntimesInv`: what a check saw is no older than it may be when it is stored. `AppInv`: as many results are pending as goroutines serve and ends are unread; whoever listens is yet to be shut down. `MetricsInv`, below |

`SessionManagerProofs.Inv` has six parts: `TypeOK`; `Links` (the run a request holds, the run registered
for a session and the session of a run agree); `Ownership` (`LaunchOwnsRun` and `OnePipeline`: a pipeline
starts in `LaunchPipeline`, and there it is `LaunchOwnsRun` that says the run is still the registered one);
`Settled` (`DoneSettled` and `NoFailedWhileRunning`); `Clocks`, for `ClockSound`; and `Drained`, for
`CloseDrains`. There is one lemma per part, each with one step per action; `InvStep` puts them together.

`StreamProofs.StreamInv` has these parts: types; each sink by itself (`SinkSound`: what it has in hand at a
place of its loop, a tally of what it accepted, its queue in order); who may still reach a sink
(`Registered`); the state objects that deletions make (`ObjectsMade`) and whom a status tells of
(`StatusKept`); and the numbers. A seq is taken before it is posted and kept through retries, so `Numbered`
speaks of all who hold one: what YouTube got, the captions in hand, a test under way. `SentBehind` says that
what a sink sent is behind what it has in hand and what waits. Lemmas say which parts a step leaves alone
that touches one sink only.

`LibraryProofs.RecInv` has these parts: types, and bounds of queues and numbers; shapes (`RecShape`: what a
sink at a place of its loop holds, which rows and files it has made, what Delete found); times (`RecTimes`:
the moments in a queue, in a chunk and in the files of a run ascend in this order, runs follow each other,
and every moment is before the clock); and what settles a row (`OnClock`, `RowsSettle`, `Asked`), where `stuck` and `behind` say what the store or the
disk refused. The
times are stated of marks, the moments that a sink still holds, and of plays, the moments that a file covers:
a step that makes no new mark and lets no file cover a moment but a mark of its own sink keeps the order.
That is one lemma, and each action shows what it does to marks and plays.

`ServerProofs.MetricsInv` says of the counts that each observation is in the one bucket it fits, and that
the sets of requests open, counted and timed are as large as the counters; and of a scrape that it wrote each
family before the one it is at, or had a failure to tell, that no sample is more than there is by now, and
that none is less than the sample of a scrape served before it began. What a histogram's cumulative sum
computes over any number of buckets is proved by its least bucket that would be wrong (`Cumulates`), which
needs no induction theorem; the same argument is made of the walk over a name to the id of its preset.

Only model-checked: everything that speaks of fairness (`StopReturns`, `RunEnds`, `CloseReturns`,
`ReadyFlows`) and `ENABLED`, which are out of the prover's reach; and what recursive functions, folds or a
sorted sequence compute over data (`CuesSound`, `SegmentsWhole`, `RecentShown`, `PagesWhole`), which needs
induction. Every other invariant and action property of a run is a theorem.

## Findings

Where the code and what it says of itself part. It has a run with a counterexample.

- `manager_stop_returns` (`src/internal/session/manager.go:232`, code): When the session's provider is missing, launch returns before run.start, so neither run.abort nor run.finish ever closes run.done. A Stop (or the Stop of Close) that caught the run while it was starting cancels it after StopTimeout and then waits on <-r.done for ever; manager.go:51 says "StopTimeout bounds how long Stop waits for pending captions to flush" and manager.go:601 "Close stops every running session (without waiting for flushes beyond StopTimeout)".

## Other divergences

Each of these is a statement of a comment, a document or a reader's expectation that a module states as
a property and that does **not** hold of it: TLC finds the counterexample with a `.cfg` that lists it. They
are not among the runs, which keep to what holds; the ones found by reading alone say so.

- `RunningIsStored` (SessionManager, `src/internal/api/handlers/sessions.go:577`): DeleteSession asks the manager to forget the session and then removes the row without holding anything in between; a Start that looked the session up before registers its run there and runs a session that has no row, which Stop, Pause and the Stop of Close answer with not found. sessions.go:566 says "DeleteSession removes a session that isn't running, with its captions."
- `RunEndedIsOwn` (SessionManager, `src/internal/session/manager.go:429`): finished unregisters the run, releases the lock and only then calls RunEnded with the session id; a Start in that window has its RunStarted followed by the old run's RunEnded, which closes the new run's sink, and the live run sends no stream captions. manager.go:100 says "RunStarted is called when a run starts (not on resume), before its pipeline; RunEnded follows when it ends or fails to start."
- `FreshIngest` (SessionManager, `src/internal/session/manager.go:426`): finished releases the session's ingest source after it has unregistered the run; a Start in that window takes the old source from the hub, and the release then closes it under the new run, which ends by itself. manager.go:41 says "ReleaseIngest forgets the session's ingest source after a run, so the next run starts a fresh timeline".
- `ViewersKnowState` (SessionManager, `src/internal/session/manager.go:239`): Start announces the run's state after goLive without looking whether the run is still registered: a run whose source ends at once (a short file, a stop) is announced live after finished has announced the session idle, and nothing corrects it. manager.go:531 says "changed publishes a state change of r to viewers and admins".
- `BusShowsStore` (CaptionEdits, `src/internal/api/handlers/captions.go:178`): PatchCaption stores the edit and then publishes the row it got back, with nothing held in between. Two requests for one caption may store in one order and publish in the other; the bus's ring, live viewers and every later history then keep the older text for good, while exports and replay have the newer one. captions.go:139 says "Exports, replay and the bus history then show the correction".
- `LostIsReported` (RunPipeline, `src/internal/session/restart.go:170`): feed sends into the stream's input, which is buffered (64 frames, src/internal/provider/gemini/asr_stream.go:113 and mock/asr.go:40; 256, local/whisper/provider.go:158), and succeeds as long as there is room, also when the stream has ended and consume has yet to detach it. What is in that buffer by then, up to about 5 s of audio, reaches no provider and is in no gap. src/docs/dev.md:204 says "every stretch of audio that never reached the provider (a restart, or a capture reconnect) is logged as an `audio.gap` admin event". `AudioAccounted` says what the code does keep: nothing else is lost unsaid, and that buffer is bounded.
- `GapsDisjoint` (RunPipeline, `src/internal/session/restart.go:209`): addGap never looks at the stretch that is being lost: when the source's timeline jumps (pump) or restarts (restartSource) while no provider stream is attached, the jump is recorded as a gap, and resume later records the whole stretch from lostFrom, which contains it. gapBefore adds both, so gapBeforeMs counts the same audio twice; api/openapi.yaml:1633 says it is "Audio lost just before this caption".
- `PausedIsNotLost` (RunPipeline, `src/internal/session/restart.go:200`): A stretch of lost frames only ends at the next frame that is sent; frames that come while the session is paused are not sent, so a pause during a provider restart is part of the gap, and gapBeforeMs and the audio.gap event report minutes nobody spoke for. docs/dev.md:204 says a gap is "every stretch of audio that never reached the provider (a restart, or a capture reconnect)".
- `BackoffKept` (RunPipeline, `src/internal/session/fallback.go:220`): fallback leaves a token in run.kick; when consume itself fell back (or was not waiting), it opens the new provider without taking the token, and the first wait of a later restart, whose provider did not change, ends at once. restart.go:38 says of Backoff "the wait before each attempt"; run.go:88 says of kick that it "wakes a provider restart that waits, after a fallback".
- `RecoveryShown` (RunPipeline, `src/internal/session/restart.go:305`): run.recovering is one field for both components: while the provider and the source restart at the same time, restarted (or a source that gave up waiting) sets it to nil although the other one is still waiting for its next attempt. api/openapi.yaml:1537 says RecoveryStatus is "Present while the session restarts a crashed provider stream or a failed audio source".
- `GiveUpShown` (RunPipeline, `src/internal/session/fanout.go:33`): After failFatal the run still drains its translations; a final that fails to translate there overwrites run.err through fail, and a fallback that a translator had begun clears it (fallback.go:209), so Manager.finished records translation.failed or an empty error for the ended run. docs/dev.md:205 says giving up ends "the run in `error` with `provider.failed` or `source.failed`".
- `StopFlushes` (RunPipeline, `src/internal/session/fallback.go:194`): fallback checks for the stopping state before it probes the other provider but not after: a Stop during the probe (up to 5 s) is followed by the switch, which cancels the attached stream before it flushed, and the last finals are lost. run.go:25 says "Stopping cancels only the source: its channel closes, feed closes the ASR input, the provider flushes its last finals".
- `FailedLineMissing` (TranslateFanout, `src/internal/translate/fanout.go:291`): When the translation of a final fails, translate() only calls Failed and returns: the interim of that segment, if one was translated before, stays the track's current interim on the bus until an interim of a later segment replaces it (the final of another segment does not clear it). The comment on Options.Failed (src/internal/translate/fanout.go:57) says: "Failed, if set, is told when a final can't be translated; that line is then missing from the lang track." The run shows a failed final whose line is still in the lang track, as an interim.
- `TracksWallTime` (IngestClient, `src/internal/audio/ingest/source.go:260`): write takes the start of a connection's first message as the end of the reconnect gap, but the capture page buffers what it captures while disconnected (web/src/realtime/ingest.ts:57 "It reconnects with backoff and flushes what it buffered meanwhile") and flushes it message by message: the outage is added to T once as the gap and again as the flushed audio, and T stays ahead of the wall clock by the length of what was flushed. source.go:36 says "forward by it (rounded to whole frames), so T keeps tracking wall time and stays monotonic".
- `ReplacedByAnother` (IngestClient, `src/internal/audio/ingest/hub.go:207`): ServeIngest attaches connections in the order their hellos are handled, with nothing that tells one page from another. A page that gave up a connection before the server had attached it, and reconnected, is told ingest.replaced by its own older connection, and stops for good with nothing capturing. web/src/realtime/ingest.ts:22 says "`replaced`: another capture page took over; this one stops for good".
- `HiddenIsGone` (CaptionViewer, `src/web/src/realtime/captions.ts:96`): The history of a new subscription leaves hidden captions out (src/internal/bus/bus.go:316), and the page merges it into what it already shows, removing only what arrives as a hidden caption: a line hidden while the page was disconnected, or was dropped for falling behind, stays on the page. api/openapi.yaml:1660 says of hidden: "true removes the line from viewers, exports and replay".
- `SeqIncreasing` (StreamCaptions, `src/internal/streamcc/service.go:502`): SendTest takes its seq from the session's counter and posts it at once, while the running sink may be retrying a caption with an earlier seq (and two sinks drain side by side after a quick restart): the seqs arrive out of order. src/internal/streamcc/service.go:109: "last seq used; YouTube wants it increasing"; src/internal/streamcc/youtube.go:39: "The URL gets an increasing `seq`".
- `UrlHanded` (StreamCaptions, `src/internal/streamcc/service.go:228`): RunStarted reads the URL before it registers the sink: a URL stored in between is handed to no sink, and the run keeps the old one (or none). src/internal/streamcc/service.go:411: "SetYouTubeURL stores the session's caption ingestion URL (CC-2) and hands it to the running sink"; src/docs/dev.md:306: "a URL saved or removed while it runs takes effect at the next caption".
- `SettlesOwn` (StreamCaptions, `src/internal/streamcc/service.go:294`): sinkDone looks for a new run under the lock, lets it go and sets the status: a run that starts in between has its status (no_url, say) overwritten with idle. src/internal/streamcc/service.go:290: "sinkDone settles the status once a sink has stopped, unless a new run has started meanwhile".
- `ForgottenStays` (StreamCaptions, `src/internal/streamcc/service.go:467`): Forget deletes the session's state, but its last sink may still be draining: its next recordDelivery or its sinkDone makes the state again, and nothing removes it. src/internal/streamcc/service.go:462: "Forget drops what the service keeps about a deleted session".
- `TestReturns` (StreamCaptions, `src/internal/streamcc/service.go:510`): SendTest dereferences Status after recordDelivery has let the lock go: a Forget in between leaves it nil and the handler panics. src/internal/streamcc/service.go:476: "enabled, and returns the resulting status".
- `DeletedIsGone` (Recording, `src/internal/recording/library.go:55`): Delete looks the recording up in active, where startChunk enters it only once ffmpeg has started: a recording deleted between its row and that entry loses its row (and the file it may have by then), and the sink writes it on with no row, out of reach of any later deletion and of the retention job. src/internal/recording/library.go:46: "Delete removes a recording and its file, or returns domain.ErrNotFound. A recording still being written stops first".
- `FileStarts` (Recording, `src/internal/recording/library.go:63`): Start makes the session's directory, but the first frame may come much later; deleting the session's last recording meanwhile removes the empty directory and the run's ffmpeg cannot make its file, so the whole run goes unrecorded. src/internal/recording/recorder.go:121: "Start begins recording a session run. The file itself starts with the first frame"; src/internal/recording/library.go:63: "the session's directory, once empty".
- `ChunksApart` (Recording, `src/internal/recording/recorder.go:226`): When ffprobe is missing or fails, Recover keeps the row's last saved length, up to Options.Progress short of what the file plays, and clockOrigin starts the next run from it: inside the recording's replay when more than the second it adds was not saved. src/docs/dev.md:137: "After a server restart the clock continues after the session's last caption and its last recording, whichever ends later, so a new run never falls inside an earlier recording's replay".
- `WrittenOrDeleted` (Recording, `src/internal/recording/library.go:60`): Delete kills the chunk first and returns on an error of os.Remove: the killed chunk settles nothing, so the row says `recording` until the server restarts, and the retention job skips rows that say so. The same is left when the store refuses the row: `DeleteRecording` after the sink was stopped and the file removed (src/internal/recording/library.go:64), `UpdateRecording` as a chunk ends, which is logged (src/internal/recording/sink.go:356), or in Recover, which returns at the first error and leaves the older rows (src/internal/recording/recorder.go:231; the server then goes on, src/internal/app/app.go:160). `RowsSettle` allows these rows and no others. src/docs/dev.md:257: "Deletes the recording and its file; one still being written stops"; src/internal/recording/recorder.go:200: "Recover settles the rows left in the recording state by a crash or a kill".
- `NoneOverlaps` (Recording, `src/internal/session/manager.go:320`): when the recordings cannot be read, the clock of the next run starts as if there were none, and when Recover could not write a row, that row has the length last saved or none; the run then starts inside the recording. src/internal/session/manager.go:310 says the clock must continue past it, "or the next run's captions would fall inside an earlier recording's replay window". `ChunksApart` leaves these recordings (`behind`) out and no others.
- `FinalsStored` (CaptionEdits, `src/internal/session/run.go:321`): a final is sent to the bus and then saved, and an error of the store is logged: viewers and histories have a caption that exports and replay do not, or have in its earlier text, for good. src/docs/dev.md:131 says a running session is a pipeline to "the caption bus and, for final captions, the database". `BusShowsStore` leaves these captions (`unstored`) out until somebody edits them, and no others.
- `FailsUnopened` (SrtSource, `src/internal/audio/ffmpeg/srt.go:263`): one start of ffmpeg that fails when the listener is reopened (no process, say) ends the source at once, whatever came before. srt.go:79 says "The source only fails (Err) when ffmpeg can't even open the listener three times in a row". `EndsForCause` has both ways.
- `InstalledOnce` (TlsCertificates, `src/internal/tlsutil/manager.go:289`): at a start of the server any error in reading or parsing `ca.crt` or `ca.key` (permissions, a damaged file, one file missing) makes a new CA, which overwrites the one that devices trust although it has years left. The warning in the log says so ("local CA unreadable, creating a new one; devices must install it again"); src/docs/dev.md:98 says "The CA stays the same, so devices install it only once", and names only a deleted `ca.key`. `TrustKept` leaves such a CA (`unread`) out and no other.
- `PortForLife`, `ToldApart` (SessionAdmin, `src/internal/audio/srt/srt.go:178`): a session keeps its offset, but its port is the offset added to `settings.srt.port` as it is at each call, and `UpdateSettings` replaces that without a restart: the next URL of a session differs from the one an encoder was given, a run listens where the new settings say, and with the port lowered by one a session is told the port that another was told before. Without a readable setting it is the default of 9000. srt.go:14 says "A session keeps its port for the life of the process, so the URL in SessionUrls.srtIngest doesn't change between runs", and srt.go:12 that "each session gets its own port". `PortsKept` says what is kept: the offset.
- `CacheCurrent` (ProviderKey, `src/internal/provider/selector/selector.go:382`): readKey reads the secret store with no lock held and then fills the cache for KeyTTL. A key that is saved (or deleted) and Forget between the two leave the older read in the cache: decisions keep to the key of before, or to there being none, until it expires. selector.go:353 says of Forget that it "drops the cached key, so a key saved or deleted a moment ago is seen by the next decision".
- `CancelIsNoError` (SrtSource, `src/internal/audio/ffmpeg/srt.go:265`): When the context ends as the delay before a reopen passes, the loop goes on to start ffmpeg, which refuses with the context's error, and keeps it as the source's. srt.go:131 says Err is "nil when its context was cancelled".
- `NoneRepeated` (ObsCaptions, `src/internal/streamcc/obs.go:180`): A cue that OBS shows, but whose answer is late or lost with its connection, is not counted in it.done and is shown again by the retry. obs.go:118 says that cues already shown are skipped, "so a retry doesn't repeat them".
- `LockedByRecent` (AdminLogin, `src/internal/auth/limiter.go:58`): A login reads the clock before it verifies the PIN, so two that run at once may add their failures in the other order; prune stops at the first failure that is recent, and one behind it that is too old is still counted. limiter.go:17 says of the list "oldest first", and that a client is blocked after max failures within the window.
- `DialersStopped` (GeminiStream): `done` of a stream "stops readers and dialers", but a dial that
  succeeds as `run` returns leaves its connection open until the server closes it.
- `SavedIsRead` (ProviderKey): a key saved to the file while the keychain cannot be read is not the one
  that decisions read once the keychain answers with an older one. By reading: `SetSecret` that falls
  back to the file likewise leaves the keychain's older value, which is read first.
- `ReadyNotFetched` (ModelDownloads): a request that looked for the job before another finished it starts the
  download of a model that is ready.
- `OfferedSigned` (TlsCertificates): a Refresh that renews the CA and then fails on the leaf keeps the previous
  leaf in service, which the CA that is now offered for download did not sign.
- `NeverBack` (AdminEvents): two publishers read the status and publish in the other order; a page shows
  a status older than one it has shown, until the next change.
- `LinesEven`, `CuesApart` (SubtitleSegment): `wrap` may leave lines that could be more even (its average
  counts the spaces that breaks replace), and the cues of a caption without a span all start together.
- `RunHasItsRow` (SessionAdmin): a change of the pipeline settings checks that no run is on and then writes; a
  run that starts in between works with the settings of before. `OffsetsAreOfSessions`: a request that read
  a session presents it after its deletion and takes a port for it, which nothing releases.
  `FileStopsFile`: stopping a file source looks at the kind of the run and then stops the session: a run over
  SRT that started in between is stopped.
- `NewestKept` (HardwareCheck): of two checks of the runtimes that overlap, the one that began earlier may end
  later and replace the newer result. `LastSurvives`: the benchmark's file is emptied before it is written.
- `AnsweredSurvives` (SecretsFile): the directory is not synced after the rename, so a loss of power may take
  back what a caller was told. `NoneLeft`: a stop before the rename leaves the temporary file for good.
- `WindowKept` (CaptionPages): a settled recording without a length has no window, and its replay lists the
  captions of the whole session. `ExportsAreWhole`: an export whose session is deleted between two
  pages is answered with the pages it had.
- `NoneUnderClose` (AppServer): after `ShutdownTimeout` requests go on while the services under them are
  closed. `FailuresTold`: a signal that is seen before a listener's failure hides it.
- By reading: two PATCHes of one session write the whole row, and the later loses the earlier's fields;
  `Release` and the creation of a session under the same slug may give it another port; a probe of ffmpeg's SRT
  support that fails late overwrites one that succeeded; creating a session and rotating its ingest token are two statements; `Report` reads the
  recommendation and the last benchmark separately; a caption's age is checked before the wait for the
  OBS lock; the replay page stops at 50 pages without saying so; the families of a scrape are read one
  after the other and need not agree with each other.

## What is not modelled

- *Text*: prompts, do-not-translate placeholders, cue layout and file formats. A caption is a segment, a
  start and a text to compare; where words matter (SubtitleSegment, GeminiSegments) a word is its length, its
  mark and the language it is common in.
- *Samples*: resampling, level meters, energy. Audio is its length, its place on the clock, where it came
  from and, for Whisper, whether it is speech.
- *Bookkeeping beside the control*: latency, usage, cost, logs, language detection of whole texts, hardware
  probes and the rules of the recommendation, which are functions of one value.
- *SQL*: a table is a function from keys to rows, a statement is an atomic step. Searches and the paging of
  sessions are left out.
- *HTTP, WebSocket and provider wire formats*, cookies' attributes, bearer and ingest tokens, encryption, hashing.
- *ACME*, the pull of models through Ollama, file sources: a library, a stream of progress lines, and a source
  that RunPipeline knows as any other.
- *Pages, forms and themes*; the load test, which is a tool; the generated API code.

## Plan

Built in this order, the core first: SessionManager with SessionLifecycle and its proofs; CaptionTrack,
CaptionHistory, CaptionEdits and CaptionBus; RunPipeline; TranslateFanout; IngestSource and IngestClient;
CaptionViewer; StreamCaptions; Recording; the services around them (MC_Services) with the proofs of most;
what admins, the process and the disk add (MC_Library).

What would add most from here:

1. GeminiStream and WhisperStream as implementations of an abstract provider stream, and RunPipeline with that
   stream in place of its own; RunPipeline as a refinement of the three-action pipeline of SessionManager.
2. Proofs of what only TLC checks so far and needs induction over data: `RecentShown` and `PagesWhole` by a least
   wrong position, as for the buckets of ServerMetrics; `CuesSound` and `SegmentsWhole` over their recursion.
3. Do-not-translate placeholders over bounded texts.

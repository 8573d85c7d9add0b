# A TLA+ model of wekws-tflite

wekws-tflite spots two wake words on small devices: `stream_kws_main` listens
to a microphone, `kws_main` judges a WAV file. This directory models the code
under `src/` that is the project's own, checks it with TLC on small instances
and proves part of it with TLAPS for every instance.

## 1. The system

```
 arecord / PortAudio
      | pipe, stream
 capture thread (AudioRecorder) -- AcceptWaveform, set_input_finished --> FeaturePipeline
                                                                         (queue, condition)
                                                                               | Read
 main thread: SlidingFeatureWindow -> KeywordSpotting -> WakeupPostprocessor -> InferenceStats
                                                                | triggered
                                                          WakeupNotifier -- thread --> aplay / afplay
 SIGINT, SIGTERM -> g_exiting, read by the capture thread and by main
```

| Component | State | Operations | What is hard | What makes it correct |
| --- | --- | --- | --- | --- |
| FeaturePipeline (`frontend/feature_pipeline`) | feature queue, residual samples, `input_finished_`, `mutex_`, condition | AcceptWaveform, set_input_finished, Read, Reset | two threads, tests without the mutex, notifications that can be lost, chunks of any size | every frame of the uninterrupted stream once and in order; `false` only at the end; nobody waits for ever |
| AudioRecorder (`stream/audio_recorder`) | open resource, capture thread, counters, `failed_` | Open, Start, Join, Close, capture loop | signals in the middle of a read, short reads, end of stream against exit, close under a reader | no sample lost; the thread ends and says so |
| SlidingFeatureWindow (`stream/sliding_feature_window`) | ring, write index, window | Push, GetFeatures, newest_start | index wrap, failure in the middle of a block | the window is the newest frames in time order |
| KeywordSpotting (`kws/keyword_spotting`) | shapes, conversions, streaming cache | Init, Reset, Forward | padding, quantisation, outputs in either order, failed Invoke, context across calls | the network gets the features; an output depends on the right frames only |
| WakeupPostprocessor (`stream/wakeup_postprocessor`) | `armed_`, streaks, release counter | Process | debouncing over block borders, ties, stale counters | one event per utterance, for the strongest word |
| InferenceStats (`stream/inference_stats`) | frame counters | Record, FrameAudioSeconds | four ways of counting frames | the time printed is that of the frame that scored |
| WakeupNotifier (`stream/wakeup_notifier`) | `playback_active_`, thread object, LED | Initialize, Notify, Wait | thread object reused, player that fails or hangs | Notify does not wait; no `std::terminate`; nothing left at exit |
| `stream_kws_main` | `g_exiting`, exit status | startup, loop, shutdown | signal at any time, order of shutdown | ends, releases everything, reports failures |
| `kws_main` | offset, cache | startup, batch loop | batch sizes, last short batch | lines carry their own frame |
| WavReader (`frontend/wav.h`) | place in the file, header, samples | Open | chunks before the samples, several layouts, files cut off or without samples | the samples are those of the file |
| Fbank, Mfcc, FFT (`frontend/`) | tables, filters, buffers used again | constructors, Compute, fft | index arithmetic of tables and stages, padding, stale buffers | a feature is a function of its own frame; the transform is a Fourier transform |
| BlockingQueue (`utils/blocking_queue.h`) | queue, capacity, two conditions | Push, Pop, Empty, Size, Clear | notification without the mutex, two conditions, Clear in two steps | a FIFO; nobody sleeps for nothing |
| WavWriter, options, logging, tools, build | — | — | — | see section 7 |

The hazards, line by line, are in `PROJECT.json`.

## 2. Modules

| Module | Models | EXTENDS or composes |
| --- | --- | --- |
| `Framing` | how Fbank and Mfcc cut a waveform into frames; the reference stream | |
| `FrameChannel` | abstract: what the pipeline promises its two users | `Framing` |
| `FeaturePipeline`, `MCFeaturePipeline` | the pipeline, lock by lock, both threads | `Framing`; implements `FrameChannel` |
| `WakeWords` | thresholds, and what the policy reads from one frame | |
| `WakeupPolicy` | abstract: debounced events, stated on the history | `WakeWords` |
| `WakeupPostprocessor`, `MC...` | `Process`, with its counters | `WakeWords`; implements `WakeupPolicy` |
| `SlidingFeatureWindow`, `MC...` | `Push`, all its outcomes | |
| `WakeupPlayback` | the notifier's state, and what it promises its caller | |
| `WakeupNotifier` | Notify, Wait, playback thread, player, LED | `WakeupPlayback` |
| `AudioCapture` | the recorder's state, and what it promises its owner | |
| `AudioRecorder` | owner, capture thread, source, both platforms | `AudioCapture` |
| `KeywordSpotting` | Init, Reset and Forward around an external network | |
| `WavReader` | Open, step by step through the chunks of a file | |
| `InferenceLoop`, `MC...` | the startup of `stream_kws_main`, then one iteration of its loop after the other | `SlidingFeatureWindow`, `KeywordSpotting`, `WakeupPostprocessor` |
| `OfflineKws`, `MC...` | `kws_main` | `WavReader`, `Framing`, `KeywordSpotting` |
| `StreamKws` | threads, signals and shutdown of `stream_kws_main` | `AudioCapture`, `AudioRecorder`, `FrameChannel`, `WakeupPlayback`, `WakeupNotifier` |
| `BoundedFifo` | abstract: what a queue of limited size promises | |
| `BlockingQueue` | Push, Pop, Clear with both conditions, any number of threads | implements `BoundedFifo` |
| `Fft` | tables, bit reversal and butterflies over a finite field | |
| `FrameFeatures`, `MC...` | Fbank and Mfcc: constructor, and Compute frame by frame and stage by stage | `Fft` |
| `FeaturePipelineProofs`, `WakeupPostprocessorProofs`, `SlidingFeatureWindowProofs`, `BlockingQueueProofs` | theorems about one component | the module they are about |
| `InferenceLoopProofs` | theorems about the data path | `InferenceLoop`; the proofs about its window and its postprocessor |
| `StreamKwsProofs` | theorems about the recorder, the notifier, and the program's threads | `StreamKws` |
| `FrameFeaturesProofs` | theorems about the tables, the transform and the features | `FrameFeatures` |
| `OfflineKwsProofs` | theorems about `kws_main`, its files and its tensors | `OfflineKws` |

The mapping of every definition to its source lines is in `PROJECT.json`
(`map`). An operator under a comment that begins with `mutant:` is a
plausible error in the definition after it; it is used by no specification,
and putting it in place of that definition makes a run fail, which shows that
the property concerned depends on the code.

### How state and actions correspond to the code

- **FeaturePipeline.** A step is what one thread does between two points where
  the other can see it: one queue operation (each a critical section of its
  own), one acquisition of `mutex_`, one notification, one wake-up, spurious
  ones included. `AcceptWaveform` does not hold `mutex_`; `set_input_finished`
  sets the flag under it and notifies after. A feature is the samples it was
  computed from, and the stream's i-th sample is the number i, so a lost,
  repeated or shifted sample is visible.
- **WakeupPostprocessor.** One call is one step: the object belongs to one
  thread. Probabilities are levels; only their order against each other and
  against the thresholds matters to the code. The loops over frames are given
  by their results (best score, first frame that has it, length of the low
  run); that the loops have these results is proved (section 6).
  `heard`, `quiet` and `cause` are history variables.
- **SlidingFeatureWindow.** One Push is one step with three outcomes. `ring_`
  and `window_` are functions from 0, as the vectors are.
- **WakeupNotifier.** Each atomic exchange or store, join, thread start, file
  access and wait is a step of the caller or the playback thread. The player
  is a process that runs, becomes a zombie and is reaped.
- **AudioRecorder.** Each test of `*exiting_`, each blocking read, callback and
  counter is a step. `OnMac` is chosen once and selects the `__APPLE__` branch. A sample count
  stands for the samples; order within a pipe is not in doubt.
- **KeywordSpotting.** `model` is what Init reads from the embedded model: its
  version, whether it fits into the arena, type, shape, scale and zero point of
  the input, shape and role of the outputs. The cache is the frames it stands
  for; the network is a constant operator on the frames up to the one it judges
  (it is causal). `input` is the input tensor, one number for each frame.
- **WavReader.** A file is the ids and sizes of its chunks and the places where
  they begin (`Chained` says how the format relates them); a sample is the
  place it was read from, and reading beyond the end gives `Garbage`. A read in
  the middle of a chunk gives a header that is none, of some size.
- **InferenceLoop.** A frame carries its number in the stream, so what each
  component's own index refers to can be compared. Startup is one step for each
  check, in the order of `main`.
- **OfflineKws.** A frame is the places of its samples in the file, so a printed
  line can be compared with the file itself.
- **BlockingQueue.** A step is a critical section, or the notification that
  Push sends after it. A value is its producer and number. `notify_one` wakes
  any one waiting thread.
- **Fft, FrameFeatures.** The arithmetic is that of the integers modulo a prime,
  193 in the run, with roots of unity of the orders needed: sums, products and
  roots obey the laws that the transform rests on, and equality is exact. Rounding errors are
  therefore out of sight, and everything that is an index, a table, a sign, an order
  of steps or a buffer is in sight. A frame passes through conditioning, copying
  into the buffers, bit reversal, one step for each stage, and the filters.
- **StreamKws.** The pipeline is represented by `FrameChannel`, which
  `FeaturePipeline` implements (run `pipeline`, property `ImplementsChannel`);
  the inference itself is the step `Infer`, refined by `InferenceLoop`.
  `UsesChannel` checks the other direction, that the threads use the pipeline
  as `FrameChannel` and `FeaturePipeline` assume. `Infer` has no exit for a Push
  that failed (`stream_kws_main.cc:246`): `PushNeverFails`, which is proved, says
  that this branch is dead.

## 3. Runs

Bounds are the constants in the `.cfg` files. Where a run has a CONSTRAINT or
a `Max...` constant, that is its only bound on a counter.

| Run | Shows | Bound, and why it is enough |
| --- | --- | --- |
| `pipeline` | stream integrity, no early `false`, no blocking `Pop`, every Read returns after the end, refinement of `FrameChannel` | 12 samples; frames of several samples that overlap, chunks shorter and longer than a frame: every shape of the residual occurs, and queue, wait and finish meet in every order |
| `pipeline_doc` | finding: a reader blocks with features queued | same |
| `postprocessor` | counters are runs; the trigger's frame is real; refinement of `WakeupPolicy` | 2 words, all levels around the thresholds, blocks of 0 to 2 frames, 3 low frames to re-arm: more than one block for either count |
| `window` | window and ring are the newest frames | window of 3, blocks of 0 to 4, history of two windows: the index wraps at every offset |
| `notifier` | flag, thread object, asynchrony, quiet after Wait; liveness | finite state, no bound but the brightness |
| `recorder` | no sample lost, no read after close, end of thread, on both platforms | 7 samples, chunks of 2, room for 3: whole, partial, interrupted and empty reads |
| `loop` | each frame judged once, no history fed twice, time of the wake word; which options reach the loop | window of 3, strides 0 to 4, more than two windows of frames, a network that fails at will; two feature dimensions, models that do not load; thresholds of 0, at the release threshold and above |
| `offline` | samples, lines and frames, what the network is given, cache against one pass, termination | files of 0 to 7 frames, with up to two chunks before the samples, 8 to 32 bits, one and two channels, cut off, missing; float32, int8 and uint8 inputs, outputs in either order; batch sizes -1 to 4, of which -1 asks for 15 frames, more than any file has (`size_t` of 4 bits); network of 3 frames |
| `queue` | no lost notification, Clear does not wait, refinement of `BoundedFifo`, everything is delivered | two producers, one or two consumers, capacity 2: both conditions have several waiting threads |
| `frontend` | tables, every stage of the transform, features of each frame | frames of 3, 5, 8 and 17 samples in transforms of 4, 8 and 32 points, with and without padding, up to five stages; 1 and 3 mel filters |
| `stream` | shutdown: it comes, releases everything, and has the right status | both platforms, 6 samples, frames of 2, stride 2: several inferences, a partial block at the end, a prompt during the shutdown |
| `stream_doc` | finding: Ctrl+C may exit with 1 | same |

`CHECK_DEADLOCK FALSE` is used only where a program stops.

Notes on the properties:

- `RearmedByQuiet` is about the frames that were *judged*. If `Forward` fails
  between two low blocks, the frames of the failed block are not counted and
  do not reset the count, so the log line "newest 10 frames are below" speaks
  of the judged ones. That they are also below the threshold given depends on
  the startup, which refuses a threshold at or below the release threshold.
- `AsOnePass` holds for the batch size the model was exported with; for any
  other size the padding enters the cache, or frames are cut off, and
  `kws_main` does not refuse it. `LinesAreTheirFrames` holds for every size.
  A failed `Forward()` is not excluded: its batch is missing in all that follows,
  lines and context alike. Only the last part, that the lines are all of the
  file, is for runs without a failure.
- `kws_main` passes a negative batch size on to `Read`, which compares a `size_t`
  with it and so asks for more frames than any file has; `AsSizeT` is that
  conversion, and `Ends` depends on it.
- `FeatureIsItsFrame` compares `Compute` with the definitions of the transform and
  the filters. What comes before and after, conditioning and the cosine
  transform of Mfcc, is the same operator on both sides: the property says that
  each is applied to its own frame, not what it computes.
- `Ends` excludes batch size 0: `kws_main` then asks for empty batches for ever.
  It also excludes files in which the search for the samples does not end, see below.
- `LinesAreTheirFrames` and `AsOnePass` are about complete files of one channel
  with one chunk of samples, as the format has it.
  `kws_main` does not refuse others: of two channels it takes the first half of
  the interleaved numbers for one.
- `ClearNeverWaits` needs the thread that calls `Clear` to be the only consumer,
  as it is in the pipeline.
- The type invariants of `FeaturePipeline`, `WakeupPostprocessor`,
  `SlidingFeatureWindow`, `WakeupNotifier` and `AudioRecorder` are proved (section
  6) and not repeated by the runs.

## 4. Findings

1. `pipeline_doc`: `FeaturePipeline::Read` may block although features are
   queued; the comment in the header says it blocks only when there are none.
   The next chunk or the end of the input frees it, so in the streaming
   program it costs at most the time to the next chunk that completes a frame.
2. `stream_doc`: the terminal's SIGINT ends `arecord` too. If the capture
   thread sees the end of the stream before the handler has set `g_exiting`,
   the normal way to stop the program is reported as a failure.

Smaller things met while modelling, which have no run of their own:

- A `Push` of the window that returns `false` has moved the frames before the
  bad one (`sliding_feature_window.cc:30`), though the header says that they
  are moved on success. `stream_kws_main` gives up after a failed Push, and
  `PushNeverFails` shows that its own blocks are always legal.
- `WavReader` does not skip the byte that follows a chunk of odd size
  (`wav.h:78`), although the comment before the loop says that such chunks are
  skipped: it then looks for headers in the wrong places, and the search goes
  on for ever at the end of the file. So it does on a file without samples.
  `OfflineKws` has both files, and `Ends` is false of them.
- The constructor of `WavReader` ignores that `Open` failed, and leaves the
  number of samples and the pointer to them unset.
- `README.md:18` names uint8 tensors among the supported ones. `Forward` stores
  every quantised input as int8, saturated at 127, so that a uint8 tensor gets
  other numbers; `TensorIsFeatures` leaves that type out.

## 5. Fairness

- Threads of the program are scheduled: weak fairness of their steps. Each
  thread has one program counter, so its step stays enabled until taken,
  except where it waits for another.
- Condition variables: nothing is assumed of a notified waiter beyond being
  scheduled; spurious wake-ups are allowed and not required.
- `FrameChannel` promises a reader progress only once the input is closed,
  since an open pipeline may let it wait (finding 1). `StreamKws` assumes no
  more than that.
- That players end is an explicit premise of `PlaybacksEnd`, and `StreamKws` assumes it for `ShutsDown`.
- A source gives samples or ends. The code has no timeout on `fread`, and
  with a source that does neither the program cannot be stopped by a signal;
  `ThreadEnds` and `ShutsDown` assume it away and say so here.
- A signal that was sent is handled.

## 6. Proofs

All theorems are checked by TLAPS for every value of the constants that
satisfies the module's named assumptions. TLC evaluates each assumption on the
run of the module that states it, so none of them is empty. Five of the
assumptions are more than the types of the constants. `ModelAssumption`
(`InferenceLoop`) says that the embedded model takes `window_frames` frames and
answers each of them with two numbers; `src/model/model_data.cc` is such a
model, with an input of 1 x 256 x 40 and the outputs `output`, 1 x 256 x 2, and
`r_cache`, 1 x 256 x 105. That of `OfflineKws` is weaker: one output holds the
probabilities, of no more frames than the model takes, and `Init` finds it.
`FileAssumption` says that the chunks of a file follow each other. `StreamAssumption` says that a frame is not shorter
than its shift; `RecorderAssumption`, that the recorder reads at least one sample
at a time. `FieldAssumption` says that `P` is a prime of the form 4 k + 1 and
`Generator` generates its field, and `FeaturesAssumption` that the field has the
roots of unity that the transforms of these frame lengths need and that a frame
has at least three samples: whatever the frame length, there is such a prime, so
the theorems about the front end leave no frame length out. The programs' frames
have 400 samples. `BlockingQueue` has finitely many threads.

Each proof has the form Init => IInv, IInv /\ [Next]_vars => IInv', IInv =>
the property. `IInv` was checked by TLC on the module's run before it was
proved. Proofs about a program are built on the proofs about its parts: a step
of the program is a step of each part or leaves it alone, so the parts' `IInv`
are conjuncts of the program's, and the cited step lemmas carry them.

**Framing** (in `FeaturePipelineProofs`). `NumFramesSplit`: counting frames
chunk by chunk with the residual carried over counts the frames of the whole
stream. The lemmas around it say what `Compute` and `Residual` return on a
piece of the stream; they carry the pipeline's proofs.

**FeaturePipeline.** The inductive invariant says where in the stream every
sample is: what was read, what is queued, what the producer still holds and
the residual follow each other without gap or overlap. `StreamIntegrity` alone
is not inductive because it does not speak of the frames in the producer's
hands. To it come the facts about the lock and about what each program point
knows: after the first `Empty()` only the reader itself removes features,
hence `NoBlockingPop`; after the flag was seen set no feature is pushed any
more, hence `NoEarlyFalse`. `ImplementsChannelSafely` maps every step to a
step of `FrameChannel` or a stutter.

**WakeupPostprocessor.** Invariant: each counter is the length of a maximal
run at the end of its history. `PolicyImplemented` is the full refinement
`Spec => Policy!Spec`; neither specification has fairness. The
facts about greatest and least elements of bounded sets of integers come first;
the scores need them. `QuietStep` and `TriggerStep` say what one call does to
the history, for the inference loop. The model states the loops of `Process` by
their results. `BestIsLoop`, `LowRunIsLoop` and `WinnerIsLoop` take the
variables of each loop after every turn as functions (`LowLoop` and its like
translate the bodies) and show that the last values are those results: a keyword
keeps the first frame with its best score, one loud frame starts the count
again, the first of the strongest candidates wins.

**SlidingFeatureWindow.** `RingCorrect` carries the induction (the ring is the
newest frames, in the order that starts at `write_index_`); `WindowCorrect`
follows, since a window is a copy of the ring made at a successful push. The
arithmetic of `%` is isolated in lemmas of its own. `WrittenIsLoop` is the loop of
`Push` turn by turn: it leaves the ring and the index of `Written` and
`Advanced`, wherever the block wraps.

**WakeupNotifier** (in `StreamKwsProofs`, on the instance that the program has
of it; both share the state and the promises of `WakeupPlayback`). The invariant
relates the caller's and the thread's program counters, the flag and the thread
object; the four safety properties are read off it, for any caller
(`Notifier!Spec`) and, in `NotifierInProgram`, for the calls that `main()` makes.

**AudioRecorder** (in `StreamKwsProofs`, on the program's instance `Recorder`).
`NoSampleLost` counts the samples in the pipe, in the read
buffer and delivered. It is inductive only with what each program point of the
capture loop knows of the buffer (`Counted`), with the thread being joined
before the source is closed (`ThreadOwned`, from which `NoReadAfterClose`
follows) and with the flag of the thread's end (`EndsOnFlag`).

**BlockingQueue.** `NobodySleepsForNothing` compares the number of threads in
two places with the length of the queue; the lemmas on `Count` say how a step of
one thread changes such a number. `ClearsAlone` carries `ClearNeverWaits`: what
`Empty()` saw stays, since nobody else pops. `FifoImplemented` is the full
refinement `Spec => ImplementsFifo`, which has no fairness.

**StreamKws.** To the invariants of the recorder and the notifier come: where
`main` is determines what it has opened, started, joined and closed
(`OwnerFollowsMain`, `CallerFollowsMain`), hence `AllReleased` and
`ReportIsFinal`; the thread stops only after a signal or with `failed_` set
(`StopsForAReason`), hence `FailureIsReported`; and the frames in the pipeline
are those of the samples delivered (`FramesArePushed`), hence `UsesChannel`.

**InferenceLoop.** Every component counts frames in its own way, and the
invariant fixes how the counts correspond at every place of the loop: a frame
is stored in the window under its number in the stream (`StoredByNumber`), the
network's cache is the window (`FedByWindow`), the judged frames are numbered
upwards (`JudgedByNumber`), a trigger points at a new frame (`Triggered`), the
statistics are one block behind until `Record` (`Timed`), and what the
postprocessor remembers since the trigger is the end of what was judged
(`QuietIsJudged`). What the startup has checked stays true (`StartedWell`): the
stride, for `PushNeverFails`, and the threshold, for `RearmedByQuiet`.
`KeywordTimeIsReal` and `RearmedByQuiet` need all of them:
the first crosses window, block and stream, the second also the time of
an event several blocks ago.

**OfflineKws.** Five arguments meet in its invariant. `WavInv`: whenever the
search of `Open` holds a header with the id of the samples' chunk, it is that
header, and the reader stands behind it, even if the search lost the chunks
on the way (`HeaderRead`); and that chunk does not reach beyond the end
(`ChunkFits`, by the least counterexample), so `data` is what the file holds.
`Batched`: the batch at hand is the frames between those printed and those
read, and a short batch is the last. `Judged` and `Lines`: an output has heard
its own frame last, and a line keeps it under its number; for this nothing need
be known of the cache, of failures or of the batch size. `OnePass`: with the
batch size of the model, the cache is a prefix of the file's frames, which
concatenation extends (`PrefixGrows`), and `Remembered`, which does not suppose
that nothing failed: the cache is the frames of the lines printed. A `Forward()` that
fails moves neither; one that succeeds appends the same frames to both.
`TensorCorrect` rests on arithmetic
alone: `Rounded` misses by half a step at most, so no other number of the
tensor is nearer, and where the number is cut off at -128 or 127 all others are
farther away (`QuantisedIsNearest`). It supposes that the numbers of a feature
are numbers and those of the padding 0, which no assumption of the module says
since `Value` has no domain that TLC could go through.

**Fft, FrameFeatures.** The one component whose correctness is mathematics, in
five steps, each a layer of lemmas on the one before.

1. *Angles.* `Points` is the powers of the generator (`PointsAre`), all of them
   different (`PointsInjective`, by counting), and half a turn is -1 (`AtHalf`:
   its square is 1, and a prime divides a product only with a factor, `Euclid`).
   Hence cosine and sine, which `Fft` defines by points as Euler does, obey the
   laws of addition (`AngleSum`), and the symmetries (`AngleLaws`).
2. *The sine table.* `LoopTurn` is the invariant of `make_sintbl`'s loop: cosine,
   sine and the differences to the next angle move on by one angle, since both
   differences change by `t` times the new value (`Chord`). The loop starts
   right by the law of half angles, and the square root is the sine's because no
   sine of the first quarter is the negative of another (`SineOpposite`). From
   the first eighth the mirror images make the rest (`SinesAre`).
3. *The permutation.* A number is its digits (`SameDigits`). `make_bitrev` counts
   with the carry going the other way; `Reversal` says what it has counted
   after each doubling of the length, the carry included (`ReversalDouble`), so
   that the table reverses the digits (`BitrevIs`). It is therefore its own
   inverse, and the loop that swaps a pair only at its smaller place makes the
   whole permutation (`BitReversedIs`).
4. *The stages.* `EvenOdd` and `BlockSum` split the sum that defines the transform
   of a block into those of its halves, the second turned on by its frequency;
   `ButterflyStep` finds these two sums in `Butterflies`, for both halves of the
   block, whose signs differ (`AngleTurn`).
5. *The filters.* Outside its first and last index a filter's triangle is 0
   (`TriangleIs`), so the sum over the whole spectrum is that over the filter
   (`EnergyIs`).

The inductive invariant gives each stage what the one before it leaves: `Truly`
for the tables, `FiltersInv` for the filters, `StageInv` for the buffers (the
conditioned frame, the padded one, the transforms of blocks of `k`) and `FeatInv`
for the features so far. `FeatureIsItsFrame` alone says nothing of the buffers,
and `BlocksAreDfts` nothing of the tables, so neither is inductive. Induction
over data, which has no theorem here that could be cited, is done by hand: a set
of numbers that is not empty has a least member (`LeastNatural`, from the
library's well-founded order), hence `Induction` for a set and `Recursion` for
the existence of a function that is described step by step.

Only model-checked:

- all liveness (`ReadReturns`, `PlaybacksEnd`, `ThreadEnds`, `ShutsDown`,
  `Ends`, `AllDelivered`, and the liveness part of `ImplementsChannel`), which
  TLAPS cannot prove.

## 7. Not modelled

- Floating point: rounding in the front end and the range of a feature. The
  inverse transform, dithering and the setters of `Fbank`, which the programs do
  not use; `WavWriter`, for the same reason.
- The bytes of the cache and the conversion of an int8 output, which are one
  copy and one product.
- The single options: `ParseOptions` and `IsSafeAudioDevice` are a Boolean.
- Statistics of wall-clock time, logging, tools and build scripts.
- `best_keyword` and `trigger_reason`, which are only printed.
- Files that end inside their first 20 bytes, and `pclose` failing, which makes
  the exit status 1 as well.
- `src/model/model_data.cc`: 26,610 generated lines, the bytes of the network,
  nine tenths of the lines of the repository's sources. Nothing in them is
  behaviour that could be modelled, so the share of mapped lines is small
  whatever is modelled of the rest.
- Vendored code (PortAudio, TFLite Micro) and the network: external actions,
  modelled from how the code uses them.

## 8. Plan

Done, in this order: framing and pipeline with their abstract channel;
postprocessor and policy; window; notifier; recorder; composition of the
threads; composition of the data path; proofs of the first four; the queue with
its abstract FIFO; the front end; the WAV reader, quantisation and both
programs' startup.

After these the proofs of the recorder, the queue, the composition of the
threads, the inference loop and the offline program, and last those of the front
end. Every safety property that a run checks is proved.

What could follow: the inverse transform and the setters of `Fbank`, should a
program come to use them, and the rounding of the front end, which needs other
means than these.

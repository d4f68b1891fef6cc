# A TLA+ verification of OSSS

OSSS (`src/`) puts an overlay over a game's window: it captures the window's
frames, blends neighbouring frames along the motion it estimates between them,
and presents real and blended frames at the display's rate. This directory holds
TLA+ models of the program, the TLC runs that check them on small instances, and
proofs that TLAPS checks for every instance. At the centre is the part that
decides *which frame is shown when*; around it are the interpolator that makes the
blends, the launcher that starts the pipeline, and the portable build.

    tlc -config MCOutputClock.cfg MCOutputClock.tla      # check a run
    tlapm FrameSelectorProofs.tla                        # check proofs

`PROJECT.json` lists components, runs, theorems, hazards, mutants and, for each
definition, the source lines it models.

## The system

| Part | Source | State | Operations |
| --- | --- | --- | --- |
| Capture session | `capture_session.*` | three queues under a mutex, an auto-reset event, the last unique signature | callback `OnFrameArrived`; `DrainClassifiedFramesAfter`; `Start`, `Stop` |
| Source timeline | `adaptive_scheduler.*` | the last 8 distinct frames, a period estimate | `Ingest`, `ResetHistory`, `IsStalled` |
| Output clock | `adaptive_scheduler.*` | epoch, next slot, missed count | `Start`, `TakeLatestDue`, `RecordMissedSubmission`, `PhaseAlignToVblank` |
| Slot gate | `adaptive_scheduler.*` | credit, or a position in a cadence | `Allow`, `AllowEven`, `Reset` |
| Frame selector | `adaptive_scheduler.*` | queue delay, jitter budget, stall recovery | `Select`, `SelectNow`, `Reset`, `SetGenerationEnabled` |
| Renderer | `renderer.*` | frame history, bound pair, window, held back buffer | `StoreCapturedFrame`, `SelectFramePair`, `WaitForPresentationSlot`, `Render`, `Present`, `Show`, `Hide`, `FollowTarget` |
| Presentation loop | `RunFrameGeneration` in `main.cpp` | presentable flag, slot drawn ahead, drain cursor, toggle count | one iteration, see below |
| Motion interpolator | `motion_interpolator.*`, `flow_scale.h` | the field of the pair prepared last, its size and mask, a double-buffered overlay detector | `PreparePair`, `BindForDraw`, `Reset`, the setters; nine shaders |
| GPU timing | `gpu_timing.*` | a ring of query sets, a window of samples | `Begin`, `End`, `Cancel`, `Poll`, `Reset` |
| Pacing monitor | `adaptive_scheduler.*` | the last present, a window of intervals | `RecordPresent`, `Summarize`, `Reset` |
| Shader cache | `shader_cache.*` | files, a worker pool | `CompileShadersCached` |
| UI mask | `ui_mask.*` | none | parse, resolve, rasterise, format |
| Launcher | `gui_main.cpp` | child process, stop event, test animation, controls | start, stop, poll, close, save |
| Command line | `main.cpp` | options | parse, merge with a profile, resolve target and rate |
| Application profiles | `app_profile.*` | one file, one temporary file | load, save, parse, format |
| Window catalogs | `window_catalog*` | none | list, select, query the refresh rate |
| Portable pipeline | `portable_main.cpp`, `platform/*` | the scheduler classes, copies of frames, a software interpolator | one loop |
| PNG writer, frame sequence | `png_writer.*`, `frame_sequence.*` | none | encode; feed image files in order |
| Statistics overlay, upscaler, test programs, backends | `stats_overlay.*`, `upscaler.*`, `test_animation*`, `test_pattern.*`, `capture_smoke.*`, `platform/desktop_backend*` | none of the pipeline's | |

How they interact. The capture callback runs on threads of the system and shares
only the session's queues and event with the main thread. Everything else runs
on the main thread. Each iteration of the loop pumps window messages (which
count hotkey presses), restarts the capture when the target has been restored,
hides or shows the overlay, drains the capture into the timeline and the
renderer's history, applies the hotkey, serves the slot that is due, draws the
next one ahead when pacing is queued, nudges the clock towards the vblank, follows the
target's window, and sleeps on the next deadline, the capture event, the stop
event and, when it wants one, a free back buffer.

The interpolator is called from the renderer: binding a pair prepares its motion
once, drawing reads the prepared field, and the detector state a pair writes is
read by the next. The launcher and the pipeline are two processes that share a
command line, a stop event, the shader cache's directory and the profile file.

What is hard here:

* The callback and the drain interleave at every unlock; a stopped session's
  callback may still be running when the next session starts.
* A wait takes what it waits for (event, semaphore), so who holds a wake-up or a
  back buffer is state of the loop and not of the system alone.
* A slot drawn ahead is presented later; in between the source may break,
  the target hide or resize, generation be switched off.
* The timeline and the renderer keep histories of their own and must agree; so do
  the timeline and the portable loop's frame store.
* Rates are rational and ticks integral; slots must be neither lost nor repeated
  under rounding, late polls and a moving epoch.
* Delay, budget, credit and recovery are separate variables with one meaning.
* A field, a mask, a detector state and a texture each outlive the pair they belong
  to; drawing must combine those of one pair.
* Processes write the same files and are killed while they do.
* A stop, a close, a failing start and a window that disappears meet in any order.

`hazards` in PROJECT.json lists these at their lines.

## Modules

State machines:

| Module | Models | Correspondence |
| --- | --- | --- |
| `OutputClock` | class `OutputClock`, the servo call of the loop | variables keep the members' names; `issued`, `skipped`, `rejected`, `sample` are history |
| `SourceTimeline` | class `SourceTimeline` | `Ingest` is an operator the caller's action uses |
| `TargetSlotGate` | class `TargetSlotGate` | a record and pure operators; credit is counted in slots of `TargetRate` |
| `FrameSelector` | class `FrameSelector` and its callers' protocol | one action per way out of `SelectImpl`; `owed` is history |
| `PortableLoop` | `RunLive` of `portable_main.cpp` around the same selector (`PortableSpec`) | one action per phase; `drawn` is what the loop blends |
| `FrameChannel` | what a capture session promises | abstract: a FIFO that loses a frame only at the front of a full lobby, by a restart, or with no source open |
| `CaptureSession` | class `CaptureSession` and the restart of `main.cpp` | one action per critical section, or stretch between two; `callback` is a thread per session |
| `Renderer` | class `Renderer` as the loop sees it | a record and functions on it, composed as the code composes the calls |
| `FrameLoop` | an iteration of `RunFrameGeneration` | `pc` is the phase; the surroundings move between any two phases; `ledger` and `asked` are history: what became of the slots, and for which one a selection was last made |
| `MotionPair` | the renderer's textures and the pair it binds | one action per public call; `content` says which frame a texture holds |
| `MotionInterpolator` | the CPU side of class `MotionInterpolator` | a record and functions on it; a field records what it was estimated from |
| `GpuTiming` | class `GpuTimestampCollector` | a record and functions on it; queries complete at any poll, which reads slot by slot |
| `OverlayDetector` | `UpdateUiPersistence`, its two surfaces | one action per pair for all cells; `moved` and `quiet` are history |
| `ShaderCache` | `CompileShadersCached` of several processes | one action per file operation of a worker |
| `Launcher` | the handlers of the launcher's window, its child process | one action per handler; the child as far as the launcher sees it |
| `ProfileStore` | `LoadProfiles`, `SaveProfiles` of several processes | one action per file operation |
| `MaskHandover` | a mask's way from the launcher into the pipeline | one action per side |

Pure definitions:

| Module | Models | Checked by |
| --- | --- | --- |
| `CommandLine` | `ParseOptions`, the merge with a profile, the launcher's argument lists | `RunsAsShown` |
| `FlowScale` | divisor and search radius | `RadiusIsNearest`, and proofs |
| `FlowPasses` | the bindings and dispatches of a pair; a texture holds the term of what was computed into it | `MotionField` |
| `FlowSearch` | coarse search, refinement, sub-pixel vertex, filter, scene measure, for one cell on one axis | `MotionField` |
| `FlowFusion` | the pixel shader for one pixel | `MotionField` |
| `PacingMonitor` | the report of class `PacingMonitor` | `MCSelectors` |
| `SoftwareInterpolator` | the portable interpolator on one row, with the stride of its search by the size of the picture | `MCSelectors` |
| `UiMask` | parse, resolve, rasterise, format | `MCSelectors`, `MaskHandover` |
| `WindowCatalog` | filter, order and selection of windows; refresh-rate queries; target rates | `MCLauncher`, and proofs |
| `ProfileText` | the text of the profile file, both ways | `MCLauncher` |
| `PngWriter` | the whole encoder: filters, deflate, checksums, chunks, base64, downscaling | `PngReader` |

`FrameSelector` extends `SourceTimeline` and `TargetSlotGate`; `FrameLoop` extends
`Renderer`; `MotionPair` extends `MotionInterpolator` and `GpuTiming`; `Launcher`
extends `ProfileStore`, which extends `CommandLine`. `CaptureSession` instantiates
`FrameChannel` to state that it implements it. `FrameLoop` reduces clock, timeline
and selector to what it depends on: slots due, resident frames, and selections
that name resident frames. That last one is what `SelectionsAreSound` of
`FrameSelector` establishes. Its `Selections` offers more answers than the selector
would give, which is sound for its safety properties.

`MotionInterpolator` leaves out what a dispatch computes and records what it reads;
`FlowPasses` shows that the dispatches read just that, and `FlowSearch` and `FlowFusion`
model what they compute.

Numbers. Ticks, credits, weights, scores and colours are integers; a fraction is
kept as a numerator and a denominator. The period estimate is rounded down to
ticks where the code keeps a double, and the tolerances of the code against
floating-point noise disappear where the arithmetic is exact. Slot numbers and
sequence numbers are 64 bits wide in the code and cannot wrap in a run of the
program. The shaders' floats are thousandths, so their properties leave a margin of
one or two.

## Runs

| Run | Module, cfg | Shows |
| --- | --- | --- |
| `output_clock` | `MCOutputClock` | every slot handed out or counted exactly once; a poll catches up; the servo converges |
| `frame_selector` | `MCSelectors` | selections are neighbours at exact weights; delay, budget, credit and recovery stay consistent; the portable loop draws the frames selected |
| `capture_session` | `MCCaptureSession` | the session implements the channel, so a frame is lost only at the front of a full raw queue or by a restart; bounded queues, exact duplicates, no lost wake-up, no frame hidden by the cursor |
| `capture_liveness` | `MCCaptureSession`, `MCCaptureLiveness.cfg` | every frame leaves the session |
| `frame_loop` | `MCFrameLoop` | every slot is selected for once, presented at most once and has one outcome, nothing stale is presented, no back buffer is lost |
| `interpolator` | `MCInterpolator` | what is drawn belongs to the pair bound; measurements are accounted for; cache entries are whole and reports independent of scheduling; masks are earned and released |
| `launcher` | `MCLauncher` | controls agree with what runs, the pipeline runs with the settings shown, a stop is obeyed, interrupted saves cost nothing |
| `silence`, `toggle`, `resize`, `recorded`, `mask_handover` | `MCSilence`, `MCToggle`, `MCResize`, `MCRecorded`, `MCMaskHandover` | expected violations, see below |

Bounds, and why they are enough.

* `output_clock`: a slot of 161/5 ticks puts rounded deadlines on both sides of
  their exact place; 70 ticks in steps of 1 and 31 reach two slots, a poll that is a slot
  late, and one on the very tick a deadline was rounded to; refreshes of 16, 48,
  64 and 0 are a divisor, incommensurate, a multiple, and a display that reports
  nothing. `TakeLatestDue` cannot stop, so deadlock is checked.
* `frame_selector`: the code's own constants in milliseconds. Steps of 60 and 110
  make a source that interpolates, one that stalls, and gaps; 4 frames against a
  history of 3 force trimming; one reset of any kind. A target of 120 FPS against
  sources of 9 to 16 FPS makes the multiplier ceiling of 2 bind under both gates. A
  behaviour is of one of the two programs, chosen at its start.
* `capture_session`: queues of 2 against 4 frames fill up and overflow; two
  sessions let the callback of the first run into the second; two images are
  enough to tell a duplicate from a change; one error.
* `capture_liveness`: the same with a raw queue of 1 and 3 frames, as the
  liveness check needs the graph without symmetry.
* `frame_loop`: histories of 2 against 3 frames trim; two slots can be late by
  one; two disturbances combine any two of: hide, minimize, resize, silence, a
  key, a late frame.
* `interpolator`: three parts that do not touch each other's state, so that a
  behaviour is of one of them. Pairs: 4 frames against a history of 2 recycle
  textures while a pair is bound, which takes 5 textures; 3 pairs go through the
  detector's two surfaces and past a ring of 2 queries; 2 settings switch
  something and switch it back; one surface fails. Cache: two processes with two
  workers each, two shaders of which any may be broken, one failing read or
  write, two starts: both at once, or one again after a kill. Detector: three cells in a row see a cell with
  neighbours on both sides; with a rise of 25 and a fall of 34 out of 100 a score fills
  up, starts to fall and passes the mask's threshold within 7 pairs, and
  `QuietIsReleased` is tight: with one pair less it fails.
* `launcher`: a game and a test animation, two values of a setting, masks with and
  without a typo, a profile written from two processes, 4 requests of the user in all.
* `mask_handover`: five masks, among them one with an edge at a hundred-thousandth of the
  frame.

All bounds are in guards of the surroundings, which may stop, so deadlock is not
checked in the runs other than `output_clock`.

Fairness. `FramesLeave`: the loop never blocks for good; it sleeps until a deadline
or, without a clock, for a tick of 100 ms (`WF(Drain)`, `WF(Restart)`). The GPU finishes
what it was flushed (`WF(GpuCompletes)`), and a readback buffer whose query is done
can be mapped on some attempt, although an attempt may fail (`SF(Classify)`). The
system finishes a callback it began (`WF(Signal)`). No fairness is put on arrivals,
failures or starts. `StopIsHonoured`: the launcher's timer fires every 200 ms
(`WF(Timer)`); a save handler runs to its end (`WF(ContinueSave)`), since every file
operation returns; the process that was created starts and opens its event
(`WF(ChildStarts)`); and the loop looks at the stop event in every iteration
(`WF(ChildStops)`). Nothing is assumed of the user, the windows or the animation.

Every property of a passing run has a mutant in PROJECT.json: a change of one
definition, kept beside it, as a plausible bug would make it, under which TLC finds
the property violated.

### Algorithms

Pure definitions are checked against definitions that do not compute what they
compute, as named ASSUMEs that TLC evaluates over all inputs of a small set
before a run begins.

* In `MCInterpolator`, through `MotionField`. `PassesFollowTheData`: over three pairs with any
  settings and a discontinuity anywhere, what is drawn is computed from the two
  frames, the prior and the detector state that `PreparePair` documents, no pass reads
  what it writes, and nothing stays bound. `MatchIsFound`, `VertexIsExact`, `SeedIsFollowed`,
  `TieGoesToRest`, `TwinsAreAmbiguous`, `DuplicateSeedIsIgnored`, `SmallestPeriodWins`: the vector and the
  confidence of a cell whose errors are known. `LoneVectorIsRemoved`, `BoundaryIsKept`: the
  filter. `CutsNeedEvidence`: the scene measure. `FusionIsSound` (range, and symmetry under
  exchange of the frames), `SeenSideIsTaken` (occlusion), `CrossingIsDrawn` (an object narrower
  than its motion): the fusion. `RadiusIsNearest`: the search radius.
* In `MCSelectors`. `TranslationFound`, `RenderIsSound`: the software interpolator.
  `MaskCoversWhatItTouches`: a mask is exactly the pixels it touches. `IntervalsAreTheGaps`,
  `ReportIsOfTheSamples`: the pacing report, under resets and clocks that go back. Through
  `PngReader`: `CompressionIsLossless`, `RunsAreShort`, `TablesAreTheFormats`, `RowsAreReadBack`,
  `FilesAreReadBack`, `Base64IsLossless`, `SmallerPicturesAreMeans`: an independent reader of PNG, zlib
  and deflate reads what was written.
* In `MCLauncher`. `DisplaysAreRead`: the refresh query survives changes of the display
  configuration. `TargetsAreNamed`: a title names a target exactly when it leaves one
  window. `ProfilesAreReadBack`: which arguments survive being saved. `SectionsAreMerged`: a
  program named twice.

## What the code does otherwise than it says

* `silence`: the reveal resets the selector so as not to blend across the time
  spent hidden (`main.cpp`, comment at the reveal). The timeline is not reset,
  and the frame that ends a silence makes the stall test pass: the first blend
  joins the two frames around the silence.
* `toggle`: the comment at the toggle poll says that two presses between polls
  leave generation where the second put it. They flip it once.
* `resize`: a slot drawn ahead is invalidated when the *source* changes size, but
  the swap chain is resized when the *window* does. A slot drawn ahead of that is
  presented from a buffer nothing was drawn into.
* `recorded`: the pacing monitor is said to be fed with submitted presents. A
  present into a window that is still hidden returns early and is recorded.
* `mask_handover`: the launcher validates a mask so that no typo ends the pipeline,
  and writes it back with four digits of precision; a fraction below a
  ten-thousandth comes out as `1e-05`, which the pipeline refuses.

Smaller ones, met while modelling and not given a run:

* "Each slot is selected exactly once, at prepare time" (`main.cpp:1561`) holds up to the
  reveal: it drops the slot drawn ahead, which is then selected for anew (`SlotsSettled`
  allows just that).
* Profiles: `NeedsQuoting` quotes an argument that contains a quote, but the reader has no
  escape, so it changes; an argument that begins with `#`, `;` or `[` and holds no
  blank is read as a comment or a header. `ProfilesAreReadBack` states exactly this.
* `SaveProfiles` tests the stream before it is closed, so a failure to flush goes
  unnoticed, and two concurrent saves share one temporary name
  (`InterruptedSaveKeepsFile` excludes both).
* "Every parse branch assigns" (`main.cpp:1879`), but `--ui-mask` adds; and an unchecked
  automatic mask cannot switch off what a profile switched on. The launcher saves the
  text of a mask without validating it, so a later `--profile` run may be refused.
* `CreateResources` stores the new size before the surfaces exist; after a failure the
  surfaces are mixed (`FailToCreate`; the next pair of another size heals it).
  `SetPerformanceMode` and `SetFlowScale` are `noexcept` and catch `std::exception`, while
  `check_hresult` throws `winrt::hresult_error`.
* The detector's comment applies its result to the fusion of the same pair; the code
  publishes it for the next. Its memory of motion lasts about eleven pairs, so
  a quiet scene after fast motion is armed for a while.
* `flow_scale.h` promises performance mode a constant fraction of the reach; the floor
  of two cells breaks it for slow sources at large divisors.
* `FilterFlow` shortens lines one cell wide from their ends, and never replaces an
  outlier in a corner of the field, where the clamped border repeats the corner.
* `RefineFlow` skips its search from rest for predictions within a step, so a texture
  finer than about two steps may settle a period away.
* `BeginGeneration`'s warning about a lost target is overwritten by the status of
  the refreshed list.
* `WindowDisplayRefreshInfo` on X11 throws for a display under 24 Hz even when the target
  rate was given; the X11 presenter draws a frame of the old size into a resized
  window until the next capture.
* A batch with the same shader twice would share a temporary name between two threads;
  neither caller has one (`CacheAssumption`). The cached file is moved without being
  flushed, so a power loss may leave a torn one.

## Proofs

Proved for every value of the constants that the modules' assumptions admit: every
invariant and every action property of the passing runs, and the refinement. Types are in
each inductive invariant; what else has to be in it, and why:

* `OutputClockProofs`. `TypeCorrect` needs that `LatestSlot` never falls behind
  `next_slot`, whatever the rounding and the servo do; `SlotsArePartitioned` is then
  inductive together with the types, and `MissedAccounted` follows from it and the
  finiteness of `skipped`. `PollCatchesUp`: the slot taken is the last whose exact deadline
  has come, and a rounded deadline two slots on is later than that, which is where a slot
  has to last a tick. `ServoOnlyConverges`: a correction shifts the remainder to the raster by
  itself (`RemainderShifts`), and the phase folded into half a period either way says
  which shift is the shorter (`CorrectionOpposes`, `AlignConverges`).
* `FrameSelectorProofs`. `InvariantHolds` proves

      IInv == TypeOK /\ TimelineOrdered /\ DelayEngaged
              /\ DelayCarriesBudget /\ NoSlotBanked

  none of whose parts is inductive alone. `DelayEngaged` (the delay may be
  dereferenced) needs that a sequence number remembered is never ahead of the
  timeline, which `TimelineOrdered` gives, and that the two are forgotten together.
  `DelayCarriesBudget` is an equation for as long as the newest frame is the one the delay
  was derived from: a frame ingested changes the period and not the delay, until the
  next selection derives it anew. It needs the delay's engagement to know that an update
  which is skipped leaves a delay of the present budget. Typing of the selections needs the order
  of the history, since `Upper` chooses the first later frame. `NoSlotBanked` needs the
  rates to be at least zero, from the bounds of the period (`Scaling`, `PeriodInRange`). What
  `Ingest` and `ResetHistory` keep are lemmas about the operators.

  On top of it: `NoSlotIsWithheld`, from `WithheldBound`, which bounds what is owed by what
  each gate holds (spread: the credit gained; even: a product of the slots denied and the
  rate). `RecoveryIsCounted` says that outside recovery no stall is left that
  two frames have not answered; with it `EverySelectionIsSound` and `NoEarlyBlend` follow
  for each way out of `SelectImpl`.

  The portable loop drives the same selector, so its invariant is

      PortableInv == IInv /\ WithheldBound /\ RecoveryCounted /\ StoresTimeline

  `StoresTimeline` says that the copies are the newest frames in order and at least as
  many as the timeline's. It needs that the loop drops them only for a frame that ends the
  timeline as well. `SelectionIsDrawn`: so every frame a selection names is among them
  (`ResidentIsStored`).
* `CaptureSessionProofs`. `IInv == TypeOK /\ Control /\ Capacity`, where `Capacity` counts the
  frame in the drain's hand with the pending work it came from: the bound of the
  classified queue is never tested by the code, it follows from the bound of the pending
  one. All else is about `Pipeline`, the frames inside the session in the order
  they will leave it, and `PipelineStep`: a step leaves it alone, takes its oldest, empties
  it, or lets one in, dropping the first of a full raw queue for it. From these: `FramesLeaveInOrder`, `CursorNeverHidesAFrame`,
  `SessionIsChannel` (the refinement of `FrameChannel`, step by step: the lobby is the raw
  queue, and a frame leaves to nobody only while no session captures), and
  `DuplicatesAreExact` along the chain of each frame's predecessor, whose end the session
  remembers. `WakeupIsNotLost` strengthens the property by the callbacks between insert and
  signal.
* `FrameLoopProofs`. `ServeEffect` brings the ways to serve a slot to two: nothing is
  presented, or a selection drawn in this era into a buffer that is held. Then

      IInv == TypeOK /\ Safety /\ PresentedIsCurrent

  where `Safety` adds to the properties that a slot drawn ahead is of this era and holds its
  buffer (`Ahead`), that a blend among them is the first since the toggle (`LateBlend`),
  that what is on display is remembered (`OnDisplay`), that the timeline's span fits
  the renderer's history (`Span`), for which `LoopAssumption` needs the renderer's to be no
  shorter, and the books of the slots (`Books`). Those rest on `SelectedAhead`: the slot to
  come has been selected for exactly if it is drawn ahead, whatever the loop does between
  drawing and serving it; `SettleEffect` says of each way to serve that it takes the slots
  due and books one outcome. `NothingIsRepeated` is an action property from the same invariant.
* `InterpolatorProofs`. The renderer's pairs:

      PairInv == PairTypeOK /\ HistoryHolds /\ BoundHolds /\ Sound(interpolator)
                 /\ FieldIsBound /\ timing \in Collectors /\ Accounted(timing)

  `HistoryHolds` and `BoundHolds` say which texture has which frame, so that no texture is
  wanted twice; with more textures than the history and the bound pair can hold one is
  always left to write. `Sound` says of the interpolator alone what its flags promise of
  its field, and `FieldIsBound` that a field which may seed the next search is of the pair
  bound; each operation is shown once to keep the one or to be `Calm`. Five theorems are
  parts of it: `BoundFramesAreKept`, `PriorAlwaysContinues`, `DrawnFieldIsOfTheBoundPair`,
  `FusionReadsTheFlowsState`, `MeasurementsAreAccounted`.

  The detector's cells: `DetectorInv == TypeOK /\ Earning`. The mask says nothing
  about scores, so `Earning` bounds the score of a cell that has moved once or twice by
  what one or two falls leave of a full one, says that nothing was dilated into such a
  cell, and that what a still cell shows is its own score or one of its neighbourhood on
  the surface that was read. `MaskStaysEarned` follows. `QuietSceneIsReleased` needs `Fading`
  as well: what a cell remembers lasts a pair less for each pair the scene was quiet, and
  the score falls from then on. How long a motion is remembered is a recursive function; that there is one is
  shown by tables (`TableExists`), the least motion without one being impossible.

  The search grid (`FlowScale`): every setting resolves to a divisor the shaders are built
  for; the search radius is bounded whatever period the source claims, reaches its target
  to half a step where the bounds allow, and never shrinks as the source slows down.
* `ShaderCacheProofs`. A worker is one of many that step in any order, so the invariant
  says of each what its place means (`Placement`), and of any two of a process that they
  never have one request in hand (`Distinct`); with the process in the name (`NamesDiffer`),
  no two write one temporary file. Each step leaves the others alone (`Works`) and answers
  only its own request (`Replies`), and `WorkerKeeps` does the rest once for all of them.
  Results: `EntriesAreWhole` and `ReportIsIndependent` (of scheduling, kills and I/O failures).
* `LauncherProofs`. Parsing a line is a fold. `FillsExists` shows its function to exist, by the
  least length for which it would not; from then on `ParsedInTurn` gives the options after
  every argument, and `LaunchLineKept` says that a launch line which follows any stored
  arguments has its way: `PreparedAsAsked`. The store's part of the invariant is of any number
  of terminals, each killed at any step, beside the launcher, which is not killed; it says who is
  at the temporary file (`AloneAtIt`) and that what waits to be renamed is whole
  (`WrittenWhole`); the launcher's that the handles it holds are those of a living pipeline
  (`Held`) and that it was started from what was shown (`Asked`). Results:
  `ControlsAlwaysAgree`, `PipelineRunsAsShown`, `ClosedWindowLeavesNoChild`,
  `InterruptionsKeepFile`.
* `WindowCatalog`: the comparator given to `std::sort` is a strict weak order although
  unidentified windows compare specially; an executable's name is never made
  ambiguous by a title; a portable session's target rate is always accepted by the clock.

The assumptions are the named ASSUMEs of the modules, which TLC evaluates in the runs.
Most only type the constants. Those that say more, with their reason in the code:

| Assumption | Says | Because |
| --- | --- | --- |
| `ClockAssumption` | a slot lasts a tick or more | `SetRate` refuses more than 1000 FPS, and a tick is a nanosecond |
| `TimelineAssumption` | the history holds two frames; the default period lies between the bounds | constants of `adaptive_scheduler` |
| `SelectorAssumption` | a buffer floor is no more than the largest budget | `SetBufferFloor` refuses others |
| `CaptureAssumption` | the queues hold a frame | constants of `capture_session` |
| `LoopAssumption` | the renderer's history is no shorter than the timeline's | both are 8 |
| `MotionPairAssumption` | more textures than the history and the bound pair can hold | a texture is created when none can be reused |
| `CacheAssumption` | no shader twice in a batch; one worker or more, and no more than shaders | both callers' lists; the pool's size |
| `LauncherAssumption` | saved lines are of known flags; no whole file is a torn one | `ParseOptions` refuses others |
| `DetectorAssumption` | two falls clear what is above the mask's threshold; there is a fastest motion | constants of the shader; the search has a radius |

`TargetAssumption`, `RendererAssumption`, `GpuTimingAssumption` and `PortableAssumption` say that
a rate, a length or a period is not zero, and `NoneAssumption` that an empty optional is no slot
drawn ahead.

Only model-checked: the two liveness properties, `FramesLeave` and `StopIsHonoured`, as
liveness and `ENABLED` are out of the prover's reach; and, over bounded inputs, the pure
algorithms. What a recursive function or a fold computes can be proved through the
least argument for which it would not be so, as above; there is no such way for the
RECURSIVE operators of `MotionField`, `PngReader` and `PngWriter`.

## Not modelled

Listed with reasons under `components`. Of the modelled parts:

* telemetry of the timeline and the loop; the pools that recycle readback
  buffers; failures of the graphics device, which end the program by an exception
  wherever they occur; drawing, present-mode resolution;
* the second axis of the shaders and the sampler's filtering between texels, debug views;
* the launcher's layout, theming, tooltips and its warm-up process, which is a
  batch of `ShaderCache`;
* option parsing beyond what decides mask, target, profile and rate; help texts;
* the frame sequence tool: it reads numbered images, runs the interpolator over each
  pair and writes images and a report, one after the other in one thread;
* the statistics overlay and the test animation are layout and drawing, the capture
  smoke test a program that tests; the upscaler is one draw call;
* the desktop backends and the enumeration of windows, which are calls into
  systems whose behaviour is not in the source.

The loop's wait is modelled by what it may take away (the event, a slot), not by
its timing. What the swap chain does with the semaphore of a slot that is held at a resize
is not in the source: the model gives it back.

## Plan

Done: the clock, the selector with timeline and gate, the capture session, the loop
with the renderer, the interpolator with its detector, shaders, timing and cache, the
launcher with command line and profiles, the portable loop and the pure algorithms; and
a theorem for every property of a passing run that is not a liveness property.
Next, in this order:

1. Lemmas about the pure algorithms that hold for every input: the ranges of `FlowFusion`, the
   filter and the search of `FlowSearch`, the mask of `UiMask` under rescaling.
2. That `FrameLoop` may take its selections from `FrameSelector`: both as one module, and the
   loop's timeline and slots refined by the selector's.
3. Breadth: the frame sequence tool; the renderer's statistics; the second axis of
   `FlowSearch`.

# Agilicious in TLA+: what flies the vehicle, and what may stop it

This directory is a verification development of the control core of the
repository: the path on which a user's wish becomes a packet to a flight
controller (`agi::Pilot`, `agi::Pipeline`, its references and sampler, the
bridges), everything on that path that can disarm, take over or fall silent, and
the two ways by which the outside reaches it: measurements on their way through
the estimators, and bytes on their way through a radio or a serial line.
The specifications are translated from the C++ source, model-checked with TLC on
small instances, and their safety invariants are proved with TLAPS for every
value of the constants.

Numerical code (MPC, geometric control, INDI, filters, polynomial fitting, the
simulator's dynamics) is not modelled. What other parts notice of it is: that it
can fail, and what it leaves behind when it does.

## 1. The system

### Components

| Component | State | Operations | Used by |
|---|---|---|---|
| `BridgeBase` (`src/agilib/src/bridge/bridge_base.cpp`) | `active_`, `n_timeouts_`, `got_command_` (atomics), a condition variable, a watchdog thread | `send`, `activate`, `deactivate`, `reset`; `guardTimeout` in its own thread | both pipelines |
| `BetaflightUdpBridge` | socket, channel values | `sendCommand`, `start`, `stop` | `BridgeBase` through a virtual call, from any thread |
| `Pipeline` (`src/agilib/src/base/pipeline.cpp`) | `references_`, `outerloop_counter_`, `setpoints_outer_`, `feedthrough_command_`, `apply_command_`, the last state | `run`, `appendReference`, `insertReference`, `setFeedthroughCommand`, `clearReferences` | `Pilot` (one for flying, one for safety) |
| references, `TimeSampler` | start, duration and end pose of each reference | `truncate`, `getSetpoint`, `getAt` | `Pipeline` |
| `Pilot` (`src/agilib/src/pilot/pilot.cpp`) | two pipelines, `bridge_`, `debug_bridge_`, the guard | `runPipeline`, `enable`, `off`, `start`, `land`, `forceHover`, `goToPose`, `addHover`, `addPolynomialTrajectory`, `addSampledTrajectory`, `setVelocityReference`, `triggerGuard`, registration of bridges, data callbacks | ROS node, SITL application |
| `PositionGuard` | `guard_state_`, `externally_triggered_` | `update`, `trigger`, `reset`, `triggered` | `Pilot` |
| estimators (`Ekf`, `EkfImu`, `MockVio`, feedthrough) | queues of poses and IMU samples under a mutex, a posterior and a prior state | `addPose`, `addImu`, `getAt`, each of which runs `process` | `Pipeline` |
| SITL application (`src/agilib/apps/betaflight_sitl.cpp`) | mailboxes filled by Gazebo's threads, phase of the flight | main loop: wait, hold disarmed, enable, take off, fly, stop | the user |
| MSP monitor (`src/agilib/apps/betaflight_msp_client.cpp`) | TCP stream, latest telemetry, poll thread | `start`, `stop`, `snapshot`, `healthy` | SITL application |
| `RosPilot` | publishing thread, timer | forwards messages to `Pilot` | ROS |
| `SerialPort` (`src/agilib/src/serial/serial.cpp`) | bytes received, the last message, a callback, a reading thread | `start`, `stop`, `send`, `serialThread` | serial bridges |
| `CtrlBridge`, `CtrlEncoding`, `COBS` | the last feedback, the time of the first command | `sendCommand`, `receiveCallback`, containers and messages | `Pilot`, radio relays |
| `LairdBridge` and the relay nodes (`laird_to_ctrl_bridge`, `laird_to_sbus_bridge`) | a buffer of radio frames; `armed_last_` and a bridge to the flight controller | `receiveCallback`, `receiveCommand`; the node's thread drives its bridge | the ground station |
| other serial bridges (SBUS, MSP), manual flight interface | codecs, receive thread | `sendCommand`, `receive` | `Pilot` |

`PROJECT.json` lists these and the parts left aside (generated solvers,
third-party packages, GUI, plotting), each with the reason.

### Who calls whom, and in which thread

* `RosPilot` runs everything in a single-threaded `ros::spin()`
  (`agiros/agiros/src/node.cpp:9`): callbacks and the timer that calls
  `runPipeline()` never overlap. The SITL application calls `runPipeline()` from
  its main loop (`betaflight_sitl.cpp:1516`). `Pilot::pipelineThread` exists, but
  nothing in the repository launches it (and its takeover, unlike that of
  `runPipeline()`, inserts no hover). So the calls of `Pilot` and `Pipeline`
  are atomic for each other.
* Every bridge owns a watchdog thread, started in the constructor of
  `BridgeBase`. It shares three atomics with the callers of `send`, `activate`,
  `deactivate` and `reset`, without a lock, and calls the same virtual
  `sendCommand`.
* The estimators are fed by callbacks, Gazebo's and serial threads. Every public
  operation holds the filter's mutex, so `process()` is never interrupted; what it
  meets in its queues is in the order of arrival.
* A serial port has a reading thread of its own, which runs before the bridge
  has set its callback. A relay node has two threads beside it: its own, the only
  client of the bridge to the flight controller, and that bridge's watchdog.

### What is hard

`PROJECT.json` has the hazards line by line, each with the properties that would
catch it; one that has none says why, most often because the code does what the
hazard says and no property can both hold and forbid it. The groups:

1. *Lock-free arming.* `active_` is loaded, then a packet is built from it and
   sent; in between anybody may deactivate. The watchdog tests a counter and
   increments it in two steps; `reset()` is two stores.
2. *A queue with an order nobody checks.* References are kept ordered by start
   time; the sampler searches them by end time. Appending, inserting, truncating,
   expiring and moving velocity references must keep both, or somebody hovers
   where nobody asked them to.
3. *Stages that fail.* Any stage of a control cycle may fail and ends it; what
   earlier stages have changed stays changed.
4. *Takeover.* The guard switches the pipeline, off() switches back; bridges can
   be exchanged while they are armed. A pipeline without reference or a bridge
   that nobody drives is the failure.
5. *Late and missing data:* lost packets, silent commanders, stale odometry,
   estimators without IMU, replies that come after their timeout.
6. *Queues searched as if they were ordered.* The estimators keep measurements in
   the order of arrival and search them by time; resets erase from the queues
   that a loop is walking over; a getAt() leaves the filter ahead of its own
   covariance.
7. *Streams without boundaries.* Frames are found again after loss, through
   buffers that are thrown away when they are full; arming follows an edge of a
   bit that may have been in a frame nobody got; a flight controller that
   restarts is older than itself.

## 2. Modules

| Module | Models | Extends | Proofs | Model checking |
|---|---|---|---|---|
| `BridgeBase` | arming switch and watchdog, atomic by atomic | | `CtrlBridgeProofs` | `MCBridgeBase` |
| `References` | the reference queue as pure operators | | through `FlightPlan` | through `FlightPlan` |
| `FlightPlan` | the queue under Pilot's commands and the cycle | `References` | `FlightPlanProofs` | `MCFlightPlan` |
| `Pipeline` | one control cycle, its failures, feedthrough | | `PipelineProofs` | `MCPipeline` |
| `Takeover` | abstract: who is in control, is the vehicle armed | | | through `Pilot` |
| `Pilot` | guard, two pipelines, bridges; refines `Takeover` | | `PilotProofs` | `MCPilot` |
| `BetaflightSitl` | the SITL application's main loop, composed with its bridge | instance of `BridgeBase` | `BetaflightSitlProofs` | `MCBetaflightSitl` |
| `BetaflightMsp` | the MSP monitor's poll thread beside `start()` and `stop()` | | `BetaflightMspProofs` | `MCBetaflightMsp` |
| `SampleQueues` | what both filters share: the two queues, their limit, posterior and prior | | through `Estimators` | through `Estimators` |
| `Ekf`, `EkfImu` | the two filters, an iteration of `process()` at a time | `SampleQueues` | through `Estimators` | through `Estimators` |
| `Estimators` | either filter in either pipeline, with the sensors' clock and transport | `SampleQueues`, instances of `Ekf` and `EkfImu` | `EstimatorsProofs` | `MCEstimators` |
| `LairdRelay` | the onboard radio relay, composed with its bridge | instance of `BridgeBase` | `LairdRelayProofs` | `MCLairdRelay` |
| `Cobs` | byte stuffing as pure operators, with a reference definition | | through `CtrlFeedback` | through `CtrlFeedback` |
| `CtrlFeedback` | serial line, reading thread, containers and feedback | `Cobs` | `CtrlBridgeProofs` | `MCCtrlFeedback` |

### `BridgeBase`

One action is one access to an atomic or one call of `sendCommand`, in the
order of the code. `pc[c]` is where client thread `c` is (`mark`, `load`,
`transmit`, `settle` inside `send`; `arm` inside `activate`; `forget` inside
`reset`), `sees[c]` the value of `active_` it has loaded. `guardPc` and
`guardSees` are the same for the watchdog. The condition variable is one flag,
`notified`: a notification is lost unless the watchdog waits, and `wait_for`
may report a timeout even though it was notified (it compares clocks).
`sendCommand` is that of the UDP bridge: `receiver` is the last packet that
arrived, and a packet can arrive, get lost, or fail to leave the socket, in
which case the caller learns of it. `stale` is a history variable: the
threads that have sent an armed packet since `active_` fell.

### `References` and `FlightPlan`

A reference is its kind, its time range and the pose it ends in. Time is
discrete, one unit per cycle; `Inf` is the infinite duration of hover and
velocity references. The operators follow the code including what it does not
intend: `Truncate` refuses a time that is not after the start, `InsertInto`
truncates the last reference of the *old* queue, and `Search` performs
`std::lower_bound` as the standard library does, because its precondition
(ordered end times) does not always hold. `FlightPlan` adds the commands of
`Pilot` with their guards and their choice of start times, and the cycle:
`Run` (sampled and expired), `RunFails` (ended early), `RunFeedthrough`.
Where the caller gives a start time it may be any (`AddTrajectory`, `AddHoverAt`).
A trajectory lasts any number of cycles up to `MaxDuration`: the caller's choice,
or what distance and speed make of it; the 1.5 s that `goToPose` takes at least are
some of these numbers.

### `Pipeline`

Follows *which plan* a command was computed for. `outer` is the plan the stored
outer setpoints belong to, `applied` the one of the command that was sent.
`feed` is the age of the feedthrough command. Each early return of `run` is an
action. `steps`, `missed` and `late` are history variables that count what the
properties speak about and saturate at `MaxSteps`.

### `Takeover` and `Pilot`

`Takeover` is the contract a user of the guard relies on: control passes from
user to guard without arming or disarming anything, and back only with the
vehicle disarmed. `Pilot` has the two pipelines with the bridge each `uses`, the
kind of reference in `front` of each, bridges that are `active` or `locked`,
the guard's state, and the estimate the guard gets. `RunsFrom` is
`Pipeline::run` as `Pilot` sees it. Bridges behave as module `BridgeBase` shows:
an active bridge can lock at any time and a locked one is disarmed.

### `BetaflightSitl`

The composition of the application's main loop with `BridgeBase`: the main
thread is the bridge's one client, `Bridge == INSTANCE BridgeBase WITH Clients <-
{Main}`, and every bridge call of the loop is the start of the same call there,
finished by `Continues`. `at` is where the main thread is between two calls,
`phase` the mode the program prints (`WAIT`, `DISARM`, `PREARM`, `FLIGHT`),
`elapsed` the simulated time in it, as far as a guard looks at it. Other threads
appear as actions of their own: odometry arrives, ages or is unusable, the user
interrupts, the watchdog runs. Leaving the loop by any way is one path:
`SafeStopGuard`'s calls (`todo`), then the destructor, which tells the watchdog
to end, joins it, and sends one more packet past every flag. Failing sensors and
a pipeline that sends or does not send are choices: nothing in the loop may
depend on them.

### `BetaflightMsp`

A frame is the code it answers and the sweep that asked for it, which the client
cannot see. `toFc` holds the requests that are not answered, `rx` the replies
not read, in the socket or in `rx_`; each connection starts with both empty.
`poll` is where the thread is in its sweep, `code` what it asks for. Betaflight
may answer, stay silent, or close, at any time; `kReadTimeout` may be over at
any time. `shown` is the sweep each part of the snapshot answers; `session` and
`missed` are history.

### `SampleQueues`, `Ekf`, `EkfImu`, `Estimators`

A measurement is its stamp; a pose has a number as well, so that the history can
say which one was fused. `posterior` and `prior` are the times of the two states, 0
is NaN. `at` (and `imuAt` in `Ekf`) are the iterators of `process()`: an
operation puts them at the front, and each iteration of the loop is one action,
named for its branch (`Skips`, `Corrects`, `Ignores`, `Resets`, `FusesImu`,
`FusesPose`, `Waits`, `Jumps`, `Finishes`), so that no other operation runs until
the loop is over. `getAt` is `GetAt`, the same loop, and `Answers`. Searches over queues
that are not ordered follow `std::lower_bound`, as in `References`, or may end at
any place where that could (`ImuCuts`, `PoseCuts`). A pose that differs from the state by
more than the limit is a choice: `jumps` is the static counter both pipelines
share, moved by the other filter in `OtherJumps`. `Resets` erases from the queue the loop
walks over; where the iterator's own element is gone it may point anywhere, and
`dangled` remembers it.

`Estimators` has one filter, of either type, in either pipeline, with any parameters.
`ImuArrives` is limited to the user's pipeline, as the callbacks are. The histories
`peeked` and `blind` are sets of units of time: those a query predicted over,
and those the covariance was not propagated over; `twice` says that a
stretch was integrated twice.

### `LairdRelay`

The relay is the one client of `Bridge == INSTANCE BridgeBase WITH Clients <-
{Relay}`. A frame decoded becomes the bridge calls its thread makes (`CallsFor`,
`todo`), each finished step by step by `Continues`. The radio may deliver the
frame that is sent, lose it, or deliver noise at any time. The ground station
sends what it likes. The node may die anywhere and start again (`Restart`): the
vehicle keeps the last packet it got. `tripped` is history: the watchdog has
disarmed although the radio's last word was "armed".

### `Cobs` and `CtrlFeedback`

`Stuff` and `Unstuff` walk over a message as the code does; `Reference` says what
the result is meant to be: each delimiter becomes the distance to the next.
`CtrlFeedback` sends frames of containers (`Sendable`) over a line that may lose or
change a byte (`LosesDelimiter`, `IsDamaged`); an iteration of `serialThread` reads any
number of bytes that are there and leaves through one of its exits (`NothingYet`,
`NoStart`, `HandsOver`, `Waits`). Bytes on the line carry a mark the program cannot
see: the first or a later byte of a message that is as it was sent. With it the model knows
which messages have left the buffers (`Leaves`), and `skipped` remembers if one
that was *owed*, that had arrived whole between two delimiters after the callback was
set, was not decoded to what was sent. Headers, payload and checksum are left out; the
checksum is taken to find all damage. `refusals` counts containers in a row from
which nothing was decoded although they have feedback.

## 3. Runs

| Run | Expect | What it shows |
|---|---|---|
| `bridge` | pass | two clients and the watchdog: at most one stale armed packet per thread after disarming; the counter stays within its limit; silence disarms, and a locked bridge is disarmed or somebody interferes (`DeadManDisarms`); a disarmed vehicle gets to know in spite of lost packets |
| `bridge_reset_race` | violation | `reset()` beside the watchdog leaves a bridge locked *and* armed for ever |
| `flightplan` | pass | starts stay ordered; neither expiring nor appending changes what is flown (`PlanIsKept`); `goToPose` and `forceHover` do what they say in the situations stated (`CommandsTakeEffect`) |
| `flightplan_forcehover` | violation | `forceHover()` while a trajectory is under way and another one is behind it: the first keeps its end and is sampled until then, instead of the hover |
| `pipeline` | pass | the divisor is kept unless the outer controller fails; a new plan takes over within it; a silent feedthrough commander loses control |
| `pilot` | pass | no bridge is left armed, the guard always has a reference and a bridge to the vehicle, a violation of the volume is caught, `Pilot` implements `Takeover` |
| `sitl` | pass | no armed packet before the hold is over; stale odometry, a lost bridge, a silent pipeline and a signal all end the program (`FailureStops`); when it has ended the vehicle is disarmed if the last packet arrived |
| `msp` | pass | a late reply is never older than the sweeps its code has missed; a restart forgets the earlier session; `stop()` returns whatever Betaflight does |
| `estimators` | pass | poses and samples late and out of order, queues that overflow, jumps, resets, a silent IMU: only an `Ekf` without samples fuses a pose twice, no filter goes back in time, ordered samples are integrated once, only queries hide time from the covariance, and queues drain while the IMU sends |
| `guard_estimate` | violation | the guard's `EkfImu` gets poses but no IMU samples: its estimate stays at its first pose |
| `relay` | pass | a link that is lost disarms the vehicle, through a backlog, an overflow and a restart, and a bridge that locks is disarmed (`RelayDisarms`); a link that comes back does not arm it again by itself (`RearmNeedsDisarm`) |
| `ctrl_feedback` | pass | whatever is lost around it, a message that arrives between two delimiters is decoded, once and in order (`NoneSkipped`); none stays in the buffer when the line falls silent (`SilentLineDrains`); a flight controller that restarts loses one container (`NeverLockedOut`). Its module compares COBS with its reference, for all messages of up to four bytes |

The action properties of `FlightPlan` are stated as implications between the
action and the queues before and after, e.g. `ExpireKeepsPlan`, a part of `PlanIsKept`: *whatever time
is sampled from now on, the setpoint is the same*. Their preconditions exclude the
states in which the code does something else (section 5): a time at which
`std::lower_bound` cannot find its place, because a reference that has not ended is in
front of one that has (`Searchable`), and a last reference that began in this very
cycle or is not the one that is flown (`FliesLast`).

### Bounds, and why they are enough

* `bridge`: two clients, `MaxTimeouts = 2`. Two clients are needed for one
  client's `send` to overlap another's `deactivate`; a limit of two lets the
  counter be below, at and (if it could) above its limit, and lets one `send`
  unlock and another not. The proofs cover any number of either.
* `flightplan`: times up to 4, at most 3 references (the shortest queue with a
  first, a last and one that is neither), two poses, trajectories of one to three
  cycles, so that a query can fall before, inside, at either end and behind one, and
  one that is under way can outlast the next cycle. The
  clock stops at `MaxTime`, hence `CHECK_DEADLOCK FALSE`. Three references are too
  few to see that appending to a queue that cannot be searched changes what is
  flown; the theorems cover any length, and for the attempt at the proof TLC was
  given queues of six (section 5).
* `pipeline`: divisor 3 (that of `onboard_pilot.yaml`) has a first, a middle and
  a last inner step; two plans tell an old from a new one; a feedthrough command
  that lasts two cycles can expire before, at and after an outer step. `MaxSteps`
  is more than twice the divisor, so the counters saturate far from the bounds
  the properties state.
* `pilot`: two vehicle bridges and two debug bridges, so that each kind can be
  exchanged for another of its kind; the initial states include a pilot whose
  bridge could not be created. Nothing in this model is unbounded.
* `sitl`: a lock at two timeouts as in `bridge`; a hold and a pre-arm phase of one
  step of time each, so that a cycle can fall before their end and at it. The
  program ends, hence `CHECK_DEADLOCK FALSE`. With a hold of zero a silent
  pipeline does not end the program: the bridge may be armed before it was sent any command, and then
  its watchdog does not count.
* `msp`: three sweeps: one whose replies are late, one that takes them for its
  own, and one that shows whether the lag stays. Restarts are not bounded.
* `estimators`: stamps up to 4, a transport that is late by up to 2, so that any
  two measurements can change places; two poses (after the one that initialises)
  can be fused out of order, twice, or be erased by one another's reset; a queue
  of 3 overflows; a wait of 1 ends before, at and after a sample; two jumps reset.
  The numbers of samples, queries and resets are not bounded.
* `relay`: a lock at two timeouts; a buffer of two frames, so that one can wait
  behind another and a third is an overflow; one restart, anywhere.
* `ctrl_feedback`: a buffer of 8 bytes holds one frame and the beginning of another; it
  fills up when damaged delimiters join frames. Five unread bytes are one frame of
  two messages, or the end of one frame and the beginning of the next. A clock of two values
  can fall behind the newest feedback, and it can restart any number of times. The
  delimiter is a value of the clock, so that stuffing has something to do. `char` is
  unsigned, as on the ARM boards that fly; where it is signed, containers with two
  feedbacks are always refused (`Decodable`) and hence not owed.

### Fairness

* `bridge`: weak fairness of the watchdog (a thread the operating system
  schedules), but not of its timeout alone: clients may keep it notified for ever. Strong
  fairness of *delivered* packets: of the packets a thread sends again and again
  not all are lost. Clients are never obliged to call anything.
* `pipeline`: weak fairness of `Run` (a ROS timer or the main loop calls it), and
  strong fairness of a successful outer step: what computes a command
  succeeds some time. Without it an outer controller that fails for ever lets
  the pipeline send nothing new, and no property about new commands can hold.
* `pilot`: weak fairness of `runPipeline()`.
* `flightplan`: safety only.
* `sitl`: weak fairness of the main thread and of the watchdog. No odometry, no
  delivered packet and no successful pipeline is owed: the program must end
  without them.
* `msp`: weak fairness of the poll thread and of the join in `stop()`. Betaflight
  owes nothing, and `stop()` need not be called.
* `estimators`: a call that holds the lock returns (weak fairness of `Works`); time
  goes on, and an IMU that is connected sends samples with the current time
  (strong fairness: both wait while the lock is held). Poses are not owed.
* `relay`: weak fairness of the node's thread and of the watchdog, strong fairness
  of delivered packets to the flight controller, as in `bridge`. The radio owes
  nothing.
* `ctrl_feedback`: weak fairness of an iteration that reads nothing: the reading
  thread polls a descriptor that does not block. `SilentLineDrains` assumes that
  the line is read empty, and says that this suffices.

## 4. Proofs

Every theorem is proved by `tlapm` to the last leaf, for all values of the
constants that satisfy the named assumptions. Each follows the same plan: an
inductive invariant, one step per action, one lemma or sub-step for what an
action can disturb, and a last temporal step.

* **`CtrlBridgeProofs`** has the two parts of `agi::CtrlBridge`, a `BridgeBase` with a
  reader of feedback. `BridgeBase` (assumes `MaxTimeouts \in Nat` and that the
  watchdog is no client): `CountBounded` is not inductive: the watchdog increments after its
  test. The strengthening says that in between (`guardPc = "count"`) the
  counter is still below the limit: others may only decrease it (`AboutToCount`,
  and `LockoutOn` for the limit itself). `AtMostOneStale` needs, besides the types,
  that the history is empty while the bridge is active (`HistoryOfFall`): a thread
  enters `stale` by transmitting, which also drops what it carries.
* **`CtrlBridgeProofs`, `Cobs`** (any byte size and delimiter). `StuffingCorrect`: for every
  message whose counts fit into a byte, `Stuff` is `Reference`, `Unstuff` undoes it and
  no delimiter is left. Both are walks over the message (`Along`), and what a walk has
  done after `i` bytes (`Stuffing`, `Unstuffing`) is shown for all `i` by taking the least
  one at which it is wrong: a set of naturals that contains 0 and, with each number, the
  next one is all of them (`AllNaturals`). So no induction over a predicate is
  needed, which the provers could not instantiate. A block of 255 bytes without a
  delimiter would wrap its count; the longest container has 238 bytes.
* **`CtrlBridgeProofs`, `CtrlFeedback`** (any buffer that holds the longest message
  between two delimiters, any padding, clock, signedness of `char` and number of
  unread bytes). `NoneSkipped` says that nothing bad was
  *remembered*, which no step but the fatal one touches; `FeedbackInv` says why it
  does not come. `Counted`: every message sent and not yet taken has its first byte
  either in `message` or in `rx \o line`, the bytes the thread has and those it has
  not read. `OwedCome`: the bytes of an owed message stand there in one piece,
  between delimiters (`Placed`), with as many first bytes behind it as were sent later (`Behind`).
  Reading moves the border inside `rx \o line` and changes nothing. Where an
  iteration throws bytes away, the lemmas follow the code's indices: nothing in
  front of the start it finds can be owed (`NotInFront`), nor anything in front of
  the end, but the message it cuts out (`OwedIsTaken`), and that one is what the flight controller stuffed
  (`OwnMessage`, by `StuffingCorrect`). What the line damages is no longer owed, and a message that is sent begins
  behind all that are on their way. `LockInv` says that a refusal leaves `newest`
  at NaN, which nothing is older than: hence `NeverLockedOut`.
* **`FlightPlanProofs`** (times natural, trajectories of any length up to
  `MaxDuration`, `Goals` any set). The invariant adds to
  `StartsOrdered` that the queue is a plan (nothing ends before it starts),
  which `AppendTo` needs to place the new reference behind the last start. Lemmas
  describe `Truncate`, `AppendTo`, `StartsBefore` (a lower bound on an ordered
  queue exists), `InsertInto`, `Expire` and `MoveStart`. `SearchFinds` says what the
  binary search yields in a queue of any length that can be searched: the
  first reference that has not ended. The recursion is well-founded, since half of a
  range is shorter (`HalvesAreShorter`), and the range it would be wrong for can be
  taken as short as possible. From it follow the action properties: `PlansAreKept`, that what
  `Run` drops or adds and what a command appends is never flown at a time the
  properties speak of; and `CommandsAreFlown`, that every setpoint after a forced hover is that of the hover,
  and that the trajectory of `goToPose` starts in the pose that is held. The clock stops
  early enough that no finite reference reaches `Inf`
  (`MaxTime + 2 * MaxDuration < Inf`).
* **`PipelineProofs`** (any divisor, with or without inner controller). The
  invariant (`CounterBounds`) relates the history counters to `outerloop_counter_`: since the outer
  controller last succeeded, as many inner steps were taken as the counter says
  at most, and the plan of the stored setpoints was replaced no later than that.
* **`PilotProofs`** (any bridges). `EnabledSharesBridge` is not inductive on its
  own: the strengthening `DebugParts` says that the two pipelines drive different
  bridges only while the main one is on a debug bridge. The lemma `PilotStep` shows
  of each action that it keeps the invariant and is `Allowed`, a step of
  `Takeover` or a stutter; the refinement `Spec => Takeover!Spec` follows.
* **`BetaflightSitlProofs`** (any limit, hold and pre-arm phase). The composed
  invariant quotes the bridge's steps (`BridgeStep`) instead of repeating them.
  `ArmedInv` says who may hold a loaded `active_ = TRUE`, the main thread or the
  watchdog, and in which phases; `JoinedInv` that the watchdog is back at its wait
  and stays there once it was joined, so that the destructor's packet is the last.
* **`BetaflightMspProofs`** (any number of sweeps). `AgeBounded` is not inductive:
  the bound must hold of frames still on their way, each of which grows older with
  each sweep. `FrameOK` bounds the age a frame will have if it is read now by
  what its code has missed, counting the present sweep once its attempt at that
  code is over; a sweep that reads a reply misses nothing, and there it is
  `OrderInv` (what is behind in the stream is younger) that saves the bound.
  `FreshAfterStart` follows from the same invariant.
* **`EstimatorsProofs`** (any queue, delay, wait and number of poses and jumps). The
  types come first (`TypesCorrect`): what erasing and pushing do to a queue, and
  where the iterators are afterwards. `NeverBackwards` needs no more. The other
  three each have their invariant. `PeekInv`: the stretch between posterior and
  prior was looked at by a query, and nothing else is hidden from the covariance.
  `OrderInv`: as long as samples arrive in order the queue is ascending, in which case no
  prediction turns back. `FusesOnce` rests on `NumberInv` (numbers in the queue
  ascend, and only poses that arrived were fused) and on `EkfOnceInv` and `ImuOnceInv`:
  what has been fused and is still queued is behind the iterator of this
  `process()`, or too old to be taken again, or an `Ekf` was starved with it.
* **`LairdRelayProofs`** (any buffer and limit). The types are quoted from the bridge's
  (`BridgeTypes`). `RearmNeedsDisarm` is not inductive: `EdgeInv` adds that the
  bridge is inactive while the arming bit is down or about to be acted on, and that
  a watchdog that trips does so while the bit is up and the arming is over, so that no
  `activate` is left to be made or half made.

Only model-checked: all liveness (`DeadManDisarms`, `DisarmReachesReceiver`,
`SettlesOnPlan`, `ViolationIsCaught`, `FailureStops`, `StopEnds`, `QueueDrains`,
`RelayDisarms`, `SilentLineDrains`), because fairness and ENABLED are out of the
prover's reach. Every invariant and every action property that a passing run checks is
also a theorem.

## 5. Findings

Each is a run that TLC refutes; `PROJECT.json` quotes the line that promises
otherwise.

1. `reset()` clears the counter and the flag in two stores. A watchdog that
   counts to the limit in between leaves the bridge locked, armed and, since no
   command has been "heard" any more, never disarmed (`bridge_base.cpp:118`). The
   relay, which resets only what it has deactivated, is not exposed to it
   (`LockedDisarms`, a part of `RelayDisarms`).
2. `insertReference` truncates the last reference of the old queue, not the last
   that is kept (`pipeline.cpp:223`): a trajectory under way, with another one behind
   it, is flown to its end before the forced hover.
3. IMU samples are given to the user's estimator only (`pilot.cpp:568`). The guard's
   `EkfImu`, its estimator in the configurations that are shipped, does nothing
   without them: the guard decides by its first pose for ever.

Stated in the modules, refuted by TLC when checked, and not the subject of a run:

* `AppendKeepsPlan` and `LastForceHoverTakesOver` (`FlightPlan`) without the condition that
  the queue can be searched: two hovers given in one cycle both stay endless, with a
  reference between or behind them that ends; `std::lower_bound` then depends on
  where the halves fall, and one reference more in the queue makes the vehicle fly another
  one. TLC finds it with queues of six (`time_sampler.cpp:24`).
* `GoToPoseAvoidsJumps` (`FlightPlan`): while the last hover started at the same
  time, `truncate` refuses, its result is ignored, and the hover stays endless in front
  of the new trajectory (`pipeline.cpp:178`).
* `GuardFliesWithoutUserModules` (`Pilot`): `createPipeline(pipeline, config)` ignores
  `config` (`pilot_params.cpp:278`).
* `PairingKept` (`BetaflightMsp`): a reply that is late is taken for the reply to the next
  request of its code (`betaflight_msp_client.cpp:195`), and from then on every
  reply is one sweep behind: asking for one message at a time does not keep the
  pairing, as the comment above the loop hopes. The theorem `AgeIsBounded` says how
  bad it gets.

Noticed while reading, and outside the models: the ground station's `LairdBridge` has a
lock limit of zero (`laird_bridge.cpp:12`); a relay that is started again arms on the first armed
frame, since `armed_last_` starts as false; `waitForData` looks at `buffer_length_`
without the mutex (`laird_bridge.cpp:72`); the destructors of the relays do not join
their threads; `unstuff` reads one byte past a message of one byte (`cobs.hpp:53`); while
`feedback_` is empty, `encode()` sends ARM instead of the command
(`ctrl_encoding.cpp:42`).

## 6. Not modelled, and the plan

In this order:

1. **Proofs**: the refinement of an abstract dead-man switch by `BridgeBase`, and by the
   bridges of the SITL application and the relay through their instances.
2. **Arming over CTRL**: what `encode()` sends depends on the last feedback; composed
   with `CtrlFeedback` and a flight controller that answers.
3. **Bridge lifecycle**: constructors and destructors beside the watchdog thread,
   and `AgiWatchdog`; the serial port's `stop()` beside its reading thread.
4. **Composition** of pipeline and bridge: a pipeline that fails starves the
   watchdog, one that flies stale estimates does not.
5. `RosPilot`'s publishing thread, `MockVio`, the SBUS and MSP encodings.

Not planned: numerical code, logging and parameters, generated and third-party
code, front ends. Most of the repository's lines are of these kinds: the solvers
acados and CasADi generate and the qpOASES library alone are more than half of the C
and C++ code, and the models, which cover the control flow of the rest, stay a small share
of all lines for that reason.

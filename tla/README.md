# Wheelson: TLA+ models and proofs

Wheelson is a small robot driven over TCP. A client sends grid destinations; the
main microcontroller (`src/ccs_workspace/0_Investigator`, TI-RTOS) plans a path one
cell at a time, commands a motor board over a UART, reports back, and streams
pictures of a camera; an ultrasonic board raises an alert line when something is
close. This directory holds TLA+ modules translated from that code, the TLC
configurations that check them on small instances, and TLAPS proofs of what
matters most for all instances.

Run everything from this directory: `tlc -config <X>.cfg <M>.tla`, `tlapm <M>.tla`.

In this file `INV/` stands for `src/ccs_workspace/0_Investigator/`, `MB/` for
`src/Daniel Code/MotorBoardFirmware/`, `UB/` for `src/ccs_workspace/0_control_mcu_2/`
and `PY/` for `src/Python/final_app/`.

## 1. Inventory

| component | source | state | operations | status |
|---|---|---|---|---|
| PDU FIFO | `INV/shared.c:98-173` | ring `buffer`, `head`, `tail`, `avail`; semaphores `mutex`, `full`, `empty` | init, put, get | modelled |
| Camera buffers | `INV/pingpong_ipc.c` | `num_buffs` buffers, `avail`, `head`, `tail`, the same three semaphores | init, get buffer, update buffer, for reader and writer | modelled |
| Control thread, safety interrupt | `INV/controlHandler.c` | `state_t`, `rx_pdu`, believed heading, `position_g`, `blocked_flag`, speaker | five state handlers, rotation, path, `safetyHandler` | modelled |
| Motor board | `MB/` | `RXData`, `motorStopFlag`, two motors | main loop, four moves, UART interrupt | main loop, moves and interrupt modelled; boot and sounds not |
| Camera capture | `INV/camHandler.c` | ArduCAM FIFO, search for header and end of image | `camCapture` | modelled |
| TCP handlers | `INV/tcpHandler.c`, wire format in `shared.c:176-198` | three listening threads, a client each | `camTCP`, `updateTCP`, `commandTCP` | modelled; the set-up of the sockets is taken to succeed |
| Compass | `INV/sensorHandler.c`, `LSM303DLH.c` | `heading_g` | sampling, heading message | the message and its position; not the sampling |
| Board support | `INV/board.c` | none | one-line driver calls | `uart_write` in `Drive`, GPIO as steps of `Control`; SPI and I2C not |
| Start-up, network events | `INV/main_tirtos.c`, `INV/platform.c` | threads created per IP event | `main`, `netIPAddrHook` | not modelled (section 5) |
| Ultrasonic and LCD board | `UB/main.c` | measured distances, alert line | measure, raise or lower alert, LCD bytes | the loop, the pin and the time the interrupt takes; not the LCD protocol |
| Web application, clients | `PY/` | sessions, queues, sockets | bridge, command, update and picture client | the three clients and the page's update loop for one session; not the map, the video page |
| Prototypes, vendor code, hardware | `src/Libs`, `src/hardware`, ... | - | - | left out: not the robot's program |

**How they interact.** The page puts commands into a queue, `cmd_process` sends each as one
frame, `commandTCP` puts it into `rx_pdu_fifo_g`, `controlThread` takes it; `controlThread`
and `sensorThread` put messages into `tx_pdu_fifo_g`, `updateTCP` takes and sends them,
`update_process` hands them to the page through a queue. `camThread` fills the buffers of
`cam_buff_tab`, `camTCP` sends them, `jpeg_client` finds the pictures in the stream.
`controlThread` and `safetyHandler` (a GPIO interrupt of the alert line) both write single
bytes to the motor board's UART, both switch the speaker, and share `blocked_flag`. On the
motor board the UART interrupt shares `RXData`, `motorStopFlag` and the motor pins with the
main loop. The ultrasonic board's loop drives the alert line; the bytes of its LCD interrupt
the loop.

**What is hard.** Hand-made monitors built of counting semaphores that are posted on
one transition of a counter only; buffers used outside their lock; an interrupt that
may come between any two steps of the control thread and decides with the thread over
motors and speaker; a byte-wide command register that an interrupt overwrites while it
is being executed; byte streams cut anywhere by `recv`, without framing for the pictures;
clients that come and go in the middle of a picture or a frame; one Python object filled
while another thread still has to write it; a loop that measures time by counting its
rounds while an interrupt stops it. `PROJECT.json` lists each hazard at its line.

**What makes each part correct.**
- FIFO and camera buffers: order kept, nothing lost or duplicated, nothing overwritten (of
  the buffers but by an overrun), mutual exclusion, nobody asleep beside what he waits for, every call returns.
- Control: an alert that comes up is not overlooked for good; the speaker is not left on; the
  motors rest where the thread waits; path, heading and position agree; a command
  finishes, and at its destination.
- Motor board: both motors turn as commanded until the time is over or a stop comes;
  they are off between moves; the board comes back to waiting. Joined to the control
  thread: an alert that comes up and stays stops the motors themselves.
- Camera to file: what is saved is a picture, whole, unmixed, in order; pictures keep coming.
- Command path: nothing is queued that was not sent, nothing older after something newer.
- Telemetry: the page shows positions the robot reported, in their order, and comes to show the
  last one.
- Ultrasonic board: the alert is not dropped while something is near, not raised without
  something near, and something that stays near is alerted; distances fit their type.

## 2. Modules

| module | models | role |
|---|---|---|
| `BoundedQueue` | - | abstract: a blocking bounded queue, what the FIFO promises its callers |
| `BufferQueue` | - | abstract: the same of camera buffers, whose oldest one a picture too long may reach with one byte |
| `PduFifo` | `INV/shared.c` | detailed; implements `BoundedQueue` |
| `PingPong` | `INV/pingpong_ipc.c` with the callers' loops | detailed; implements `BufferQueue` |
| `Control` | `INV/controlHandler.c` | the thread, the interrupt, the two FIFOs as bounded queues, the alert pin |
| `Robot` | composition | extends `Control` by the body it drives |
| `MotorBoard` | `MB/main.c`, `MB/motorDriver.c` | the main loop and the UART interrupt |
| `Drive` | composition, `INV/board.c` | `Control` and `MotorBoard` joined by the UART |
| `Camera` | `INV/camHandler.c`, `camTCP`, `PY/jpeg_client.py`, `PY/wheelsonTCP.py` | a picture byte by byte, from the camera's FIFO to the saved file |
| `CommandPath` | `PY/cmd_client.py`, `commandTCP`, `pdu_read_buffer` | frames over a byte stream into the rx FIFO |
| `Telemetry` | `INV/sensorHandler.c`, `updateTCP`, `PY/cmd_client.py`, `PY/bridge.py` | position reports from two threads to the page |
| `Ultrasonic` | `UB/main.c` | the measuring loop, the alert pin, the interrupt that delays it |
| `PduFifoProofs`, `PingPongProofs`, `ControlProofs`, `MotorBoardProofs`, `UltrasonicProofs`, `CommandPathProofs`, `TelemetryProofs`, `CameraProofs` | - | theorems (those about `Drive` are in `ControlProofs`) |
| `MCPduFifo`, `MCPingPong`, `MCControl`, `MCCamera` | - | instances for TLC |

**Granularity.** A step of `PduFifo` and `PingPong` is what happens between two
semaphore operations or, under the lock, one of the code's tests and the assignments
it guards; the posts at the end of an operation are one step with the unlock, because
nobody else can be inside. `pc` (`wpc`, `rpc`) names the places of the code. A step of
`Control` ends where something else can be seen in between: a read of `blocked_flag`
or of the pin, a byte on the UART, a FIFO operation, a sleep. Where a test that finds no
alert and the stop byte after it are one step (`ExePlan`, `ExeNotMove`), the interrupt
between them could only send the same stop byte. In `MotorBoard` every
comparison of `RXData` is a step of its own, because `RXData` is re-read each time.
`Drive` joins the steps of `Control` and `MotorBoard` unchanged: a step of the thread that
writes a byte also appends it to the wire, a byte that arrives is one interrupt of the board.
`Camera` takes one step per byte of the camera's FIFO and one per buffer sent, because
`PingPong` shows that a buffer is not written while it is sent, except by the one byte of an
overrun (`OnlyOverrun`): the client finds it in the buffer or not, as if it had been stored
before or after the buffer was sent. `CommandPath` takes one
step per `recv`, which returns any number of the bytes that have arrived. In `Telemetry`
`get_buff` is two steps, `x` and `y`, because the feeder thread may write the PDU in between.
In `Ultrasonic` one round of a waiting loop is one tick of 100 us; the interrupt handler is
any number of ticks.

**Abstractions.** In the channels PDUs and picture data are model values; in `Camera` a byte
is a marker byte, padding, or the number of its picture; in `CommandPath` it is its command
and its place in the frame (the two bytes of the fields stand for command and coordinates), so
that a PDU put together of two frames is told from one that was sent. Of tx messages only the
number matters to `Control`, only the position to `Telemetry`. Headings stay the numbers 0, 90,
180, 270 of the code. A motor of the motor board turns while its pin belongs to the timer, which
is what `PWMMotor` and `turnOffMotor` decide. Delays are unbounded, except in `Ultrasonic`.
`ST_REROUTE` is never assigned. Locals of `exe_handler` that are not assigned yet hold the
value `Unset`; where the code stores them nevertheless, the stored value is arbitrary within
the grid of the instance. Assumed of what is outside: the camera's FIFO holds one picture and
padding; a connection delivers a prefix of what was sent, and may end in the middle of a frame,
orderly or by a reset; `send` on a blocking socket takes the whole buffer or fails with the
connection (a short count is taken by the code as success, and is not considered); a sensor
ignores triggers while its echo lasts. What an overrun of the last camera buffer writes behind
the array is not modelled.

**Semaphores.** `sem_post` at the largest count fails and changes nothing (POSIX
`EOVERFLOW`; the code ignores the result). `SemMax` is a constant; the safety
theorems hold for every value of it.

**History variables**, which no guard of an action that models code reads: `shown` (the content
of the last camera buffer released; `sent` is what has gone out of the current one); `late` of
the motor board (a stop byte came while a move was being started); `pics` and `saved` of
`Camera`; `queued`, `cut`, `short`, `merged`, `dropped` of `CommandPath` (all that was queued;
what has happened to the frames so far); `path`, `seen`, `resumed`, `stale` of `Telemetry`;
`near`, `seen`, `busy`, `disturbed` of `Ultrasonic`. The numbers of pictures and reports that
the histories keep are bounds (`Recent`, `NumReports`), and `StartCapture` and `Report` look
at them for that reason only.

## 3. Runs

Passing runs:

| run | instance | shows |
|---|---|---|
| `pdu_fifo_rx` | one producer, 3 slots, 2 messages, `SemMax` 3, `FairSpec` | no lost wakeup of the writer, refinement of the fair queue (a put that waits is accepted once there is room) |
| `pdu_fifo_tx` | two producers, 3 slots, 2 messages, `SemMax` 2 | mutual exclusion, the reader is never left asleep, refinement of the queue |
| `ping_pong` | 2 buffers of 2 cells, 2 pictures, `FairSpec` | no sharing, no lost wakeup, the camera gets its buffer, refinement of the fair queue of buffers, each as it was handed over but for the byte of an overrun |
| `control` | 2x2 grid, all commands, alerts at any time and at boot, FIFOs of one slot, `FairSpec` | the flag is not stale once the pin has been low, speaker, resting motors, agreement of path and heading, arrival, commands finish without alerts, an alert that comes up and stays stops the motors |
| `drive` | one cell, `MOVE` and `GO_FORWARD`, one byte on the wire, fair | a stop byte that has arrived has turned the motors off but for a late one, an alert that comes up and stays stops the motors of the motor board |
| `motor_board` | all bytes at any time, `FairSpec` | motors as commanded, off between moves, comes to rest |
| `camera` | 2 buffers of 5 bytes, pictures of 5, 6 and 7 bytes, clients that come and go, `FairSpec` | every file is one picture, in order; pictures keep arriving |
| `command_path` | 3 commands in frames of 5 bytes, `recv` of up to 12, FIFO of 1, breaks at any byte | order, no repetition, no loss, each as far as the stream allows |
| `telemetry` | 2x2 grid, 2 reports of the control thread, any number of the sensor thread, every queue of 1, breaks at any byte, `FairSpec` | the page shows the positions reported, in order (at a jump along both axes possibly x of it with y of the one before), and comes to show the last one |
| `ultrasonic` | 2 sensors, timeout 3, echoes none, short and longer than a round, LCD bytes at any time, `FairSpec` | when the alert is dropped, when it is raised, something that stays is alerted |

Why the bounds are enough. Three slots are the smallest ring in which full, empty and
neither-nor are three different situations with more than one cursor position, and with
two messages a swap, a loss or a duplicate is visible. Several stale tokens can pile up
under `SemMax` 2 or 3, and saturation is reached. Two buffers is the value of the
program (`NUM_CAM_BUFFERS`); two cells per buffer allow a partly filled buffer, a send
interrupted in the middle, and an overrun of the first buffer into one whose first cell has
been sent already or not. The 2x2 grid has every heading, every rotation, and paths that
need both axes; a FIFO of one slot makes every put block. The proofs remove the bounds for
the safety properties of these modules. `MotorBoard` has no parameter: its run is the whole
state space. In `Drive` the path does not matter to the motors: on one cell a `MOVE` drives
once, a direct command starts a move at any other time, and a byte that has to wait for the
one on the wire holds the thread.
In `Camera` the three lengths are a picture that ends with its buffer, one that is a byte too
long for it, and one that ends inside the second buffer, which then holds stale bytes; four
pictures in the history cover both buffers, the image in the making and the one being
captured. In `CommandPath` a `recv` can return a part of a frame, parts of two, and two with the
beginning of a third; with three commands an old one can be told from the last one.
In `Telemetry` each report differs from the one before along one axis or both, two fields of
different reports make a position nobody reported, and a queue of one blocks each of its writers. In `Ultrasonic` times and distances are about a third
of the code's, two of the three sensors let one hide the other, and the long echo outlasts the
next trigger of its sensor. In `MCPduFifoTx` and `MCPduFifoStranded` messages are a symmetry
set (safety only).

Runs that find a disagreement of the code with what it says of itself:

| run | what happens |
|---|---|
| `pdu_fifo_stranded` | Two writers sleep on the full tx FIFO; `pdu_fifo_get` posts `full` only on the transition to size-1, so the second writer stays asleep beside free slots ("blocks if full", `shared.c:119`). |
| `robot_position` | At the destination the round goes on: the robot drives one cell more than it counts. |

Disagreements met while modelling that have no run of their own:

- Control. STOP is not "heeded immediately" (`INV/shared.h:107`) but queued behind the
  current MOVE; RESET does not "reset orientation" (`INV/shared.h:108`); a turn from north to
  east is made to the left (`INV/controlHandler.c:436`, the comment of line 449 says right); an
  alert between lines 303 and 310 of `controlHandler.c` is followed by the forward byte, so the
  motors run during the alert until that drive ends (`AlertStops` says that they do stop);
  after a direct command (`controlHandler.c:217-237`) the next round of the loop stops the
  motors at once. A MOVE to the robot's own cell drives, and stores `next_x`, `next_y`, which
  nothing has assigned, as its position (line 315), so a report can jump along both axes. An
alert that is up already when `board.c:122-124` enables the interrupt of the pin's edges goes
unnoticed: nobody reads its level, and until the pin changes the robot drives as without it.
`pin` is therefore arbitrary in `Init`; `FlagFollowsPin`, `AlertStops` and `AlertStopsWheels`
begin with the first time the pin is low. After an alert `col_handler` "resumes"
  (line 394) a command that is finished or was never sent.
- Motor board. An 'S' between the comparison of `RXData` and `PWMMotor` finds motors that are
  still off; the move then starts them, sees the flag, returns without turning them off, and
  they run on until the next move or stop (`late`). `col_handler` sends the byte again in each
  round, so this lasts only where the thread waits for a command (`AlertStopsWheels`).
- Camera. A picture of k*`CAM_BUFFER_SIZE`+1 bytes stores its last byte behind the buffer
  (`camHandler.c:97`): the end marker is missing from the stream and the file that is saved
  contains this picture and the next (`Intact` excepts these). The byte lands in the first one
  of the next buffer, also while `camTCP` sends it: the buffers are no queue of unchanged
  contents, and `OnlyOverrun` shows that this byte is all that is ever wrong with them.
- Commands. When `recv` returns several frames at once only the first is carried out, and when
  it returns the rest of one, the last command is carried out again (`tcpHandler.c:235`).
- Telemetry. A report of the sensor thread may be older than what is queued before it
  (`sensorHandler.c:92-98`); together with the late feeder (`cmd_client.py:179`) the page may then
  show for a while a position the robot was never in, and so it may without a stale report where
  two successive ones differ along both axes (`Shows`). When the peer closes the connection
  `receive` never returns; after a reset before the first field the same PDU is put for ever
  (`wheelsonTCP.py:52-67`); a PDU with a missing coordinate ends the page's loop (`int(None)`).
- Ultrasonic. The rest of a far echo is measured as something near when its sensor is triggered
  again too early (`busy`); `too_close_cm = 30` is commented "10 cm" (`UB/main.c:76`) and
  `ULTRA_TIMEOUT 10` "x ms" (line 19), which makes one millisecond.

**Fairness.** The kernel schedules every ready thread, so steps inside an operation are
weakly fair. A thread that pends on a semaphore is queued and gets it when its turn comes,
although the semaphore is taken and released meanwhile: strong fairness of the lock steps,
and of the wake-up of a producer. Nothing makes a producer call `put` or a client send. In
`PingPong` the camera loop and, as long as a client is connected, the sending loop never
end; without a client the reader does not run and the camera waits, which is what the code
does. In `Control` the thread runs, interrupts are taken, and the client reads updates. The
motor board's main loop runs; bytes arrive as they like, and `SettlesDown` assumes that they
cease. `Drive` adds that the UART delivers and that the board runs; the interrupt is strongly
fair there, because the thread may fill the wire again each time it has room. In `Camera` the
camera thread, `accept` and the sending loop run; `PicturesArrive` assumes a connection that
holds. In `Telemetry` `updateTCP`, `update_process`, the feeder, the page and the sensor thread's
reading run; nothing says that a put of the sensor thread returns (it may be stranded), so
`CaughtUp` assumes that it does, and a connection and a page that last. In `Ultrasonic` only the
main loop is fair; `NearIsAlerted` assumes that the LCD is left alone from some time on.
`CommandPath` has safety properties only.

`Control` takes the FIFOs as bounded queues. For rx this is what `pdu_fifo_rx` and the
refinement theorem show. For tx the safety part is shown as well, but a writer may be
stranded (`pdu_fifo_stranded`): `ReturnsToWait` and `AlertStops` therefore hold of the robot
only while the sensor thread's messages do not strand the control thread.

## 4. Proofs

All theorems are checked by TLAPS without further axioms; the assumptions are the `ASSUME`s
of the modules on their constants (sizes at least one, the "nothing" value is not an item,
the grid within `uint8_t`, the consumer is no producer; those of the ultrasonic board are below).

- **`PduFifoProofs`**. `IInv` = types, mutual exclusion, `head = (tail + avail) % Size`, what
  a thread knows in the middle of an operation, and `ReaderWakes`. The strengthening is
  needed: `avail` stays in range only because a thread that has tested it holds the lock, and the
  token argument needs "a producer between copy and post sees its own item". Theorems, for
  every size, message set, number of producers and `SemMax`: `Invariance`, `TypeCorrect`,
  `MutualExclusion`, `ReaderNotLost`, `Refinement` (every step is a step of the bounded
  queue or a stutter); `WriterNotLost` for one producer, with two it is false.
- **`PingPongProofs`**. `IInv` = types, lock, `OwnershipOK` (whoever works on a buffer works on
  the one at its cursor, and `avail` leaves him one), `NotTorn`, both wake-up invariants.
  `OwnershipOK` is what turns the counter into exclusive access without a lock. Exclusive is the
  cursor, not the memory: the last byte of a picture is stored without a test (`WEnd`), so
  `NotTorn` excepts the first cell of a buffer that is not the first of the array, and
  `BufferQueue` has the step `Overrun`, which changes the first cell of the oldest buffer when
  all buffers but the writer's are full; that it is this cell, this buffer and this moment
  follows from `OwnershipOK` (lemma `NextIsOldest`). Theorems for any number and length of
  buffers: `Invariance`, `TypeCorrect`, `NoSharing`, `NoTearing`, `OverrunOnly`,
  `NoLostWakeup`, `Refinement`.
- **`ControlProofs`**. `IInv` = types, `FlagSound`, `SpeakerOnlyForAlert`, `PlanOK` (what
  the locals of `exe_handler` mean in each place), `StoppedOnMove`, `RestsStopped`. The path
  lemmas say that `calc_next_coord` stays on the grid, comes closer by one, and that
  `calc_heading` faces its result. `FlagFollowsPin` is false of a robot switched on during an alert; what holds
  from the start is `FlagSound` (with no edge outstanding the flag is set only if the pin is
  high), which makes flag and pin agree at the first low pin, and from then on each step keeps
  them so (`FlagNotStale`). Theorems for every grid up to 256x256, every command set
  and FIFO size: `Invariance`, `TypeCorrect`, `FlagNotStale`, `SpeakerSafe`, `MotorsRest`,
  `Facing`, `Finished`, `Approaching`. Then `Drive`: `DriveIInv` joins `IInv`, the invariant of
  the board and `Link` (the byte the thread believes commanded is the last one on the wire, and
  when the wire is empty it is in `RXData` or the main loop has discarded it). Neither side
  knows the other's state, so `Link` is what makes `StopsReachWheels` of both. Theorems for
  every grid, FIFO and length of the wire: `DriveInvariance`; `DriveIsControl` and
  `DriveIsBoard` (the composition implements each of its parts, so each theorem about a
  part holds of the robot that has both); `StopsArrive`.
- **`MotorBoardProofs`**. `IInv` = types, `FlagMeansLate` (the flag is set before both
  motors run only if a stop came late), `OffOutsideMoves`, `MoveOK` (which motors run in
  which place of a move), `AsCommanded`, and
  `StopHeard` (an 'S' in `RXData` is late, or stops the move, or came when none was under way). The strengthening says for each place of the main
  loop what a byte that comes there can still change; that is why `OffBetweenMoves` alone is
  not inductive. Theorems: `Invariance`, `TypeCorrect`, `AsCommandedAlways`, `OffAlways`.
- **`UltrasonicProofs`**. `TypeOK` is inductive; that the loop gives up after the timeout
  (34 * 37 / 10 < 128) is what keeps a distance positive. `RoundInv` adds what holds in the
  middle of a round that neither an earlier echo nor the LCD has disturbed: a sensor already
  measured that had something near all the time has a distance that is too close (`DistOK`),
  and one with such a distance met something near; in the waiting loops the count and the rest
  of the delay add up to the latency, and the pulse is near only if something was near, and always
  if it was all the time (`EchoOK`); what is near all the round is near now, what is near now was
  near sometime (`NearOK`). Theorems for any number of sensors and
  any echoes: `TypeCorrect`, `RoundInvariance`, `AlertHeld`, `AlarmTrue`. Assumed
  (`UltraAssumption`, `TimingAssumption`): the timeout is at most 35, a sensor answers before
  the first loop gives up, what outlasts the second loop is not near, and no echo is not too
  close. With the values of `UB/main.c` (timeout 10, too close 30, far 100) the last two hold
  with room to spare (a count of 12 is 40 cm), and the first is met by an answer within 3 ms.
- **`CommandPathProofs`**. `IInv` = types, `StreamOK` (two bytes of the stream that are d
  places apart belong to one frame or are separated by at least the rest of the one and the
  beginning of the other), `EndOK` (while the connection holds the stream ends with the last
  frame), `ReadOK`, `QueuedOK`, `WholeOK` and `CountOK` (what is in `in_pdu` and in the FIFO's
  history is no newer than what is under way; each part as far as `short`, `cut`, `merged` and
  `dropped` allow). `StreamOK` is needed because `recv` may cut anywhere: that the two bytes at
  the head of `in_buff` are of one frame depends on distances in the stream. Theorems for every
  number of commands, length of a frame, size of `recv`, connection and FIFO: `Invariance`,
  `TypeCorrect`, `NothingOlder`, `NothingTwice`, `NothingLost`.
- **`TelemetryProofs`**. All reports between the page and the control thread are one `Line`:
  the report in the PDU object or the bytes of its successor, the connection, the part of a
  frame at its broken end, `updateTCP`'s local, the FIFO. `OrderOK` says that, as long as the
  sensor thread put nothing stale, the reports in the line have numbers (places in `path`) that
  ascend, and by at most one but at a broken connection; hence x of a report and y of the one
  before it are those of one of the two, as long as both are planned cells, which differ along one
  axis; where a report jumps along both (`Jump`: a MOVE to the robot's own cell stores what
  nothing has assigned) they may be a position never reported, and `Shows` counts it to the
  later one. `PageOK` numbers the PDUs in the pipe in the same way, from what the page shows
  to the PDU object. `LinkOK` and `SessionOK` say where the programs can be and that only whole
  reports, or PDUs without `cmd`, reach the page. Theorems for every grid, number of reports and
  size of FIFO, connection and queues: `Invariance`, `TypeCorrect`, `PageIsReal`. The proof
  found a mistake of the history variable `seen` in `Restart`: an application started again
  may still be sent reports older than those its predecessor showed after a resumed connection;
  it takes five reports to see it.

- **`CameraProofs`**. `Types` holds always, overruns included. As long as no picture overruns
  its buffer (`NoOverrun`), `IInv` says in addition: the buffers handed over hold the pictures of
  the history one after the other, number j picture `N[j]` from byte `O[j]` on (`Chain`); the
  buffer in work continues them up to the byte read last (`CaptureOK`); the client is in no picture or
  has all bytes of the oldest one under way that precede the oldest buffer (`Synced`); FF D8 is
  nowhere but at the beginning of a buffer (`NoStaleHeader`), so that what is left of older
  pictures behind an end never looks like a new one. `Intact` alone is not inductive: that a
  file is whole depends on bytes stored many steps earlier in several buffers. What a client makes
  of a buffer is shown byte by byte, by the least number of bytes that fails. Theorems for every
  number and length of buffers and any lengths of pictures: `TypeCorrect`, `StreamInvariance`,
  `WholePictures`, and `LengthsThatFit`: with lengths that never are k*`Size`+1 the condition
  holds. Assumed of the history (`HistoryAssumption`): it is longer than the ring, so a picture it
  gives up is no longer under way, and its numbers are no markers. That files
  are whole again once a picture that overran is gone from the history is model-checked only.

The arithmetic of a ring (successors modulo n, the window of the full slots when it is appended
to or loses its first slot) is at the beginning of `PduFifoProofs`, `PingPongProofs` and
`CameraProofs`.

**Only model-checked**: every liveness property and the fair refinements (out of the
prover's reach, like ENABLED), among them `AlertStopsWheels` and `NearIsAlerted`; and what
`Intact` of `Camera` says once a picture has overrun its buffer. `WriterWakes` of a
single producer is proved, `BlockedOnlyIfFull` with several is refuted. Every other safety property and action property
of the runs is a theorem.

**Limits of particular properties.** `FacesNextCell`, `EachMoveApproaches` and
`FinishedThere` speak of drives towards a planned cell: the last drive at the destination has
none (`robot_position`). `RestsStopped` leaves out the put between a turn byte and its sleep and
the report after a direct command: there the motors run while the thread may wait for the
client.
`OffBetweenMoves` and `StopsReachWheels` leave out the late stop, `Intact` the pictures near one
that overran its buffer, `NotTorn` and the queue of buffers the one byte of such an overrun,
`FlagFollowsPin`, `AlertStops` and `AlertStopsWheels` an alert already up at boot, `ShownIsReal`
the mixture of two reports that differ along both axes, and the time after a report of the
sensor thread that was put late and after a connection that the PDU object has outlived,
`HoldsAlert` and `TrueAlarm` the rounds with an ignored trigger or an LCD byte; each of these is
a weakness of the code listed under the disagreements above, and the run's property shows that
there is no other.

## 5. Not modelled, and why

- Start-up (`INV/main_tirtos.c`, `INV/platform.c`): `main` gives the initial values that are
  the `Init` of the modules and starts threads. A second IP event (`platform.c:135`) creates the
  TCP threads again; their `bind` fails and they end (`tcpHandler.c:60-64`).
- LCD protocol, start-up sounds, clocks and registers: layout and timing.
- Compass arithmetic: floating point; its result is sent as text and not used for driving.
- The map of the web page (icons of the path), the video page, several sessions that share one
  update queue: the code promises nothing to a second session.
- `src/Libs`, `src/hardware`, `src/LT_SPICE`, `src/Docs` and the other directories of
  `src/ccs_workspace`: vendor drivers, SDK examples, earlier prototypes, circuits. They are by
  far the most of the repository's lines, and none of them runs on the robot; that is why the
  models cover a small share of all lines although they cover the robot's own program.

## 6. Plan

Done: everything above. Left, in this order:

1. `Intact` of `Camera` after an overrun: when the stream is in step again.
2. Abstract navigator that `Control` implements (position changes by planned cells, reports),
   with the refinement proved.
3. The tx FIFO's partial guarantee for several producers: some writer is always woken.
4. The map of the page and several sessions, as far as the page's own state (`cmd_map`) goes.

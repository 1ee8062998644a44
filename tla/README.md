# Formal model of meta-access-control

TLA+ specifications of the program logic in this Yocto layer (Verdin iMX8M Plus
with a VL53L5CX time-of-flight sensor, a WS2812 LED strip, an SR602 motion
sensor, an RCWL-1670 ultrasonic sensor, an ATECC608 and USB-C), the TLC runs
that check them on small instances, and the theorems that TLAPS proves for
every instance. `PROJECT.json` lists components, runs, mutants, the map from
definitions to source lines, findings, hazards and theorems.

`K` below is `recipes-kernel/stmvl53l5cx/files/kernel`, `U` is
`recipes-apps/stmvl53l5cx-user/files/user`.

## 1. The system

| Component | Source | State | Operations |
|---|---|---|---|
| Kernel ToF driver, transfers | `K/stmvl53l5cx_module.c` | `raw_data_buffer`, the sensor's registers and address pointer | ioctl TRANSFER |
| Kernel ToF driver, waiting | same | `intr_ready_flag`, `force_wakeup`, `wq` | ioctl WAIT, the interrupt thread |
| Kernel ToF driver, life cycle | same | `misc_registered`, `irq_handler_registered`, gpio ownership, the buffer | init, probe, remove, exit |
| Kernel I2C helpers | `K/stmvl53l5cx_i2c.c` | none of its own | read/write multi and byte |
| LED strip driver | `recipes-kernel/ws2812-mod` | `colors[]`, the strip | store, probe, remove |
| LED program | `recipes-apps/ws2812-user` | its arguments, the text not yet written | clamp, print, close |
| Motion driver | `recipes-kernel/sr602-mod` | the line level | interrupt handler, probe, remove |
| Water level monitor | `recipes-apps/rcwl1670-user` | gpio objects, trigger and echo lines, the samples | request lines, measure loop |
| Crypto test | `recipes-apps/atecc-test` | the library's handle, `is_locked` | one pass of library calls |
| USB-C test | `recipes-apps/usb-c-test` | `regs[]`, the screen | read and show, for ever |
| Platform layer of the ULD | `U/platform/platform.cpp` | the file descriptor | RdByte, WrByte, RdMulti, WrMulti |
| Ultra-lite driver (ULD) | `U/uld-driver/src/vl53l5cx_api.cpp` | `VL53L5CX_Configuration`, the sensor's page, DCI memory and firmware | init, address, power mode, ranging, settings |
| Xtalk plugin | `U/uld-driver/src/vl53l5cx_plugin_xtalk.cpp` | xtalk data, DCI settings | calibrate, save and load, margin |
| Motion indicator plugin | `U/uld-driver/src/vl53l5cx_plugin_motion_indicator.cpp` | the motion configuration | init, distance, resolution |
| Detection thresholds plugin | `U/uld-driver/src/vl53l5cx_plugin_detection_thresholds.cpp` | the threshold table | enable, get, set |
| Examples and menu | `U/examples`, `U/test` | a `VL53L5CX_Configuration` | sequences of ULD calls |
| Firmware tables | `U/uld-driver/inc/vl53l5cx_buffers.h` | none | none |
| Recipes, overlays, images | the rest | none | none |

The examples call the ULD; the ULD calls the platform layer; the platform layer
issues one ioctl per register block to the kernel driver, which cuts it into
I2C messages. Built another way it cuts the block itself, for an i2c-dev bus.
The sensor's interrupt line runs the other way: handler, flag, wait queue,
ioctl, example. The other programs talk to their own driver or bus.

Hard behaviour, and what makes each part correct:

- *Transfers*: all open files share one bounce buffer and the sensor's address
  pointer, no lock is taken, messages and user copies fail part way. Correct
  when a transfer moves its bytes in order, exactly once, and touches nothing
  else.
- *Waiting*: the handler races with the test of the flag, with its clearing and
  with signals. Correct when nobody sleeps through an interrupt and no frame
  is missed or counted twice.
- *Init and restart*: the download is two dozen writes and polls on four pages,
  and a program may end in the middle of any function, with the sensor ranging,
  halted or asleep. Correct when an init that returns 0 leaves the firmware
  complete, booted and idle, whatever it found.
- *ULD*: every call is a sequence of register accesses any of which may fail;
  the calls rely on a page register that they must put back, on a stream
  counter that tells frames apart, and on polling loops that must end.
- *Settings*: values pass through scalings and may be read back and written
  again; correct when what is read is what was set and the rest is kept.
- *Frame layout*: `start_ranging` computes sizes that `get_ranging_data` later
  relies on without checking; correct when the walk through a frame finds every
  block and every target the build asked for, and each value is scaled once.
- *LED strip*: writers share the colour array and the data line, and the program
  writes through a buffer that is emptied in `fclose`. Correct when the strip
  shows what the last writer asked for.
- *Water level*: the echo line is polled, may be late, stuck, or still high
  from the measurement before, and a poll may fail. Correct when the monitor goes on
  and times the echo of its own trigger.
- *USB-C*: the display is made of registers read in different rounds, some
  never. Correct when it becomes right as soon as the bus works.
- *Life cycles*: probes and programs that fail half way. Correct when what was
  taken is given back, once, and nobody uses what is not there.

## 2. Modules

Arrows point from a module to the module it uses.

```
MCTofTransfer -> TofTransfer -> TofMemory          TofTransferProofs -> TofTransfer, I2cTransfer
                 TofTransfer -> RegisterTransfer (INSTANCE, the abstract specification)
                 I2cTransfer -> TofMemory
TofWait                                            TofWaitProofs -> TofWait
MCUldRanging  -> UldRanging                        UldRangingProofs -> UldRanging
UldSession                                         UldSessionDone -> UldSessionProofs -> UldSession
MCUldSettings -> UldSettings                       UldSettingsProofs -> UldSettings
MCUldPlugins  -> RangingFrame, DetectionThresholds, MotionIndicator
                                                   UldPluginsProofs -> MCUldPlugins
MCDetectionThresholds -> DetectionThresholds       MCMotionIndicator -> MotionIndicator
MCPeripherals -> Ws2812User -> Ws2812              PeripheralsProofs -> MCPeripherals
              -> TofLifecycle, Sr602, Rcwl1670, UldExamples, AteccTest, UsbCTest
```

Every module has one action per handler, or per step between two points where
another actor may come in; `PROJECT.json` names the lines of each definition.
Definitions marked *Mutant* are plausible bugs; nothing in a specification uses
them, and each shows that some property notices that bug.

### TofMemory, RegisterTransfer, TofTransfer, I2cTransfer

`RegisterTransfer` is what the header promises of `ST_TOF_IOCTL_TRANSFER`: a
call moves its bytes between the caller and consecutive registers in order, may
be given up after any prefix, and tells the caller. `TofTransfer` is the ioctl:
the loop over chunks, the two address bytes in front of a chunk that is written,
the shared `raw_data_buffer`, the sensor's own register pointer, and a failure of
every `copy_from_user`, `copy_to_user` and `i2c_transfer`.
`Promise` in `TofTransfer` is the INSTANCE by which it implements
`RegisterTransfer`; there an atomic step of the promise is the step that moves a
chunk. `TofMemory` holds registers, bytes and their arithmetic. A byte has
`ByteBase` values and a register address two bytes, so that 16-bit wrap-around
happens with 16 registers in the runs and with 65536 in the code.

| State | Code |
|---|---|
| `pc`, `index`, `req` | the thread in the ioctl, `index`, `comms_struct` (226-305) |
| `raw_data_buffer` | of the same name (83), shared by all open files |
| `registers`, `pointer` | the sensor; external |

`I2cTransfer` is the two other ways to the same registers: the helpers of
`stmvl53l5cx_i2c.c` that the probe uses, and `write_read_multi` of `platform.cpp`
on an i2c-dev bus. Both build their messages in a buffer of their own; the
constant `Combined` says whether address and data of a chunk that is read go in
one bus transfer (i2c-dev) or in two (probe). `MCTofTransfer` chooses one of the three in
the initial state (`path`) and checks all for the same properties.

### TofWait

`wait_event_interruptible` is taken apart into test, enqueue, second test,
sleep, because the handler and signals come in between. `WakeUp` empties the
queue, as `wake_up` does with the threads on it. The user program that reads the
newest frame after each wait is external. The variable `cut` remembers that a
wait ended by a signal: such a wait clears the flag too (206-214), so no frame
up to that moment is promised to anybody.

### UldRanging

`check_data_ready` and `get_ranging_data` with the four bytes of `temp_buffer` that
both read into. A failed read leaves in it what an earlier call left, swapped or
not. The sensor (`NewFrame`) ranges at its own pace. `First` is the count of a
session's first frame, `Wrap` the period of the count.

### UldSession

`is_alive`, `init`, `set_i2c_address`, `get_power_mode`, `set_power_mode`,
`start_ranging` and `stop_ranging` are programs, sequences of bus accesses; `Access`
executes the next one, which may fail, and the sensor moves in between. Polling
loops stay in place until the sensor answers. Runs of writes that no property
tells apart are one access: the reboot, the opening of the RAM, each of the three
pages of the firmware, the start of the MCU, each block of settings.

| State | Code |
|---|---|
| `page`, `regs` | registers 0x7fff, and 0x09, 0x14, 0x15 of page 0 |
| `mcu`, `image`, `open`, `accepted` | the sensor from power-on to a running firmware (270-399); external |
| `prog`, `status`, `tmp` | what is left of the function, its `status` and `tmp` |
| `entry` | the function found page 2 and no command under way |
| `known` | what the program may rely on, from what was returned to it |

`Restart` ends the program at any access and starts another one, which must begin
with `init`. `Deaf` is an access to a sensor that answers at another address:
`unknown_mode` is `set_power_mode` with a value it does not know.
`set_i2c_address` moves the sensor while the kernel driver keeps the address it
was built with (`K/stmvl53l5cx_module.c` 66) and the platform layer passes none on.
`foreign` is the value of a bit read on the wrong page.

### UldSettings

The getters and setters over `dci_read_data`, `dci_write_data` and
`dci_replace_data`, with the conversions they make, the grids of offset and
crosstalk that follow the resolution, `get_caldata_xtalk` and
`set_caldata_xtalk`, and the calibration that replaces the configuration, sets
its target, measures and puts the configuration back; any exchange may fail. A
function is again the sequence of its exchanges (`prog`). The initial blocks
`DefaultDev`, and `CalibrationDev` that a calibration sends, are decoded from the
tables of `vl53l5cx_buffers.h` and `vl53l5cx_plugin_xtalk.h`. `Junk` is a byte that
nobody set, left in `temp_buffer` by something else. Values that a setter refuses are
inputs like others: the resolution and the mode are then written all the same.

### RangingFrame

`SizeOf` and `Length` are the two computations of a block's size; `AddBlock` is one
iteration of the loop of `start_ranging` (547-578), `ParseBlock` one of
`get_ranging_data` (690-764), over the layout the firmware produces from the
list it was sent. `Convert` scales the values in place (766-818), frame after
frame. The values are followed for one target in a zone in use. With 16 zones the
loops run over all 64, and with 4 targets and 64 zones no value is copied at all
(below): what no frame overwrites is divided again with every frame.

### DetectionThresholds, MotionIndicator

The functions of the two plugins, with the array of the program converted in
place, and with every `dci` exchange they make an action that may fail.

### Ws2812, Ws2812User

`Ws2812` is `colors_store` and `ws2812_update` byte by byte, with the shared
colour array, any number of writers and LEDs, and a chain of LEDs that latches
after a pause. `Ws2812User` is the program: three arguments or none, cut to the
range of a byte, printed into a buffer that reaches the driver in `fclose`, with
each failure; between its runs others write the same file.

### TofLifecycle, Sr602, Rcwl1670, AteccTest, UsbCTest

`TofLifecycle` is loading, every step of the probe with its failure, opening,
unbinding, and every step of unloading. `held` is what there is, `owned` what the
static flags say of it; two history variables, `failed` and `unbound`, remember how the
load has gone, so that the properties can say exactly when something is lost or missing. `Sr602` is the handler that samples the line
some time after the edge. `Rcwl1670` is the request of the lines, with what is
released when one is refused, the pair of polling loops with their timeouts and the
sampling loop around them; the sensor answers a trigger after any time with a pulse of
any length or never, and `own` says whether a pulse answers the measurement under way.
A poll may fail: `gpiod_line_request_get_value` then returns -1, which is neither level, so
that either loop ends; `misread` remembers it for two measurements. `AteccTest` is
the calls into CryptoAuthLib, each of which may fail. `UsbCTest` is the loop
over the registers: on an error the round breaks off and the array is shown as it
is, initially uninitialised.

### UldExamples

`menu.c` and the eleven examples, as sequences of library calls. A call is one step,
which may fail with its effect or without; each step says whether the example
ends on an error (`Must`), overwrites the status with that of a later call
(`Notes`) or never looks at it (`Drops`). A call that succeeds leaves the sensor as
`OkMeansDone` of UldSession and `CalibrationRestores` of UldSettings say. `Leave` is
the exit from the menu.

## 3. Runs

Twelve runs. The parts of `uld_plugins` and of `peripherals` share no state, so one
run checks them side by side: `part`, chosen in the initial state, says which
one moves; the number of states is the sum of theirs. So it is with the `path` of
`tof_transfer_one`.

| Run | Question | Bounds | Distinct states |
|---|---|---|---|
| `tof_transfer_one` | on each of the three ways to the registers, does a call get and put the right bytes, whatever fails, and does it return | bytes of 4 values, 16 registers, chunks of 4, lengths 0 to 5; one process in ioctl and probe, two on i2c-dev | 135,532 |
| `tof_wait` | is an interrupt ever slept through, lost or counted twice | 2 threads, 3 frames, signals at any moment | 227,005 |
| `uld_ranging` | are frames told apart | 6 frames, at most 3 of them unseen, 2 sessions, counts from 253, period 255 | 8,786 |
| `uld_session` | from power-on and after restarts: are firmware, page, power and stop registers right after a call that returned 0 | 2 failing accesses, any sequence of calls, a restart at any access | 209,411 |
| `uld_settings` | do settings survive setters, failures and calibrations | 3 calls, 1 failing exchange, values at and beyond every limit | 1,105,005 |
| `uld_plugins` | sizes, walk and values of a frame; thresholds; motion windows | all sets of disabled outputs, 1 to 4 targets, 2 frames; 2 checkers; resolutions 16, 64 and 5; 2 faults | 566,915 |
| `peripherals` | strip and its program, life cycle, motion, water level, examples, crypto and USB-C tests | 7 LEDs; 2 files; timeout of 3 ticks, 3 samples; 10 frames, 3 failing calls; 3 values of a register | 77,766 |
| `tof_transfer_two` | two processes in the ioctl: violated | as `tof_transfer_one` | |
| `uld_ranging_check` | a check after a failed check: violated | 3 frames | |
| `uld_session_timeout` | do polling loops end when their time is over: violated | 1 failing access | |
| `thresholds_mixed` | checkers of several measurements: violated | the checkers of Example 9 | |
| `motion_map` | is the map sent: violated | known resolutions | |

Why the bounds are enough:

- *Transfers*. Chunks of 4 leave 2 bytes of data per written chunk and 4 per read
  one, so lengths 0, 1, 2, 3, 4 and 5 are: no chunk, a part of one, exactly one,
  several with a short last one. Registers 13 and 14 with lengths 5 and 3 cross the end of
  the address space in the middle of a chunk. The theorems cover all sizes.
- *Waiting*. Two threads are enough for one to take the flag of the other; three
  frames for one that is being handled, one latched in the interrupt controller
  and one that is merged with it. The safety properties are proved for all.
- *Frames*. Counts 253, 254, 0, 1, 2, 3 contain the wrap; `MaxLag` keeps the sensor
  less than one round of the count ahead of the program, as the count demands; a second
  session begins at the count of the first, which an earlier one may have ended at; two
  sessions are needed for the reset, three add nothing.
- *Session*. One failing access breaks a call, two break the call that would
  have repaired it. Calls and restarts are not bounded. The safety properties are
  proved for any number of faults.
- *Settings*. Three calls are set, calibrate (or change the resolution), get; the
  values are those at each limit and one beyond it, a resolution and a mode that do
  not exist, targets whose distance, reflectance or samples are refused.
- *Plugins*. The choices of outputs are all there are; windows and thresholds are
  at each side of each limit; one or two sets of the same array, one read. A second frame
  shows what the first conversion leaves.
- *Peripherals*. Seven is the strip's length (`num_leds`, tdx_ws2812.c 122); commands
  and arguments lie below, inside and above the range of a byte. The life cycle is not
  bounded but for two open files. Three samples are one that is spoiled by the one before
  and one that is not, and the polls may fail in any of them; ten frames are what the examples ask for (`Frames`). The
  register values of the USB-C test are told apart by every field of the display.

### Fairness

- `tof_transfer_one`: weak fairness of each caller's next step. A process in the ioctl
  holds no lock and waits for nobody but the I2C controller, which times out;
  this is the kernel scheduling a runnable thread.
- `TofWait`: weak fairness of the handler thread and of each waiting thread's next
  step, for the same reason. The sensor and the signals are not fair.
- `UldSession`: weak fairness of the next access and of the sensor's answers: a
  sensor that was told to sleep, wake, stop, boot or execute does so. Accesses may
  still fail, a bounded number of times, and restarts are not fair.
- `UldRanging`: weak fairness of `Check` and `Get`, the loop of the examples
  (`Example_1_ranging_basic.c`), which polls for ever. The sensor is not fair.
- `UldExamples` (in `peripherals`): weak fairness of the program's next step and of the
  sensor's next frame while it ranges. Nobody need choose another example.
- `Rcwl1670` and `UsbCTest` (in `peripherals`): weak fairness of the program's next
  step, both being loops that only sleep and poll. The echo line is not fair, it may be
  stuck either way or fail to be read; nor are the cable and the bus of the USB-C test.

Deadlock is checked except where the system may stop: the sensor that measures
no more (`tof_wait`, `uld_ranging`), a bounded number of calls (`uld_settings`,
`uld_plugins`), programs that end (in `peripherals`), and the runs with a violation
that comes first.

### Where code and words disagree

Each of these is a run that TLC refutes, and an entry under "findings".

1. Two processes in the TRANSFER ioctl can be given each other's bytes with
   return value 0 (`tof_transfer_two`).
2. `check_data_ready` after a failed read can report a frame twice
   (`uld_ranging_check`).
3. The two polling loops with timeouts note the timeout and poll on
   (`uld_session_timeout`).
4. `set_detection_thresholds` scales every checker by the measurement of the first
   one, so Example 9's distances are wrong (`thresholds_mixed`).
5. `motion_indicator_set_resolution` sends its map only if the status is an error,
   so never for a resolution it knows (`motion_map`).

Other things the models show that no document contradicts:

- A wait that ends by a signal takes the interrupt with it.
- The probe loses its buffer where it returns an error at the identities (339), at
  `misc_register` (351) or after a failed `get_gpio` (359-361, 395); `ReleasedAtExit` says
  it is lost exactly there. `i2c_del_driver` is called for a driver that could not be
  added (`LoadFails`).
- An open file of the ToF device may use what is not there; `FoundByUsers` lists the cases
  and says there is no other. *The buffer*: `remove` frees it when the device is unbound
  (398-403), with the misc device still registered, so that open files, and files opened
  later, transfer through freed memory; a failed `request_threaded_irq` frees it (380)
  before the misc device is taken back (381), and files that are open then stay open. *The
  wait queue*: the device can be opened from line 348 on and the queue is initialised in 367;
  after a failed `get_gpio` the device stays and the queue never is; nor is it when no
  interrupt is wanted (`intr_gpio_nb` is -1).
- A poll of the echo line that fails ends either loop of `measure_once` (36, 43), which then
  returns a short duration as if it were valid, and may leave the sensor busy: the
  measurement after it can time an echo that is not its own (`OwnEcho` excludes just that).
- After a new address is set, every access fails, the rest of that call included, as
  the kernel driver goes on with its own address.
- A wakeup whose poll failed, repeated, returns 0 on what register 0x09 says before
  the sensor is awake; `OkMeansDone` asks for the register only.
- The command of a failed start may be carried out after the stop that followed;
  `entry` leaves calls that begin with a command under way out of `OkMeansDone`.
- A poll that takes too long notes a byte of `temp_buffer` that its one-byte read does
  not fill. It may be 0, and the note is lost (`Late`; the poll goes on in any case).
- `set_ranging_mode` with an unknown mode forgets that its read failed and writes the
  block all the same, and the single-shot flag with it; `set_resolution` with an unknown
  resolution sends the grids; a calibration whose target is refused still fetches the
  crosstalk of the firmware.
- The default sharpener of 14 % (38 of 255) is read as 14 and written back as 35, which
  reads 13: a calibration lowers some values by one.
- 64 zones with 4 targets deliver no target data at all, the size byte being 0.

## 4. Proofs

TLAPS checks the theorems below for every value of the constants that the named
assumptions allow. Each rests on an inductive invariant, proved step by step,
one action at a time; TLC had found each property to hold before. The theorems
of PeripheralsProofs and UldPluginsProofs are about each part under its own specification
(`S!Spec`, `D!Spec`, ...), which the composed run carries out when `part` chooses it;
`PartsRelease` is about the composition itself.

| Theorem | What it says | Assumptions |
|---|---|---|
| `TofTransferProofs!TypeCorrect`, `BufferSafety` | bytes, registers and offsets keep their ranges; no chunk runs past the end of `raw_data_buffer`, for any number of processes | `ByteBase`, `MaxLen`, `PowerOn`, `CallsOf`, and a `ChunkSize` above 2 |
| `OneClientTransfers`, `OneClientReads` | with one process, the `index` bytes counted so far are where the call asked for them, and a read that returned 0 has delivered its registers | the same, `OneClient` |
| `OneClientImplementsPromise` | with one process the ioctl implements `RegisterTransfer` | the same |
| `DirectImplementsPromise` | I2cTransfer implements `RegisterTransfer`: the helpers of the probe with one caller, an i2c-dev bus with any number | the same, `Undisturbed`: one client, or `Combined` |
| `PromiseDelivers` | what `RegisterTransfer` is worth: `Transferred` and `ReadDelivered` for any number of processes | the same, `Apart`: no process writes to registers another one uses |
| `DirectDelivers` | the same bytes for the helpers and the i2c-dev bus | `Undisturbed`, `Apart` |
| `TofWaitProofs!TypeCorrect`, `NobodySleepsThrough` | nobody sleeps with the flag up and the handler done, for any number of threads, frames and signals | `Threads`, `Frames`, `Signals` |
| `NoInterruptCountedTwice` | no thread has more successful waits than the handler has run | the same |
| `NoFrameMissed` | a frame nobody has read is latched, flagged or claimed, unless a signal cut a wait short after it | the same |
| `UldRangingProofs!TypeCorrect`, `FramesFresh` | the count of one byte tells frames apart across its wrap: a frame is reported once | `MaxLag < Wrap <= 255`, `First < Wrap` |
| `NoFramePassedOver` | "not ready" is never said of a frame the driver has not seen | the same, `FlagsComplete`: every frame's flags pass the test of `check_data_ready` |
| `UldSessionProofs!TypeCorrect`, `PageIsRestored` | a function that returns 0 leaves page 2 selected, for any number of failed accesses and restarts | `MaxFaults` |
| `NoStopIsLeft` | no stop request is left where the program is told that the session is over | the same |
| `UldSessionDone!OkIsDone` | a function that returns 0 has done what it is for; after `init` the complete firmware runs with every setting accepted | the same |
| `UldSettingsProofs!TypeCorrect` | blocks, saved values and arguments keep their ranges; every block that is written back is the one that was read | `Junk`, `Inputs`, `Targets` |
| `SetIsRead` | what a setter that returned 0 was given is what the getter reads | the same |
| `OthersAreKept` | a setter keeps the bytes that are not of its own setting | the same |
| `CorruptionIsReported` | bytes that nobody set get into the firmware only where a call has failed or refused | the same |
| `CalibrationPutsBack` | a calibration that returned 0 has put every setting back, if no call before it returned an error | the same |
| `GridsAgree` | zones, offset, crosstalk and what driver and program keep of it are of one resolution as long as no call returned an error | the same |
| `UldPluginsProofs!EnableStaysConsistent` | the two blocks of the enable flag agree whenever a call returned 0 | none |
| `ConversionReadsBack` | a good read gives back the thresholds that were sent | `CheckersGiven` |
| `DistanceSends` | after `set_distance_motion` the firmware has window and map of the structure | `WindowsGiven` |
| `FrameFitsBuffer` | what is read of a frame fits `temp_buffer` | `LayoutAssumption`: one to four targets, 16 or 64 zones; `DisabledAssumption`: the outputs that may be left out |
| `TargetsDelivered` | the walk finds every enabled output; with up to three targets the program is given the values of this frame, converted once | the same |
| `PeripheralsProofs!TypeCorrect` | the array, the loop counters and the wire keep their ranges, for any number of writers and LEDs | `Writers`, `Leds`, `Commands` |
| `OneWriterShown`, `RequestsAreShown` | with one open file, a write that has returned is what every LED shows, and a run of the program the nearest colour to its arguments | the same, `OneWriter` |
| `LogStaysCurrent` | the log ends with the level of the line | `BothEdges` |
| `EchoIsOwn`, `MonitorReleases` | what is timed is a pulse and answers its own trigger, unless a timeout came before or a poll failed in this measurement or the one before; the monitor ends with nothing in its hands | none |
| `CryptoReleases` | the crypto test releases the library, and says of a zone what is so of that zone | none |
| `IdleWhenTold` | the examples change settings, and return with 0, with the sensor idle | none |
| `ExitReleases` | wherever the probe failed, unloading releases what is registered or requested, once, and loses the buffer exactly if the probe returned an error at 339, 351 or 395 | none |
| `UsersFindTheirs` | the handler finds queue and gpio; an open file finds no buffer exactly after an unbinding or a failed `request_threaded_irq`, and no queue exactly without an interrupt, before 367 or after a failed `get_gpio` | none |
| `PartsRelease` | the same of the exit of the ToF driver, and the monitor and the crypto test release all they hold, under the specification of the run | none |

The arguments:

- *TofTransfer*. `TypeInv` adds to the types `PathOK`, which ties `pc` to the arguments of
  the call: bytes remain to be moved while the loop runs. `TransferSizeBounds` gives the
  chunk sizes, from which `BufferSafety` follows. For one process `IInv` adds `PrefixMoved`
  (the first `index` bytes are in place, the rest untouched) and `Staged`: what
  `raw_data_buffer` and the sensor's pointer hold at each label. `Staged` is what a second
  process breaks, see `tof_transfer_two`. `DistanceWrap` and `DistanceShift` are the
  arithmetic of a run of registers that crosses the end of the address space. The
  refinement maps the step that moves a chunk to the promise's `Move`, every other
  one to its beginning, its end or a stutter.
- *I2cTransfer*. `DirectInv` says that between the address and the data of a chunk the
  sensor's pointer is where the chunk begins; another caller would break this, unless the
  two go in one bus transfer. What a chunk stores or loads is then a `Shift` of the
  promise (`DirectStores`, `DirectLoads`).
- *RegisterTransfer*. `KeptInv`: the counted bytes of every process are in place, and are all
  there are where 0 was returned. `ShiftKeeps` says that bytes moved later leave them alone,
  those of other processes by `Apart`. Every implementation inherits this.
- *TofWait*. `WInv` is `NoLostWakeup` and the types: a thread in the queue while the flag is
  up has the handler's wake-up still to come. `Credit` counts what a thread may still
  claim: its successful waits, and one more while the flag is up or it is about to clear
  it, are at most the runs of the handler; so no interrupt is counted twice. `NoMissedFrame` is inductive
  with the types.
- *UldRanging*. `CountTells`: two frames less than `Wrap` apart with equal counts are one
  frame. `IInv` says that the driver's `streamcount` is the count of the newest frame it
  has reported or read, or 255 if there is none, unless a check has misread; `SeenInv`
  adds, for complete flags, that nothing newer was there when a check said "not ready".
- *UldSession*. A function is a sequence of accesses, and the invariants are about what is
  left of it. `PInv` says that the last write of the page register still to come is that of
  page 2 (`Restores`), or none is left and page 2 is selected (`Quiet`), or what comes is decided
  at the end (`Stops`, `Shape`); `SInv` that, as long as nothing has failed, a stop request is
  taken back by an access still to come on page 0 (`Clears`), or is taken back already and
  none comes after it (`Gentle`). For
  `OkMeansDone`, UldSessionDone says for each function, by the number `Did` of accesses
  that are behind it, what has been achieved as long as the status is 0: `InitDid` from the
  reboot to the last answer, `StartDid`, `StopDid`, and shorter ones for the power modes and
  the address. This needs in turn what the sensor is like when a function begins:
  nothing ranges on a halted MCU (`RangeInv`), and the firmware that init has started
  runs on, as no function but init reboots (`AppInv`, `Tame`).
- *UldSettings*. `TInv` carries, besides types, that what is left of a function is
  `Chained`: each write and each save finds in `temp_buffer` the block it is about,
  however the exchange before it ended. `SetInv` follows each setter by how much is left of it:
  what is in `temp_buffer` is the block of the firmware with the setting's own bytes
  changed, or the status is not 0. `CInv` is about the calibration: as long as no error was seen (`Good`), firmware and
  `temp_buffer` hold no junk, and every value that is restored was saved already (`Known`) or is
  saved earlier in the same program (`Covered`).
  For the last two, `Synced` says that `temp_buffer` holds the block the next entry is about as
  long as nothing has failed, so that each entry has one `Effect`. `CalInv` follows the calibration entry by entry (`Calibrating`):
  from the measurement on, each setting has its value again or an entry still to come
  will give it (`Restoring`), or the call will return an error (`Doomed`). `GInv` says of each
  of zones, offset, crosstalk and the driver's data that it is of the resolution the call
  ends with, or that an entry still to come makes it so (`Settled`, `OneResolution`); a
  calibration and the two functions that move crosstalk data set the resolution `Aside`, work on
  64 zones, and settle on the old one.
- *Plugins*. `EInv`: between its two writes the global flag is the one asked for, unless
  that write failed. `ConversionUndone`: the divisions of the getter undo the
  multiplications of the setter for every measurement and sign. `MInv`: the structure of the program
  holds the map of the last resolution asked for, and while `set_distance_motion` has seen no
  error the firmware has that structure. For a frame, `Start` gives the place of each output's block
  and `Weight` its size: the size byte that `start_ranging` sends and the length that `get_ranging_data` walks
  by come to the same (`LengthWeight`), and each is at most what the macros reserve, so the
  sum fits. `WInv` says that the walk stands at the start of a block and has met the enabled
  outputs before it; and, between frames, that what is in the results was divided once.
- *Peripherals*. `Course` follows one writer: the array filled up to the loop counter, then the
  wire equal to the array up to the counter; `LatchShows` undoes the order of the bytes;
  `UInv` adds the program's buffer on top. `SInv`: if no interrupt is waiting,
  what the handler has read, or has logged, is the level of the line. `EchoInv`: after a
  measurement that was valid and had no failed poll the sensor is quiet, so a pulse that
  comes next is an answer.
  `ExInv` says at each call of each example what the sensor may be doing, given the
  status; that the examples have this shape is checked example by example (`MenuOrderly`). `LInv` says for every step of probe and exit
  what is held and what the four flags say of it (`Probing`, `Registered`, `Gone`), what the step that failed and the
  unbinding say of the buffer (`Kept`), and what the device that can be opened, or is open,
  says of the queue (`Files`).

Only model-checked:

- The liveness properties (`CallReturns` of transfers and of the session, `FrameNoticed`,
  `SignalReturns`, `FrameDelivered`, `ReportsGoOn`, `SessionEnds`, `ShownCatchesUp`), for the
  prover has neither fairness nor ENABLED.
  This and nothing else: each other property of a passing run is stated by a theorem. The types of
  TofWait are the other way round: proved (`TypeCorrect`), and in no run.
- What two processes in the ioctl get: TLC refutes `ReadDelivered` there (`tof_transfer_two`).

No module declares a RECURSIVE operator.

## 5. Not modelled

- *The firmware image.* 22062 of the repository's 29662 implementation lines are
  `vl53l5cx_buffers.h`, the machine code of the sensor's MCU as bytes. The download is
  modelled (UldSession), and the blocks of the default configuration and of the
  calibration are decoded into the settings they hold (UldSettings); the code is the
  vendor's and has no source here. Of the other 7600 lines, about a third of them comments,
  the map covers the greater part: a share of all lines says little about this repository.
- *Opening and closing the device and `VL53L5CX_WaitMs`*: a call each, with no state
  but the descriptor.
- *The raw format* (`VL53L5CX_USE_RAW_FORMAT`), which no build here defines.
- *Bit timing of the LED strip*; its probe and removal, which devm functions undo. The model
  begins when the probe has ended: the file exists a moment before the last line of the
  probe sets the data line low, and a write in that moment would be cut within a bit.
- *A second probe in one load* of the ToF driver (a deferred gpio; unbind and bind): it
  registers a misc device that is still registered, and what the kernel makes of that is
  outside the code.
- *The copy that every reading ioctl makes* with `memdup_user` and never frees: no document
  bounds kernel memory (see the hazard). Its result is not looked at (231) and not used, so
  its failure changes nothing.
- *Values without state*: the water level's floating-point arithmetic, the values the examples
  set, everything that is printed but what a property speaks of.
- *CryptoAuthLib, the port controller, the gpio and I2C frameworks*: modelled by what the
  code here relies on.
- *Recipes, overlays, images and configuration*: data.

## 6. Plan

The modules were written in the order transfers, waiting, ranging, session,
settings, plugins, peripherals, examples, init and restart, the small programs.
What is left, in this order:

1. A second probe of one load, once what `misc_register` promises is stated.
2. Probe errors and removal of the LED driver.

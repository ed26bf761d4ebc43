# sc-platform: TLA+ models and proofs

sc-platform is a virtual platform written in SystemC/TLM-2.0: a processor
model, two nested buses, memories, a timer bank, an interrupt controller, GPIO
and a UART, which run under the SystemC kernel and are driven by test software
compiled into the simulator. This directory models its core in TLA+. TLC checks
the models on small instances; TLAPS proves the theorems for every value of the
constants. Paths are relative to the root of the repository.

Run a check with `tlc -config X.cfg M` and a proof with `tlapm M.tla`;
`PROJECT.json` lists every run, which properties it checks, the lines of code
each definition stands for and, for each property, a change of the code that
breaks it.

## 1. The system

### 1.1 Components

| Component | State it keeps | Operations | Interacts with |
|---|---|---|---|
| `Timer` (`timer/timer_beh`) | load, start, trigger, resume and pulse times, the modes, one trigger and one pulse event | start, stop, pause, resume, reset, setters; `trigger_thread` | the kernel's timed events; `Timer_module` |
| `Timer_module` (`timer/timer`) | a vector of timers, their registers, the interrupt port | register reads and writes, `timer_thread` | its timers, bus, interrupt channel |
| `Timer_api` (`timer/timer_api.hpp`) | a base address | setup, start, stop, status, is_running, value | the processor's transport |
| `Interrupt_channel` (`interrupt/interrupt.hpp`) | a multimap of scheduled interrupts, one event, two counters | notify (immediate, delayed), wait, get_next, clearall | timers, PIC, processor |
| `Pic_module` (`interrupt/pic`) | registers, masks, pending sets | register accesses, `pic_thread` | interrupt channel in both directions |
| `Cpu_module` (`cpu/cpu`) | a transport mutex, a quantum keeper, a table of direct memory pointers, a payload queue | transport, loosely (LT) and approximately timed (AT); `irq_thread`, `sw_thread` | bus, interrupt channel |
| `Bus_module`, `Memory_map` (`bus/`) | the address map of each bus, its configuration; the parsed memory map file | start_of_simulation (probe and check), b_transport, transport_dbg, nb_transport, find_address | every target, through their sockets |
| `Memory_module` (`memory/memory`) | bytes, grown on demand; the AT pipeline | b_transport, transport_dbg, nb_transport | bus |
| `Gpio_module`, `RgbLED_module` (`gpio/`) | pin registers, change masks | register accesses, pin processes | bus, interrupt channel, pins |
| `Uart_module` (`uart/`) | receive and transmit fifos, registers | register accesses, send | bus |
| `no_clock` (`no_clock/`) | period, offset, duty cycle, counted cycles | edge delays, cycle counts, frequency changes | every module that takes time |
| Asynchronous channels (`async/`) | a queue, a ready and a peeked flag, mutexes, a condition | notify, wait, read, nb_read, peek, drop | threads of the host |
| `Memory_manager` (`utility/`) | free list of payloads, reference counts | allocate, acquire, release | processor, bus |
| `Configuration`, `Config_proxy` (`config/`) | values, keys with their defaults, required keys | set, get, update, addkey, delkey, clear, copy; the extension that carries one | software, bus and targets |
| `Stub_module` (`top/stub`) | a configuration and copies of its settings | configuration by debug access, b_transport, nb_transport | bus, `Config_proxy` |

`mmu/`, `exclusive/`, `dma/`, `mailbox/` and `tcpip/` are in the tree and in no
build; `top/`, `report/`, `scx/` and the rest of `utility/` construct, convert
or print. `PROJECT.json` names what is modelled of each and why the rest is not.

### 1.2 How the parts interact

The kernel runs one process at a time until it waits. A notified event makes
every process that waits for it ready, and the order in which ready processes
run is not defined. Software calls `Cpu_module::transport`, which sends a
payload through the buses to a target: in LT style one call that returns with a
time annotation, for which the processor then waits; in AT style four phases
through payload event queues on both sides. Timers raise interrupts through an
interrupt channel, to the processor or to the PIC.

### 1.3 What is hard here

- **Ready but not run.** A process an event has made ready runs although the
  event has been cancelled since (`timer_beh.cpp:143`); two processes that wait
  for the same event read and write the same flag (`timer.cpp:103`).
- **One pending notification.** An `sc_event` keeps the earlier of two timed
  notifications, and an immediate one cancels the timed one: a wakeup can be
  early, or lost (`timer_beh.cpp:54`, `interrupt.hpp:48`).
- **Protocol state spread over several fields.** Running, paused, expired and
  reloaded are combinations of four times, written by five operations in any
  order; the register file computes them back from status words.
- **Unsigned time and unsigned sizes**, which wrap (`timer_beh.cpp:78`,
  `bus.cpp:415`).
- **The AT pipeline**: three pointers and two flags that decide which phase may
  be sent (`timer.cpp:256-298`).
- **Elaboration order**: a bus asks its targets for their sizes, and a bus below
  it only knows its own after it has asked (`bus.cpp:386`).

### 1.4 What makes each component correct

- Timer: a running timer has its wakeup, at the right time; a paused one is
  silent; running time is neither lost nor gained; no assertion fails.
- Register bank: accesses never move the schedule of a running timer; what
  software was told by start and stop is so; every enabled trigger interrupts.
- Interrupt channel: nothing lost, duplicated, reordered or early; no lost
  wakeup.
- AT transport: every request is answered, in order, with at most two in flight.
- Bus and memory: together they are one flat memory; every byte that is served
  can be addressed; an address belongs to one target; software's own search for
  a target agrees with the buses.
- PIC: every read of NEXT answers the pending source of the highest priority above
  the mask, or none if there is none; the processor is notified only for something
  that NEXT lets pass.
- GPIO, of the one pin that its registers reach (3.2): an output carries its data
  once the signal has settled, after any sequence of accesses; no level of an input
  whose edge is selected escapes the thread that watches.
- UART: with a port to send on, every byte is waiting or counted as dropped.
- no_clock: edges and cycle counts agree with their definition, across changes
  of frequency.
- Configuration: required fields have keys; an update forgets nothing.
- Asynchronous channels: payloads keep their order, none is read twice, only what
  `drop` throws away is missing, and nobody passes the wait before the first one.

## 2. The modules

| Module | Models | Refines |
|---|---|---|
| `TimerOps` | the operations of `Timer` as operators on its attributes, and `trigger_thread` | |
| `TimerBeh` | one timer, its process, the kernel, a client | `Countdown` |
| `Countdown` | abstract: running time that is left | |
| `TimerModule` | the register file, the timers' processes, `timer_thread` | |
| `TimerApi` | software that uses `Timer_api`, on top of `TimerModule` | `Countdown`, per timer |
| `InterruptChannel` | the channel, senders, a receiving process | `Delivery` |
| `Delivery` | abstract: a queue that delivers once and not early | |
| `AtTarget` | one target in the approximately timed protocol | |
| `AtTransport` | initiators, the bus and six instances of `AtTarget` | |
| `AddressMap` | building, checking and decoding the map of one bus, as operators | |
| `MemorySystem` | two buses, memories and accesses on top of `AddressMap` | `FlatMemory` |
| `FlatMemory` | abstract: one byte at each address | |
| `NoClock` | a clock, a process that waits on it, others that set it | |
| `TargetPort` | the checks that the register targets make of a payload | |
| `Gpio` | pins, their resolved signals, `gpio_thread` | |
| `Pic` | the interrupt controller and `pic_thread` | |
| `Uart` | the serial port | |
| `Configuration` | the maps of a configuration, as operators | |
| `Stub` | a target, its proxy and software that configures it | |
| `AsyncTx`, `AsyncRx` | the channels to and from threads of the host | |
| `Peripherals` | `Gpio`, `Pic`, `Uart`, `Stub` and both channels together | |
| `MCTimerModule`, `MCAtTransport`, `MCMemorySystem`, `MCPeripherals` | values for the runs | |
| `TimerOpsProofs`, `TimerBehProofs`, `TimerModuleProofs`, `TimerApiProofs`, `InterruptChannelProofs`, `MemorySystemProofs`, `NoClockProofs`, `PeripheralProofs` | theorems | |

### 2.1 Timer (`TimerOps`, `TimerBeh`)

`timer` is the record of the attributes of `Timer` (`timer_beh.hpp`), with the
two pending notifications as times (`Never` is none) and `abort`, the assertion
that has failed. Each public function is an operator in `TimerOps` from record
to record, so that the register bank can apply it to any timer of its vector.
Times are unsigned 64-bit values of `sc_time`; they are modulo `TimeMod`.
`trigger_thread` is one step: it does not wait between its wakeup and its next
wait. `ready` says that it was notified and has not run; that is the window in
which the client may still call the timer. What the kernel does is marked
external: `Earlier` (an event keeps the earlier notification), `Tick`,
`DeltaNotify`.

The interface leaves several things to its caller and checks only some of them
with assertions. `Careless` names the precautions a client does not take, so that
one module shows what holds of every use and what holds of careful use.

### 2.2 Timer bank and its software (`TimerModule`, `TimerApi`)

A control word is the set of its flags, so that the code's bit operations are
union and difference. An access is one step, because `transport` does not wait;
the annotated delay is passed to the timer as in the code. `reg` keeps the
registers the code reads back (status, control-set, load low and high):
control-clear uses the stored control-set word and not the word written
(`timer.cpp:588`), and the model does the same. A double word
written to the load or the current count sets the load delay without the scale. A
burst passes the payload checks and then fails the assertion on its length
(`aborted`). A debug write changes the registers and runs no handler.

`TimerApi` makes each `Timer_api` call the register accesses it consists of,
each as long as `Timer_module::transport` says; `busy` keeps the processor from
its next access until then, while timers expire. The software calls `setup`
first and `stop` only after `start`.

### 2.3 Interrupt channel (`InterruptChannel`)

`scheduled` is `m_scheduled_events` as a set of entries that carry a number in
order of insertion, which is what the multimap preserves among equal times.
`alarm` is the pending timed notification of `m_event`. The receiver loops over
`wait` and `get_next` as `pic_thread` does; `woken` is the window between a
notification and its step. `urgent`, `delivered`, `dropped` and `cleared` are
history, read by properties only.

### 2.4 AT transport (`AtTarget`, `AtTransport`)

The variables of a target are its protocol attributes (`pipe`), with the pointer
to a transaction as the initiator it belongs to; the payload event queues are
sequences. The members are the same in all six targets, so one module is
instantiated six times. The bus finds the target by `Region`, remembers the port
of the initiator in the routing extension of the transaction (`route`) and masks
the address twice (`Forward`). `m_coding_style` of the processor is the loosely
timed one and nothing changes it, so software reaches this code only through a
call of `transport` that names the style.

### 2.5 Buses and memories (`AddressMap`, `MemorySystem`)

`addrMap` is `m_addr_map` of each bus as a set of entries; a port is named by
its target. `StartOfSimulation` is `start_of_simulation` of the next bus in
order of construction, with the probes of all its ports: a probed memory grows
to its full size, a probed bus answers with the size it worked out, or with none
if it has not been started. `Read`, `Write` and `Refuse` are an access through
both buses, by `b_transport` or by `transport_dbg` (`debug`), which fills the
memory up first. Addresses and sizes wrap where the code computes them.

The memory map file is chosen from `Files`. `ConsistentFile` states what is
assumed of it: unique names and bases, South's lowest base zero, and the two
places where the file states the address of South agreeing. The file in the
repository meets this for the two buses of the platform. An access does not run
over the last address of all (`Access`): beyond it the sum in `payload_is_ok`
wraps.

### 2.6 Clock (`NoClock`)

`clk` is the record of the attributes of `no_clock`, set up by either constructor;
`sleep` is a process that waits until an edge (`wait_posedge` and its kin) or for
the delay that a `next_` function returns. Every set function may be called while
it sleeps (`steady` is then false). As in the code, a new period or offset leaves
the edges where they were until the duty cycle is set, and the original
constructor leaves both edges at zero. `before` is history: the whole cycles of
every period the clock has had. Values that the code refuses end the simulation
and are not given.

### 2.7 Register targets (`TargetPort`, `Gpio`, `Pic`, `Uart`)

`payload_is_ok` and the truncation in `transport_dbg` are the same in the three;
`TargetPort` has them, with the fields of a payload that they look at. No
constructor sets `m_target_size`, so its first value is any (`Sizes`).

The constructors write `m_register_vec{ SIZE }`, which makes a vector of one
byte. A handler that takes its register from that vector finds a word that may
be anything, except where it is the one byte there is (`overlay` in `Gpio`). The
models let it be anything; what they state holds all the same.

- `Gpio`: `drive` is what each process drives each `sc_signal_resolved` with, `pin`
  the resolved value; `GpioUpdate` is the kernel's update phase. The registers are
  of type `bool` for 64 pins, so that `register & bit` is false for all but pin 0
  (`Bit`): as in the code the thread skips every pin above 0, and pin 0 while it is an
  output. `synced` makes software wait after an access, as `transport` in LT style
  does; then the signals have settled. `notified` is what the thread did at its last
  look at the pins; `rewritten` is history: a register was written since that look.
- `Pic`: one target processor, as on the platform. `Assertions` says whether the
  build evaluates `sc_assert`; with them the first write ends the simulation. Where
  the code indexes a vector with `m_target_select` before software has selected a
  source, the model lets the program go on or end (`OutOfRange`). `outcome` is history:
  what the last step did, so that every read of NEXT counts, one that repeats an answer too.
- `Uart`: `tx` and `rx` are the two control records, `used` the signed number of
  bytes in the fifo. `tx_thread` and `rx_thread` are stubs that loop without waiting:
  once the kernel runs one, nothing else ever runs (`hung`).

### 2.8 Configuration and stub (`Configuration`, `Stub`)

A configuration is a record of three maps. A value carries its type, because
`boost::any` does, and the functions that copy and print it are kept by type
(`functions`). Software builds a configuration (`extn`), sends it in the extension of
a debug transaction, and the stub, behind a `Config_proxy` or without one, merges it
and copies the settings into variables of its own (`local`).

### 2.9 Channels to the host (`AsyncTx`, `AsyncRx`)

Here the threads are those of the operating system, so the steps are the critical
sections and what lies between: `txWriter` and `txReader` say where each thread is.
The condition variable may wake a thread without reason. `txRead` and `txTossed` are
history: what was read, in order, and what `drop` threw away, whether or not anybody
had peeked at it (`rxRead` and `rxTossed` likewise). In `AsyncRx` the receivers
are processes of SystemC, which run in one thread: one that finds a mutex locked by
another stops the kernel (`kernel`). The two headers are part of no build and do not
compile as they stand (names of library calls are wrong); the models are of what
they say.

### 2.10 Composition (`Peripherals`)

The parts of 2.7 to 2.9 share no state with one another, so a behaviour of all is
an interleaving of behaviours of each. `Peripherals` exercises one (`device`)
while the others are idle; a property of a part is a property of the whole.

## 3. Runs

| Run | Module, configuration | Checks |
|---|---|---|
| `timer` | `TimerBeh` | `TypeOK`, `PausedIsSilent`, `RunningHasWakeup`, `NeverLate`, with a client that takes no precaution |
| `timer_careful` | `TimerBeh`, `TimerBehCareful` | `NoAbort`, `ImplementsCountdown`, `Expires`, with one that takes all |
| `timer_restart` | `TimerBeh`, `TimerBehRestart` | violates `WakesOnTime` |
| `timer_module` | `MCTimerModule`, `TimerModule` | `TypeOK`, `NoTimerForgotten`, `RunningKeepsSchedule` |
| `timer_api` | `TimerApi` | `ApiNeverAborts`, `StartedRuns`, `StoppedIsSilent`, `ImplementsCountdowns` |
| `timer_interrupt` | `TimerApi`, `TimerInterrupt` | violates `EnabledTriggerInterrupts` |
| `interrupt` | `InterruptChannel` | `TypeOK`, `NothingLost`, `NoSleepOnUrgent`, `WokenForSomething`, `TakenInOrder`, `ImplementsDelivery`, `UrgentTaken` |
| `interrupt_delayed` | `InterruptChannel`, `InterruptDelayed` | violates `NoSleepOnPending` |
| `at_transport` | `MCAtTransport`, `AtTransport` | violates `TransportReturns` |
| `memory_system` | `MCMemorySystem`, `MemorySystem` | `TypeOK`, `RoutesHome`, `SoftwareFindsTargets`, `ActsAsFlatMemory` |
| `no_clock` | `NoClock` | `TypeOK`, `WakesOnEdge`, `ReadIsLevel`, `NoCycleLost`, `CyclesNeverRunBack` |
| `peripherals` | `MCPeripherals`, `Peripherals` | `TypeOK`, `FirstPinFollows`, `ChangesLatched`, `NotifiedForSomething`, `NextIsHighest`, `FifoConserved`, `RequiredAreKeys`, `NothingForgotten`, `InOrder`, `BlocksUntilSent` |

Deadlock is not checked: every model stops where simulated time, the number of
interrupts, payloads or accesses is bounded, or where an assertion has ended the
simulation; the AT pipeline does stop, and so does the kernel once a stub thread of
the UART runs.

### 3.1 What the runs show

- `timer`: in whatever order start, stop, pause, resume, reset and the setters
  are called, before or after the processes of an instant, a timer that has a
  trigger time also has a notification pending or delivered, never one that is
  later than the trigger time, and a paused timer has none.
- `timer_careful`: with the four precautions the timer is a countdown of running
  time, whose time stops exactly while the timer is paused; no assertion fails;
  a timer left alone expires.
- `timer_module`: no sequence of register accesses, with double words, bursts and
  debug writes among them, changes the trigger time of a timer that is running,
  except by stopping it, or leaves one without a wakeup.
- `timer_api`: two timers, driven by software that uses the interface in order,
  are two countdowns, start and stop are kept, and no assertion fails, whatever
  accesses coincide with expiries.
- `interrupt`: nothing is lost, taken twice, early or out of order, with delayed
  and immediate senders and `clearall`; immediate interrupts wake the receiver.
- `memory_system`: if no bus reports an error, every byte a memory serves is
  found where the file puts it, `find_address` agrees with the buses, and reads
  and writes through two buses are those of one flat memory. With a file that is
  inconsistent the types still hold.
- `no_clock`: after any two changes of the settings, a wait that nobody disturbs
  ends on the edge it asked for; if that edge lies inside the period, after
  exactly the cycles it asked for. The level read is the one the last edge left,
  and the count of cycles loses none of an earlier period and never runs back.
- `peripherals`: after any sequence of directions, data and partial writes, pin 0 of
  GPIO carries its data as an output that nobody else drives and is let go as an
  input; when the thread is back in its wait and no register was written since it
  looked, a level of the input whose edge is selected is recorded and its interrupt
  was sent, although the thread does not listen on its way to the clock edge. Every
  read of NEXT answers the pending source of the highest priority above the mask, or
  the invalid number if there is none, whatever it answered before. The processor is
  notified only for a pending, enabled and targeted source above the mask, unless the
  list of levels is empty. With a port bound (speed FAST or SLOW) the UART accounts for
  every byte; of VIRTUAL, the speed without a port that the platform has, the run claims
  nothing. Required fields of a configuration keep their keys and an update neither
  forgets nor invents. In both channels to the host what is read and queued keeps the
  order of sending, without repetition, and exactly what `drop` threw away is missing,
  whatever threads do between their critical sections.

### 3.2 Findings

- `timer_restart`: stop and start in the instant of expiry, before
  `trigger_thread` has run, fails the assertion at `timer_beh.cpp:143`.
- `timer_interrupt`: the comment at `timer.cpp:101` promises an interrupt for any
  enabled timer; the loop looks at timer 0 only, and possibly before its trigger
  flag is set.
- `interrupt_delayed`: a delayed interrupt is sent, the receiver calls `wait` before
  it is due, which waits since nothing is pending, and the interrupt becomes due: the
  receiver sleeps on, since `notify` with a delay notifies no event.
- `at_transport`: the first AT request to a target is deferred for ever.

More observations, outside the properties of the runs:

- A target refuses the last of the bytes it is configured with (`memory.cpp:363`
  and its copies), and a bus reports one byte less than it covers (`bus.cpp:543`),
  so that an overlap with its last byte is not noticed. `Served` in `MemorySystem`
  leaves that byte out. A memory that ends at the last address of all has a byte at
  `BAD_ADDR`, which cannot be reached; the theorem of 4 excludes it.
- Clock: `next_anyedge` on an edge skips the other edge, an edge that the offset
  moves beyond the period is never at hand (`no_clock.hpp:264`), a clock that
  starts low is high for the wrong fraction (`no_clock.cpp:91`, against the diagram
  in `ABOUT_NOCLOCK.md`), and `at_setedge_time` asks for the sample time
  (`no_clock.hpp:416`). A second change of the period counts the cycles before the
  first one twice (`no_clock.cpp:160` and `:173`); `NoCycleLost` is therefore an
  inequality.
- Register files of GPIO, PIC and UART have one byte, because braces were written
  for parentheses (`pic.hpp:95`).
- GPIO: the mask does not move with the pin where directions are compared
  (`gpio.cpp:488`), and the last sample is never stored, so every 0 or 1 counts as
  a change.
- GPIO: `ABOUT_GPIO.md:34` says "all registers are 64-bits, with each bit affecting the
  corresponding GPIO pin"; `Gpio_regs_t` makes them `bool` (`gpio_reg.h:12-29`). Each
  register keeps one bit: whatever software writes, pins 1 to 63 count as outputs of
  value 0, and the thread never looks at them. No property says anything of those pins.
- PIC: the port is indexed with the source (`pic.cpp:443`); fields are made with
  `&&` for `&`; the front of an empty list is compared (`WriteDone`, `Unmasked`).
  A write of TARGET replaces the last of the levels instead of adding one, so the list
  is empty or the mask alone (`LevelIsMask`, a part of the proof's invariant). A write of
  DONE asserts `m_target_level.size() > 1` to "Restore Mask level" (`pic.cpp:485-486`),
  which never holds; without assertions the write leaves the list empty or pops from
  an empty one. NEXT sets the source active but leaves
  it pending, where its comment says "Change from pending to active" (`pic.cpp:589`), so
  that the next read answers the same source again.
- UART: the loop that sends the fifo has its condition the wrong way round
  (`uart.cpp:470`), so a single byte is popped twice; the mask of the data bits is
  complemented (`uart.cpp:656`), so that it clears the bits it should keep.
- Channels: the queue and the flag that says it is not empty are under different
  mutexes (`async_tx.hpp:50`), the flag is never reset, and `drop` looks at
  `m_peeked` before it locks and leaves it set, so that it discards payloads that nobody
  peeked at, against its comment "Requires that peek has been called"
  (`async_tx.hpp:110`). After the first payload a wait never blocks.
- Stub: one key is written with a blank at its end, `"dmi_allowed "`.

### 3.3 Bounds

- Times: `MaxTime` 5 or 6 with load delays up to 3 lets a timer expire, reload,
  be paused and resumed, and expire again; `TimeMod` 16 is small enough for the
  subtraction of a careless pause to wrap within the run. `TimerApi` has 22 units
  for two timers, since each access takes two or three.
- `timer_module`: one timer, since accesses and triggers of different timers
  touch disjoint state (`timer_thread` is examined by `timer_api` with two), one
  load count, three units of time and four control words: one that stops or pauses,
  one that resumes, one that starts one-shot and one that starts with every mode.
  The theorems of 4 have no such bound.
- `interrupt`: four interrupts, delays 0 to 2 and one `clearall` within four
  units: an immediate one can overtake two delayed ones, cancel the alarm, and be
  cleared.
- `memory_system`: three memories on two buses, 20 addresses, six files: three
  consistent ones with different layouts (sizes absent, wrong or right in the
  file; South in the middle, at zero and with a neighbour that touches it), one
  with overlaps, one with reserved addresses, one that omits a memory; accesses
  of one and two bytes; and the platform without a bus, where a memory grows.
- `no_clock`: periods of three and four ticks, one duty cycle (it enters only
  through the position of the second edge), an offset that keeps that edge inside
  the period and one that moves it beyond, a shift longer than a period, two
  changes, waits for the first and the second edge; nine ticks hold the longest
  wait.
- `at_transport`: two initiators, a memory, a timer and an address where nothing is
  mapped; the other four targets are instances of the same module.
- `peripherals`: two pins, since the registers tell pin 0 from all others; three
  sources with two priorities, so that two can be equal; one payload for each
  register with a handler and one for each reason to refuse; a fifo of two bytes;
  three to five accesses per device, enough to change a direction, write data and
  write part of a register, or to fill the fifo and drop a byte; four operations on a
  configuration; three or four payloads for two receivers. `IdleIsFixed` gives a
  device that stays idle one initial state.

### 3.4 Fairness

The kernel runs every ready process and advances time while a notification is
pending, which is weak fairness of `TriggerThread` and `Tick` (`Expires`). The
receiver of interrupts loops without end, which is weak fairness of its step
`WaitAndGetNext` (`UrgentTaken`); the step that goes to sleep needs none. In
`AtTransport` the kernel delivers what is queued (`Respond`). Nothing is assumed
of clients, senders or software.

## 4. Proofs

| Theorem | States |
|---|---|
| `TimerBehProofs`: `TypeCorrect`, `PausedIsSilentAlways`, `RunningHasWakeupAlways`, `NeverLateAlways` | the invariants of run `timer` |
| `TimerBehProofs`: `CarefulNeverAborts`, `CarefulTimerCounts` | safety of run `timer_careful`: no assertion fails, `Spec` implements `Countdown` |
| `TimerModuleProofs`: `BankTypeOK`, `BankForgetsNoTimer`, `BankKeepsSchedule` | all of run `timer_module` |
| `TimerApiProofs`: `ApiFailsNoAssertion`, `ApiKeepsStart`, `ApiKeepsStop`, `ApiTimersCountDown` | all of run `timer_api`; the last: each timer of the bank implements `Countdown` |
| `InterruptChannelProofs`: `TypeCorrect`, `NothingLostAlways`, `NoSleepOnUrgentAlways`, `WokenForSomethingAlways`, `TakenInOrderAlways` | safety of run `interrupt` |
| `InterruptChannelProofs`: `ChannelImplementsDelivery` | `Spec` implements `Delivery` |
| `MemorySystemProofs`: `DecodeInvertsMap`, `EntriesAreDisjoint`, `NowhereIsUncovered` | what the checks of a bus guarantee |
| `MemorySystemProofs`: `TypesAlways`, `RoutesHomeAlways`, `SoftwareFindsTargetsAlways` | the invariants of run `memory_system`: both buses together reach every byte that is served |
| `MemorySystemProofs`: `FlatMemoryIsImplemented` | `Spec` implements `FlatMemory` until an error is reported |
| `NoClockProofs`: `ClockTypesAlways`, `WakesOnEdgeAlways`, `ReadIsLevelAlways`, `NoCycleLostAlways`, `CyclesNeverRunBackAlways` | all of run `no_clock` |
| `PeripheralProofs`: `PeripheralTypesAlways`, `FirstPinFollowsAlways`, `ChangesLatchedAlways`, `NotifiedForSomethingAlways`, `NextIsHighestAlways`, `FifoConservedAlways`, `RequiredAreKeysAlways`, `NothingForgottenAlways`, `InOrderAlways`, `BlocksUntilSentAlways` | all of run `peripherals` |

**Timer.** Assumptions: those of `TimerOps` and `TimerBeh` on the constants
(the modulus is positive, delays are times), for any set of precautions, so the
invariants hold of every use of the interface. The inductive invariant `IInv` is
the conjunction of the four; together with the types they need no further
strengthening. It is restated for the record of one timer (`Wellformed`,
`Awake`), and each operator of `TimerOps` has a lemma that says it keeps that;
the step lemmas (`ClientIInv`, `KernelIInv`) have one case per action. The lemmas
about records are in `TimerOpsProofs`, because the register bank needs them too.

**Timer as a countdown.** Assumption: `CarefulClient`, which says that the client
takes every precaution, that no load delay is zero and that no sum of times wraps.
The invariants above say that a wakeup is not late; for the refinement it must not
be early either. `Orderly` says so: of a running timer, exactly one of the pending
notification and the readiness of `trigger_thread` is there, and it is for the
trigger time. With it the remaining time of `Countdown` is a function of the state,
and every step maps to one of `Countdown`'s or to a stutter.

**Register bank.** Assumptions: those of `TimerModule`, for any number of timers.
`BankOK` adds to the types that every timer is well formed and awake, which is what
the lemmas of `TimerOpsProofs` preserve. Each kind of access is a composition of the
operators of `TimerOps` on one timer; `StepKeepsSchedule` follows from what they do
to a trigger time.

**Timer software.** Assumption: `CountsFit`, that is, an access takes time, twice a
count fits into a register and no sum of times wraps (the code checks neither; the
constants of run `timer_api` satisfy it). `ApiInv` adds to `BankOK` that every timer
is in use (`InUse`): a timer at rest has no notification pending, one that runs has
exactly one of notification and ready `trigger_thread`, at its trigger time, and its
control-set register says what the next clear will clear. A timer that is stopped in
the instant in which it expires still has its `trigger_thread` to run, which must find
no new trigger time; it cannot, since time passes before the software's next access
(`Rests` ties the ready thread to `busy`). `SetTimerStatus` is reduced to one of
three effects on the timer, by whether it rests or runs (`RestingControl`,
`StartingControl`, `RunningControl`), and each access maps to one step of `Countdown`:
load to `Program`, the words of `setup` to `SetMode` or `Halt`, `start` to `Begin` when
the access is over, `stop` to `Halt`.

**Interrupt channel.** Assumption: `InterruptChannelAssumption`. `IInv` adds two
facts to the types, `NothingLost` and `NoSleepOnUrgent`: numbers of entries are
unique (`Unique`), without which taking one entry could take two numbers from
the books; and an entry of an immediate notification is due at once
(`UrgentDue`), without which the passing of time could make it pending behind
the back of a sleeping receiver. Each action has a lemma. The refinement maps
each action to one of `Delivery`'s or to a stutter; `TakenInOrder` follows from
`IsOldest` and `Unique`.

**Address map.** For any set of entries with unique bases for which
`check_port_map_and_update_configuration` reports no error, the entry that covers
an address is the closest one below it, because an entry in between would be an
overlap. So `decode_address` inverts the map, entries are disjoint, and what it
refuses belongs to none. No bound on addresses or entries is used.

**Both buses.** Assumption: `WideEnough`. `Platform` is what `top.cpp` binds, South
constructed before North; `Room` asks of a memory map file that sizes are no wider
than addresses, that South fits into a size, that no memory reaches the reserved
addresses, and that what is bound to South is not listed for North as well. The
configuration of `memory_system` satisfies it. `EInv` says how far elaboration is
and that the map of each bus that has started is built from the file and the sizes
the probes found. `SouthIsLargeEnough` is the heart: the size that South works out
reaches every byte served on it (its lowest base is zero, the largest of its last
addresses exists by `LargestAddress`, and the subtraction does not wrap), so that
North's entry for South covers them, and `DecodeInvertsMap` applies twice.

**Memories as one memory.** Same assumption; the types need `Platform` alone. `SInv`
says that each store is a sequence of values no longer than its target. The two
directions of the address map meet: `RegionRoutes` (every address of a memory leads to
it, so two memories share no address) and `RouteBack` (what ends at a memory began at
the address the file gives to it), so `SpanOfAccess` maps an access within the range
to consecutive cells. `Grown` says that a larger memory shows the same bytes, those
behind the old end being `Fill`; so elaboration and reads change no cell, a write
changes the cells of its span, and a refused access, which may still have enlarged the
memory, changes none.

**Clock.** Assumption: `NoClockAssumption` (periods are positive, duty cycles are
percentages between 1 and 99, times are naturals). Three facts about division carry
all of it: a quotient and a remainder below the period are those of the division
(`DivisionIsUnique`), quotients are monotone (`DivisionIsMonotone`), and whole periods
drop out of a remainder (`WholePeriods`). The questions that the model asks now
are restated for any moment (`DelayAt`, `EdgeAt`, `WaitAt`), so that the end of a wait
can be compared with its beginning. `CountInv` says that the base count is never less
than what passed before, from which both facts about cycles follow: a step keeps the
count, starts a new period, changes the shift, or lets time pass (`StepOfCount`).
`WaitInv` says that while nobody touches the clock, the time to wake is the start of
the wait and the delay computed there. That time is an edge (`WaitEndsOnEdge`), and the
edges before it are in bijection with `1 .. n` (`EdgesCounted`): no edge is skipped and
none is taken twice, for every `n`. A wait for either kind of edge counts the rising
and the falling ones apart (`WaitPassesCycles`). Of the bounds only that they are
naturals is used.

**Peripherals.** Assumptions: those of the parts; of bounds, that they are naturals,
and of the types in a configuration, that they have names. `StepOfPart` splits a step
of the composition. The invariants are per part. `ChangesLatched` is inductive: a change
of a pin makes a waiting thread ready, and its look leaves the latch set for every level
it found (`GpioKeepsLatched`). `PinsInv` says of pin 0 that what is written is flushed
at once and that, while software alone drives the pin, its accesses find it settled;
without that a pin that has its value already could have it from elsewhere. `PicInv` adds
to the types that the list of levels is empty or the mask alone (`LevelIsMask`), which
is why `pic_thread` and NEXT agree on what the mask withholds. `UartInv` adds the types of
three counters, `StubInv` says that both configurations are configurations
(`IsConfiguration`). For the channels `Accounted` says that the queue holds the last
payloads sent, in a row, and that each of the others was either read, in order, or tossed
(`DoneWith`); a receiver moves the boundary between the two by at most one (`Moves`), and
`LineOfAccount` reads the property off. `TxBlocks` adds that the flag is only set after
something was sent. `PartsTyped` is the conjunction of these with the types that they
leave out; the type of the last answer of `NEXT` depends on what the loop over the sources
finds.

**The choice of the next source.** The loop of `NEXT` is the recursive function
`Highest`. No induction theorem of the library can be instantiated, so its value is
found without one. `FoundUpTo(k)` says in closed form what the loop should have found
after source `k`: the best of the candidates up to `k`, which exists because the least
of their keys does (`BestExists`, `LeastNatural`), or nothing. One turn of the loop
leads from `FoundUpTo(k - 1)` to `FoundUpTo(k)` (`TurnFindsBest`), so there is a function
that satisfies the recursion, and any function that does agrees with it, or there would
be a least index at which it does not (`LoopIsDetermined`).

**Only model-checked.** Liveness (`Expires`, `UrgentTaken`), which needs fairness and
`ENABLED`, is out of the prover's reach. The four runs that expect a violation
(`TransportReturns` among them) show a counterexample, and have nothing to prove. All
other properties of the runs are theorems.

## 5. Plan

1. **Done**: timer, register bank, software interface, interrupt channel, AT
   protocol with the bus, buses and memories in LT style, the clock, GPIO, PIC,
   UART, configuration and stub, channels to the host; the theorems of 4.
2. **Done**: theorems for every invariant and every action property of the runs.
3. The rest of `NoClock`: its events, which are only notified after a wait, and the
   registry of global clocks; `Pic` between two instances of `InterruptChannel`.

### Not modelled

- Direct memory pointers: no target of the platform offers one, so the table in the
  processor stays empty, and with it the address reconstruction of the bus.
- The transaction pool: in LT style one transaction is in use at a time, in AT style
  none is ever completed, so its counts never interleave.
- `irq_thread` of the processor: it waits for an enable signal that
  `start_of_simulation` sets to false and nothing else sets.
- The RGB LED, which prints the colour of three pins; reports, options, conversions
  and other wording.
- Nested buses in AT style: the first bus already never gets an answer.
- `mmu/`, `exclusive/`, `dma/`, `mailbox/` and `tcpip/`: in no build, copies of
  modelled code or forwarding every call, or input and output of the host.
- Of `no_clock`: waits for a number of cycles, its events, the `at_` questions and
  the registry.

# A verification project for the sblib KNX library

This directory holds TLA+ models of the Selfbus library (`sblib`), a C++ library for KNX
bus devices on LPC11xx microcontrollers: what its parts do, what they promise each other, the
TLC runs that check this on small instances, and TLAPS proofs for every instance.

All source paths below are relative to `src/`; `eib/` stands for `sblib/src/eib/`.

## 1. The system

A device is one microcontroller with one thread (the main loop of `sblib/src/main.cpp`: the BCU's
`loop()`, then the application's) and interrupts, of which the bus timer's is the one that
matters. There is no operating system: the only synchronisation is `noInterrupts()` and the
order of assignments.

| Component | State | Operations | Correct if |
|---|---|---|---|
| **Transport layer** `eib/knx_tlayer4.cpp` | connection state, partner, two sequence counters, a send buffer, two response buffers, repetition counts, two timers | `processTelegram()`, `loop()`, `disconnect()`, `finishedSendingTelegram()` (from the interrupt) | every response carries the number its partner expects, nothing survives a connection, third devices have no influence |
| **Main loop** `eib/bcu_base.cpp`, `eib/bcu_default.cpp` | scheduled restart, programming mode, "user memory modified" | `loop()`, `processApci()`, `softSystemReset()` | waits for the bus only in `pause()`, restarts after saying goodbye, saves what was written |
| **Link layer** `eib/bus.cpp` | a state machine of 14 states, receive buffer, telegram being sent, acknowledge frame due, retry counters | timer interrupt; `sendTelegram()`, `discardReceivedTelegram()`, `pause()`, `resume()` | frames end, success means acknowledged, repetitions are marked, the receive buffer is never overwritten |
| **Communication objects** `eib/com_objects*.cpp` | values, four RAM flags per object, two cursors | `objectWritten()`, `requestObjectRead()`, `nextUpdatedObject()`, `sendNextGroupTelegram()`, `processGroupTelegram()` | a written object is sent, a received value is seen by the application |
| **User memory** `eib/userEeprom.cpp` | RAM copy, "modified", pages of a flash sector | read at start, write | a power failure leaves the old or the new content |
| **Memory mapper** `sblib/src/mem_mapper.cpp` | page table, one page write buffer | `writeMem()`, `readMem()`, `addRange()`, `doFlash()` | what was written is read back, also after a restart |
| **Application layer** `eib/apci.cpp`, `eib/memory.cpp`, `eib/bcu_default.cpp` | memory, access level | memory and property services, restart | a service answers for the memory it names |
| **Properties** `eib/properties*.cpp` | load state of each interface object | load controls | a table is used only while loaded |
| **Tables** `eib/addr_tables*.cpp` | none of their own | look-ups | agree with the memory |
| **Time** `timeout.h`, `timer.cpp` | a 32-bit millisecond counter | `Timeout`, `elapsed()`, `delay()` | right across the wrap |
| **Serial port** `serial.cpp` | two ring buffers shared with an interrupt | `write()`, `read()`, `flush()` | bytes in order, none lost while there is room |
| **One-wire, I2C, SPI masters** `onewire.cpp`, `i2c.cpp`, `spi.cpp` | a search, a transfer, FIFOs | `Search()`, `MasterTransfer()`, `transferBlock()` | every device is found, a transfer that is reported as done was heard, every call returns |
| **Sensors, displays, pins, print** | device registers | sequential drivers | (not modelled) |
| **Bootloader and updater** `firmware_updater/bootloader`, `firmware_updater/updater` | flash sectors, two boot descriptors, a RAM buffer | update services, choice of the image at start | a power failure leaves a device that starts |

How they interact:

```
application ── communication objects ─┐
remote requests ── transport layer ───┤ one send buffer      one receive buffer
                     │                ▼                            ▲
   main loop  ─ sendTelegram() ──► Bus (interrupt) ── telegram[], telegramLen
                     ▲                │
                     └─ finishedSendingTelegram(), in the interrupt
```

* The main loop hands a telegram to the bus with `sendTelegram()`; the interrupt reports its end
  by calling `TLayer4::finishedSendingTelegram()`, which may hand over the same telegram again.
* The interrupt fills `telegram[]` and sets `telegramLen`; the main loop processes the telegram
  and clears `telegramLen`.
* `sendingFrame()` is the main loop's guard: nothing is processed or sent while it is true.
* The user memory is written while the bus is paused, after a busy wait in `pause()` for the bus
  interrupt to reach a state that can be paused; a restart sends a `T_DISCONNECT`, waits 250 ms,
  saves the user memory in the same way, ends the bus (another `pause()`) and resets the processor.

What is hard to test here is listed under "hazards" in `PROJECT.json`, each with the line where
it bites and the properties that cover it.  In short: the interrupt between any two statements of
the main loop; repetitions, lost and late acknowledgements on two layers; two response buffers and
their numbering; the order of the steps of a restart; busy waits that have to end; power failures
between erasing and programming flash; flags and ring buffers shared by two threads; counters
that wrap; devices and masters that come, go or interfere on a one-wire or I2C bus; updates that stop in the middle and are started again.

## 2. Modules

| Module | Models | Properties |
|---|---|---|
| `TLayer4` | the transport layer, both threads | `BuffersMatchState`, `PendingResponsesNumbered`, `OpenHasPartner`, `RetriesAreFresh`, `RepetitionsIdentical`, `ConnectionUndisturbed` |
| `Connection` (extends `TLayer4`) | a client that keeps to the protocol, a medium that loses and doubles, `TLayer4` as the device | `ExactlyOnce`, `RequestsAreAnswered` (of `AcknowledgedIsServed` and `NothingForgotten`), `ClientIsServed`, `ConnectionEnds` |
| `Bcu` (extends `TLayer4`) | the main loop over the transport layer, statement group by statement group | `TransportLayer` (it implements `TLayer4`), `PartnerIsTold`, `LoopKeepsRunning`, `RestartHappens`, `WritesAreSaved` |
| `BusService` | what the main loop may assume of the bus | (an abstract specification) |
| `Bus` | the link layer's state machine and the main loop's calls into it | `SendsOnlyTelegrams`, `StateMatchesWork`, `PausedIsQuiet`, `StaysPausable` (violated), `RepetitionsMarked`, `AttemptsBounded`, `SuccessMeansAcked`, `PauseSucceeds`, `BusKeepsService`, `BusImplementsService` |
| `BusLink` | a sender with its repetitions, a receiver that recognises them, a third device | `SentIsTaken`, `DuplicatesNeedOthers` |
| `ComObjects` | RAM flags, values, group telegrams, the application's calls | `FlagsTellHistory`, `GroupsAgree` (of `GroupInSync`, `OnlyByTelegrams` and `AsRequested`), `RequestsAreSent`, `UpdatesAreSeen` |
| `UserEeprom` | the flash sector of the user memory, with power failures | `OldOrNew`, `SavesSucceed` |
| `MemMapper` | the mapper's table, its pages and its write buffer, with power failures | `ReadsBack`, `SurvivesPowerFailure` |
| `MemoryAccess` | memory services that cross from one memory into the next | `AnswersAreWhole`, `WriteIsRead` |
| `Download` | load states, table addresses, individual address; restarts (BCU2, MASK0701) | `RestartsKeepDevice` (of `SavedUnlessModified`, `KeepsDevice` and `KeepsAddress`) |
| `TableAlloc` | memory allocated for tables (SYSTEMB) | `TablesDisjoint`, `LoadedIsWhole` |
| `SerialService` | what a serial port promises | (an abstract specification) |
| `Serial` | ring buffers, UART interrupt, registers of the UART | `PortService` (it implements `SerialService`) |
| `Clock`, `Timeouts`, `GroupRate`, `Delays` | the millisecond counter and what is built on it | `ExpiresInTime`; `RateKept`; `LastsLongEnough`, `DelayEnds` |
| `OneWireLine`, `OneWire` | devices on a one-wire line, and the search for them | `FindsDevices` |
| `I2cMaster` | transfers of the I2C master on a bus with faults and another master | `DoneMeansHeard`, `ReadIsAnswered`, `BusLeft`, `LineReleased`, `TransferReturns` |
| `Spi` | block transfers through FIFOs, by polling and by interrupt | `BlockEnds` |
| `Bootloader` | flash commands, the boot descriptor, the choice at start, with power failures | `BootloaderKept`, `StartsOnlyWhole`, `CommandsKeepToRange` (of `ErasesTheRange` and `ProgramsTheBlock`) |
| `Updater` (extends `Bootloader`) | a full update by the PC, with lost telegrams and power failures | `CountedIsProgrammed`, `DoneStartsNew`, `EventuallyNew` |
| `FlashDiff` | a differential update: the updater's encoder and the bootloader's decompressor | `RecordsAgree`, `EndsWithNew` |
| `TransportProofs`, `PartnerProofs`, `BusProofs`, `StorageProofs`, `DriverProofs`, `UpdateProofs`, `ApplicationProofs` | the proofs, of `TLayer4` and `Bcu`; `Connection` and `BusLink`; `Bus`; `UserEeprom`, `TableAlloc`, `MemMapper`, `Download` and `MemoryAccess`; `I2cMaster` and `Serial`; `Bootloader`, `Updater`, `FlashDiff` and `MCUpdate`; `ComObjects`, `Timeouts`, `GroupRate` and `Delays` | |
| `Induction` | induction over sets of numbers, for the proofs | |
| `MCTLayer4`, `MCBcu`, `MCBus` | instances of one component for TLC | |
| `MCPartners` | `Connection`, `BusLink` | `EveryClientIsServed` |
| `MCStorage` | `UserEeprom`, `MemMapper`, `MemoryAccess`, `TableAlloc`, `Download` | `MemoryServicesAgree` |
| `MCDrivers` | `Serial`, `Spi`, `I2cMaster`, `OneWire` | `EveryTransferReturns` |
| `MCUpdate` | `Updater`, `Bootloader` alone, `FlashDiff` | `SuccessMeansNew`, `EveryUpdateEnds` |
| `MCApplication` | `ComObjects`, `Timeouts`, `GroupRate`, `Delays` | `NothingIsForgotten` |

An MC module of several components holds them side by side.  A variable `part`, chosen at the beginning,
says which component a behaviour belongs to; the others stay in one of their initial states, and
fairness and liveness are asked of the part that moves.  Such a run checks each component as it would be checked alone;
nothing is claimed of what they do to each other.  Interaction is modelled where the code has it:
`Bcu` over `TLayer4` over `BusService`, `Connection`, `BusLink`, `Updater`.

`Bcu` is to `TLayer4` what the class `BcuDefault` is to `TLayer4`: it extends it.  It sees the bus
through `rx`, `acking`, `sendBuf` and the callback only.  `BusService` states what it takes for
granted there, and `Bus` is shown to provide it.  `Connection` puts a client at the other end of
`TLayer4`, and `Updater` one at the other end of `Bootloader`.

Definitions have the names of the functions they model, or names that are free in a module
that extends several components.  An operator named `...Bug` is not part of a
specification: it is a way to get the definition after it wrong, kept to show that the properties
would notice.

### TLayer4

* One action per operation, built from the actions A01 .. A10 of the source.  A handler may wait
  once, in `acquireSendBuffer()`; what it has assigned before is invisible to the interrupt, so
  that a handler is one step, enabled when the wait is over (`sendBuf = "FREE"`).  The interrupt
  is a step of its own, possible whenever the bus is sending.
* A telegram is its kind, its partner, its sequence number and its application data.  `"UDATA"`
  stands for all telegrams without a connection.  Whether the application answers a request is
  the environment's choice (`respond`); in `Bcu` it depends on the request.
* `connAge` and `ackAge` are `elapsed(connectedTime)` and `elapsed(sentTelegramTime)`, in ticks, and
  stop at their timeouts, after which their value makes no difference.  The wrap of the
  millisecond counter is not modelled here.
* Remote devices send anything at any time: duplicates, wrong numbers, late and lost
  acknowledgements are all included.

### Bcu

* `pc` is the position in `BcuDefault::loop()` and `BcuBase::loop()`: transport layer, received
  telegram, restart, application, saving.  Interrupts and time pass between any two.
* `pause()` is a wait: in `pausing` (`flushUserMemory()` of the loop), `resetting`
  (`flushUserMemory()` of a restart) and `ending` (`bus->end()`) the loop stands still, while
  telegrams, interrupts and time go on, until the bus can be paused.  That is what `Bus` says of
  it: not before an acknowledge frame has gone out, and in `end()` not before the last telegram has.
  The memory is saved only then, and a write that comes later is left for the next round.
* `untold` is a history: who was connected when the restart was scheduled and has neither closed or
  lost that connection nor been sent a `T_DISCONNECT` since.
* `Apdus` is what the main loop can tell apart: a request that is answered, one that changes the
  user memory, and the two kinds of restart.  The reset is the end (`down`).
* `MaxReceived` and `MaxGroup` bound the telegrams of a behaviour.

### Bus

* One action per interrupt, in the states of the source.  `INIT_RX_FOR_RECEIVING_NEW_TEL` and
  `SEND_END_OF_BYTE` are left within the interrupt that enters them, and are not states here.
  A byte is two steps (its first edge and its end) when received and three (start bit, first bit,
  end) when sent, since a collision has different consequences in each.
* The line is arbitrary: any frame, any collision, any silence.  A single byte is `"ACK"`, `"BUSY"` or
  `"NACK"`, the last for everything else of one byte; a frame of `TelegramSize` bytes may be a
  telegram for this device.
* Two threads: `sendTelegram()` is two steps, because the interrupt may find the telegram before
  the main loop has looked at the state; `pause()` tests `canPause()` after every interrupt.
* `irq` is what of the bus timer interrupts: all, the time match only, or nothing, as after `pause()`.  A match
  that comes due while `pause()` has the interrupts disabled stays pending, and is served after it in state
  `INIT`, from where the machine goes on (section 6).  `resume()` then cuts off whatever is on the line; a
  telegram whose answer is lost that way is remembered in `cutOff`, and the properties about answers leave it out.
* `handedBack` is the transport layer's counter of repetitions, by which a telegram that failed is
  handed over again inside the interrupt.
* `lastOnBus`, `onceSent` and `answers` record what happened on the line, for the properties.

### BusLink

* Two ends and a third device.  An attempt to send is one step: `Bus` has what happens within it.
  The receiver tells a repetition by comparing it with what its buffer holds, which is the last
  telegram it took from anybody.
* Frames and acknowledge frames are garbled at will; the layer above hands a telegram back up to
  `MaxHandBack` times.  Nobody answers BUSY, so that `SendRetriesMax` has to be at least 1.

### Connection

* `TLayer4`'s partner is no longer arbitrary: it connects, numbers its requests, repeats those
  that are not acknowledged, and is itself the KNX state machine ("Style 3").  That client is not
  in this repository, and its actions are marked external.
* Telegrams are lost and doubled, both sides restart.  A client connects again when what was on
  its way has arrived.  `clean` says that the device had no connection when the client opened
  its own, which is what the properties about the first request need (see 6).
* `Prompt`: no timeout strikes while telegrams are on their way.

### ComObjects

* A round of the main loop is: a received group telegram, one telegram sent, the application.
  The flags are sets of bits, two objects to a byte, changed by read-modify-write as in the source.
* `telegrams` are those of one step, a received one first and then what the device sends itself.
* `report` is a history: a new value is `"due"` to be reported, until `nextUpdatedObject()` reports it (`"none"`) or
  a call of the application overwrites the object's flags with it (`"dropped"`: `objectWrite()`,
  `objectSetValue()`, `requestObjectRead()`, `com_objects.h:390-408`).
* `AppOps` says what the application calls; some calls undo others (see 6).

### UserEeprom, MemMapper

* Every erase and every call of `iapProgram()` is a step, and the power may fail before, after or within each.
  In `UserEeprom` a failure within an erase leaves each row as it was, erased or half erased (`Mixed`), and each mark there or not
  (`HalfErased`); within a program call the rows are programmed one after the other, and the last of them may be half done,
  with or without its mark (`HalfProgrammed`).  `spoiled` is a history: the failure hit an erase or the row with
  the mark, or rows were programmed over that were not blank.
* In `MemMapper` a failure leaves anything in the table or in the page that is being rewritten (`tableAtRisk`, `pageAtRisk`).  The
  constructor's check for two zeros in the table is as in the code.  What the mapper does with a corrupted table that passes this check
  is not followed (`"wild"`).  A byte of the table is a page of the region, not used, or `ZeroEntry`, which stands for 0 and for
  every page outside the region: one is a corrupted table that passes, two are what the check finds.
* `UserEeprom` has three numbers: pages in the sector, rows in a page, rows in a call.  They are those of the
  device classes: one row to a page (BCU1), one page in the sector, programmed in
  several calls (masks 0701 and 0705, SYSTEMB), several of both (BCU2).
* `MemMapper` takes a page of two bytes.  `CheckedWrites` and `CleanRanges` say who calls it, and how.

### MemoryAccess, Download, TableAlloc

* `MemoryAccess` is about addresses: how `processApciMemoryOperation()` cuts a request into parts, memory
  by memory, and what becomes of a part that lies nowhere.  The memories are disjoint.  A write that
  ends nowhere has written its beginning, without an answer; that is as in the code.
* `Download` holds what a restart keeps or loses: load states, the places of the tables, the
  individual address.  A save is one step.  With `MASK0701` load controls are memory
  writes, and the client uses nothing else for them.  The place of the association table, and the
  reset of manufacturer and device type in `begin()`, are not modelled.  `begin()` gives a device that has the
  address 0.0.0 the default address, as in a build without `ROUTER` (`validAddress`).
* `TableAlloc` is the load state machine of SYSTEMB with the addresses it hands out.  A client stops before an
  address would be below `First`.  The checksum in
  the table's control block is forgotten on unloading, as nothing reads it then.

### Serial

* The main program's calls are cut at every access to what the interrupt changes; the interrupt
  is one step; the UART is a hold register, a shift register and a receive FIFO.
* `read()` increments `readHead` before it masks it.  `MaxInWindow` bounds the bytes that the interrupt
  stores between the two; with two bytes the port breaks its promise (see 6).  Two bytes between two
  neighbouring statements are a matter of a buffer that is full and of interrupts that come in a row.
* Loops that wait are actions that are enabled when the wait is over, so that the deadlock check of TLC looks at them too.

### Clock and what uses it

* `Wrap` stands for 2^32.  `Timeouts` needs periods and lateness below half of it, which is the limit of the
  code's comparison.  `GroupRate` needs `loop()` to test at least once a second (`MaxGap`).
* `Delays` counts clocks of SysTick; a statement may take several of them when interrupts come in,
  but less than a round.

### One-wire, I2C, SPI

* One bit of a search is one step; devices come and go, or the line is shorted, between any two (`MaxChanges`).
  The last bit of a ROM code is its checksum, so that codes that arise from a short are recognised.
  A device that is removed in the middle of an enumeration may make it miss others: the properties
  say so (`complete`).
* `I2cMaster` has a step for what the controller does on the bus and one for the answer of the polling loop.
  The slave may refuse any byte, another master may win the arbitration at any byte, and there
  may be bus errors.  Polling is the library's default; slave mode has no caller.
* `Spi` looks at a FIFO or at a loop's condition in a step, while at most one word is shifted.
  `FifoSize` is the real 8.  `MinAsynchron` and `Prompt` describe the application; `transferBlock()` has no
  caller in this repository.

### Bootloader, Updater, FlashDiff

* A cell of flash is the data of one telegram; erasing and programming go call by call; a checksum is the
  content it is computed from, so that different contents are always told apart.
* `Updater` takes the connection away: a lost telegram is whatever makes the client of the
  updater report a timeout or a disconnect.  A user starts an update that failed again.
* A block of which the device counted too few or too many bytes is sent again, but not the last one: the tool's loop has ended
  (`FlashFullMode.java:50`), and the boot descriptor follows without it.  The bootloader's check of that descriptor against
  the flash is what keeps such an update from success (`Describes`, `SuccessMeansNew`).
* `FlashDiff` has both ends and their two records of what the flash holds.  A command is one telegram; the device is
  restarted into the bootloader before every try.  The scratchpad's size is not checked.

## 3. Runs

| Run | Components and instance | Shows |
|---|---|---|
| `tlayer4` | `TLayer4`: 2 remote devices and 2 kinds of data (both symmetric), sequence numbers modulo 3, 1 repetition, timeouts of 1 and 2 ticks | a new response starts with a fresh count of repetitions, a repetition is identical to what it repeats, third devices have no influence |
| `bcu` | `Bcu`: 2 remote devices, 3 received telegrams, 1 group telegram, reads, writes and master resets | whoever was connected when a restart was scheduled is told before the reset; without any fairness of the bus the loop waits nowhere but in `pause()`; if the bus ends its frames, the loop comes round, a restart happens and written memory is saved |
| `bcu_restart` | `Bcu`: master reset only | violated: the response to a master reset can be dropped (section 6) |
| `bus` | `Bus`: 2 contents (symmetric), retry limits 2, 1 collision, telegrams of 2 bytes, 1 hand-back | repetitions are marked, attempts are bounded, success means acknowledged; the steps are steps of `BusService` |
| `bus_service` | `Bus`: 1 content, retry limits 1, 1 collision, 1 hand-back; states that differ in the history only are one (`VIEW`) | with fairness, every acknowledge frame and every telegram ends (`BusImplementsService`), and `pause()` ends |
| `bus_pause`, `bus_retries` | `Bus`, 1 content, retry limits 2, no hand-back | violated: section 6 |
| `partners` | `Connection`: 7 requests, 2 answers wanted, 2 telegrams lost or doubled, 1 restart of each side; `BusLink`: 2 contents, 1 of a third device, 2 repetitions, 1 hand-back | requests are served at most once and in order, acknowledged ones are served, the client gets its answers; what is reported as sent was taken, and taken twice only if a third device came between |
| `storage` | `UserEeprom`: 2 pages of 2 rows, a row to a call; `MemMapper`: 3 virtual pages on 2 flash pages; `MemoryAccess`: 8 addresses in three memories and a hole; `TableAlloc`: 3 tables of 2 units in 7; `Download`: a MASK0701 with two load states, and the addresses 0.0.0, 15.15.255 and another one | after power failures, within an erase or a row as well, the old or the new content; bytes written are read back; answers are whole; tables are disjoint and keep their content; load states survive if they were saved |
| `drivers` | `Serial`: ring buffers of 2; `Spi`: the real FIFOs of 8 words, blocks up to 20; `I2cMaster`: up to 3 bytes each way, 2 lost arbitrations; `OneWire`: 4 sensors with codes of 4 bits, 2 changes | the port is a `SerialService`; blocks and transfers return; a transfer that is done was heard; no device that stays is missed |
| `update` | `Updater`: 3 sectors, 2 lost telegrams, 1 power failure; `Bootloader`: any command with any range; `FlashDiff`: images of 5 and 6 bytes, 2 faults | the bootloader survives, only whole applications start, updates end; ranges are erased and programmed exactly |
| `application` | `ComObjects`: 3 objects, 2 of them in one byte of flags, 2 group addresses; `Timeouts`, `GroupRate`, `Delays`: a counter that wraps after 16 ms | flags tell what was asked for, groups agree and nothing else changes them, timers are right across the wrap, nothing is forgotten |

The type invariants of the modules with proofs are theorems, or a conjunct of the inductive invariant.  The
others (`SpiTypeOK`, `I2cTypeOK`, `SearchTypeOK`, `BootloaderTypeOK`, `UpdaterTypeOK`, `FlashDiffTypeOK`) hold in the
runs of their components, and can be added there as an `INVARIANT` after a change of a module.

Why these bounds are enough:

* *Sequence numbers modulo 3*: three consecutive numbers are different (expected, repeated, wrong),
  and wrapping happens quickly.  Two would confuse "repeated" with "wrong".
* *Two remote devices*: a partner and a third party; in `Bcu` one that is connected when the restart is scheduled and one that
  connects after it.  *Two kinds of data*: a response and one that would be
  mistaken for it.  The proofs are for any number of both.
* *Three received telegrams* in `Bcu`: connect, request, and one more (another request, an
  acknowledgement, a disconnect) reach every branch of the restart.  *Without basic restarts*: one is a
  master reset that is not answered; the proofs have both.  *One group telegram*:
  without a bound, an application that sends in every iteration would keep `sendingFrame()` true at every
  test, and a scheduled restart would wait for as long as it goes on; on the device the rate
  limit (`eib/bcu_default.cpp:136`) and the speed of the loop prevent this.
* `Bus`: *retry limits of 2* leave room for each kind of answer before and after the other; *1* in the
  liveness run, whose cost is the number of states times the conditions.
  *Telegrams of 2 bytes*: a first and a last byte, and longer than an acknowledge frame.  Collisions in
  the middle differ from those in the last byte by nothing the model can see.
  *One hand-back*: once, and not again.  No property of `bus_service` names the history, and no step depends on it.
* `Connection`: *7 requests* are what a client needs for two answers when two faults and two restarts each cost it
  one or two.  *Window 1*: it waits for each answer; a client that does not is in `tlayer4`.
  `BusLink`: *three telegrams of others* between an attempt and the next, one per attempt.
* `UserEeprom`: *2 pages of 2 rows*, so that the sector has a first page, for which it is erased, and one that is
  programmed without, and a page a row without and one with the mark, programmed in two calls.  The theorems are for every layout.  `MemMapper`: *2 flash pages for 3 virtual ones*, so that allocation fails, too; *2 offsets*: a byte that
  is written and one that must not change.  `MemoryAccess`: *requests of up to 3 bytes* over memories of 1 and 2, so
  that one request crosses two borders.  `TableAlloc`: *3 tables of 2 units* below address 8, so that there is
  one on either side of one that is unloaded, and one may be loaded again while another one stays.
* `Serial`: a ring buffer of 2 holds one byte, so that it is full and empty in turn.  `Spi`: *20 words* fill
  both FIFOs of 8 and the rest of a third, with shifts before, between and after all accesses.  `OneWire`: the
  codes differ in the first, in a middle and in the last free bit.
* `Updater`: the application is longer than a block and ends in the middle of a page; its buffer (6) has room
  for a block (4) and the half of another, which is what a repeated telegram needs to overflow it or not.
  *Retries = 2*: an answer is lost with one try left, and with none.
* *A counter that wraps after 16*: every run goes over several wraps; `Periods` and `MaxLate` stay below half of it
  and `3 * Second` below the whole, as 49 days do for the periods in the code.
* `CHECK_DEADLOCK FALSE`: a device that was reset (`Bcu`), whose bus was ended (`Bus`), a client that has what it
  wants (`Connection`), an update that is done (`Updater`, `FlashDiff`), a power supply that fails no more.

### Fairness

* `Bcu`: the main loop never stops but in `pause()`, and the clock runs (`LoopFairness`).  For the properties that
  need it, the bus interrupt ends every frame, and the bus can be paused again and again (`BusFairness`, a hypothesis of these
  properties; strong for the waits in `pause()`); `BusImplementsService` and `PauseSucceeds` are the reasons why
  it may be assumed.
* `Bus`: the timer interrupt is weakly fair, because the timer runs in every state that waits for
  it.  What depends on the line is strongly fair: frames of others end, the line falls idle again
  and again, and arbitration is won sometimes, by telegrams and by acknowledge frames (one
  condition for each, since one may win while the other waits), but not of an interrupt that `pause()` let through:
  those conditions are for a bus that is not paused.  `pause()` is strongly fair: a pausable state
  lasts for 50 bit times, in which the loop tests `canPause()` many times.  No frame is assumed to be
  answered, and nothing is assumed of the remote devices.
* `Connection`, `Updater`: both programs go on and the clocks run; telegrams that are not lost (their
  number is bounded) arrive.  A user starts a failed update again, and switches a device on again.
* `ComObjects`: the loop goes on (weak fairness), and finds the bus free again and again (strong
  fairness): that is what `BusKeepsService` and `PauseSucceeds` promise.
* `Spi`, `I2cMaster`, `Delays`: the processor goes on, and the controller ends what it does on the line.  A slave
  that holds the clock of I2C for ever is excluded: the code has no timeout for it.

## 4. Proofs

All theorems hold for every value of the constants that satisfies the named assumptions, and were
checked with TLC before they were proved.  What follows is by component; each proof module names its
components at its beginning.

**TransportProofs**

* *TLayer4* (`AddrAssumption`, `ApduAssumption`, `SeqAssumption`, `RepAssumption`,
  `TimeAssumption`): the invariants of the transport layer are inductive only together (`IInv`).
  A response is numbered when it is made, from counters that are numbers only while a connection
  is open; it moves from the second buffer to the first when an acknowledgement arrives, and is then
  right only because the second buffer was numbered one ahead; and a free first buffer has to mean a
  free second one.  One lemma per action A01 .. A10, then per operation.  `RepetitionsAreIdentical`
  and `ThirdPartiesHarmless` are action properties that follow from `IInv`.
* *Bcu* (the same assumptions): every step of the main loop is a step of `TLayer4`, or none of its
  business (`BcuImplementsTLayer4`); the one invariant needed is that the receive buffer holds what a
  remote device sent.  So the theorems about `TLayer4` hold in the device, and with its type
  invariant (`BcuTypeCorrect`, from `LoopTypeOK` for the loop's own variables).  For `ResetTellsPartner`, `RestartInv` follows
  the device that is `untold`: as long as a restart is scheduled, it is the one that is connected, and then the `T_DISCONNECT` is still
  due (`restartSendDisconnect`); whatever ends or replaces its connection, a request of another one, a timeout, an error or
  the restart itself, sends it a `T_DISCONNECT` or comes from it, by cases of what the transport layer does with a telegram
  (`ReceiveConnected`, `LoopConnected`).

**PartnerProofs**

* *Connection* (those of `TLayer4`, `ClientAssumption`): `ServedInv` looks at the requests.  The client numbers them
  in the order in which it makes them and repeats only the last one, so that the requests on their way, doubled or
  not, are in order (`RequestsInOrder`), and a request that was processed is not processed again unless it is the last one
  (`ServedInOrder`); that one is recognised by its sequence number.  `ExactlyOnce` follows without any hypothesis.
  While the connection is `clean`, `AcksInv` says that the `T_ACK`s on their way are in order and that the one for the
  last request was sent only if it was served: `AcknowledgedIsServed`.  `AnswersInv` follows the answers: those on their
  way are copies of the last one the client took, and then of the one it expects, and an acknowledgement the device
  receives belongs to its oldest response.  `RequestsAreAnswered` needs all of it, and `Window = 1`: a client that goes
  on before it has its answer can lose one (section 6).
* *BusLink* (`LinkAssumption`): `LinkInv` says what tells a repetition: while the sender's telegram was
  taken and nothing came between, the receive buffer still holds it (`BufferTells`), and it is sent with the
  repeat flag from then on (`TakenIsMarked`).  `NoDuplicates` needs nothing else; `SentWasTaken` needs that the
  telegram differs from the last one taken (`~MayEqualLast`).

**BusProofs** (`BusAssumption`): `BusInv` adds to the type invariant and the three state invariants what
the state machine must remember for them to be kept: retry counters are below their limits
whenever a telegram is on its way (otherwise the increment at its end would pass them), the byte index is
within the telegram, an ACK is awaited only after our own telegram, and a telegram was sent before
exactly if it is marked, due for repetition or waiting for its ACK (`SentIsRemembered`).  A pause that met a
pending match, and the `resume()` after it, can break all of this for the telegram that is cut off: the invariants except it
(`cutOff`), and say what still holds.  `PausedIsQuietTheorem` is for a pause that met none (`irq = "none"`).
From it follow type correctness, the four state properties, `SuccessIsAcked`, and, with
`AnswersInv`, which counts the attempts, `AttemptsAreBounded`.  `BusKeepsServiceTheorem` is the
refinement: every step is a step of `BusService` or none.

**StorageProofs**

* *UserEeprom* (`EepromAssumption`): until a save is interrupted, free pages are blank (`FreeAreBlank`); a save in progress has
  written the rows before `row`, all of them whole, and what a restart would find is still what was saved before,
  or the new device of an erased sector (`SaveState`).  `RestartFindsOldOrNew` is for every layout, and names
  the cases in which something else is found: the failure hits the erase or the row with the mark, or a save programs over what an earlier
  failure left.  `NoSaveFails` is for sectors of one page, which are erased before every save; in the other layouts (BCU1, BCU2)
  a save after an interrupted one may fail (section 6).
* *MemMapper* (`MapperAssumption`, `CleanRanges`): `MapperInv` says of the table, the buffer and the flash what is written
  and read over the other: the content the application sees is that of the buffer for its page and of the flash for the
  others (`ContentKept`); the page that will be programmed is blank, and no other page in the table names it
  (`BufferIsFree`); a save writes the table before the page, and in between the old page is still there
  (`TableIsSaved`); and what a restart finds is what was last saved (`DurableIsFound`).  A restart either finds a
  table that is sound, and the invariant holds again (`MapperRestartInv`), or one in which nothing is claimed any more (`Wild`).
  `ReadsBack` and `SurvivesPowerFailure` follow.
* *TableAlloc* (`TableAllocAssumption`): the tables that are allocated lie below each other in the order in which they
  were asked for, the last one lowest (`Placed`), and a client writes only the table it asked for
  (`Asked`).  `TablesStayDisjoint` is for any number of tables, any sizes, full and partial downloads, with and without filling;
  `LoadedStaysWhole` excludes filling, which overwrites (section 6).
* *Download* (`DownloadAssumption`): `DeviceIsKept` is for a MASK0701.  `DownloadInv`: an address that was written is in the memory
  the next save writes (`AddressIsStored`, also when `begin()` replaces 0.0.0), the address table in use is the one that is stored (`StaticTabInUse`),
  and a memory that is not marked as modified is what is in flash (`SavedUnlessModified`).
* *MemoryAccess* (`MemoryAssumption`, `RamStart = 0`): an invariant is not the difficulty here, but what the cutting of a
  request into parts returns, for every address and number of bytes.  A round of the code's loop over the
  memories ends a part at the end of the memory or of the request (`PartEndIs`, `RoundIs`); the rounds reach every
  address that lies somewhere, by induction over the rounds that remain (`SearchFinds`); hence the closed form
  of the parts (`PartsAre`), from which what a read returns (`ReadIs`) and what a write leaves (`WriteLeaves`)
  is seen byte by byte.  `RamStart = 0` is the case of BCU1 and BCU2; otherwise the status byte gets in the way (section 6).

**DriverProofs**

* *I2cMaster* (`I2cAssumption`): `LineInv` ties the flags STA and STO to the state of the controller: STO is set only when the slave
  has released the line, STA never while it drives it.  From it follow `CallLeavesBus` and
  `StopAfterRelease`.  `TransferInv` adds what the slave has heard and what was stored while no
  arbitration is lost (`AnswerInv`), and the count of those that are (`LostInv`): `TransferHeard`, `AnswerComplete`.
* *Serial* (`SerialAssumption`, at most one byte stored within `read()`): the port implements `SerialService`, for
  every size of its buffers.  `SerialInv` says where the two indices may be at each program counter;
  the refinement maps the content of the ring buffer, the hold and the shift register to one sequence.  The
  arithmetic is that of a ring: what is between two indices, how it grows and shrinks, and what an index
  out of range stands for in the middle of `read()`.

**UpdateProofs**

* *Bootloader* (`BootloaderAssumption`, `BootSpec`): the partner may send any telegram at any time and any answer may be
  lost.  `BootInv` says that the calls a command is cut into are those `iapProgram()` and `iapErase()` accept, behind the
  bootloader (`CallsAreSafe`), that what is received is a telegram (`RequestIsTelegram`), and, with `FlashHasRoom`, the two
  properties themselves.  The difficulty is the cutting of a range into blocks and sectors: a recursion whose list exists by
  induction (`CallListExists`), and whose calls take the pages of the range, each once (`ProgramTakesBlock`,
  `EraseTakesRange`): `BootloaderStays`, `OnlyWholeStarts`, `CommandsTakeTheirRange`.
* *Updater* (`UpdaterAssumption`): what the updater sends is what `BootSpec` allows (`UpdaterIsAllowed`), so that
  `BootInv` holds of it, too.  `UpdaterInv` follows one command through the telegram on its way (`Asked`), the calls
  of the device (`Busy`) and the answer (`Told`), and says of each what is already in the flash: the blocks that are counted
  (`Counted`), the block that is programmed (`Programs`, `ProgramRuns`), the descriptor (`Describes`, `DescribeRuns`).  A command that is repeated
  after it was executed finds the content it wants: `CountsWhatIsThere`.  When the tool went on without its last block, the
  blocks it counted are not the whole image; the device accepts the descriptor only if the flash holds all of it all the same:
  `SuccessStartsNew`.
* *FlashDiff* (`FlashDiffAssumption`): the commands of a page are a list in which each command says where the next one begins.  That it
  exists and ends with the page is an induction (`PieceListExists`, `PieceListIs`), and that the pieces put together are the page
  is another one, over the library's fold (`FlattenParts`); with what the search for the longest common bytes returns
  (`CommonIs`, `LongestIs`), `PageIsBuilt`: what `generateDiff()` takes apart, the decompressor puts together, if both sides
  `Agree`.  `DiffInv` needs nothing of this: the pages up to the one that is built are those of the new image
  (`PagesAre`), because the checksum stops every other (`DiffEndsWithNew`).  `NothingWrong` says that both sides agree until a fault: `DiffRecordsAgree`.  It needs `NoGap`: what is
  behind the old image is zero, or the new image is not longer (section 6).
* `SuccessIsNew` puts both kinds of update together, as the run `update` checks them.

**ApplicationProofs**

* *ComObjects* (`ObjectsAssumption`): `ObjectsInv` relates the packed flags to the history of what was asked for.  Its
  heart are lemmas about the read-modify-write of half a byte: changing one object leaves the others, also the
  one in the same byte.  The update of the objects of a group is a fold over the association table, and the closed form of
  what it leaves is again an induction: every object of the group has the value, and no other one changed
  (`GroupsInSync`, `GroupsDoAgree`).  `FlagsTell` assumes that an application does not both request reads and write the
  value's bytes without a call (`ReadsOrBytes`): the code lets one undo the other (section 6).
* *Timeouts*, *GroupRate*, *Delays* (their assumptions bound periods and lateness to half of the counter's range): the invariants relate
  the counter modulo `Wrap` to the time that has passed (`EndMatches`, `RateInv`), and, for the delays, what is left
  of a loop to the clocks since its beginning (`LoopHasLasted`, `MicrosHasLasted`, `ChunkHasLasted`).

**Induction** holds three facts the other proofs use in place of an induction rule: a set of numbers that holds 0 and with
each number the next is all of them; a set of numbers that is not empty has a smallest element, and if bounded a greatest.

Invariants that are proved are not checked again by a run where the run would show less: `TypeOK`,
`BuffersMatchState`, `PendingResponsesNumbered`, `OpenHasPartner`, `TransportLayer`, `BcuTypeOK`, `BusTypeOK`,
`SendsOnlyTelegrams`, `StateMatchesWork`, `PausedIsQuiet`, `LinkTypeOK`, `EepromTypeOK`, `SavesSucceed`, `BusLeft`, `LineReleased`,
`ReadIsAnswered`, `SerialTypeOK`, `TableAllocTypeOK`, `MapperTypeOK`, `DownloadTypeOK`, `MemoryTypeOK`,
`ObjectsTypeOK`, `TimeoutTypeOK`, `RateTypeOK`, `DelayTypeOK`.

Only model-checked:

* everything under fairness (`LoopKeepsRunning`, `RestartHappens`, `WritesAreSaved`, `PauseSucceeds`, the liveness
  half of `BusImplementsService`, `EveryClientIsServed`, `EveryTransferReturns`, `EveryUpdateEnds`,
  `NothingIsForgotten`), because liveness is out of the prover's reach;
* `FindsDevices` of `OneWire`: the argument is about the whole tree of ROM codes that a search walks, and every device that
  comes or goes changes it in the middle of a walk.

## 5. Not modelled

* **Tables** (`eib/addr_tables*.cpp`): look-ups without a state of their own.
* **Pins, ports, print, utilities, logging, bus monitor**: hardware access and formatting.
* **Button and LED**: `Debouncer` and the programming button; one pin compared with its last value.
* **Sensors and displays** (`i2c/`, `sensors/`, `lcd/`): sequential drivers of single chips.
* **`Timer`**: registers of the hardware timers.
* **SYSTEMB communication objects**: the same operations over configuration tables of another layout.
* **Bootloader updater**: copies one image over the bootloader; a power failure there leaves no
  device, and nothing in the code handles one.
* **Bootloader**: dumps and the other commands that only read, and the protocol version before 1.
* **Updater**: command line, progress, hex files, the discovery of interfaces.
* **Tests, examples, u8glib, Catch**: users of the library and third-party code.  Most of the
  repository's lines are these (half of them are two font tables).

Within the modelled parts:

* bits, bytes and microseconds on the line.  What the state machine does with them is reduced to the
  events that change its state; whether its windows fit the KNX specification is not a question of this model;
* the bus monitor mode and the transport layer switched off by the BCU's status byte;
* hardware faults (`fatalError()`);
* the 250 ms, 3 s and 6 s themselves: only their order matters here.

## 6. Where code and documents disagree

Shown by a run:

* `bcu_restart`: the response to a master reset waits in the connection's buffer until the next
  `TLayer4::loop()`; the restart code disconnects in the same iteration if the bus is free by then,
  which discards it.  A test says that one `loop()` sends the response
  (`test/lib-test-cases/src/test_prot_apci.cpp:125`).
* `bus_pause`: `pause()` disables the interrupts so that nothing can happen between its decision and the state `INIT`
  (`eib/bus.cpp:123`).  A match that has come due by then stays pending, since neither its flag nor the pending
  interrupt is reset: after `interrupts()` the handler finds it in state `INIT`, switches the match interrupt on again and goes on to
  `WAIT_50BT_FOR_NEXT_RX_OR_PENDING_TX_OR_IDLE` (`eib/bus.cpp:616-633`), from where frames are received and a waiting telegram
  is sent, while the main loop erases and programs the flash; `resume()` then cuts off what is on the line.
* `bus_retries`: a telegram is given up as soon as either retry counter is at its limit
  (`eib/bus.cpp:461`, `883`); the document (line 250) gives BUSY and the other failures a
  budget of their own.

Met while modelling, and shown by no run of its own.  The models take the code as it is, and the properties are stated,
or the constants chosen, so that they say what holds nevertheless:

* **Link** (`eib/bus.cpp:416`).  A telegram that finds the receive buffer full is not answered at all, on purpose, where
  `doc/KNX TP1 Bus implementation.md:262` and the comment at `eib/bus.cpp:324` say BUSY.
* **Connection** (`knx_tlayer4.cpp:367`).  A `T_CONNECT` of the partner of an open connection is ignored, and the
  sequence numbers stay: if the `T_DISCONNECT` before was lost, the first request of the new
  connection may be taken for a repetition, acknowledged and not processed (`clean` in `AcknowledgedIsServed`).
* **Connection** (`knx_tlayer4.cpp:771`).  A request is answered into the second send buffer while the response to the one
  before is not acknowledged.  If that `T_ACK` is lost and the client sends a third request, its response takes the place of the
  second (`Window = 1` in `RequestsAreAnswered`).
* **Link** (`eib/bus.cpp:401`).  A telegram equal to the one taken last, whose first attempt is
  garbled, is acknowledged and dropped as its repetition (`MayEqualLast`).
* **User memory** (`eib/userEeprom.cpp:41`, `86`, `104`).  A power failure within an erase may leave a half erased page that still has
  its mark, and one within the row with the mark may leave the mark and a row that is not whole: both are read after the
  restart, as there is no checksum.  A power failure within an erase or within `iapProgram()` may also leave a free page that
  is not blank; a later save programs over it and ends in `fatalError()`, and if its last row was programmed the page is found after the
  restart (`spoiled` in `OldOrNew`).  `writeDelayElapsed()` is true whenever there is something to save
  (`eib/userEeprom.cpp:165`), so that the 50 ms of `modified()` delay nothing; that is how `Bcu` has it.  Also, `iap.cpp:83` enables the interrupts after each call, where `userEeprom.h:99` says that all are
  disabled.
* **Memory mapper** (`mem_mapper.cpp:121`, `206`).  `addRange()` overwrites a write buffer that was not flashed (`CleanRanges`); a write to
  an address that is not mapped, without `autoAddPage`, goes to flash page 0 and reports success (`CheckedWrites`: the callers in
  the library test `isMapped()`).  A table that a power failure left corrupted passes the check of the constructor unless it
  holds two zeros (`"wild"`).
* **Memory services** (`eib/userRam.cpp:62`).  The status byte is recognised by an index after it was recognised by its address:
  another byte of the RAM of a BIM112 is taken for it.
* **Load states** (`eib/propertiesBCU2.cpp:656`).  A load state written as a property is not marked for saving; after a restart the
  old one is back (`SavedUnlessModified` is about what was marked, by a MASK0701's memory writes).
* **Table memory** (`eib/propertiesSYSTEMB.cpp:179`).  Filling starts at the table above the new one (`Modes`).
* **Communication objects** (`eib/com_objects.cpp:320`, `491`, `eib/com_objects.h:392`).  A write leaves the mark of a read request that was not sent:
  a read goes out instead of the value; the status after a telegram was sent is "error"; a write or a request
  of the application clears the update flag of a value that was not yet reported, which is then never reported (`"dropped"`;
  `NothingIsForgotten` is about the reports that are still due).
* **Serial port** (`buffered_stream.cpp:21`, `serial.cpp:170`).  Two bytes stored in the middle of `read()` empty a full buffer
  (`MaxInWindow`); `flush()` does not wait for the registers of the UART.
* **SPI** (`spi.cpp:202`, `224`, `195`).  Short blocks are finished before the interrupt is enabled, which then races with the
  reader (`MinAsynchron`); a block that is not finalized at once may lose words, and the wait for them does not end
  (`Prompt`); `SPI_PORT_1` sends through port 0 (`SspPort`).
* **I2C** (`i2c.cpp:561`, `303`).  A transfer whose arbitration is lost goes on where it stopped, and a write whose last byte was
  already handed over becomes a read through a null pointer; a byte counts as sent before it is acknowledged
  (`DoneMeansHeard` and `ReadIsAnswered` are for transfers without a lost arbitration).
* **One-wire** (`onewire.cpp:451`).  A search on a line that is held low returns true without an address (`FindsDevices`
  asks for nothing of a search during which the line is short).
* **Updater** (`DeviceManagement.java:276`).  It sends the data of a command again although its last attempt was
  acknowledged, and the bootloader appends what it receives: after one lost answer the update fails, and has to be
  started again.  It does not repeat the last block when the device counts too many or too few bytes
  (`FlashFullMode.java:50`, `102-105`), but goes on to the boot descriptor, which the device then refuses.
* **Differential update** (`tests/flashdiff/FlashDiff.java:132`).  The flash behind a shorter old image is taken for zeros:
  an update to a longer image fails, and so does every further try (`NewLengths`, and `NoGap` in `DiffRecordsAgree`).

## 7. Plan

Done: all components of section 1 that have a protocol, a concurrent or a persistent state.  Then, in this order:

1. The type invariants of `Spi`, `Updater` and `FlashDiff`, and of `OneWire` as far as it needs no tree, as theorems.
2. `ComObjects` for SYSTEMB, and the main loop over several clients with the group telegrams of `ComObjects`
   instead of a free choice.
3. The sensors on a one-wire line and the DS2482 bridge, whose searches differ from `OneWire`'s.

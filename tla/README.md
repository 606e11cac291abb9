# A TLA+ verification project for Tuxniffer

Tuxniffer drives one or more Texas Instruments sniffer boards over serial lines and
delivers the captured packets to `.pcap` files and to named pipes read by Wireshark.
This directory holds TLA+ models of the program, the TLC configurations that check
them, and proofs for TLAPS.

## 1. Inventory of the system

Line numbers are those of the files under `src/`.

| Component | State it keeps | Operations | Interacts with |
|---|---|---|---|
| `main` (`src/main.cpp`) | devices, log, pipe and key settings, duration | read the options, parse the configuration file, print an example and the radio table, build `Sniffer`, run | fkYAML, Sniffer |
| `Sniffer` (`src/sniffer.cpp`) | device list, thread list, output manager thread | `configureAllDevices`, `initAllDevices`, two `streamAll` | joins device threads, configures, starts and stops OutputManager |
| `Device` (`src/device.cpp`) | `state`, `is_ready`, `is_streaming`, process-wide `interruption` | `connect`, `init`, `start`, `stop`, `ping`, `configure`, two `stream`, `receive_response`, `reconnect`, `signal_handler` | Serial, Framer, CommandAssembler, `OutputManager::add_packet` |
| `Framer` (`src/framer.cpp`) | parser state, length, index, 256-byte payload buffer | `process`, `reset`, `recover` | one fresh Framer per `receive_response` |
| `Serial` (`src/serial.cpp`) | file descriptor | `connect`, `disconnect`, `closePort`, reads, writes, `flush`, `purge` | shares the process descriptor table with pipes and log files |
| `OutputManager` (`src/output_manager.cpp`) | bounded packet queue, mutex, `is_running`, `can_run`, log files, key packets, pipe handlers, start time | `configure*`, `add_packet`, `run`, `handle_packet`, `recreate_log_files`, `saveKeyPackets`, `loadAndSimulateKeyPackets` | device threads produce, its thread consumes, forwards to PipePacketHandler |
| `PipePacketHandler`, `Pipe` (`src/pipe_packet_handler.cpp`, `src/pipe.cpp`) | one queue and key list per pipe, `is_running`, `is_open`, process-wide `pipe_interrupted` | `add_packet`, `run`, `SIGPIPE` handler, `create`, `open`, `write`, `close` | fed by OutputManager, read by an external consumer |
| `CryptoHandler` (`src/crypto_handler.cpp`) | link and network keys, learnt security level | `extract_key`, `handle_decryption`, key hash, CCM | PayloadHandler, called by OutputManager |
| `PayloadHandler` (`src/payload_handler.cpp`) | none | finds the headers of the MAC, network and application layers, the nonce, the message of the key hash | CryptoHandler |
| `CommandAssembler` (`src/command_assembler.cpp`) | none | tables of radio modes, commands, `verify_response`, channel to frequency, fields of a frame | Device, PcapBuilder, `main` |
| `PcapBuilder` (`src/pcap_builder.cpp`) | none | record headers, mock IP and UDP headers, dates | file and pipe output |
| `fkYAML.hpp` (vendored) | the text, its tokens, a stack of contexts, the tree | encodings, scalars, deserializer | `main` gives it the configuration file |
| `common.cpp` | none | structures; error texts | all; debug output |

## 2. Plan

In the order of writing; points 1 to 7 are written.

1. `OutputManager` + `Sniffer` (the capture session: main thread, device threads, output
   thread), TLC and TLAPS.
2. `PipePacketHandler` (several pipes, shared `SIGPIPE` flag, readers that come and go), and
   `LossyChannel`, the abstract specification it implements, TLC and TLAPS.
3. `Framer` (byte state machine, length arithmetic, resynchronisation), TLC and TLAPS.
4. `DeviceLink` (host commands against the firmware over the serial line, late and crossed
   answers, the recursion of reconnections).
5. `KeyExtraction`, `ZigbeeCrypto`, `PayloadHandler` (which keys are learnt; what is decrypted).
6. `CommandAssembler`, `PcapBuilder`, `RecordDates` (radio tables, records, their dates).
7. `Settings` and, below it, `Encodings`, `Scalars`, `Deserializer` (from the command line or a
   file to the settings of a session).
8. Left: `Descriptors`, the descriptor table of the process (`reconnect` closes a port that
   `disconnect` has closed already, device.cpp:351).

## 3. Modules

| Module | Models | Read with |
|---|---|---|
| `OutputManager` | state and operations of the output manager | `output_manager.cpp`, `extract_key` |
| `Sniffer` (extends it) | the session: main, device and output threads, signals; the properties | `sniffer.cpp`, `device.cpp`, `main.cpp` |
| `MCSniffer` | settings and saved files for TLC | |
| `SnifferProofs` | theorems about `Sniffer`: control, types, signals; what is written where | |
| `Selection` | `SelectSeq` as a recursive function, for `Sniffer`, `Framer` and `RecordDates` | |
| `SelectionProofs` | lemmas about it; the least element of a set of numbers | |
| `LossyChannel` | what a producer may count on from a bounded queue and its consumer (abstract); the packet queue and every pipe implement it | |
| `PipePacketHandler`, `MCPipes` | the pipe threads and their readers | `pipe_packet_handler.cpp`, `pipe.cpp` |
| `PipeProofs` | theorems about `PipePacketHandler` | |
| `Framer`, `MCFramer` | `receive_response`, the Framer and the line | `framer.cpp`, `device.cpp:265-332` |
| `FramerProofs` | theorems about `Framer` | |
| `DeviceLink` | the commands of a device, the line, the firmware, reconnections | `device.cpp`, `serial.cpp`, `command_assembler.cpp` |
| `DeviceLinkProofs` | theorems about `DeviceLink` | |
| `PayloadHandler` | the layers of a frame | `payload_handler.cpp` |
| `ZigbeeCrypto` (extends it) | key hash and authenticated encryption over bytes | `crypto_handler.cpp:49-389` |
| `KeyExtraction` | the keys and the level a session learns | `crypto_handler.cpp:325-463` |
| `KeyProofs` | theorems about `KeyExtraction` | |
| `MCKeys` | frames, composed field by field | |
| `CommandAssembler` | radio tables, commands, frequencies | `command_assembler.cpp`, `.hpp` |
| `PcapBuilder` (extends it) | a record and its date | `pcap_builder.cpp` |
| `RecordDates` (extends it), `MCRecords` | the timers of the boards and the start time | `output_manager.cpp:244-309, 428-478` |
| `RecordProofs` | theorems about `RecordDates` and `PcapBuilder` | |
| `Settings` | options, configuration file, what is printed | `main.cpp` |
| `SettingsProofs` | theorems about `Settings` | |
| `Encodings` | from bytes to a text | `fkYAML.hpp`, `utf` namespace and input adapters |
| `Scalars` | type and value of a plain scalar | `fkYAML.hpp`, scalar scanner and conversions |
| `Deserializer` | from tokens to a tree | `fkYAML.hpp`, `basic_deserializer` |
| `MCDocuments`, `MCSettings` | documents in several layouts; files and command lines | |

Settings, dates and keys come in pairs of a system and a set of operators. TLC checks both in
one run: its MC module adds a variable `job`, which is an input for the operators in some initial
states (nothing moves then) and no input in the others, where the system runs.

Every definition that stands for code is in the "map" of `PROJECT.json` with its lines.
Definitions whose comment calls them a variant are not part of the system: each is a plausible
mistake (a dropped guard, a swapped order, a missing reset) and serves to see that the property
named with it under "mutants" would notice.

### OutputManager and Sniffer

* `queue` is `packet_queue`; `AddPacket` is one step, as the device threads hold `m_mutex` in
  it. `OMTake` is one step for the same reason: `front`, `pop` and `handle_packet` run under
  the lock. `MutexFree` keeps device threads out while a saved packet is simulated, which holds
  the lock over all pipe handlers.
* The loop condition of `run` reads `is_running`, the queue and `can_run` without the lock,
  one after the other; `OMTest` takes a step per read where another thread may intervene, and
  `OMPeek` is the unlocked emptiness check of the body. These reads race with writes in C++.
  The model reads each variable at once: `is_running` is a byte that is read again after calls
  the compiler cannot see through, and of the two iterators that `empty` compares the other
  threads only advance the second when the queue is empty.
* `HandlePacket` is the whole of `handle_packet`: first packet, recreation of the files, key
  extraction, log file, pipe. `logFiles` holds what each open file was opened for, so that a
  record in the wrong file can be seen. Indexing past the end of a vector sets `fault`; the
  process crashes there or goes on.
* `ExtractKey` leaves the outcome of the cryptography open; it keeps what follows from the code,
  that a key known already does not count and that other commands do.
* The thread of a device is `spawned` (with `start` before it), `streaming`, `leaving`,
  `stopping`, `done`. A connection that is lost and restored shows as a pause in the captures;
  one that cannot be closed sets `interruption` (`LinkLost`).
* `sigint` is the disposition of the process, which threads set in `EnterStream` and reset in
  `LeaveStream`. `Interrupt` may come in every state.
* The pipe threads appear with their life only (`PipeStep`). That this is what they do is the
  property `LifeAsAssumed` of `PipePacketHandler`.

### PipePacketHandler

The thread's program counter follows `run`: create, open loop, global header, inner loop,
notice of an interruption, repetition of the key packets. `pipeInterrupted` is one variable for
all pipes. A write fails for want of a reader (`TakeBroken`, which raises SIGPIPE) or because
the pipe is full (`TakeFull`); either call of the two per packet may fail. `stream` is what the
reader that is there now finds in the pipe; while the thread holds the pipe open the next reader
finds what the last has left. `isPipeOpen` asks whether the descriptor is valid, which it is at
that place, so that the check after a packet (lines 137-140) never leaves the loop; `Test`
says so. `OutputAdds` lets the process die when `key_packets` grows while it is iterated.

`LossyChannel` is the promise to a producer: the packets it gives away are numbered, each is
delivered once or lost, in order, and the oldest is lost first. The output thread has it from every
pipe; the device threads together have it from the packet queue of the output manager
(`QueueLosesOldest`), where a packet's number is its place among all that were captured. The mapping
of a pipe takes the
packets of a queue that are no repetitions of keys for those that wait; a packet is delivered when
both of its writes have succeeded, and lost when one fails. A global header, a repetition sent and
an eviction of a repetition are stutters.

### Framer

`ReadByte` is a round of the loop of `receive_response`: the byte joins the response, `process`
moves the Framer, an error clears both. `Timeout` is ten silent seconds; the next call has a
new Framer. Lengths are those of `uint16_t`. Every byte of a frame may be the one that is lost.

### DeviceLink

The line carries commands and frames, not bytes: what the Framer makes of bytes is `Framer`.
`receive_response` calls `reconnect`, which calls `init` and `start`, which call
`receive_response`; `stack` holds the calls that wait, each with the firmware's number that its
`init` keeps, `Following` the order in which `init` and the device's thread make them, and `Fail`,
`Unanswered` and `Succeed` what each caller does with a result.
`pc` is `lost` in the loop of `reconnect` and `pause` in its sleep.

* `verify_response` sees the kind of a frame and a status (`Verified`). `fresh` is a mark of the
  model: the frame answers the command sent last. The program cannot see it.
* `disassemble_ping` finds the firmware's number in the answer to a ping, any byte in a packet, and
  nothing in the answer to another command, where the program reads from an empty vector
  (`crashed`). A number that is not in the tables gives empty commands, which are written all
  the same (`Assembled`).
* `configure` has one vector for the answers to set-PHY and set-frequency. `receive_response` writes
  it when a frame comes and not otherwise, and its result is not looked at (device.cpp:174): a freq
  that gets no frame passes with the answer to phy (`Unanswered`). `radio` therefore says what the
  board is set to: nothing of use, the mode alone, or mode and channel. `unanswered` is the history.
* `interruption` may be set from the first call of `init` on: by a signal, and by another device
  whose port cannot be closed.
* `Purge` drops the oldest frames, those that have reached the host, and the newest commands,
  those that have not left it.
* The firmware, the line and the cable are external: the firmware obeys or refuses, the line
  loses, a board starts anew or goes on when the cable is pulled. The moment at which it is put
  back makes no difference but for the success of `connect` in `Attempt`.
* A board that was left streaming by a killed session is an initial state.

### KeyExtraction, ZigbeeCrypto, PayloadHandler

* `KeyExtraction` is symbolic: a frame is the keys and the level it was secured with and the key
  it carries. `Attempts` is the loop of `handle_decryption` over levels and keys with the
  numbers that pile up in the header and the nonce; an attempt succeeds when they are what the
  sender used. `learntFrom` is a history of the frames that gave keys.
* A payload that is shorter than the tag makes the constructor of a vector throw (`TooShort`);
  nobody catches it and the session of the model ends (`running`).
* `ZigbeeCrypto` has the bytes: length fields, padding, the hash, CCM, one attempt. AES
  (`encryptBlock`, a call of OpenSSL) is the constant `BlockCipher`, to which `MCKeys`
  gives a function of all bytes of key and block.
* `PayloadHandler` has the offsets of all three layers and the checks that answer false.

### CommandAssembler, PcapBuilder, RecordDates

* Frequencies are integers in kHz, which holds every channel of the program exactly;
  `Fraction` is what a float keeps of the fraction of a MHz: it has 24 bits, of which a
  frequency leaves 14 or 15 to the fraction.
* `PcapBuilder` counts in microseconds; `Second` and `Width` stand for 10^6 and 2^32, so that
  the missing carry and the cast to 32 bits show in few steps.
* `RecordDates` has a timer per board, which starts anew with the board. `HandlePackets` fixes the
  start time at the first packet handled, whosever it is, and tells every pipe thread. `at`,
  `life` and `base` are history.

### Settings, Encodings, Scalars, Deserializer

* A step of `Settings` is a round of the loop over the arguments, which are chosen as they are
  read. What the uninitialised `Device` of the options holds is a choice (`Garbage`). The parsed
  file replaces all settings, as the assignments of `parse_input_file_yaml` do.
* A file is the node fkYAML makes of it. The other modules say how it comes to that node, but for
  the scan of a text for tokens: `Encodings` goes from bytes to a text, chunk by chunk,
  `Scalars` from the text of a plain scalar to a type and an integer, and `Deserializer` from
  tokens to the tree, one token per step (with those its handler asks for), over the stack of
  contexts with their columns and lines.
* `MCDocuments` writes trees as tokens in several layouts: block or flow, compact or not, with
  `?` before keys, before a directive or the end of a document.

## 4. Runs

| Run | Result | Distinct states | Shows |
|---|---|---|---|
| `session` | holds | 1.80 million | the packet queue is a `LossyChannel` (refinement), drained queue, records in place, indices, signals |
| `shutdown` | holds | 163 545 | keys first; an interrupted session ends (liveness) |
| `pipes` | holds | 1.96 million | a pipe is a `LossyChannel` (refinement), pcap stream, unlocked check, life of the thread |
| `one_pipe` | holds | 58 269 | keys for the next reader; a stop ends the thread (liveness) |
| `framer` | holds | 505 192 | what was sent is returned, on a good line all of it; in step again after losses |
| `device_link` | holds | 1.99 million | answers in step, modes and channels, end of nested reconnections (liveness) |
| `keys` | holds | 1 456 | keys are learnt along a chain; frames are taken apart as they were composed; unambiguous encodings |
| `records` | holds | 1.78 million | dates against captures; lengths and fields of a record; commands that differ |
| `settings` | holds | 1.48 million | files against options; printed example and table; texts, integers, trees |
| `half_connected` | violated | | packets stay in the queue when `fail_count` equals the thread count |
| `lost_stop` | violated | | a stop before `is_running = true` is lost, the session hangs |
| `known_keys` | violated | | a frame under a known key is not read |

The violated properties state what a comment of the code or the test plan says; `PROJECT.json`
quotes it under "findings".

### Traces worth knowing

No run is devoted to these; the models have them, and the properties are stated so that they are
allowed.

Session and outputs:

* A gap in the ready devices (the first fails, the second streams) makes the packets of a device
  go to the log file or the pipe of another, or past the end of the vector, as both are indexed
  by device id (output_manager.cpp:277). `IndexInBounds` and `RecordsInPlace` therefore assume
  `ReadyIsPrefix`.
* When all connected devices fail to initialise and another did not connect, `initAllDevices`
  configures the outputs, `streamAll` returns at once and the destructor of a running
  `std::thread` ends the program (`MainReturn`, `proc = "terminated"`).
* In a session with a duration, the first device that finishes restores the default action of
  SIGINT, so that the first Ctrl-C kills the others (device.cpp:255).
* A device whose port cannot be closed sets `interruption` (device.cpp:343). While the other
  devices still stream the first Ctrl-C then finds it set and ends the program at once
  (device.cpp:34), where device.cpp:43 announces that of the second one.
  `UntimedForceFindsInterruption` says of both ends, `exit` and the default action, that they find
  `interruption` set, and no more.
* The packets in a pipe's queue when the thread is told to stop are dropped, whether or not it
  has a reader. A reader that attaches while the pipe is still held open for the last one gets no
  global header.
* The key packets saved when `key_save_path` is `simulation_path` replace those of the file
  (`OMClose`), where `config.yaml:35` says they are appended. What is saved is every command that
  could be decrypted, with or without a key in it.

Device:

* A freq that gets no frame, because it or its answer was lost or because the port went and did not
  come back before an interruption, passes with the answer to phy that is still in `response`
  (device.cpp:174-175). `init` answers true, and the device streams on whatever channel its board
  has. `InStep` says that a message must have been lost for it on a calm link, and `CapturesInMode`
  leaves such a device out.
* A hang-up in the last `stop` leaves a board that streams, with state STOPPED. A reconnection in
  the middle of `init` leaves a device that streams and is not ready.
* A board that an earlier session left streaming sends a packet before it reads `stop`; the packet
  counts as the answer, every later answer is one command behind, and `ping` reads the answer to
  `stop` past its end (`pc = "crashed"`).
* An answer that comes more than ten seconds late is queued as a packet; `get_payload`
  (command_assembler.cpp:520) then inserts a negative range, which throws `length_error`.

Keys and records:

* `handle_decryption` tries levels 5, 11, 18 where 5, 6, 7 are meant, and with a second key twice
  the level: `FirstKeysWork` states what does work. Level 4 gives no key at all.
* A date is start time plus reading in seconds, and in microseconds, without a carry: packets
  less than a second apart may change places, and the time is cut to whole seconds. Records of
  other boards, of a board that started anew and of every board when a simulated packet was first
  have dates that are off by the difference of the timers. `NearCapture` and `OrderAfterASecond`
  say how far the dates can be trusted.
* Two ports with the same digits share an interface number, and a port without digits makes
  `stoi` throw (pcap_builder.cpp:109). The comment at command_assembler.hpp:49-53 has bands
  swapped against `calculateFinalFreq` and the table of `main.cpp:89`, which agree.

Settings:

* Mode 0 and channel 0 exist and are refused on the command line (main.cpp:376). A device of the
  options has whatever was in memory for what they leave out. The option without a value at the
  end reads past the arguments. Bad values of -r, -m, -c and -t end the program although -i makes
  them irrelevant. No option enables the log file.
* The name of a pipe is read from `base_name`, where the printed example and config.yaml:23 have
  `name`. A value of another type than the code asks for ends the program. Security level 4
  becomes -1.
* A carriage return is kept in UTF-8 and the character behind it dropped; a UTF-16 text that ends
  in a surrogate pair has it twice; an empty text with a byte order mark becomes a NUL.
* `1e34` is the integer 1, `-012` is -10 and `012` a string; `1.` at the end of a value ends the
  program (fkYAML.hpp:2428).
* In a block, a sequence whose dashes stand in the column of its key swallows the keys that
  follow, unless at the margin; so does a key without a value. A second key with `?` goes to the
  outer node, a `?` key with a block on the next line loses its value, and `[a: 1, b]` is
  misread. A scalar behind a flow sequence at the root is appended to it. A second document throws, where fkYAML.hpp:4349 says that the first
  only is parsed.

### Bounds, and why they are enough

* `session`: two devices (one may fail, be first or last, or both stream), a queue of two and
  two packets per device, so that the queue is empty, partly filled, full and overflows twice;
  one recreation of the files; no encrypted commands, which matter to `shutdown`. `AllOutputs`
  has pipes alone, files alone, and both with at least one of them split; files of either kind are
  there with and without recreation, but not with every kind of pipes, which take no part in it.
* `shutdown`: a key saved earlier, a queue of one, one packet per device; the properties are
  about order and end, which need no more.
* `pipes`: two threads for the shared flag, queues of two and two packets each; one reader per
  pipe; symmetric in the pipes (its temporal properties are about single steps, and the
  refinement's mapping is symmetric too). `one_pipe`: a second reader, and a third packet.
* `framer`: four frames, two of them damaged, so that a damaged frame can be followed by a
  damaged and by two whole ones. A payload buffer of four bytes stands for that of 256, with
  frames that fill it, and one whose last byte is zero. Data contain the delimiter bytes.
  `FramesAsSent` depends on the frames: one whose data hold a complete frame would be a counterexample, as the checksum is not verified.
* `device_link`: two hang-ups, so that a reconnection can happen inside another; one fault (a lost
  message, a refusal, an error frame), or a board that is late from some point on; one packet
  held back at a time. The firmware knows the mode of the device (`Offered`); the tables fail to
  know it when a packet was taken for the answer to a ping.
* `keys`: two keys and the standard one, so that a key can be learnt under a key learnt, and a
  list can have a second key behind the first; all levels and settings; payloads shorter than
  every tag, than some, than none. The operators get every combination of addresses, routes and
  secured layers, and lengths on both sides of each place where an encoding changes.
* `records`: a clock of three microseconds a second and sixteen values of 32-bit microseconds, five
  ticks, so that seconds, the cast and both together wrap; two boards that start together or two
  ticks apart, one restart, two captures, a saved packet or none, a time zone of a second to the
  west. All modes and firmwares; lengths around those at which a header's byte carries.
* `settings`: four options, as a setting can be set, overwritten and followed by -i on either side;
  words that are numbers, zero, periods, names of files; files that lack, repeat, mistype each
  section. Chunks of four bytes stand for those of 256 with all texts of up to three characters
  at the ends of the ranges of each encoding, so that a character or a pair lies across a chunk;
  scalars of up to five of ten characters; trees of three levels.

`CHECK_DEADLOCK FALSE` is set for `keys`, `known_keys`, `records` and `settings`: an input to
an operator does not move, a program that has read its arguments or was ended by an exception is
at its end, and a clock at its bound stops. All other systems may not stop.

### Fairness

`Sniffer` assumes weak fairness of the main thread, the output thread, the pipe threads and each
device thread: they are threads of an operating system that schedules them, and the blocking
calls they make return, `receive_response` by its timeout of ten seconds and `open` because it
does not block. Captures, lost links, signals are not fair: they need never come. Leaving a
stream without packets requires `interruption`, because the duration of a session is checked
after a packet only, so that liveness is stated from an interruption on. `StartedSessionEnds`
assumes that no stop is lost; `lost_stop` shows that this assumption is needed.
`DeviceLink` assumes weak fairness of the device's thread alone: its reads do not block and its
waits are bounded by ten seconds. The board owes nothing; it is only that hang-ups and error
frames are finitely many, as `stream` does not look at `interruption` after an error frame.
`PipePacketHandler` assumes weak fairness of its threads alone, not of readers or of the output
thread.

## 5. Proofs

`SnifferProofs` proves for every number of devices, queue limit, set of settings and bound:
`TypeCorrect`, `AccountingHolds`, `TakeIsSafe`, `LeavesQueueEmpty`, `IndicesInBounds` and
`UntimedForce`. They use the assumptions of `OutputManager` and `Sniffer` on the constants
and nothing about the number of packets. The inductive invariant is

    IInv == TypeOK /\ Accounting /\ ControlInv /\ OutputsInv

* `Accounting` says that what has left the queue, followed by what is in it, is what was accepted. No
  run checks it on its own: it is a part of what `QueueLosesOldest` says, whose proof uses it.
* `Drained` is not inductive: that nothing is added once the output thread has seen
  `is_running` cleared and an empty queue follows from the order of the threads
  (`ThreadsInv`: main clears `is_running` after it has joined the streams, and the queue is
  tested after `is_running` was found cleared). The order of the two reads is what makes it true.
* `TakeFindsPacket` holds as the output thread alone shortens the queue below its limit.
* `IndexInBounds` needs the lengths of the vectors (`FilesInv`, `PipesInv`) and that packets
  come from ready devices (`ReadyInv`); from these and `ReadyIsPrefix` a counting argument gives
  that an id is smaller than the number of ready devices. Types need `PipesInv`, as a simulated
  packet takes the index of a handler for a device.
* `UntimedForce` rests on a second invariant, `SignalInv`: without a duration a thread
  leaves its loop, and resets the disposition, only after it has seen `interruption`; the handler
  ends the program only when it finds it set.

`PipeProofs` proves for every set of pipes, queue limit and number of packets and readers:
`PipesTypeOK`, `PipesTakeFindsPacket`, `PipesLiveAsAssumed`, and `PipesAreLossyChannels`, that
`PipePacketHandler` implements `LossyChannel`: initial states map to initial states, and every step
maps to a step of the channel or a stutter. The inductive invariant is

    IInv == TypeOK /\ TakeFindsPacket /\ ReplayInv /\ OrderInv

* `ReplayInv`: the loop that repeats the keys stays within the `key_packets` it began with, which
  only grow; without it a repetition could be of a packet that is not there, and types fail.
* `OrderInv`: the first-time packets of a queue are in the order of their numbers, and none is
  newer than the last one accepted. From it the front of the queue is the oldest that waits
  (`Oldest` of the channel), which an eviction loses and a write delivers. A repetition may stand
  anywhere and is no packet of the channel.
* `TakeFindsPacket` is what makes the unlocked check of emptiness harmless: between it and the
  lock the output thread evicts only from a full queue, and adds one in the same step.

`ReadersFindPcap` and `NextReaderGetsKeys` follow from two more invariants, which rest on the
first:

* `PcapInv` ties what is in a pipe to the place of its thread: nothing before the global header,
  the header first and once if the reader came in time, and a cut record only where the thread
  has left the inner loop, so that nothing can be written behind it.
* `KeysInv` says, of a pipe alone, that during the repetition all keys but those of the part still
  to come are in the queue, or something was evicted. That `broken` and the thread's notice of it
  go together (`pipe_interrupted`) is where a second pipe would disturb it: it would clear the
  flag.

To the invariant of the session are added, for what is written where:

* `RecordsAreInPlace`: `PlaceInv`, that the i-th open file and the i-th handler are of the i-th
  device when the ready devices are the first ones, and that all open files are of the current
  period. That ids and places are the same numbering is the counting argument of `IndexInBounds`.
* `KeptPacketsAreWritten`: `NumberedInv`, that the captured packets are all different and what
  was evicted has left the queue. The property compares selections of three sequences; each
  grows by one packet at a time (`SelectedAppend`), and an eviction takes a packet that was never
  written.
* `QueueIsLossyChannel`: every step of the session is a step of `LossyChannel` or a stutter, for any
  number of devices. A number is the place of a packet among the captured ones; the front of the queue
  is then the least number that waits, as the queue is in the order of the captures. `NumberedInv` is
  what makes places and packets the same thing.
* `SavedKeysComeFirst`: `TurnInv`, how many of the saved packets each pipe has got after a number
  of steps of the simulation (`Rounds`: they are given in turn, so that quotient and rest count
  them). It is needed as the property speaks of the end of the simulation alone.

`DeviceLinkProofs` proves `LinkTypes` (with the depth of the nested calls), `CalmLinkInStep`,
`CapturedInMode` and `StoppedBoardSilent` from one invariant, `LinkInvariance`, for every number of
hang-ups, faults and messages on the line, and whatever the tables of the radio modes say:

    IInv == TypeOK /\ DepthInv /\ LineInv /\ CommandInv /\ AnswerInv /\ ConfiguringInv
              /\ ModeInv /\ CalmInv /\ StopInv /\ CapturesInMode

* `DepthInv`: calls of `receive_response` wait on each other only after a hang-up each. It bounds
  `stack` by `hangups`, without which types are not inductive; `LineInv`: a line that is not open
  is empty.
* `CommandInv`: a command other than stop is on its way only while its call waits; when a call has
  ended without a frame, or has been interrupted by a reconnection, nothing of it is left to be
  obeyed.
* `AnswerInv` is the reason why answers that cannot be told apart are told apart all the same: of
  the frames on the line at most one is fresh, it answers the command that is out, and after an
  obeyed stop nothing comes behind it. `ConfiguringInv` is what holds then until `start`: silence.
* `ModeInv` carries the firmware's number, the mode and the channel from the answers to the packets.
* Each of these holds for some pasts only. `Sound`: init took no wrong frame, no answer was late, and
  freq was passed off with another answer at most on a calm link; there the board still does as it is
  told, in step, and `InStep` needs no more. `ModeInv` needs that freq was answered as well. Without
  a wrong frame at all (`InTurn`), or a loss (`Faultless`), freq may have been passed off after a
  hang-up too: `StopInv` and so `EndsStopped` cover those devices.
* `CalmInv` is `InStep` strengthened to the frames still on the line. That freq is passed off only if
  a message was lost follows from one of its parts: as long as none was, a command of init that was
  written is on its way or answered. `StopInv` names the places at which a board may stream although
  the state is STOPPED.

`KeyProofs` proves `KeysLearntInChain` and `FirstKeysAlwaysWork` for all sets of keys and frames and
every configured level. `LearntInChain` is inductive with types alone: as `level` is that of every
frame that gave a key, it is known once there is one, and stays. The lemmas about `Attempts` do the
work: an attempt can only succeed with a tag of the sender's length, and the lengths tell the levels
apart (`LevelOfTag`). The assumption is that frames are frames: a payload longer than its tag.

`RecordProofs` proves `DatesNearCapture` and `DatesInOrder` for every set of boards, clock, reading,
time zone, and for a second and a width of the microseconds of any length. `ClockInv` says that two
packets of a board in one of its lives have the same difference of reading and real time, which is
that of the board now if it lives on; it is about the packets in all queues, as those are records
to be. `StartInv` says that there is one start, which the pipes know before they have packets, and
that the packet it was made from is in the log. `DateError` says what a date loses: three rests,
each less than a second. The theorems need that a start time is not `None` (`NoneAssumption`) and
that the devices are finitely many (for the order in which a simulated packet is given to them).

`RecordLengthsFit`, in the same module, is the part of `RecordFits` that is about lengths, for every
frame whose stated length is seven less than its bytes (as the Framer makes it) and whose record has
less than 65536 bytes, and whatever the port, the mode and the channel are. A record is nine sequences
joined; `Row` and `StandsAt` say how long each is and where it begins, so that the two lengths in the
mock headers and the payload keep their places when more is joined (`JoinedMiddle`).

`SettingsProofs` proves `FileSettles`, that `InputWins` holds for all files, words and numbers of
options: the result of parsing a file that lists devices depends on the file alone
(`FileDecidesAlone`), no session runs while the options are read (`NotYetRunning`), and one that
runs takes no more steps in `Settings`. It needs no assumption.

`FramerProofs` proves `FramerTypes` and `ResponseStaysInStep` for every set of frames and every
loss: `FieldsInv` bounds the length in each field (0 or 65535 before the first length byte, at
most a byte or 65535 after it), which gives the 16 bits of the sum, and ties the index to 0
before the data; every byte then moves the response and the Framer by one (`ProcessStep`). That the two
are in step (`ResponseInStep`) is proved only, for any frames, as the lemma the other theorems rest on.
`WholeFramesReturned` proves `InStepAgain` for every set of frames that are `Whole`: their length is
that of their data, which are not empty and fit the buffer, and the low byte of a stream frame's
length is not zero, which the Framer would take for 65535. TLC evaluates that hypothesis on the
frames of the run (`AllWhole`). `TrackInv` says that response and line are the two parts of the
frame sent last (`Parted`) and that the fields are those its bytes make (`Reads`), if it came to a
receiver between two frames and lost nothing; `FrameGoesOn` follows it field by field.
`CleanLineLosesNothing` proves `NothingLost` from the same hypothesis. Its invariant, `CleanInv`,
compares `returned` with the frames sent so far that are accepted: they are equal between two frames,
and within one they differ by that frame. A frame whose last byte is zero is refused at that byte;
the two bytes behind it are first taken for the beginning of a frame and then refused as well
(`Spoilt` names the three places), so that the next frame finds the receiver between two. The index
stays below the length of the data (`FrameFits`), which is why nothing is written past the buffer.

The library's theorems of induction take an operator, which none of the provers instantiates.
`SelectionProofs` goes around that for one recursive function: a set of numbers that is not empty
has a least element (`Smallest`, from the well-foundedness of `<`), so that a smallest
counterexample can be named where an induction would be made (`UpTo`). That is how existence and
type of `Selected` are proved and what it does to an appended element; `Selection` exists because
the definition of `SelectSeq` cannot be expanded in a proof.

Only model-checked:

* all liveness and what needs ENABLED, which the prover does not have;
* `FramesAsSent`, which holds for some sets of frames only (see the bounds): for all `Whole` frames
  it is false once a byte may be lost;
* the operators on bytes of the keys, `FrameRecovered` and `EncodingsUnambiguous`, which use the bit
  operations of a module that TLC alone evaluates, and of the configuration file, `SameText`,
  `IntegersAsMeant` and `TreeRecovered`, which are about recursive operators over data;
* of `RecordFits`, the interface, the channel, the frequency and the timestamp: they are made and read
  with recursive functions and folds over bytes;
* `ToldApart`, `TableHolds` and `FileAsPrinted`, which are about fixed tables: TLC evaluates them for
  all modes and channels, all firmwares and one that is not in the tables, and all keys of the printed
  file, so that nothing is left out.

## 6. Not modelled

* The descriptor table of the process: `reconnect` closes a port that `disconnect` has closed, and
  the number may by then belong to a pipe or a log file (`Serial` is "partly" modelled for that
  reason).
* AES, which the code takes from OpenSSL: `BlockCipher` stands for it.
* The Windows branches of `Serial`, `Pipe` and `PipePacketHandler`.
* Of fkYAML, the scan of a text for tokens, quoted and block scalars, tags, anchors and aliases, what a
  directive means, floating-point values, and the serializer, which nothing calls.
* Texts of errors and of the console, and help.
* The file of keys (`save_keys`), which is written and read by nobody.
* The contents of packets in the session, where the timestamps that decide on the recreation of
  files are a choice between "the period is over" and not; contents are in `PcapBuilder`.

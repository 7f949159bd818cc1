# Formal models of rpidmx512

TLA+ modules, TLC model checks and TLAPS proofs for the core of rpidmx512,
firmware that turns small boards (Orange Pi, Raspberry Pi, GD32) into DMX512
and RDM gateways for the lighting protocols Art-Net and sACN (E1.31).

## 1. The system

Every application in the repository (`opi_*`, `rpi_*`, `linux_*`, and the GD32
ones) is one process without threads. `main` sets objects up and then calls
their `Run()` in an endless super-loop. Concurrency comes from the network
(packets of several senders in any order, lost or repeated), from the DMX and
RDM lines, from interrupt handlers in the DMX drivers, from timers, from the
power, which may fail between any two steps, and from the fact that each
`Run()` makes only one small step of a longer job, so that the steps of
different jobs interleave with each other and with packets.

| Component | State | Operations | Hard behaviour | What makes it correct | Module |
|---|---|---|---|---|---|
| RDM discovery, `lib-rdm/src/controller` | state of the search, stack of branches, retry counters, Table of Devices (ToD) | `Full`, `Incremental`, `Stop`, `IsFinished`, `Run` | replies lost, late or garbled; calls in mid-search; responders that come and go | no UID skipped, stack bounded, ToD genuine and complete, the search ends | `RdmDiscovery` |
| RDM responder, `lib-rdm/src/rdmhandler.cpp` | mute flag, parameters | `HandleData` | broadcast requests | answers exactly when it must | `RdmResponder` |
| Art-Net RDM gateway, `lib-artnet/src/node/rdm` | scan position, status bits per port, waiting controllers | `HandleTodControl`, `HandleRdm`, `HandleRdmIn`, `RdmDiscoveryRun` | one discovery object shared by the ports; commands during a scan | scans end, every port gets its turn, the status bits agree with the machine | `ArtNetRdm` |
| Art-Net output, `lib-artnet/src/node` | two sources per port, merge flags, synchronous mode | `HandleDmx`, `HandleSync`, `HandleAddress`, data-loss check | two sources merged, time-outs, ArtSync | at most two sources, no stale data, data leaves on ArtSync | `ArtNetOutput` |
| sACN bridge, `lib-e131/src/node` | two sources per port, one priority, sequence numbers, synchronization | `HandleDmx`, `HandleSynchronization`, `Clear`, data-loss check | priorities, ends of streams, sequence errors, three time-outs | two streams at most, merging follows its sources, silence stops the output | `E131Bridge` |
| Lightset data and driver gateway, `lib-lightset`, `dmxsend.h` | two source buffers and the merged output | `SetSourceA/B`, `MergeSourceA/B`, `Clear`, `Sync` | HTP and LTP, frames of different lengths | the output is a function of the live sources | `LightSetData` |
| Configuration store, `lib-configstore` | RAM copy, state of the save, the device | `Update`, `ResetSetList`, `SetEnvUtcOffset`, `Delay`, `Commit`, `Flash` | changes in mid-save, power loss, a timer per change | what rests is saved; a change is saved in the end | `ConfigStore` |
| Super-loop timers, `lib-hal/superloop` | table of timers | `Add`, `Delete`, `Run` | deletion within a call-back, a full table | every timer gets its turn | `SoftwareTimers` |
| TFTP and firmware installation, `lib-network/src/net/apps/tftp`, `lib-remoteconfig`, `lib-flashcodeinstall` | the transfer, the table of UDP ports, the buffer, the flash | `Input`, `FileWrite`, `HandleTftpSet`, `WriteFirmware` | lost and repeated packets, clients that give up, TFTP switched off in mid-transfer | what is installed is whole; the daemon can be reached | `TftpUpload` |
| TCP, `lib-network/src/net/core/tcp.cpp` | control blocks, transmission queue | `tcp_input`, `tcp_run`, `tcp_write`, `tcp_abort` | loss, repetition, reordering, wrap-around, peers that give up and return | the data reaches the call-back in order, without gaps or doubles, and gets there | `Tcp`, `TcpPeers` |
| ArtPoll replies, inputs, fail-safe scene, Art-Net controller, sACN controller | queues and tables | per protocol | delays | each poll is answered once, tables follow the network | - |
| Address acquisition, IGMP, mDNS, NTP | leases, groups | `*_run`, `*_input` | loss, time-outs | legal states | - |
| Show file, LTC, MIDI, OSC, DDP, TCNet, PP, GPS | players and decoders | per protocol | timing | per protocol | - |
| Drivers and displays (`lib-dmx`, `lib-ws28xx`, `lib-tlc59711`, `lib-l6470`, `lib-display*`, ...) | hardware registers, DMA buffers | interrupt handlers | interrupts | - | - |

PROJECT.json lists every library with its status and the reason where it is not
modelled.

## 2. Modules

| Module | Models | Notes |
|---|---|---|
| `RdmUid` | UIDs, the range searched, the midpoint of a branch | width and powers of two are constants |
| `RdmTod` | `RDMTod`: `Reset`, `AddUid`, `Delete`, `Exist`, `CopyUidEntry` | a table is a sequence of UIDs |
| `RdmResponder` | what `RDMHandler::HandleData` answers to the three discovery requests | two or more answers to a discovery branch are a collision |
| `RdmDiscovery` | `RDMDiscovery` over one half-duplex line for each port | one action for each branch of `Process`, one for each call |
| `ArtNetRdm` | how `ArtNetNode::Run` drives that object | composes `RdmDiscovery` with packets and the background scan |
| `LightSetData` | `lightset::Data` for one port and `DmxSend` as the nodes see it | used by both output modules |
| `ArtNetOutput` | `HandleDmx`, `HandleSync`, data loss and the output commands of `HandleAddress` | one packet is one step |
| `E131Bridge` | the sACN bridge's data and synchronization packets, time-outs and `Clear` | one packet is one step |
| `SoftwareTimers` | the table of the super-loop's timers | operators on a table, no state of their own |
| `FlashCode` | the state machine of `Erase` and `Write` of the microcontroller's flash | operators on a device |
| `ConfigStore` | the store, composed with `SoftwareTimers` and `FlashCode`, reboots and the power | one step of `Flash`, one index of the timer loop, is one action |
| `ConfigKept` | what the store promises | abstract; `ConfigStore` implements it |
| `TftpUpload` | TFTP daemon, file server, port table, installation, clients and their network | one packet is one step |
| `FirmwareInstalled` | what an update promises | abstract; `TftpUpload` implements it |
| `Tcp` | the TCP server with the HTTP daemon as TCP sees it | one action for each way out of `tcp_input` |
| `TcpPeers` | `Tcp` with clients and a network | extends `Tcp` |
| `RdmDiscoveryProofs`, `RdmTodProofs` | theorems about `RdmDiscovery` and `ArtNetRdm` | see section 6 for all of these |
| `LightSetProofs` | lemmas about `LightSetData` and loops over ports | used by the next two |
| `ArtNetOutputProofs`, `E131BridgeProofs` | theorems about the output modules | |
| `ConfigStoreProofs`, `TftpUploadProofs`, `TcpProofs` | theorems about the module of that name, `TcpPeers` included | |
| `MC...` | instances for TLC | constants, start states, symmetry |

Definitions called `X_Something`, with a comment that begins with "Mutant",
are `X` with a bug in it. No specification uses them: replacing `X` by one of
them shows that a property can fail, and PROJECT.json says which one.

### RDM discovery

`RDMDiscovery::Process` does one thing each time the super-loop calls it, and
between two calls anything may happen: a call of `Full`, `Incremental` or
`Stop`, a packet, a reply, a responder losing its power. So each `if` branch
of `Process` is an action, with the branch's condition and the negation of the
earlier ones as guard. The variables carry the names of the members: `stack`,
`branch` (the bounds popped last), `unMute`, `mute`, `discovery`, `single`,
`quikFind`, `quikFindDiscovery` (counter and `bCommandRunning` of each
command), `response`, `tod`. The line is modelled as the code sees it:

* `devices` and `muted` are the responders on a line and their mute flags;
* `line[p]` is what `Receive` would find. A request puts the reply there, or,
  at the price of one of `faults`, is lost, or its reply is lost or replaced by
  `Noise`;
* a time-out is possible when nothing has come, and at the price of a fault
  also when the reply is merely late. The late reply stays on the line and may
  be read as the answer to a later request, which is what the state
  `LATE_RESPONSE` is for.

Milliseconds are abstracted into these choices. `Stop`, and a discovery that
gives up, pass through `LATE_RESPONSE`, and `savedState` says where it leads.

### Art-Net RDM gateway

The variable `phase` walks through the calls of one `ArtNetNode::Run`: a packet
or none (`NoPacket`, `HandleTodControl`, `HandleRdm`), `HandleRdmIn`, one step of
the discovery (`RunProcess` or `RunIdle`), and the scan (`ScanSkip`,
`ScanFinished`, `ScanStart`, `ScanWait`, or `NoScan`). `notRunning` and `disabled`
are the two bits of `GoodOutputB`; `ipRdm` says that a controller waits for a
reply, which `HandleRdmIn` then takes off the line, whoever the reply was
meant for. A request of a controller is sent over whatever the discovery waits
for. The 15 minutes between scans pass at any time.

### Art-Net output

`ArtNetNode::Process` runs to the end for each packet. `HandleDmx` is a loop
over the ports in which the first port may change `IsMergeMode` for the second
and a discarded packet leaves the loop; `Loop` is that loop, a recursive function
of the number of ports handled. `IsFrom` is the chain of the cases 1 to 8: it
says to which source of a port a packet belongs, `Discarded` that there is
none. The code remembers when a packet came and compares with now; the model
keeps the age of it, and `Tick` makes everything older, up to the first age at
which the code's comparison holds. `port` holds the sources and the bits of
`GoodOutput`, `data` the slots, `dmx` what the driver has been given and whether
the port was started.

### sACN bridge

`E131Bridge::Process` also runs to the end for each packet, and `HandleDmx` is
again a loop over the ports that share `m_State`. `HandlePort` is its body, with
the early exits in the order of the code: sequence error, preview, end of the
stream, lower priority. `old` is the port as it was before time-outs and a higher
priority dropped sources, because `ipA`, `ipB` and the matches are read there; the
place of the packet (`Place`, the cases 1 to 9) is chosen by `old` and what
happens to it is done to the new state, `Received`. `LostAll` and `LostOne` are
`SetNetworkDataLossCondition` for all sources and for the places of a terminated
stream. Sequence numbers are compared as the code does, by a signed difference,
here modulo `SEQUENCE`. A sender stands for an address and a CID, which
identify a source together. The release build is modelled: behind an assert the
code goes on.

### Configuration store

`ram` and the flash are sequences of words: a signature, the UTC offset, and for
each store its set list and one word of data. A change writes RAM, sets `CHANGED`
and calls `timer_start`, which adds a timer without asking whether there is one;
`timerId` is the handle of the last. The loop of `SoftwareTimerRun` is modelled
index by index (`RunBegin`, `Skip`, `OtherExpired`, `ConfigExpired`, `RunEnd`),
because a call-back may delete its own timer, whose slot the last timer then
takes. Each expiry takes one step of `Flash`; the device's own state machine,
shared by `Erase` and `Write`, stays where it was when a change sends the store
back to `CHANGED`. `Reboot` and `CommitStep` are `configstore_commit`, a loop that
nothing interrupts but the power. `PowerFail` may hit any step; RAM is then read
again from the flash. The model is the NDEBUG build, which the makefiles make.

`ConfigKept` has the settings in use and the settings that a power cut would
leave, part by part. `KeepsPromise` says that the store implements it:
`Current` and `Kept` are what both look like through the set lists. A step may
drop everything that is kept (the erase), keep a part exactly as it is in RAM,
or tear one part: nothing is ever overwritten in place, nothing that was not in
RAM gets into the flash, and two parts are never torn at a time.

### Firmware upload

The daemon, its file server and the switch of the remote configuration act on one
table of UDP ports, `bound`. A client is known by its port, which the daemon
takes over as the port of the transfer; so an answer to the wrong client, or a
port that nobody ends, show in `bound`, which counts the entries of a port, since
`udp_begin` takes the first entry that is free and so may give a port two. Nothing
checks who sends to a port of the node, and `Input` takes the sender's port over
before it looks at the packet: `Stray` is a packet of anyone else, to any port in the
table. `left` remembers the ports that were given up just after such a
packet. `Input` is the call-back: what it changes is a record, and `HandleRequest`, `HandleRecvData`, `DoWriteAck` and `Restart` (the C++
`Init`) change it in turn. `buffer` remembers who wrote each block of the
static memory, so that leftovers of an earlier upload show. Clients repeat what
is not answered and may give up; packets of one client keep their order and any
of them may be lost.

`FirmwareInstalled` has a firmware that was received whole and one that is
installed, and nothing else may be installed (a transfer that a stranger sends whole
is his firmware, so the run's strangers send what is not stored). `InstallsWhole` says
that the node implements it: whatever `SwitchOff` writes to the flash begins with all
that one client sent. It is stated for a careful user, `Quiet`, who starts no upload while
another one goes on or is done; section 5 says what happens to the others.

### TCP

The server has no timer and no task of its own: `ethernet_input` calls
`tcp_input` for each segment and `tcp_run` behind it, and that is one step here.
`Tcp` has one action for each way out of `tcp_input`; their guards exclude each
other and leave nothing out. What a step changes is a record, `Becomes` adds
`tcp_run` and lets any segments it sends be lost. Data is counted in segments of
full size, each of which knows its connection and its number, so that the call-back
can be seen to get the wrong one. The HTTP handler answers a POST when all its parts
were read and any other request at the first part, with a response in two parts or,
when it does not know the method, a reset; like
the code's it belongs to the control block and is not told that a connection ended.

`TcpPeers` adds clients as RFC 9293 has them: they connect, repeat, send, close,
give up at any moment with or without a reset that arrives, and come back from
the same port. The network keeps a set of segments in each direction and delivers
them in any order; since peers repeat, segments also come twice and late. Once, a
stray segment may come.

## 3. Runs

Each takes less than three minutes with two workers.

| Run | Expected | Question |
|---|---|---|
| `rdm_discovery_any_call` | pass | `TypeOK`, `BranchesTile`, `StackBound`, `TodGenuine` with calls in every state, one fault, one replug; two responders are on the line at first and a third may come. 2 million states |
| `rdm_discovery_complete` | pass | `FinishedComplete`, `PresentStay`, `Terminates`: two faults against three retries, both kinds of discovery again and again |
| `artnet_rdm_scans` | pass | `ScanTerminates`, `EveryPortScanned`: two outputs and an input, every command, one request |
| `artnet_rdm_replug` | pass | `NodeTypeOK`, `StatusExact`: one replug, one request, no commands |
| `artnet_output_merge` | pass | `TypeOK`, `HtpIsHighest`, `TwoStreams`, `NoEviction`, `PendingHasData`: one port, three controllers with two physical ports each, frames with and without slots, data loss. 166 thousand states |
| `artnet_output_sync` | pass | `MergingPortKnown`, `BufferedUntilSync`: two ports, two controllers, no data loss |
| `e131_bridge_merge` | pass | `TypeOK`, `TwoStreams`, `HtpIsHighest`, `NoEviction`: three sources, two universes, two priorities, previews, frames without slots, ends of streams |
| `e131_bridge_sync` | pass | `BufferedUntilSync`, `SilenceStops`: one source of two universes, with and without synchronization, forced or not |
| `config_store` | pass | `TypeOK`, `IdleIsSaved`, `WrittenSoFar`, `StoresHaveTimer`, `ProgramsBlank`, `KeepsPromise`, `ChangesSaved`: two changes or delays, one reboot or power failure, at any moment of a save |
| `tftp_upload` | pass | `TypeOK`, `PortsExact`, `InstallsWhole`, `TransferEnds`: two clients over a lossy network, a stranger, TFTP switched at any moment. 282 thousand states |
| `tcp_server` | pass | `TypeOK`, `OneBlockPerPeer`, `PrefixReceived`, `AckedIsDelivered`, `RequestArrives`: a client that connects twice from one port, numbers that wrap, a stray segment |
| `tcp_window` | violation | `RequestArrives` for a request longer than the receive window (section 5) |

What the properties say:

* RDM: `BranchesTile`: the branches on the stack and the one being searched are
  adjacent intervals that end where the search has got to. A gap would be a
  responder that is never found, an overlap one that is searched for twice.
  `StackBound`: at most one branch more than a UID has bits. `TodGenuine`: no
  table lists a UID twice, or one that no responder has. `FinishedComplete`,
  `PresentStay`: what a discovery is for, as long as nobody is unplugged and
  losses are fewer than retries. `Terminates`, `ScanTerminates`,
  `EveryPortScanned`: nothing gets stuck, and the scan returns to each port that
  is not switched off. `StatusExact`: between two calls of `Run` the published
  bit and the machine agree.
* Output, in both protocols: `HtpIsHighest`: each slot to be sent is the higher
  of both sources. `TwoStreams`: one stream never fills both places, where it
  would be merged with its own older frame. `NoEviction`: a live source keeps its
  place. `BufferedUntilSync`: in synchronous mode nothing leaves without a
  synchronization packet. Art-Net only: `MergingPortKnown`: a port with two live
  sources is marked, and the node is in merge mode, although the ports share that
  mode; `PendingHasData`: a port comes to wait for an ArtSync without data in two
  ways only, by the loss of the network data and by a frame without slots (section
  5), and no ArtSync, time-out, merge or command leaves it so. sACN only:
  `SilenceStops`: when packets stop, no port goes on as if it had data.
* Store: `IdleIsSaved`: when the machine rests, a power cut loses nothing.
  `WrittenSoFar`: a change in mid-write does not mix old and new words.
  `StoresHaveTimer`: a changed store always has a timer that will save it, although
  handles get lost. `ProgramsBlank`: only blank words are programmed.
  `ChangesSaved`: the save ends.
* Upload: `PortsExact`: while TFTP is on, the port that the daemon waits on is in the
  table, whoever sends to it; and every other entry is of a port that was given up
  while the last packet was another sender's, which was ended in its place.
  `TransferEnds`: a transfer whose client goes on is completed, or ended by a
  stranger's block that is refused.
* TCP: `OneBlockPerPeer`; `PrefixReceived`: what the call-back got from a block
  since the SYN that the block was taken for is the data of that connection from
  its beginning, in order, without gaps or doubles, and none of another (`app.since`;
  `app.ever` is all that it ever got); `AckedIsDelivered`; `RequestArrives`: a client that stays gets its request
  through, although nothing is ever resent by the server, unless a response
  overran the client's window.

### Bounds

* `UID_BITS` is 3: seven UIDs to search, a stack up to four deep, responders in
  adjacent leaves and in different halves. The theorems cover every width.
* `MaxFaults`, `MaxReplugs`, `MaxTodControls`, `MaxArtRdms` bound the events from
  outside, not the discoveries, which repeat for ever. One event can hit every
  state; two faults can hit a request and its retry.
* Retry counters are 1 where only safety is asked, so that a loss has its
  consequences at once, and 2 or 3 elsewhere.
* `TOD_TABLE_SIZE` is 2 for three responders in `rdm_discovery_any_call`, so the
  table is full; elsewhere it holds them all.
* `SLOTS` is 2 where frames of different lengths are merged and 1 elsewhere.
  Slots do not affect one another. `LEVELS` is 1: HTP only compares. Frames without
  slots are sent in both merge runs; in `e131_bridge_merge` they are those of the
  higher priority.
* Time-outs are 0, 1 or 2 ticks. For Art-Net `MaxSilence` reaches the data loss
  where the run asks for it, and stays below it in `artnet_output_sync`, where
  data loss is known to break the properties. In the bridge the three time-outs
  end together in one run, so that each may be seen first.
* Controllers and the sources of one universe are symmetry sets in the runs on
  safety: no property and no definition tells one from another. The source of two
  universes is not among them.
* `e131_bridge_merge`: three sources for two places, one of them also on a second
  universe, so that priority and merge mode, which the ports share, are set by one
  and used by another. Sequence numbers are 0 and 1: repeated or new. Two are
  enough, for the code only asks whether a number is out of sequence.
* `config_store`: a region of two pages of three words, so that erase and write
  each take several steps and a page boundary is inside a store; three timers, of
  which one is another part's, so that two changes fill the table. `MaxCalls` 2
  puts a second change at every moment of the save of the first; `MaxFailures` 1
  puts a power failure at every moment of both.
* `tftp_upload`: a memory of two blocks of two bytes. The smaller firmware ends
  with a short block; the larger one fills the memory exactly and so ends with an
  empty block one behind it. `FLASH` is 5, so that repeated blocks make the counted
  size pass it. Two packets on the way for each client and direction: one
  original and one repetition; what is more is lost. `MaxDown` is 1, one answer.
  `MaxStrays` 1: one packet of a stranger at any moment, data that is refused, or none;
  one is enough to make the daemon end the wrong port. `MaxEntries` 2: a port that was
  left may get a second entry. `MaxSessions` 2: TFTP is switched on again over what
  was left.
* `tcp_server`: a window of two segments and requests of two, so that the second
  may overtake the first; `MODULUS` 32 with first numbers that make the numbers
  wrap within a request. Two connections from one port, so that segments of the
  first are late for the second. `PEER_WINDOW` and `QUEUE` are 1, so that the second
  part of a response has to wait. `TO_SERVER` 2 and `TO_PEER` 1 bound the segments on
  the way; answers of the server beyond that are lost. `Methods` are `POST` and an
  unknown one; a `GET` is answered at the first part like the unknown one is reset, and
  only the proofs have it, for the run with all three takes too long.

## 4. Fairness

* `rdm_discovery_complete`: weak fairness of `Process`: the super-loop calls `Run`
  again and again, and the millisecond timers advance.
* `ArtNetRdm`: weak fairness of the loop's steps and strong fairness of `RunProcess`
  and of `Scan`. A call of `Run` may find that there is nothing to do yet
  (`RunIdle`, `NoScan`); that this is not so for ever is what the receive time-outs,
  the end of `LATE_RESPONSE` and the 15 minutes guarantee.
* `E131Bridge`: weak fairness of `NetworkDataLoss`: `Run` tests for it whenever no
  packet has come.
* `ConfigStore`: weak fairness of the timer loop, of the clock, of the device and of
  the commit loop. None of changes or of the power.
* `TftpUpload`: weak fairness of `Repeat` (a client that waits asks again), strong
  fairness of `Arrives` and `Acknowledged`: a lossy channel that lets through in the
  end what is sent again and again.
* `TcpPeers`: the peers repeat the first unit that is not acknowledged and take
  what comes (weak), no segment stays on the way for ever (weak), and a unit or an
  answer that is sent again and again arrives in the end (strong). The server has
  no fairness of its own: it acts when a segment comes.

No fairness is assumed of packets, replies, responders, users or failures.

## 5. Findings

`tcp_window`: the receive window of a connection shrinks with every segment and is
set to its full size only when the control block is initialised
(`tcp.cpp:1054`), although the call-back has consumed the data. The comment at
`tcp.cpp:869` says that the sender should wait until the window opens; it never
does. A request of more than two segments stays unfinished for ever: TLC shows a
client that has sent what the window allowed, has been told that it is 0, and
waits.

Seen while modelling, without a run of its own. Each is in the model, or is a
reason for something the model leaves out; none contradicts a property that a run
checks as stated.

RDM:

* `QUICKFIND` resets its retry counter on every send (`rdmdiscovery.cpp:513`), so
  the test for 0 never succeeds: a responder that answers its branch and is
  unplugged before `DISC_MUTE` keeps the discovery busy for ever. `Terminates` is
  therefore checked without replugs.
* `Full` empties the table before `Start` finds out that a discovery is at work.
  An `ATC_FLUSH` in that moment empties the table and starts nothing.
* `ATC_INCOFF` for the port being scanned makes the scan move on while the
  discovery of that port goes on; the assert at `artnetnode.h:637` fails when it
  ends. After `ATC_END` the status bit says at once that no discovery runs, while
  the machine is still in `LATE_RESPONSE`: the assert at `artnetnode.h:446` would
  fail if a status request came then.
* `MUTE` takes any response for the acknowledgement of its own request. With a
  late reply or one to a controller's request on the line, `FinishedComplete`
  does not hold; the runs that check it send no gateway requests.

Art-Net output:

* Network data loss leaves `IsDataPending`, `OUTPUT_IS_MERGING` and `nPhysical`
  set (`artnetnode.cpp:416-420`). A later ArtSync then finds pending data of no length
  (assert at `dmxsend.h:108`); frames of such a port no longer wait for the ArtSync.
* An ArtDmx has no shortest length (`artnetnodehandledmx.cpp:86`, `:211`,
  `lightsetdata.h:105`): one without slots makes the length of the port 0. In
  synchronous mode it waits like any other, and at the next ArtSync a debug build stops
  at `dmxsend.h:108` (without ArtSync at `dmxsend.h:97`); otherwise the port counts as
  transmitting, and the driver is given a frame of no slots. `PendingHasData` is stated
  with these two exceptions, and without either TLC violates it.
* The `nPhysical` of a source that is gone decides whether a new stream is taken
  (`artnetnodehandledmx.cpp:116`): a second stream that paused is discarded for good.
* A port whose two sources both stopped keeps the node in merge mode, in which it
  ignores every ArtSync.
* A controller that takes over after the merge time-out is merged with the stale
  frame of its predecessor for one frame, because time-outs are only looked at in
  merge mode. Two ports with one Port-Address may differ for that frame.
* The test for a source adds IP addresses modulo 2^32 (`artnetnode.cpp:387`).

sACN bridge:

* The priority is one value for all ports (`e131bridge.cpp:481`): the only source of
  one universe is refused while another universe is sent with a higher priority. A
  port without a live source never reports a priority time-out.
* A known source that comes with a higher priority is merged for one frame with
  the other, dropped one, and its own address is lost: it is a new source with its
  next packet.
* The end of a stream clears the same place on every transmitting port, whoever
  sends there.
* A packet that is out of sequence still replaces the last number, so a single
  late packet lets others through that are older than what has been sent.
* A frame that waits for synchronization outlives the loss of data.

Configuration store:

* A second change before the first is written starts a second timer; the assert at
  `configstore.cpp:57` fails in a debug build. Without it, `ResetSetListAll` alone
  asks for a timer for each of the stores and fills the table of 12 timers.
  `StoresHaveTimer` and `ChangesSaved` show that the save is done all the same.
* `SetEnvUtcOffset` starts no timer: the offset is saved with the next change or at
  a reboot.
* In the H7xx build `FlashCode::Erase` asserts when it is entered in a state of
  `Write`; `Write` of the SPI flash returns TRUE after an error.
* `SoftwareTimerRun` compares absolute 32-bit times, which wrap after 49 days.

Firmware upload:

* `m_bDone` outlives the upload it belongs to (`tftpfileserver.cpp:85`): when TFTP is
  switched off in the middle of a second upload of one session, a part of a firmware
  is installed, or the assert on its size fails (`flashcodeinstall.cpp:41`). Hence
  `Quiet`.
* The port that the daemon ends is that of the last packet (`tftpdaemon.cpp:121`,
  `:133`), and every packet sets it before anything is checked (`:152`). After a
  refused request, or any packet at all to port 69, switching TFTP off ends the
  sender's port and not port 69, which stays in the table with the call-back of a
  daemon that is gone. The same happens to the client's port when anyone else sends the
  last packet before the transfer ends or TFTP is switched off, also a packet that is
  ignored. `PortsExact` says just that and no more; what a packet to such a port does
  when the daemon is gone (a call-back with a null pointer) is undefined, and not
  modelled.
* A block from another sender is taken for one of the transfer. When it is refused the
  transfer ends, and when it is stored the firmware has it in place of the client's.
* A lost first acknowledgement is not sent again: the client repeats its request to
  port 69, on which nobody listens any more, and the daemon waits for ever.
  `TransferEnds` is about transfers whose first block was sent.
* A firmware of exactly `FIRMWARE_MAX_SIZE` is lost without a word: its empty last
  block is one behind the memory, `FileWrite` refuses it by returning 0, and the daemon
  takes that for a block of no bytes that was written (`tftpdaemon.cpp:321`). The
  client is told that all is well and `m_bDone` is set, but the refusal has set
  `m_nFileSize` to 0 (`tftpfileserver.cpp:113`), so nothing is installed; in a debug
  build the assert at `flashcodeinstall.cpp:41` fails.
* `m_nFileSize` counts repeated blocks.

TCP:

* The send window is set to the peer's without subtracting what is on its way
  (`tcp.cpp:953`, `:995`, `:1004`), so a response may overrun the peer's window, the
  exception in `RequestArrives`.
* The HTTP handler of a block is not told that a connection ended
  (`httpdhandlerequest.cpp:99`); the next one continues its half-read request. The
  transmission queue keeps the block it was filled for beyond its connection.
* Without a free block the code goes on with an index behind the last one (`:644`);
  `TcpAssumption` excludes it.
* SYN|ACK and FIN are never sent again: blocks stay in `SYN_RECEIVED` or `LAST_ACK`
  until their peer comes back. A FIN is taken out of order (`:1106`), and data in the
  segment that ends the handshake is dropped.
* A reset that is not acceptable frees the block (`:877` says otherwise). When a SYN
  that was repeated comes next, the connection begins anew for the server alone, and
  the call-back gets data a second time. `PrefixReceived` is about the data since the SYN.

## 6. Proofs

TLAPS proves, for every value of the constants:

| Theorem | Says |
|---|---|
| `MidPositionIsMiddle` | the midpoint put together from halves is the middle and lies in the branch, below its upper bound |
| `TypeCorrect` | `Spec => []TypeOK` of `RdmDiscovery` |
| `NoGap` | `Spec => []BranchesTile` |
| `NoOverflow` | `Spec => []StackBound` |
| `TodIsGenuine` | `Spec => []TodGenuine` |
| `UploadTypeCorrect` | `Spec => []TypeOK` of `TftpUpload` |
| `PortsAreExact` | `Spec => []PortsExact`, whoever sends |
| `WriteIsExact`, `RestIsSaved` | `Spec => []WrittenSoFar`, `Spec => []IdleIsSaved` of `ConfigStore` |
| `OnlyBlankIsProgrammed` | `Spec => ProgramsBlank` |
| `StoreKeepsPromise` | `Spec => KeepsPromise`: `ConfigStore` implements `ConfigKept` |
| `ChangeHasTimer` | `Spec => []StoresHaveTimer` of `ConfigStore` |
| `StoreTypeCorrect` | `Spec => []TypeOK` of `ConfigStore` |
| `UpdateKeepsPromise` | `Spec => InstallsWhole`: `TftpUpload` implements `FirmwareInstalled`, given `HarmlessStrays` |
| `OneBlockEach` | `Spec => []OneBlockPerPeer` of `TcpPeers` |
| `BlockForEachSegment` | with as many blocks as peers, `FindTcb` always finds one |
| `TcpTypeCorrect` | `Spec => []TypeOK` of `TcpPeers` |
| `DataIsPrefix` | `Spec => []PrefixReceived`, given `NumbersApart` |
| `AcknowledgedIsRead` | `Spec => []AckedIsDelivered`, given `NumbersApart` and `NoFin` |
| `NodeTypeCorrect` | `NodeSpec => []NodeTypeOK` of `ArtNetRdm` |
| `NodeKeepsSearch` | `BranchesTile`, `StackBound` and `TodGenuine` also hold of `NodeSpec` |
| `StatusIsExact` | `NodeSpec => []StatusExact`, for controllers that send `ATC_INCON` at most |
| `EveryoneIsFound` | `StartsSpec => []FinishedComplete`, given `FewFaults` |
| `RespondersStay` | `StartsSpec => PresentStay`, given `FewFaults` |
| `OutputTypeCorrect`, `StreamsAreTwo`, `MergingIsKnown`, `NobodyIsEvicted` | `TypeOK`, `TwoStreams`, `MergingPortKnown`, `NoEviction` of `ArtNetOutput` |
| `HighestIsSent` | `Spec => []HtpIsHighest` of `ArtNetOutput`, without the commands `CLR` and `MERGE_HTP` |
| `PendingIsFilled` | `Spec => PendingHasData` of `ArtNetOutput` |
| `WaitingForSync` | `Spec => BufferedUntilSync` of `ArtNetOutput`, given `NeverLost` |
| `BridgeTypeCorrect`, `SourcesAreTwo`, `NobodyIsEvicted`, `WaitingForSync` | `TypeOK`, `TwoStreams`, `NoEviction`, `BufferedUntilSync` of `E131Bridge` |
| `HighestIsReady` | `Spec => []HtpIsHighest` of `E131Bridge`, without `Clear` from outside |

A hypothesis that a theorem needs is a formula on the constants, and the run that
checks the same property has constants that satisfy it. Each is there because the
property fails without it, as section 5 says or the argument below.

### RDM discovery

The theorems rest on `UidAssumption` (`PowerOfTwo` is what its name says, at least
two bits) and on the assumptions on the other constants in `RdmDiscovery`, which
TLC evaluates in the runs.

`IInv` is the inductive invariant of the first four. `BranchesTile` alone is not
inductive: a step of DISCOVERY that is entered with `bCommandRunning` still set
would act on a branch that was never popped, so `NotRunningElsewhere` is needed.
`StackBound` is not inductive at all: the depth of the stack says nothing about how
often the branch in hand can still be halved. `SizeBound` says that the n-th
branch on the stack holds at most 2^(UID_BITS + 1 - n) UIDs, and likewise the one
in hand; a branch that is halved has two UIDs or more, so the depth is below the
width. Splitting keeps the bound because of `MidPositionIsMiddle`. `LATE_RESPONSE` may
come between any two states, so the invariant speaks of `Resumed`, the state that
the machine is in or will return to. There is one lemma for each state of
`Process`, one step in it for each action, and shared lemmas on sending, on
replies, and on popping and splitting (`SearchPopped`, `SearchSplit`).

`TodIsGenuine` adds `GenuineLine`: an acknowledgement on the line comes from a
responder that exists. `AddUid` is only called with the UID of an
acknowledgement, or with a UID that is in the table already, and `AddUidGenuine` and
`DeleteGenuine` say that the table's operators keep it free of doubles.

### Everyone is found

`FewFaults` says that nobody is plugged in or out, that noise never decodes as a UID,
that each command has more retries than there are faults, and that the table has room
for the responders. With as many faults as retries a command gives up on a responder
that is there, and a discovery whose table is full turns responders away.

The invariant `FInv` has to say where a responder is at every moment. It is listed, or
the search has still to come to it (`Ahead`) and it is not muted, or it is the one that
is being muted (`Tried`); and a muted one is listed or being muted (`Covered`). That a
command is not given up too early is `Enough`: more retries are left than there are
faults to come, and one more while a request is out that has no answer (`owed`), because
that silence has cost a fault already. So a command that gives up proves that
nobody answers: `Muted = {}` in `UNMUTE`, `Answerers = {}` on a branch. Between two
searches the counters of the commands that are not at work are full, which is `AtRest`,
and here `LATE_RESPONSE` needs care again. The table never turns anyone away, since all
that it lists are responders of the line (`TodGenuine`) and it lists none twice:
a pigeonhole argument. `StartsSpec` is `Spec` with calls of `Full` and `Incremental` at
rest only; a call in mid-search is not covered, as in the run.

### Art-Net RDM gateway

`NodeInv` is the invariant of the discovery, with `TodGenuine`, and the types of the
gateway's own variables. Its lemmas say what a step of the gateway does to the
discovery: nothing, a call (`Full`, `Incremental`, `Stop`), a step of `Process`, or only a
change of what is on the line (`OtherTraffic`), which no part of the search looks at.
`StatusExact` needs `ExactInv`: the machine is busy only for the port that the scan has
begun with, that port is the one at which the scan is, and `isFinished` is seen and
reset within the same `Run`. The commands `ATC_FLUSH`, `ATC_END` and `ATC_INCOFF` each
make the published bit wrong for a while (section 5), which TLC confirms.

### Art-Net output and sACN bridge

A packet is handled in a loop over the ports, a recursive function. What holds after
each turn is proved by induction on the number of ports handled. The induction theorems
of the library take an operator; `SetInduction` takes the set of numbers for
which something holds, and follows from the well-founded order of the numbers (`WFMin`).
`LoopRuns` and `LoopInduction` then say once, for both modules, that a function
defined like the loop satisfies its equation and that a set of states that every turn
stays in is never left. What is left for each property is a lemma on one port
(`HandlePort` and its parts).

* `TwoStreams`: a packet is taken into a place only if it belongs there, or if neither
  place has its stream. In both modules time-outs come first and may free a place, so
  the lemmas speak of the port before and behind them.
* `NoEviction`: `Checked`, what a check of time-outs may do to a place, and that a
  packet changes no place that another sender holds.
* `HtpIsHighest`: what `MergeSourceA` and `MergeSourceB` return for any two lengths
  (`LightSetProofs`), and that nothing else changes one of three arrays only. A command
  that clears the output, or one that switches a port that merges to HTP, does just that
  until the next frame: hence the hypotheses.
* `PendingHasData`: only a frame sets `IsDataPending`, and the length of the output is
  then that of the frame, merged or not. AcClear fills all slots, and an ArtSync, which
  clears the lengths, leaves nothing waiting. So the exceptions are the two steps that the property names, and there is no
  hypothesis.
* `BufferedUntilSync`: for Art-Net the loss of data for the whole network must not occur
  (`NeverLost`: `MaxSilence < NETWORK_DATA_LOSS_TIMEOUT`), since it leaves
  `OUTPUT_IS_MERGING` set of a port that has no source. `OnlyTwoMerge` is the invariant
  that is needed: a port is marked as merging only while it has two sources.
  The bridge resets its flags, and its property has no hypothesis.

### Firmware upload

They rest on `UploadAssumption`. `PortsExact` is not inductive: it says nothing of the
packets that come. `IInv` adds that every packet of a client goes to port 69 or to
that client's own port (`PacketsOf`), and that a daemon that receives has the port of a
client (`PortKnown`). The last packet may have come from anyone, and `Restart` and
`SwitchOff` end that sender's port: when it is the daemon's, `End` takes its one entry,
and when it is not, the daemon's port is in `left` from then on, which is what
`Table` asks of every entry but the daemon's. `HandleRequest`, `HandleRecvData` and
`Restart` have a lemma each on what they make of a record of type `States(N)`: a
daemon between two packets has a block in the memory, the one that a packet just changed may have any, and
`Restart` or `CanWrite` brings it back.

`UpdateKeepsPromise` adds `UInv`. A firmware that is marked as complete must be whole,
although any packet may be lost or come twice, so the invariant follows a transfer from
end to end. `Flows`: requests of a client are before its data, its blocks are in order
and none is newer than the block it has come to; while a request is still on the way,
the client is at its first block. `OneActive`: one client at a time has something
on the way, which is what `Quiet` is for. `Transfer`: a daemon that receives has all
blocks up to its own, from the client that it receives from, and a size that is at
least theirs; the client is one block ahead at most, and no acknowledgement is on
the way of a block that the daemon does not have (`InStep`). So a block that the daemon
takes is the next one or the one before, and the short block that ends the transfer is
the client's last one (`EndedIsWhole`). `Complete`: a whole upload stays until TFTP is
switched off, since nobody asks for another. A packet of a stranger either
changes nothing but the sender (`GoesOn`), or ends the transfer; that it stores
nothing is `HarmlessStrays`. Then each step maps to `Receive`, `Install`,
`Forget` or to a stutter of `FirmwareInstalled`.

### Configuration store

The theorems rest on `ConfigAssumption`. What each save does depends on two machines that
do not know of each other: the store's, which a change sends back to `CHANGED` at
any moment, and the device's, which then stays in the middle of an erase or a
write. `IInv` relates them. `DeviceInv` is about the device alone: what is written
and what is left make up the store, and words below the one to be erased next are
blank. `MachinesInv` is about both: in the `ERASED` states the device is idle and
all words are blank, in `WRITING` it is idle or writes, in `IDLE` it is idle. Only
with it does `WrittenSoFar` hold from one step to the next, and `IdleIsSaved` follows
when the last word is written.

For `StoreKeepsPromise` each step is mapped: the erase of a page is `Drop`,
a word programmed is nothing, `Keep` or `Tear` according to the part it belongs to,
a call is `Change`, the power is `PowerUp`. That a word of a set list tears at most
its own part, and that a word of data completes it, follows from `WrittenSoFar`
(`KeptSoFar`); that nothing kept is overwritten follows from the blank words.

The second part of `ConfigStoreProofs` adds the table of timers. `TableInv` says that no two timers
share a handle, that all handles were given out, and that the timers of the other
parts are there with exactly the handles `Others(first)`: the first `OTHERS` ones,
or, when the store's own timer was added before them, the next. The handle that the
store remembers is never one of these (`HandleInv`), so its `Delete` leaves the
others alone, also when its timer is gone already. As the others have fewer timers
than the table has places, a full table holds a timer of the store
(`OthersStay`, by the pigeonhole principle): an `Add` that gives up does no harm.
`Fine` joins this to what has to be shown, that the store has a timer, is about to
reboot, or is saved; a timer is deleted only when a save has ended, and then
`RestIsSaved` applies. `StoreTypeCorrect` needs `PagesInv`: what is left of an
erase is a whole number of pages, so the erase ends at the end of the store and
not behind it.

### TCP

`OneBlockPerPeer` is not inductive alone: `ListenSyn` takes a block for a peer, and
that there is none for this peer yet is known from `FindTcb`, which is given the peer
of the segment. So `IInv` says that segments come from peers, that a block in use has
a peer, and that two blocks in use do not have the same. Everything else that a step
does leaves the blocks in use as they are (`Keeps`, with a lemma for each operator
of `Tcp`, since the proof is about any number of them in a row), or frees one.
`RoomForPeer` is the pigeonhole principle: were all blocks in use by other peers,
there would be more peers than `TcpAssumption` allows.

`TcpTypeCorrect` is the same walk through the operators with the full types of blocks,
segments and queue. `CLOSE_WAIT` is a state of a block only within a step: the FIN that
leads to it is answered by the server's own FIN in the same call.

`DInv` is the invariant of the data. For the server (`BlockGood`): what the call-back
got since the SYN of a block are the units 1 to k of the block's connection, and while
the block is open `RCVNXT` is the number behind unit k. For the segments to the server
(`TextMeant`, `SynMeant`): a segment with data has the number that its unit has in its
connection. A segment in order then carries unit k + 1, provided that equal numbers mean
the same unit of the same connection. This is `NumbersApart`: within the request, its FIN
and a window behind it, the numbers of all connections differ. RFC 9293 has peers choose
their first numbers by a clock for that reason, and the run's constants satisfy it although
the numbers wrap; the lemmas on `Plus`, `Lt` and `Leq` are about numbers that wrap. For
`AckedIsDelivered`, `Acks` says of every number that a block or an answer acknowledges that
all units below it were once given to the call-back. That an old answer means a unit
of another connection is again excluded by `NumbersApart`. A FIN in a stray segment is
counted in whatever place it comes and then acknowledges a unit that never came; hence
`NoFin`, for strays only: the peers of the model do send FINs, behind their data.

### Only model-checked

What must happen in the end (`Terminates`, `ScanTerminates`, `EveryPortScanned`,
`SilenceStops`, `ChangesSaved`, `TransferEnds`, `RequestArrives`): liveness under fairness
is out of the prover's reach. Every invariant, action property and refinement that a run
checks is also a theorem, with the hypotheses above; where a theorem has a hypothesis, what
happens without it is described in section 5.

## 7. Not modelled

* Times as numbers: receive time-outs, the 15 minutes, the merge time-out, the
  seconds of the store's timer. Each is a choice or a few ticks, and no clock
  wraps.
* Contents of RDM messages other than the discovery UIDs; checksums (a reply that
  fails its checksum is `Collision` or noise).
* Art-Net: replies to ArtPoll, port programming, the fail-safe scene kept in
  flash, the input ports, Art-Net 4. 32-bit sums of IP addresses in the data-loss
  test (the model asks whether there is a source).
* sACN: multicast groups (a group is left although another source uses it),
  universes changed at run time, the discovery packet.
* The store: reading (a `Copy` of a store that was never written calls `Update`, which
  is modelled), devices other than the microcontroller's flash, debug
  builds. A page is erased when its erase begins.
* Uploads: reading a file from the board (only the show file server allows it), a
  packet to the port of a daemon that is gone, a power failure within
  `WriteFirmware`, from which nothing recovers; data with the number 0 (it stops at the
  assert of `tftpfileserver.cpp:118`) or shorter than its header; a table of ports that is
  full. Blocks of a stranger that are stored are in the model but not in the run.
* TCP: active opening, options, urgent data; segments that are not full.
* sACN data with a property count of 0 or above 513, which `e131bridge.cpp:421` does not
  exclude.
* DHCP, ACD and AutoIP are unfinished in this code: the coarse timer of DHCP is
  never called, `dhcp_renew` is not defined, `netif.autoip` is never assigned,
  `acd_timer` stops detection as soon as it is ONGOING, and no build defines
  `CONFIG_NET_DHCP_USE_ACD`. A model would be of code that does not run.
* The UART, timers and DMA under `DmxSend`, and every other interrupt handler.
* All other components, with reasons in PROJECT.json. Most of the repository is
  hardware access, tables, formatting, and vendored code (file system, C library,
  STAPL player), in which no order of events is at stake.

## 8. Plan

1. Proofs: `QuickGiveUp` of the discovery never happens; `FinishedComplete` for calls in
   mid-search; the device and the loops of `LightSetData` against abstract ones.
2. The input gateway of RDM: `RDMTod::Next` and the mute bits of a mirrored table.
3. ArtPoll: the queue of delayed replies; the poll table of the Art-Net controller.
4. The show file player, with commands in mid-show.
5. One DMX driver (gd32): the interrupt handler and the super-loop on one buffer.
6. An abstract merger, a table of at most two live streams and an output that is a
   function of them, for both output modules to implement.

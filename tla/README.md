# Verification of the LoRa ring (NamePendingCapstone)

The repository is a Raspberry Pi program that links substations by LoRa radio, and the
RadioHead library it is built on. Every substation is a *node*. The nodes form a logical ring:
a turn goes round it, and the node that has the turn broadcasts a reading of its substation, which
every other node stores. This directory holds a TLA+ model of that program and of parts of
RadioHead, the TLC configurations that check it, and theorems checked by TLAPS.

Paths below are relative to the repository; "l.823" without a path is a line of
`RadioHead/examples/raspi/rf95_test/rf95_test/rf95_test.cpp`.

## 1. Inventory

### Ring node program — `rf95_test.cpp`

* **State.** `state` (1 to 14), the map `node_status_map` of the nodes believed up, the flags
  `master_node`, `two_nodes`, `turn_ack`, `send_turn`, `new_node`, the counters `retry` and
  `turn_retry`, the buffers `buf`, `dupe_buf`, `data`, `turn` with the length `buflen`, the header
  of the last frame, five timers, and the CSV files of readings on disk.
* **Operations.** One iteration of `while (!flag)` runs the block of the current state: broadcast a
  reading (1), wait for its echo (2), acknowledge (3), listen (4), send the turn on (5), resend (6),
  ask to join (7), wait for an answer (8), answer a join (9), found a network (10), wait for a second
  node (11), wait for the answer to a turn (12), rebroadcast the last reading (13), announce a new
  node (14).
* **Interaction.** Nodes share nothing but the radio channel: every frame is a broadcast, and
  the addressee is a byte of the payload. Inside a node the program sees the radio as
  `recvfrom()`/`sendto()` of `RHDatagram`.
* **Hard behaviours.** Lost and colliding frames, resends taken for first sends, timers that
  race with answers, one node's map differing from another's, nodes that fail and rejoin,
  a buffer length carried from one frame to the next, bytes that were never written.
* **Correct when** the turn goes to the next node up, which is the only one that may be marked down,
  after as many tries as the program means to make; nobody keeps the turn; a node that believes its
  reading is stored elsewhere is right; an echo is sent in full. One would also ask that one
  node at a time has the turn, that it comes round to everybody, and that every reading that is heard is kept: the program
  does not give that (section 4).

### RHRouter — routing table and message routing

* **State.** An array of `RH_ROUTING_TABLE_SIZE` entries (destination, next hop, state).
* **Operations.** `addRouteTo`, `getRouteTo`, `deleteRouteTo`, `retireOldestRoute`,
  `clearRoutingTable`; `route`, `sendtoWait`, `recvfromAck` move messages along it.
* **Hard behaviours.** Stale entries are left in the array and searched by some operations and not
  by others; a full table must drop exactly one route.
* **Correct when** its callers see a bounded map from destinations to next hops.

### RHMesh — route discovery on top of RHRouter

* **State.** None of its own but a buffer: it reads and writes the routing table, and reads the header
  that the driver received last.
* **Operations.** `sendtoWait` asks for a route by flooding a request whose payload collects the path
  (`doArp`); `recvfromAck` answers requests and passes them on; `peekAtMessage` learns routes from responses
  and drops them on failures; `route` reports a failed hop to the source of the message.
* **Interaction.** Every unicast hop is a call of `RHReliableDatagram::sendtoWait`, which blocks and
  discards what else arrives; the ten seconds before an acknowledgement are spent inside `recvfromAck`.
* **Hard behaviours.** Requests that come back, loops of routes, failures that cause failures, `headerFrom()`
  read after another frame has arrived, a hop that reports a failure although the message has arrived.
* **Correct when** routes lead through nodes that can be heard, requests follow simple paths,
  a message is handed over at most once, and the network comes to rest.

### RHReliableDatagram — acknowledged datagrams

* **State.** The last sequence number sent, the last one seen from each address (`_seenIds`), the number of
  retries and the timeout.
* **Operations.** `sendtoWait` sends again until acknowledged or out of retries; `recvfromAck` acknowledges
  and drops what it has seen.
* **Hard behaviours.** Numbers of one octet that wrap, acknowledgements lost or late, both ends sending at the
  same time, a node that restarts.
* **Correct when** no message is handed over twice or after a later one, and one that is
  reported as acknowledged has been handed over.

### RH_Serial — driver of a serial line

* **State.** `_rxState`, the buffer `_rxBuf` with `_rxBufLen` and `_rxBufValid`, two checksums.
* **Operations.** `send` writes a frame, doubling every DLE; `available` reads octets through the state
  machine of `handleRx` until a message is complete; `recv` hands it over.
* **Hard behaviours.** Octets lost, changed or inserted anywhere, frames cut short by a restart, a frame longer
  than the buffer, data that looks like the start of a frame, octets that wait while a message does.
* **Correct when** what `recv` returns was sent, once and in order, and frames are found again
  after a disturbance.

### RHDatagram — addressing

Header setters, `sendto`, `recvfrom`: thin calls of the driver.

### RH_RF95 — driver of the radio chip

State: `_mode`, `_rxBufValid`, `_buf`, `_bufLen`, the received headers. `available`, `recv`,
`send`, `waitPacketSent`, `setMode*` run in the main thread, `handleInterrupt` in the interrupt thread of
pigpio, with a mutex around parts of them if `RH_USE_MUTEX` is defined. Hard: every step of one thread between any two steps of
the other.

### Outside the program's own logic

SPI and Raspberry Pi glue (register access), AES tables and cipher (pure functions), the drivers
of radios that the ring does not have, `RHEncryptedDriver`, the TCP ether simulator, and the trial
programs under `RadioHead/examples/raspi/rf95` (clients and servers of one layer each, and a GPS
reader). They are not modelled, but the mesh, router and reliable-datagram trials show how
those layers are called.

## 2. Plan

In order of what matters most to the ring:

1. `TurnRing` with `MCTurnRing` and `TurnRingProofs` — the node program. *Done.*
2. `RoutingTable`, its abstract specification `RouteMap`, and `RoutingTableProofs`. *Done.*
3. `RF95Driver` — main thread and interrupt thread on the driver's variables and the chip's
   registers, its abstract specification `Mailbox`, and `RF95DriverProofs`. *Done.*
4. `ReliableDatagram` over a driver that keeps one frame, its abstract specification `DatagramService`,
   and `ReliableDatagramProofs`. *Done.*
5. `Mesh` — message routing and discovery over acknowledged hops, and `MeshProofs`. *Done.*
6. `SerialLink` — the serial driver, its abstract specification `LossyLink`, and `SerialLinkProofs`. *Done.*
7. Left: a mesh whose routing table is full, and one whose hops fail for ever; and the ring with a clock, in which the
   tries of a turn (53 s for each node given up) race with the 60 s of silence of the others.

How they fit together: `Mailbox` is what `ReliableDatagram` takes a driver for, except that an unread frame may
be replaced (the case of `available()`, which `recvfromAck` calls). `ReliableDatagram`'s theorem that a message is
handed over at most once is what `Mesh` assumes of a hop. `RoutingTable`'s theorem that the table acts as a map
is why `Mesh` has a map from destinations to next hops.

## 3. The modules

### TurnRing

`node[n]` is the record of the variables of node `n`'s `main()` that outlive an iteration,
`rx[n]` the unread frame its driver holds (a set of at most one), `files[n]` what it has written
to disk. `faults`, `contended`, `starts` and `crashes` belong to the environment.

One iteration of the loop is one action, named after the `state` it handles; a state whose block has
several ways out has an action for each (`State2Receive`, `State2Resend`, `State2TurnOver`). An
iteration that polls the radio and finds nothing while no timer is over changes nothing and is
not modelled. The committed program is that of node 33. Other nodes run the same program with their own
address, and the if-chain of state 5 starting after themselves; `Target` is that chain for any
node. `PrevNode` is `prevNode()` as it is, with its missing wrap. `Evict` is state 12's pair of scans.
Its first scan walks through `end()` of the map and reads a byte there, which `sentinel`
stands for: the object files in the repository (64-bit ARM, GCC's library) place a byte of the map's header
there, which state 8 writes when it looks up an address that is not in the map.

Frames keep what the program reads of them: length, flag, the second and third byte,
the addresses in a join frame up to a zero byte, and the reading. `recvfrom()` copies no more
than the length passed to it, and leaves in `buflen` what it copied, exactly as the driver
does: this is what `EchoWhole` is about. `turn[0]`,
`data[1]`, `dupe_buf[0]` and others are sent before they are written; `JunkByte` and `JunkFlag` are
the values that such a byte may hold.

*Medium.* A broadcast reaches every powered node whose receiver is on, but for the ones that lose it.
The driver switches the receiver off when it has taken a frame. The next poll switches it
on again, and so does `setModeRx()` after a transmission, even if the frame is still
unread: such a frame is `open`, and the next one replaces it. After power-up the receiver stays
off until the first poll, and after answering its first join the founder of a network calls
`setModeTx()` (l.1383), which sends the answer a second time (`State9Again`) and leaves the
receiver off until state 5 switches it on. Losing a frame is a fault, counted against `MaxFaults`, unless
another node was about to send when it, or an earlier frame, was sent: then the two
may have collided and any loss is free.

*Frames cut off.* `sendto()` returns when the transmitter has been started. At the program's modem setting a frame
of 50 bytes takes about 3.5 s on the air and one of 10 bytes about 1.5 s. State 5 calls `setModeRx()` at once (l.1196, and
for the other targets l.1207, 1218, 1229, 1239) and state 9 after 2 s (l.1375): both cut their frame off (`BroadcastCut`),
and nobody hears a turn frame. That a node is held up between the two calls until its frame is out is a fault, counted
like the others; the acknowledgement of a turn in state 3 is reached in that way only.

*Time.* The program waits at most 7 s between taking a frame and answering it, and its timers run
for 15 s, 25 s or 60 s. A timer therefore expires when every node is waiting and no frame is unread,
and the 60 s timer only when no node waits for an echo, for the answer to its request to join, or for its 25 s to
be over. Any other expiry is a fault and counted. A node that sends the turn again and again does not hold up the 60 s of the others:
its tries last 53 s for each node that it gives up, so that it may or may not have given one up, and gone on to the next, by
then. A timer's action has no clock: whatever the order in which timers of the same class
expire, the model has it, and so it has orders that no clock would produce. That makes the properties that hold stronger;
`ring_takeover` and `ring_alone`, the runs that refute one, have traces whose order the timers give.

*Power.* `Crash` clears the variables and keeps the files; `Start` enters state 7. The clock
that stamps readings survives. Both are free at a quiet moment and a fault otherwise.

Left out: AES (a reading that decrypts, or `NoPayload`), the layout of the CSV files,
the byte past `dupe_buf` that l.984 writes, and
channel activity detection, which the program does not configure, so that `sendto()` succeeds.

`MCTurnRing` adds the fairness to the specification and names the reading whose ciphertext begins with a zero byte. Every run starts
from `Init`, with everybody off.

### RouteMap and RoutingTable

`RoutingTable` is the array of `RHRouter`, with an action for each public operation;
`Deleted` is `deleteRoute()`, `Added` the three loops of `addRouteTo()`. `Init` leaves the memory that
the constructor does not write arbitrary. `RouteMap` is what callers may rely on: a map with
room for `Capacity` destinations, in which a new destination displaces another only when there is
no room. `HopOf` maps the table to it through `getRouteTo()`, the only way in which callers look.

### Mailbox and RF95Driver

`RF95Driver` has the two threads that share a radio: the program's, which calls the driver (`main`), and
pigpio's, which runs `handleInterrupt()` (`isr`). Each `at` names the next access; one step is one
transaction on the SPI bus or one access to a member that both threads use, so that every
interleaving of those is a behaviour. `drv` holds the shared members (`_mode`, `_rxBufValid`, `_bufLen`
as zero or not, `_buf`, the headers), `chip` the registers that decide what happens next (`RegOpMode`,
the mapping of DIO0, the interrupt flags, the FIFO and who has set its pointer). `UseMutex` says whether
`RH_USE_MUTEX` is defined; the ring program's Makefile does not define it, those of `rf95_client` and
`rf95_server` do. `Calls` is the set of calls the program makes, in any order.

*The radio* is external. DIO0 follows the flag it is mapped to and its rising edge starts the
handler, once for all the edges since the handler last started. A frame takes a second or more and the program's
steps milliseconds, so the air advances (`Air`) only while the program is between calls or in a
polling loop and no interrupt is being handled; a frame may then end at any later moment. The 5 s
of `send()`'s wait are longer than any transmission. A burst read while the program has moved the pointer,
or written to the FIFO, yields anything (`Readings`).

`Mailbox` is what a caller may rely on: a place for one message, filled only while it is empty, that
yields no message twice.

Left out: the modem's configuration, `sleep()`, channel activity detection, signal strength, frames
shorter than their headers, and the counters of good and bad frames.

### DatagramService and ReliableDatagram

`last[n]` is `_lastSequenceNumber`, `seen[n]` is `_seenIds`, `rx[n]` the frame in the driver, `task[n]` where
the node is in the call it runs: `transmit` and `await` in `sendtoWait()`, `ack` and `filter` in `recvfromAck()`,
`reack` in the acknowledgement that `sendtoWait()` sends for a message seen before (l.114 of
`RHReliableDatagram.cpp`). A transmission, a poll that finds a frame and the filter are one action each, because
between any two of them, in the ten seconds before an acknowledgement above all, frames come and go.
A poll that finds nothing changes nothing and is not modelled. `Air` lets a frame reach any of the nodes
it is for, in the place of an unread one: a frame can be lost on the air, overwritten, or discarded by a
receiver that waits for an acknowledgement, and a retransmission duplicates it. `Restart` runs the constructor
again. `IdSpan` is the number of identifiers (256), `ExplicitDedup` the switch `RH_ENABLE_EXPLICIT_RETRY_DEDUP`
(0 in the code; the proofs cover both). `no` numbers a sender's messages without wrapping and is only read by the properties.

`DatagramService` is what a program may rely on: messages are delivered in order and at most once
between the receiver's restarts, and one is confirmed only when it has been delivered — as long as
neither end has restarted and the identifiers have not wrapped, which is in the specification because the
code gives no more: a receiver that restarts between the acknowledgement (l.154) and the filter (l.162) has confirmed what
it never hands over, and message 256 may bear the identifier of the first. `ImplementsService` maps a message
that has passed the filter to a delivered one.

### Mesh

`route[n]` is the routing table, `out[n]` the message that the node is delivering to the next hop (inside
`RHReliableDatagram::sendtoWait`), `got[n]` the unicast message that it has received and is acknowledging, with
`from`, what `headerFrom()` returns at that time; `rx[n]` a broadcast in the driver, `arp[n]` the message for which `doArp()` waits.

A hop is `Receive` (the message reaches the next node), then `Delivered` or `Undelivered` at the sender, whether or
not it was received; `Handle` is the rest of the receiver's `recvfromAck()`: `peekAtMessage()`, then delivery
or `route()`. `Hear` handles a broadcast. `Overhear` is the header overwritten by any frame on the air while
the node acknowledges; `validateRxBuf()` (`RH_RF95.cpp:276`) stores the headers before it looks at the address.
`Handed` has the two callers of `RHRouter::recvfromAck()`: the program, and `doArp()`, which takes
any response for its own and ignores the rest, requests included (that the length it receives with, once shortened by a message, stays so for the next, l.65 of `RHMesh.cpp`, is left out). `Fails` is `RHMesh::route()` after a failure: it
drops the route, and tells the source through the node that the message came from.

Abstractions: the table has room for all destinations (`RoutingTable` has the full one). A hop
hands a message over at most once, which is `ReliableDatagram`'s `InOrder`. A broadcast is handled with its own header; `Overhear` has the late header
of unicast messages only. A broadcast is lost to a node that waits for an
acknowledgement. No node restarts. `Link` says who hears whom, and need not be symmetric.

### LossyLink and SerialLink

`tx` is what `send()` has still to write, `line` the octets under way, `rxState`, `rxBuf` and `valid` the
receiver's members, `fcs1` the first half of the received checksum. `HandleRx` has one disjunct for each
`case` of `handleRx()`; `Available` is one turn of the loop in `available()`. `Lose`, `Insert` and `Corrupt` act on the
octet about to be read, `SenderRestarts` leaves a frame cut short, `ReceiverRestarts` is the constructor and `init()`
of a driver with static storage, whose other members start at zero (neither of the two writes `_rxBufValid` or `_rxBufLen`).

A checksum on the line is a pair of octets marked with the frame it belongs to. What has been received passes
`validateRxBuf()` if the two halves belong to a frame that equals `rxBuf`. So a checksum that fits by chance
is left out — one frame in 65 536, which the code cannot tell either — while the octets of the checksum, which are not
stuffed, are those that they are: a DLE or STX in it matters to a receiver out of step.

Left out: `recv()` with a buffer too short for the message, and `waitCAD()`, which always succeeds on a line.

`LossyLink` is what a program may rely on: messages may be lost, but those handed over are for this node,
unchanged, in order and never twice.

## 4. What is checked

| run | question | bounds |
| --- | --- | --- |
| `ring_turn` | `TurnTarget`, `Evictions`, `FourTries` | 3 nodes, one power failure, frames lost by collision and by being cut off |
| `ring_data` | `TypeOK`, `OwesTurn`, `EchoWhole`, `Replicated`, `TurnEnds` | 2 nodes, 2 faults, a power failure, 2 power-ups each, one reading of each, one of them with a leading zero |
| `routing_table` | `FirstWins`, `ImplementsMap`, `ActsAsMap` | 3 slots, 4 destinations, 2 hops |
| `driver_unlocked` | `Coherent`, `CopyHasLength`, `ImplementsMailbox` without the mutex, for a program that calls `recvfrom()`, `send()` and `waitPacketSent()` | 2 frames heard intact |
| `driver_locked` | `TypeOK`, `TxEnds` with the mutex, all calls | 1 frame heard intact |
| `reliable` | `TypeOK`, `InOrder`, `AckedDelivered`, `ImplementsService`, `Returns`, with identifiers that come round again | 2 nodes, 2 messages and 1, 2 identifiers, 1 retry, one node restarting any number of times |
| `mesh` | `TypeOK`, `NextHopHeard`, `Visited`, `HandedOnce`, `Settles` | 3 nodes, a line with one more link in one direction, 2 routers, 2 hops, 3 messages, one of them broadcast |
| `serial` | `TypeOK`, `ImplementsLink`, `Recovers` | 3 frames, 2 disturbances or restarts, 2 octets of payload, one write on the line |

`CHECK_DEADLOCK FALSE` in the ring's configurations: all nodes may be powered off with no
power-up left, and the only node of a network waits in state 11 for as long as nobody joins. In
`driver_unlocked` the program may wait for ever, which is what `driver_hang` shows; in `driver_locked`
deadlock is checked. `reliable`, `mesh` and `serial` come to rest when their programs have sent their
messages; that no call blocks is `Returns`, `Settles` and `Recovers`.

Why the bounds are enough. Three nodes are the fewest for which the next node, the previous
node and the rest of the ring differ and for which a node may be skipped; joining, founding and the
two-node branches (`two_nodes`) need two, and so does whatever becomes of a turn: with two nodes all of states 5 and 12 is passed,
the scan through the map's end included. One fault is a lost frame, an early timer, a node held up until its turn frame is out, or a power
failure in the middle of an exchange; two of them bring about each
resend and each marking down, and every action of every state fires in these runs. Three slots
have a first, a middle and a last one, and four destinations overflow them. Two frames are the
fewest of which one can replace another; the number of garbled frames and of transmissions has no bound.
With two identifiers the second message bears the one with which the tables of seen identifiers are filled, so that it is
taken for an old one if the first has not arrived; a sender that has restarted repeats an identifier that the receiver has seen, and one
retry makes a duplicate. `Retries` and `IdSpan` do nothing else than end the loop and wrap. A mesh of three nodes in a line has a source, a forwarder and a
destination, and the link from `c` to `a` alone lets a request take a way on which no answer returns. Three frames are the
disturbed one, the one that may be lost with it, and the one that must come through; payloads of two octets overflow
a buffer of two, and include a DLE and an ETX. The theorems of section 5 hold without the bounds: the safety properties of the ring
are proved for any number of nodes, faults, power failures and restarts, and any uninitialised bytes, `Replicated` with one restriction on those bytes.

**Fairness.** `Fairness` is weak fairness of each node's loop — it never blocks, and a timer that is
over is found over at the next poll — and strong fairness of `State2TurnOver`: the 60 s timer
of a turn is not restarted by a resend, so a node cannot go on resending for ever. Nothing
is assumed of the medium: frames that collide, and frames that are cut off, may be lost each time. In `RF95Driver` both threads are scheduled again and again, time passes, and a transmission
ends; the mutex is only assumed to be granted when it stays free. In `ReliableDatagram` every node goes on
with its call, and `Timeout` is strongly fair: the time is measured from the transmission (l.82), so frames that arrive
do not put it off; the medium is not assumed to deliver anything. In `Mesh` messages are handled and hops end, one way
or the other, and `doArp()` gives up four seconds after it has begun (strongly fair, for the same reason).
In `SerialLink` `send()` writes its frame to the end and the receiving program goes on calling `recv()`; nothing says
that another frame is ever sent.

**Limits of the driver's properties.** `ImplementsMailbox`, `Coherent` and `CopyHasLength` are
claimed for programs that switch the receiver on through `recvfrom()` only. With `available()` or
`setModeRx()` among the calls TLC refutes all three, with the mutex or without: the receiver is then on
while a message waits; a frame that arrives replaces the message, or, if garbled, sets
`_bufLen` to zero between `available()` and the copy. The ring program makes these calls, and `TurnRing`
has the replacement.

**Limits of the upper layers' properties.** `Settles` is asked of a mesh in which, from some time on, no hop fails and
no header is overwritten. While hops fail, a failure that cannot be delivered gives rise to another
with its hop count at zero (`RHMesh.cpp:140`), and with a route that points back the two nodes may go on as long as the hops fail.
`Discovered` is claimed by `RHMesh.h` and refuted below. `AckedDelivered` has the two exceptions of the service.
`HandedOnce` is about unicast messages only; a broadcast is heard once by the medium's nature and may be heard not at all.
`Recovers` excludes checksums that end in a lone DLE, or are DLE STX: a frame with such a checksum that is sent over and over
keeps a receiver that has lost one octet out of step for ever, although `RH_Serial.h:68` speaks of
"robust binary message passing with error-detection and retransmission"; TLC finds that case when the premise `Aligned` is dropped.

**Limits of the ring's properties.** Nobody hears the turn frame, so nothing is claimed that rests on it: neither that one node at a
time has the turn, nor that it comes round to everybody, nor that a living node stays up in the maps of the others. The
node that passes the turn on sends it four times in vain, marks its target down, goes on to the next, and in the end is left with itself in its
map and waits for a join (state 11), unless it hears an acknowledgement or a frame of its target before. The ring goes on
because a node that has heard nothing for 60 s takes the turn, if it follows the last broadcaster and no wrap lies between
them (`ring_takeover`), while the tries are still going on. `TurnEnds` and `FourTries` are what remains
true of this, and `ring_alone` shows how a ring of two ends.
`TurnEnds` is checked with two nodes only: a run with three has more than 600 000 states, for which TLC cannot check a liveness
property in reasonable time. Readings may be lost to a short `buflen`: a node that takes a 20-byte announcement for the
answer to its request listens with `buflen` at 20 (l.934), and the next reading is cut to that length and handled as an
announcement. They may be lost without that, and no property says that all arrive. `NodeAssumption` aside, nothing is
assumed of who powers up when: nodes found networks of their own and no property says that they find each other. `Replicated` holds with faults and restarts, but needs `CleanBytes` (section 5).

### Disagreements between the code and what it says

Each is a run that TLC must find violated.

| run | the repository says | the code does |
| --- | --- | --- |
| `ring_alone` | l.1246 "you are the only node in the network. wait for a join req" | the founder's turn frames are cut off (l.1196); it marks down the node that has just joined and waits for a join, though that node listens |
| `ring_takeover` | l.481 "verify if the last broadcast was sent from the node before your turn" | `prevNode()` does not wrap: a ring silent after its highest node stays silent |
| `driver_hang` | `RadioHead/RH_RF95.cpp:365` "when Tx is done, interruptHandler will fire and radio mode will return to STANDBY" | without the mutex the handler of a frame just received may stop the transmitter before `_mode` says that it is on; `waitPacketSent()` then waits for ever |
| `mesh_stale_header` | `RadioHead/RHMesh.h:64` request and response "together ensure the original requester and all the intermediate nodes know how to route to the source and destination nodes and every node along the path" | a response is handled with the header of a later frame: the requester's second request, heard while its neighbour acknowledges the response, makes the two point at each other, and the message goes round between them |

## 5. What is proved

For the ring and the table: for any finite set of addresses, any contents of uninitialised bytes, any number of faults, failures
and restarts (`NodeAssumption`, `BoundAssumption`, `JunkAssumption`), and any size of the table
(`SizeAssumption`, `HopAssumption`).

`TurnRingProofs`:

| theorem | statement |
| --- | --- |
| `TypeCorrect` | `Spec => []TypeOK` |
| `OwesTurnAlways` | `Spec => []OwesTurn` |
| `EchoWholeAlways` | `Spec => []EchoWhole` |
| `TurnTargetAlways` | `Spec => []TurnTarget` |
| `EvictionsOfTheTarget` | `Spec => Evictions` |
| `TriesCounted` | `Spec => FourTries` |
| `ReplicatedAlways` | `CleanBytes` implies `Spec => []Replicated` |

The inductive invariant `RingInv` is a conjunction of `LocalInv(n)` for each node, which relates the
variables of one `main()` to each other, and `MediumOK`, the types of what is on the air.
`LocalInv` is needed because none of the properties is inductive: `EchoWhole` speaks of state 3,
but what makes it true is that state 4 is left for state 3 only with a long frame or through the
branch that restores `buflen`; `TurnTarget` needs that the map does not change between
states 5 and 12, and `Evictions` needs `TurnTarget` at the moment of the scans, together with what
the scans do when the target lies below the sender and the first one reaches `sentinel`. A step of a
node changes only that node's record, so the proof has one lemma for each state
(`State1Inv` to `State14Inv`, `StartInv`, `CrashInv`), which shows `GoodStep`: the invariant afterwards,
and nobody marked down but the target. `NextGoodStep` joins them.

`FourTries` counts down the turn frames that a node may still send without an answer. It does not hold of one counter: `turn_retry`
goes back to zero whenever somebody is given up, the map shrinks then, and once per life of a node it does not, because
the first scan takes the map's end for a node. `TriesRemain` shows that a node in state 12 has tries left whatever `turn_retry` it
has kept from earlier turns; `EvictsOne` that the scans take exactly one element from the map, or the end's
byte; `ResendOrEvict` finds the only steps from state 12 to state 5, and `TriesGoDown` adds up.

`Replicated` says that a reading which its own node has filed is filed elsewhere, and it is about two disks and the air
between them. `ReplicationInv` carries it through: what a node is about to echo, or to rebroadcast, is on its disk
(`HoldsKept`), and a frame whose second byte is an address carries a reading of its sender, or one on its sender's disk
(`CarriesKept`), so that a node which takes a frame for the echo of its own reading has evidence that another has stored it. That is
true of echoes by l.914, but the rebroadcast of state 13 has a second byte that was never written, and may carry a reading
that was kept for the rebroadcast and not filed, because its ciphertext began with a zero byte (l.980). `CleanBytes` excludes
the coincidence of the two: no unwritten byte is an address, or no ciphertext begins with a zero byte. The
hypothesis is needed: with two nodes, two faults, an unwritten byte that may be an address and one such ciphertext TLC finds a
behaviour of 65 states in which a node takes the other's rebroadcast of its reading for the echo, and nobody else has filed it.

`RoutingTableProofs`:

| theorem | statement |
| --- | --- |
| `TypeCorrect` | `Spec => []TypeOK` |
| `OneEntryInUse` | `Spec => []FirstWins` |
| `OperationsActAsMap` | `Spec => ActsAsMap` |
| `TableImplementsMap` | `Spec => ImplementsMap` |

`TableInv` (types and `FirstWins`) is inductive, because `deleteRoute()` moves entries without changing their order and
`addRouteTo()` writes the first entry of its destination. `LookupSound` says that under it
`getRouteTo()` finds the one entry in use; `RoomLeft` that known destinations fit the slots, by an
injection; the lemmas after them map each operation to a step of `RouteMap`.

`RF95DriverProofs`, for any calls and any number of frames (`DriverAssumption`):

| theorem | statement |
| --- | --- |
| `TypeCorrect` | `Spec => []TypeOK` |
| `HeadersCoherent` | `Polite => (Spec => []Coherent)` |
| `CopiesWithLength` | `Polite => (Spec => []CopyHasLength)` |
| `DriverIsMailbox` | `Polite => (Spec => ImplementsMailbox)` |

`Polite` says that the program calls `recvfrom()`, `send()` and `waitPacketSent()` only; the theorems then hold with the
mutex and without it. `DriverInv` adds to the types where the program's thread is while it holds the mutex (`MainHolds`): without
that, `TypeOK`'s claim that no call returns with the mutex held is not inductive. The lemmas
`ChipWritten`, `ChipBecomes` and `DriverWritten` say what one register access or assignment
keeps; the step lemmas have one step for each access.

`PoliteInv` is the argument why the mutex is not needed for the message. From the flag of a frame in the chip until
the handler has announced it (`Heard`, `Early`) no message waits and the program is not in the calls that take one or
switch the receiver on (`MeanwhileOK`), because a frame can only be heard while `_mode` is receive and no message waits
(`SignalsOK`), and once one waits the handler is on its way to `setModeIdle()`. `ModesOK` relates `_mode` to the
chip's register at every point of either thread, the races between `send()` and a handler that has just found
a frame included; `MessageOK` and `FreshOK` then carry the headers, the length and the identity of the frame. The
invariant does not mention the mutex. Of the steps of the refinement, `Announce` is `Put`, `ClearValid` is `Take`, and all others leave the mailbox as
it is.

`ReliableDatagramProofs`, for any nodes, any number of identifiers, retries below 255, messages and restarts, with explicit
deduplication or without (`ReliableAssumption`; with 255 retries the loop `retries++ <= _retries` does not end):

| theorem | statement |
| --- | --- |
| `Invariance` | `Spec => []IInv` |
| `TypeCorrect` | `Spec => []TypeOK` |
| `HandedInOrder` | `Spec => []InOrder` |
| `ConfirmedIsHanded` | `Spec => []AckedDelivered` |
| `Implementation` | `Spec => ImplementsService` |

No property is inductive, because what keeps a retransmission from being handed over is spread over the sender's
counter, the frame under way and the receiver's `_seenIds`. `IInv` says of every frame in a driver or being answered
which message it is a copy of (`FrameOK`): the current one of its sender or one before. What has been handed over is not newer than that
(`LogOK`), and of two frames of one sender the one that arrived later is not older (`RxOK`, `Behind`).
While neither end has restarted and the counter has not wrapped, identifier and number are the same (`IdsOK`), so that an acknowledgement
on the way (`AckOK`) says that its message has passed the filter or is about to, or restarted ends excuse it.

`MeshProofs`, for any nodes, links (symmetric or not), routers, messages and limit of hops (`MeshAssumption`):

| theorem | statement |
| --- | --- |
| `Invariance` | `Spec => []IInv` |
| `TypeCorrect` | `Spec => []TypeOK` |
| `NextHopsAreHeard` | `Spec => []NextHopHeard` |
| `RequestsFollowPaths` | `Spec => []Visited` |
| `HandedAtMostOnce` | `Spec => []HandedOnce` |

`IInv` says, node by node, that the sender of every frame it holds has been heard by it, however late the header is read, and
that requests carry the path they have come by: from that the next hops and the paths follow. `HandedOnce` has an
invariant of its own, `Once`: a unicast message is in one place only — waiting for a route, on one hop, being acknowledged,
or in the log (`OnePlace`). It survives a hop that reports a failure after the message has arrived because the code then sends a
failure and never the message again.

`SerialLinkProofs`, for any octets, frames, addresses, checksums and lengths, and any number of frames and disturbances
(`SerialAssumption`):

| theorem | statement |
| --- | --- |
| `Invariance` | `Spec => []IInv` |
| `TypeCorrect` | `Spec => []TypeOK` |
| `Implementation` | `Spec => ImplementsLink` |

`IInv` says that the ends of checksums on the line stand in the order of their frames (`Ordered`), belong to frames
that `send()` has finished (`Marked`), and all come after whatever has been received or waits in the buffer (`LogOK`,
`ReceivedOK`). Each disturbance only takes marks from the line (`Drawn`), which keeps all three.

Checked by TLC only: `TurnEnds`, `TxEnds`, `Returns`, `Settles` and `Recovers`, which are liveness properties under fairness and
out of this prover's reach. Every invariant and every action property of the runs that pass is proved. All modules with
theorems are free of recursion.

## 6. Not modelled

`components` in `PROJECT.json` lists every part with its status. Left out are:

* *SPI and Raspberry Pi glue* (`RHSPIDriver`, `RHHardwareSPI`, `RasPi.cpp`): register access, delays and the attachment of
  the interrupt, which `RF95Driver` has as single steps of `chip`. The vendored `bcm2835` library and its 4 400 lines are
  the processor's registers.
* *AES tables and cipher*: pure functions on bytes.
* *The other radio drivers* (RF22, RF24, RF69, NRF24, NRF905, CC110, MRF89, ASK, E32, ...): about two thirds of the
  repository's lines, for chips that the ring does not have. Each is the configuration of a chip by tables of register
  values and a driver of the shape of `RH_RF95`; modelling them would be models of those chips.
* *RHEncryptedDriver*, *the TCP ether simulator* and *the trial programs* under
  `RadioHead/examples/raspi/rf95`: callers of the layers above with no logic of their own, or a simulation tool.
* In `RH_RF95`: the configuration of the modem, `sleep()` and channel activity detection, which the ring program does not use
  after start-up. In `RHDatagram`: `setThisAddress()` after start-up.

The models therefore cover the program and the layers that run on it and its neighbours in the trial programs, and a small share of
the repository's lines: most of them belong to the library's other platforms and radios.

# The Citadel in TLA+

A formal model of the Maester program of this repository (`src/src/*.c`), checked with TLC and
partly proved with TLAPS. A Maester is one process per realm. It reads commands from its standard
input, keeps a table of alliances, and exchanges 320-byte frames ("ravens") with other Maesters over
TCP, directly or through other realms. The paths below are those of the repository, and `maester.c`
stands for `src/src/maester.c`.

## 1. Inventory

| Component | State | Operations | Talks to |
|---|---|---|---|
| Event loop (`maester.c` 1327-1463) | `shutting_down`, `g_should_exit` | one `poll()` over input, listener, connections; at most 500 ms per turn | everything below |
| Commands (`maester.c` 392-687, 1112-1207) | none of their own | `PLEDGE`, `PLEDGE RESPOND`, `START TRADE`, `EXIT`, listings | missions, table, routing, connections |
| Missions (`missions.c`) | `active_mission`: in use, type, target, deadline | begin, finish, check the deadline | commands, frame handler, loop |
| Alliance table (`maester.c` 1474-1608) | `alliances`: realm, IP:Port, state; at most 64 entries | search by name or IP:Port, add or update | commands, frame handler |
| Routing (`network.c` 281-325) | `routes`, read once | resolve a name to a next hop, with `DEFAULT` | commands, frame handler |
| Frame handler (`maester.c` 802-1085) | none of its own | forward, response, pledge, disconnect, requests | table, missions, routing, connections |
| Connections (`network.c` 343-541, `maester.c` 767-800, 1272-1325) | `connections`: socket, label, buffers | find, open, accept, close, compact, broadcast the farewell | sockets |
| Frame stream (`network.c` 221-279, 543-599, `maester.c` 689-765) | `send_buffer`, `recv_buffer` | queue, flush, append, extract, reset | sockets, frame handler |
| Frame format (`network.c` 59-182) | none | serialize, deserialize, checksum | frame stream |
| Trade menu (`trade.c`) | a cart of at most 50 lines | add, remove, send, cancel | missions (brackets it), a file |
| Stock (`stock.c`) | the product array and its file | load, save, print | trade menu, exit |
| Configuration (`maester.c` 69-89, 112-248) | the list of routes | read the file once, line by line | routing |
| Life of the process (`maester.c` 1090-1095, 1623-1661) | `g_should_exit`, the handler of SIGINT | start, interrupt, leave, save | loop, trade menu, stock |
| Sigils, MD5, helpers | none | pure functions and file reads | |

There are no threads and no locks in use (the mutexes of `maester.h` belong to a later phase), and a
Maester handles one event at a time. What is hard is between the processes: pledges and answers that
cross, arrive after their deadline or find another mission; frames that take default routes; peers
that exit, are killed, come back; sockets that take half a frame, reset, or kill the sender with
SIGPIPE. Within a process two more things are hard: pointers into the connection table are kept over
calls that move it, and signals, kills and short writes come between any two steps of the menu and
of the saving. `PROJECT.json` lists these hazards, each at its line.

What makes each part correct:

- *Missions*: one at a time; a pledge ends with its answer or its deadline; a pledge in progress has
  the entry its answer will change.
- *Table*: one entry per realm, unless the user misspelt it, none invented by a stray frame, none
  `ACTIVE` without the user's word, none `ACTIVE` for a realm that said goodbye.
- *Routing and forwarding*: a frame reaches its realm or is dropped.
- *Connections*: one usable connection per label; no end outlives the other; every descriptor has
  its entry, and an event finds the entry it is about.
- *Cart*: for each product one amount, changed only by the requests for it, positive.
- *Stock*: nothing is saved that was not there; nothing is lost by an orderly end.
- *Configuration*: the list that was read means the routes the protocol assumes.
- *Stream*: whole frames, once, in order; the buffers stay within their arrays; a bad frame costs
  itself only.

## 2. Modules

| Module | Models |
|---|---|
| `Frames` | names, addresses, frames, the routing tables and `maester_resolve_route` |
| `AllianceTable` | one alliance table: the two searches, add or update, the limit |
| `Links` | TCP connections as frames see them, and the operations of `network.c` on them |
| `Citadel` | the Maesters: commands, frame handler, missions, exit, crash, restart, time. Extends the three above |
| `AllianceLedger` | abstract: what the tables promise, with no frames, connections or deadlines |
| `FrameStream` | one direction of one connection, byte by byte, at both ends |
| `FrameFormat` | the bytes of those frames: fields, padding, length, checksum, and what the parser makes of them. Extends `FrameStream` |
| `FrameChannel` | abstract: a queue of whole frames that may lose its tail |
| `ConnectionPool` | the connection table of one Maester as an array, its descriptors, and the turns of the event loop that keep pointers into it |
| `Cart` | the cart of the trade menu: operators on its array of lines |
| `Basket` | abstract: for some products an amount |
| `StockFile` | the stock database and what loading and writing may leave |
| `Configuration` | the lines of the configuration file, the list of routes made of them, the searches in it |
| `Lifetime` | the lives of one Maester: start, loop, menu, interrupt, kill, saving. Extends `Cart` and `Configuration`, uses `StockFile` and `Frames` |
| `MCCitadel`, `MCFrameStream`, `MCPool`, `MCLifetime` | the instances TLC checks |
| `Tables_proofs` | lemmas about the operators of `AllianceTable` and `Links` |
| `Citadel_proofs`, `CitadelSafety_proofs`, `CitadelLedger_proofs` | theorems about `Citadel` |
| `FrameStream_proofs`, `FrameFormat_proofs`, `ConnectionPool_proofs`, `Lifetime_proofs` | theorems about those modules |

### How `Citadel` corresponds to the code

- `phase[r]` says whether the process of `r` is in its event loop, in the trade menu (where the loop
  stands still) or gone. `mission`, `alliances` are the fields of `Maester`. `pledged`, `accepted`
  and `asked` are history: what the user pledged to and accepted, and which pledges were handled, in
  this life of the process. A process that ends loses all of it; nothing about alliances is stored.
- An action is one typed command (with the `check_timeouts` that starts it), one handled event, or
  one expiry. The send inside a handler is part of the action: `Sent` resolves the route, finds or
  opens the connection to the next hop and returns every outcome of the send (`sent`, `failed`,
  `refused`, `unroutable`, `killed`), and the handler says what it does with each.
- Time is the Boolean `mission[r].due`: the deadline of a pledge passes at some moment after it was
  sent. A trade has no deadline (`deadline = 0`).
- A name is a model value, compared as `my_strcasecmp` compares spellings of one name. `Cleaned` is
  `clean_realm_name`, which takes the `&` out of a name. `maester_add_or_update_alliance` searches for the
  name as it is given and stores it cleaned, so a realm that is pledged to with an `&` gets a second
  entry (and its answer a third, as the mission has the name as typed). A received name is cleaned
  before both. An address is
  a name, an `IP:Port` or a bare IP; only a name can equal a realm's name or match a route. The
  `IP:Port` of a realm is written with the realm's name, and so is the endpoint in a table entry.
- `LongAddresses` are the realms whose `IP:Port` does not fit the 20 bytes of an origin.
  `build_origin_string` fails for them: a pledge before anything is done, an answer after its entry is
  decided and its connection opened (`unbuildable`).
- A payload is the first field of a `PLEDGE` or the word of a `PLEDGE_RESPONSE`. File size and MD5
  of the sigil are read by nobody and left out.
- Frames for an ally's list or order (`LIST_REQUEST`, `ORDER_*`), malformed responses and nameless
  pledges are received by this code but never sent by it. `SendLaterPhase` (external) sends them for
  the realms in `LaterPhase`. The code's own use of an authorized request ends at a TODO, so nothing
  follows it.

### How `Links` corresponds to the code

A connection has two ends, `opener` and `acceptor`, each the `ConnectionEntry` of its owner while its
socket is open. The label (`peer_realm`) exists only at the opener's end: accept leaves it empty and
nothing sets it later, so `maester_find_connection` never returns an accepted connection, and realms
that talk to each other use two. An inbox holds what the kernel has taken for that end, at most
`KernelFrames`; an outbox is the `send_buffer` of its end, at most `SendBufferFrames`. A frame goes to
the kernel only past an empty outbox; behind others it waits or is refused, even if the kernel has
room again. `Flush` (POLLOUT) moves what fits. Closing drops the outbox.
A reset (`reset`) follows a frame sent to a closed peer, or a close with unread frames; after it
`Receive` and `Hangup` are both possible, because `poll()` may report the data or the hang-up first,
and a send may still succeed, fail, or kill the process with SIGPIPE, which the code neither ignores
nor suppresses. A flush of a reset connection closes it or kills the process in the same way.

### How `FrameStream` corresponds to the code

Frame `f` is the bytes `<<f, 1>> .. <<f, FrameSize>>`. A send puts any number of bytes that fits on
the wire and the rest in `send_buffer`; a read takes any number up to a frame's size. A receiver that
hangs up closes its end alone: until the sender notices, its sends are taken and lost, or fail, and
a failed one leaves nothing waiting. The extraction
loop of `maester_receive_placeholder` is one step: how many leading chunks are good frames, and what
remains (nothing, when a bad one follows). The queue of `FrameChannel` is `FramesIn(InFlight)`, the
frames whose last byte is still in one of the buffers or on the wire of an open receiver. `ArrivedAsAccepted` adds what the
channel leaves open, which frames they are: those for which `maester_send_frame` returned 0.
`Corrupt` names the frames whose checksum is wrong. The NACK a bad frame provokes travels on the
other direction and is not part of this module.

### How `FrameFormat` corresponds to the code

`FrameStream` takes for granted that the receiver knows a good frame from a corrupt one. `FrameFormat`
gives each of its frames every message of one type, written by `Serialize` (`frame_init` and
`frame_serialize`), with one byte wrong if the frame is in `Corrupt`, and read by `ParseResult` and
`Parsed` (`frame_deserialize`). `ChecksumTells` says that `IsFrame` is what the parser decides.
`HandledAsSent` says what reaches the handler; names with more characters than a field, or with a
space at the end, do not arrive as they were, although `realm_name` has room for 63 characters. The
checksum is a sum modulo 65536, so two wrong bytes that cancel out, or two that change places, are
accepted; such frames are outside `Corrupt`. `Statements and Files/README.md` (103, 217)
describes another layout and a Fletcher-16 checksum; the model follows the code.

### How `ConnectionPool` corresponds to the code

- `pool.table` is `connections[0 .. num_connections-1]`; of an entry only the descriptor and the label
  matter here. `pool.open` is the kernel's side: which connection is behind each descriptor. A new
  descriptor is the lowest free one, so one that was just closed is given again at once.
- `turn` is the place in `maester_event_loop`: compaction and `poll()`, the command, `accept()`, the
  entries of `conn_map` one by one (`at`), the frames of one entry. `polled[i]` is the connection
  `poll()` was asked about for `conn_map[i]`, which points at the entry at position `i`.
- `pool.moved` is history: `realloc` has moved the array since `conn_map` was filled. A step that
  would follow a pointer then is `UseFreedEntry` and leads to the state `undefined`, of which nothing
  more is said. Growing may also leave the block where it is, or fail.
- Every failure path of `maester_get_or_open_connection` closes the descriptor and takes the entry
  back, so the pool is the one before, except that the array may have grown (`Abandoned`).
- Compaction moves the open entries to the front: entry `i` gets the place `WriteIdx(table, i)`, the
  value of `write_idx` after it.
- Whether a command or a frame needs the next hop `hop` is the routing's business and free here.

### How `Lifetime` corresponds to the code

- `phase` goes through `maester_run`: the configuration, the loop, a turn of it, the trade menu, the
  clean-up, and the moment between the truncation of the database and its write. The network is left
  out; `Citadel` has it.
- `file` is the database on the disk and outlives the process; `found` and `ending` are history: the
  records at the start of this life, and how the last one ended. A torn last record is a flag of
  `file`, because all the code does with it is to divide it away.
- `signal()` under `-std=c99` without feature macros installs the handler for one delivery and does
  not restart system calls. So the first SIGINT sets the flag and makes the `read()` of the menu fail,
  unless it comes between two reads, where the menu goes on; the second one kills the process and
  saves nothing. (The root `README.md`, line 18, says that Ctrl+C "triggers the same cleanup path as
  `EXIT`", which holds for the first.)
- A kill stands for the second SIGINT and every other deadly signal.
- After a line of blanks in the menu `tokens[0]` is read but never set (`StaleCommand`). Usually it still
  points into the line buffer, whose bytes are new: to blanks, to an `add` or `remove` without its
  arguments, of which only the usage is printed, or to a `send` or `cancel` that an earlier, longer
  line left behind. It may also point anywhere, and the process die.
- The cart is compared with `Basket` through the function from the products of its lines to their
  quantities. Quantities are ints of `MaxInt`, wrapped as the unoptimised build does; `wrapped` marks
  the lines where C no longer defines the value.
- `Configuration` knows a line as blank, text, or a route with name and next hop. `RouteTable` is what
  the file means by the comment of `maester.c` 199, "Read routes until EOF": every line below the
  header counts, and of several for one name the first. `Frames` is given that table, and `ReadAsMeant`
  compares the search in the list that was loaded with the `ResolveRoute` that `Citadel` uses.
  `LoadedRoutesAreTheTable` says that they agree for a file without an empty line among its routes;
  `RoutesAreReadUntilEOF` says it of every file, and is violated.

## 3. Runs

The runs of `Citadel` use three realms: Dragonstone (D), KingsLanding (K) and TheVale (V) of the
`.dat` files. `CHECK_DEADLOCK FALSE` because the system may stop: the users may be done and every
process gone.

| Run | Question | Shows |
|---|---|---|
| `relay` | Do the local rules hold with full queues, looping errors, a table of one entry, a trade menu and answers that cannot be built? | `TypeOK`, `OneConnectionPerLabel`, `LocalConsent`, `OneAnswerPerPledge`, `MissionNotReplaced` hold |
| `departures` | And when realms leave, die and return, and a user misspells a name? | `DuplicatesAreMisspelt`, `EntriesHaveOrigin`, `MissionTracked`, `FarewellsMissOpeners` hold and `KeepsTheLedger`: `Citadel` implements `AllianceLedger` |
| `quiet` | Does everything that should end, end? | `PledgeEnds`, `FramesDrain`, `ClosedIsNoticed` hold, on routes without a cycle |
| `fs_channel` | Do partial sends and cut reads keep the frames, can a corrupt one overflow the receive buffer, and is it told from a good one? | `StreamTypeOK`, `RecvBufferBounded`, `ChecksumTells`, `HandledAsSent`, `ArrivedAsAccepted`, `AcceptedArrive` hold and `KeepsTheChannel`: the stream implements `FrameChannel` |
| `pool` | Do the table, the descriptors and the pointers of a turn agree? | `PoolTypeOK`, `FdsTracked`, `EventsReachTheirConnection`, `FourConnectionsAreSafe` hold |
| `lifetime` | What survives interrupts, kills and short writes, and what do the menu and the configuration file amount to? | `LifetimeTypeOK`, `StockIsABeginning`, `OrderlyEndsKeepTheStock`, `OnlyOverflowSpoilsLines`, `LoadedRoutesAreTheTable`, `InterruptEndsTheLoop` hold and `CartIsABasket`: the cart implements `Basket` |
| `late_answer` | Is an ally's endpoint its own? | **violated**: the late answer of one pledge is booked for the next one's target |
| `farewell` | Does an ally learn that a realm has left? | **violated**: the farewell is addressed to `DEFAULT` or to an IP |
| `endless` | Do frames drain on the sample routes? | **violated**: the defaults of D and K name each other, and nothing counts hops |
| `life_routes` | Are the routes read to the end of the file? | **violated**: an empty line hides all behind it, `DEFAULT` among them |
| `pool_moved` | Is an entry still there while its event is handled? | **violated**: the fifth connection moves the table under the loop |
| `fs_desync` | Does a corrupt frame cost only itself? | **violated**: the reset takes the beginning of the next frame along |

The six violated properties state what the documents, comments and messages of the repository say;
`PROJECT.json` quotes them under `findings`.

Four properties say more than their names. `DuplicatesAreMisspelt` says that only the user's spelling
makes a second entry of a realm: the search and the cleaning are in the wrong order, and it shows
that nothing that comes over the network can reach that. `OneConnectionPerLabel` is what orders the frames to one
next hop. `FarewellsMissOpeners` shows that the first branch of `maester.c` 1026-1027, which trusts
the label of a connection, is never taken; if it were, a next hop would be struck off for a realm
behind it, or an entry for `DEFAULT` be made (this is what its mutant and that of
`EntriesHaveOrigin` do). `RecvBufferBounded` shows that the overflow branch of 703-707 is dead.

`EventsReachTheirConnection` is the other half of `pool_moved`: as long as the table stays in place,
a descriptor that was closed and given anew within a turn confuses nothing, because new entries go
to the end and a closed one is only reused after the next compaction. `StockIsABeginning` and
`OrderlyEndsKeepTheStock` together say what a user can rely on: records are lost only from the end,
and only by a life that was killed or that warned of a failed write. `OnlyOverflowSpoilsLines` covers
removals of negative quantities, which the menu accepts.

### Bounds

- `MaxCommands` (2 or 3 commands): enough for a pledge, its answer, and a retry or a second target
  after the deadline; every interleaving problem found needs at most three.
- `MaxRestarts` 1: a realm can meet what is left of its former life. In `departures` every realm can be
  killed, and V can leave, which D reaches by its default route.
- `MaxConns` 4: both directions of D-K and K-V at once (with the sample routes, also V-D). When no
  slot is free an open fails, as `connect()` may.
- `KernelFrames` 1 or 2, `SendBufferFrames` 1: a frame that waits, a full queue and a kernel that has
  room again before the flush are reached with three frames.
- One name with an `&`, a spelling of V, beside the name itself.
- `MaxAlliances` 1 or 2 for 64: a full table is reached.
- `FrameSize` 3: a cut can fall before, in and after the middle byte. Wire of two or six bytes: every
  send is partial, or frames pile up. `MaxFrames` 7 in `fs_channel`: more than `send_buffer` holds,
  with the last one corrupt behind six good ones.
- `FieldLen` 2, `MaxText` 3, `MaxData` 2, `ByteValues` 3 (NUL, the space and a letter): names shorter
  than a field, as long and longer, spaces anywhere; the sum of a frame's bytes exceeds the modulus 9,
  as that of 318 bytes can exceed 65536; a changed length can be too large.
- `MaxFds` 5 and `MaxConns` (of `MCPool`) 6: the array grows from four entries to eight in any place of
  a turn, with one connection more than descriptors, so that one of them is given twice.
- `MaxLives` 2: a life meets what a cut-short one left. Three products and a cart of two lines for 50:
  a full cart, and a line removed in front of another. `MaxInt` 3: sums and differences overflow in
  both directions. Route sections of up to three lines over six kinds of route and two of other
  lines: every order of a repeated, an unusable and a blank line and `DEFAULT`.

### Fairness

`FairSpec` of `Citadel` assumes weak fairness of `Accept`, `Expire` and `DeadlinePasses` per realm and
of the events of each end of a connection, its flush apart: `poll()` reports every ready descriptor,
the loop serves all of them in a turn and turns at least every 500 ms, and the clock advances. Nothing is assumed of
users, crashes, exits or restarts, and a user may stay in the trade menu for ever. In `FrameStream`
weak fairness of `Flush`, `Read` and `EndOfFile` says the same of `POLLOUT` and `POLLIN`; closing
is never forced. This is the loop of `poll()`, so `AcceptedArrive` says nothing of a process whose user
stays in the trade menu. In `Lifetime` weak fairness of `Progress` says that a process that runs computes and
that `poll()` returns; the user, signals and kills are free, so `InterruptEndsTheLoop` allows a user who
stays in the menu.

## 4. Theorems

Proved by TLAPS for all values of the constants, under the assumptions named in the modules:
`NamesAssumption` (DEFAULT is no realm, the empty name no name), `RoutesAssumption` (routes lead to
other realms), `CleanedAssumption` (cleaning twice changes nothing more, and the names of realms and
routes are clean), `MaxAlliancesAssumption`, `LinkBoundsAssumption`, `ActorsAssumption` and
`StreamAssumption`, `FormatAssumption` (three values of a byte at least, and a length of the data
that fits two bytes), `PoolAssumption`, `CartAssumption`, `ConfigurationAssumption` and
`LifetimeAssumption` (types only).

| Theorem | States |
|---|---|
| `TypeCorrect` | `Spec => []TypeOK` |
| `PledgesAreTracked` | `Spec => []MissionTracked` |
| `AlliesAreAgreedTo` | `Spec => []LocalConsent` |
| `OnlyPledgesMakeEntries` | `Spec => []EntriesHaveOrigin` |
| `DuplicatesAreTyped` | `Spec => []DuplicatesAreMisspelt` |
| `LabelsNeverLeave` | `Spec => []FarewellsMissOpeners` |
| `OneSocketPerLabel` | `Spec => []OneConnectionPerLabel` |
| `PledgesAreAnsweredOnce` | `Spec => OneAnswerPerPledge` |
| `MissionsAreNotReplaced` | `Spec => MissionNotReplaced` |
| `CitadelKeepsTheLedger` | `Spec => KeepsTheLedger`, the refinement of `AllianceLedger` |
| `StreamTypeCorrect` | `Spec => []StreamTypeOK` |
| `ReceiveBufferNeverOverflows` | `Spec => []RecvBufferBounded` |
| `StreamKeepsTheChannel` | if `Corrupt \subseteq {MaxFrames}`: `Spec => KeepsTheChannel`, the refinement of `FrameChannel` |
| `FramesArriveAsAccepted` | if `Corrupt \subseteq {MaxFrames}`: `Spec => []ArrivedAsAccepted` |
| `ChecksumTellsFrames` | `Spec => []ChecksumTells` |
| `FramesAreReadAsWritten` | `Spec => []HandledAsSent` |
| `PoolTypeCorrect` | `Spec => []PoolTypeOK` |
| `DescriptorsAreTracked` | `Spec => []FdsTracked` |
| `EventsAreForTheirConnection` | `Spec => []EventsReachTheirConnection` |
| `FourAreSafe` | `Spec => []FourConnectionsAreSafe` |
| `LifetimeTypeCorrect` | `Spec => []LifetimeTypeOK` |
| `OnlyOverflowSpoils` | `Spec => []OnlyOverflowSpoilsLines` |
| `StockStaysABeginning` | `Spec => []StockIsABeginning` |
| `OrderlyEndsKeep` | `Spec => []OrderlyEndsKeepTheStock` |
| `CartKeepsTheBasket` | `Spec => CartIsABasket`, the refinement of `Basket` |
| `RoutesAreTheTable` | `Spec => []LoadedRoutesAreTheTable` |

The argument for `Citadel`:

1. `Tables_proofs` characterises the operators on one alliance table: what a search finds, that add
   or update changes one entry, adds one, or does nothing, and that it makes a second entry of one
   name only when it is given a name that is not clean. It does the same for connections, and has the
   lemmas that carry a fact about the frames under way to openers, in the kernel or in `send_buffer`,
   and the uniqueness of labels, through every operation on a table of connections.
2. `Citadel_proofs` has one type lemma per action, and joins them. `MissionsAreNotReplaced` needs no
   more than the type: one lemma per action says what it does to the mission of its realm.
3. The inductive invariant `SafetyInv` of `CitadelSafety_proofs` is `TypeOK`, `SoundConns`,
   `MissionTracked`, `LocalConsent`, `EntriesHaveOrigin` and `DuplicatesAreMisspelt`. `SoundConns` is the
   strengthening. Its first half, `NamelessFarewells`, says that every farewell on its way to the end
   that opened a connection is addressed to a bare IP. It holds because only the accepting end sends
   that way, and sends there no forwarded frame but only its own replies and farewells; it implies
   `FarewellsMissOpeners`, and without it `EntriesHaveOrigin` is not inductive: a farewell taken by
   an opener under its own name would make an entry for the label of the connection. Its second half
   is `OneConnectionPerLabel`, which is inductive because opening follows a failed search among the
   usable connections. Both speak of connections alone, so they go together through every operation.
4. A step has one of a few effects on missions, tables and history (`Quiet`, `Dies`, `Pledges`,
   `Decides`, `Hears`, `Answers`, `Parts`). One lemma per action names its effect; each invariant,
   `OneAnswerPerPledge`, and the refinement in `CitadelLedger_proofs`, is then proved per effect.

For `FrameStream`, `StreamInv` adds to the type that the receive buffer is shorter than a frame; a
read adds at most a frame's bytes, so at most one whole frame is found, and what is left after it is
shorter than a frame. `ChannelInv` adds what the refinement of `FrameChannel` needs: the bytes in
flight, through both buffers and the wire, are `Aligned` (frames in a growing order, one byte after
the other, the first from its beginning) and, while the sender is open, `Complete` (the last one to
its end). `Flush` moves bytes within the flight. `SendFrame` puts all of a frame behind it or none. A
close drops an end of it, which takes an end of the queue `FramesIn(InFlight)`; once the receiver has
closed nothing is in flight. `Read` is the hard
step: a buffer that holds a whole frame begins with the first byte of one, so alignment makes its
first `FrameSize` bytes that frame, and it is the head of the queue. `HistoryInv` adds that `accepted` is what
was delivered, then what is in flight, then what was lost, and that nothing is lost while both ends
are open and more frames may come; that makes `ArrivedAsAccepted` inductive. The last two theorems
assume `Corrupt \subseteq {MaxFrames}`. This code sends no corrupt frame (`frame_serialize` writes
the sum that `frame_deserialize` forms), which is the case of the empty set; a bad last frame is
there to show that it harms none before it. With a corrupt frame in the middle both are false, and
`fs_desync` shows what happens then.

For `FrameFormat`, the sum of a sequence with one byte changed differs by the change of that byte,
which is smaller than the modulus, so the remainders differ; a changed byte of the checksum or of
the length is told by the number it belongs to. This is where it matters that the checksum covers
every byte of the body, padding included, and that the modulus exceeds a byte. For what is read, the
layout of `Serialize` is computed field by field: each is where `Parsed` looks for it, and
`FieldText` undoes `Padded` exactly on the names that are `Carried`.

For `ConnectionPool` two notions carry the proof. A pool is `Sound` when it has its type, its open
descriptors are those of its open entries, and its capacity is 0 or at least 4 and more than 4 once it
has moved. A pool `Keeps` another when every entry is where it was, unchanged or closed. Each
operation is shown to keep a pool sound and, compaction apart, to `Keep` it; `PoolInv` adds the
relation between table and `conn_map`, which `Keeps` preserves. Compaction needs counting: that every
place below the last `write_idx` is the place of exactly one open entry is proved with the least
position at which the count is reached.

For `Lifetime`, lemmas about `Added` and `Removed` give the type of the cart and the sign of its lines.
`StockInv` is what `StockIsABeginning` and `OrderlyEndsKeepTheStock` need to be inductive: a stock in
memory is all that the file held at the start, the file is untouched until the truncation, and
whoever truncates has a stock to write. That the cart implements `Basket` needs `OneLineEach`: no two
lines are for one product; then a line that is found, dropped or changed is the amount of its
product, and moving the lines behind it up changes no amount. `RoutesAreTheTable` is about files
without a gap; with one it is false, as `life_routes` shows. It goes along the lines of the file from
the last to the first: the first route for a name in the list that is made from a
line on is that of the first line for it from there; the two searches, with `DEFAULT`, follow.

Sums, frames in flight and lists of routes are recursive functions on numbers. The induction theorem
of the library takes an operator as its parameter, which the provers cannot instantiate; the proofs
use a form of it for sets of numbers (`NatSetInduction`), which follows from the least element of
a non-empty set (`WFMin`).

Every invariant, action property and refinement of the passing runs is a theorem. Only model-checked
are the liveness properties `PledgeEnds`, `FramesDrain`, `ClosedIsNoticed`, `AcceptedArrive` and
`InterruptEndsTheLoop` (fairness and ENABLED are out of the prover's reach), and the violations.

## 5. Not modelled

- The text of the order file that `send` writes: nothing reads it. The weights and amounts of the
  products: the program never changes them, so a record is its product.
- Two processes that are given the same stock file: each truncates and writes without regard for the
  other, and nothing in the program looks at the file in between.
- The fields of the configuration's header, and lines longer than their buffers.
- String helpers. Frames with several wrong bytes.
- The farewell of a realm whose address is too long (`LongAddresses` and `Leavers` are disjoint):
  `maester_broadcast_disconnect` sends a cut origin, which no entry has.
- That `malloc` of the alliance table fails (`maester.c` 1567-1569), which would leave a pledge without
  its entry although the table is not full.
- A property about accepting one's own pledge. `PLEDGE RESPOND` (`maester.c` 575) looks at the state of
  the entry alone, so a user can accept the pledge it sent and have an ally without an answer,
  although `Statements and Files/README.md` (78) speaks of accepting a request. `Respond` does this, and
  `LocalConsent` allows it: it was the user's word.
- MD5 and sigil files: they decorate a payload nobody reads.
- Names typed with a `:` (which make the search go by endpoint), and names of nothing but `&`.
- How long a blocking `connect()` takes. It is one step here.
- Listings and prompts: they change nothing.

## 6. Plan

Done: `Frames`, `AllianceTable`, `Links`, `Citadel` with `AllianceLedger`; `FrameStream` with
`FrameChannel` and `FrameFormat`; `ConnectionPool`; `Lifetime` with `Cart`, `Basket`, `StockFile` and
`Configuration`; the theorems above. Next, in this order:

1. Which entry a farewell or a request is booked for: the first with the sender's endpoint, which is
   also that of every realm pledged to through that hop. `AllianceLedger` allows any known one.
2. The safety part of the liveness properties, as far as it can be proved: that a pledge in progress
   always has a step that ends it within reach, that bytes in flight always have a reader.
3. The farewell with a cut origin.

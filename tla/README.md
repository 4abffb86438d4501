# Verification of iotbroker

iotbroker is an MQTT broker for Linux in about two thousand lines of C. It is one
process with one thread: `main` waits in `epoll_wait` and runs one handler to its end
for every event. What makes it hard to get right is therefore not threads but the
sequences of handlers: messages, sessions and subscriptions point to each other without
ownership, every client can send any packet at any time, and a handler may fail half-way.

This directory holds TLA+ modules of the broker, TLC configurations that check them on
small instances, and proofs for TLAPS of the results that hold for every instance.

## The system

| component | state | operations | interacts with |
|---|---|---|---|
| event loop (`main.c`, `net.c`) | listening socket, epoll set | accept; read, write and disconnect of one socket | calls everything below |
| packet reader and writer (`protocol.c`) | none between packets | `iotbroker_read_packet`, `iotbroker_write_packet` | sockets, handlers, message lists |
| handlers (`packet_handle.c`) | none of their own | one per packet type; `send_publish` | sessions, store, table |
| sessions (`session.c`) | hash table of `Client`: socket, client id, identifier counter, message list | add, set id, clean | store, when a session is cleaned |
| message store (`message.c`) | list of `MessageStore` with reference counts | insert, deref | lists of all the sessions |
| subscription table (`subtree.c`) | hash table from filters to lists of `SubNode`, each with a pointer to a `Client` | sub, unsub, pub | sessions, through the pointers |
| topic walk (`subtree.c`) | tokens and a buffer, during one publication | `get_topic_tokens`, `insert_pub_message` | table |
| memory, debug output (`memmanager.c`, `debug.c`), `uthash.h` | none | malloc and free; printing; hash table | all |

What is hard in it:

* one stored message is shared between the lists of many sessions, and its count is
  raised and lowered by seven functions (`RefCountExact`, `QueuedIsStored`, `LifetimeSpec`);
* one list per client holds three kinds of handshake, and unsent messages
  (`OutboundIsUnsent`, `HandshakeFitsQos`, `HandshakeOrder`, `HeldUntilReleased`);
* serving one client changes the lists of others (`OthersOnlyGrow`);
* sessions end while the subscription table still points to them, and their memory is
  used again (`SubscriberIsLive`, `OneNodePerClient`);
* packets cross on a connection, are repeated, and use the same identifiers in both
  directions; connections are lost in the middle of a handshake (`TokenPerHandshake`,
  `NoExtraCopy`, `DeliverySpec`, `CopiesArrive`, `HandshakeEnds`, `ListsDrain`);
* the counter that numbers messages comes round while some of them still wait for their
  acknowledgement (`SharedOnlyAfterRound`);
* a batch of events names descriptors that are closed, and given to other clients, while
  the batch is being handled, and epoll may fail to watch one (`EventsFresh`,
  `SessionOfConnection`);
* one blocking thread serves all clients, and reads before it writes (`WaitsMidPacket`,
  `PendingAccepted`, `InputRead`, `QueueDrains`);
* handlers take packets apart by counting bytes, and measure strings anew when they send
  them on (`CursorAtEnd`, `ConnectOutcome`, `VersionsServed`, `BufferFilled`, `ForwardedWhole`);
* the recursive topic walk shares one buffer between its calls (`CallersPrefixKept`,
  `FindsGated`, `LiteralChain`, `NoOverrun`, `FindsEqual`);
* lengths and allocations have limits (`LengthBounded`, `ReadsWhatIsWritten`,
  `FourBytesAllowed`, `AbortsOnlyOversize`).

`PROJECT.json` lists each of these at its line of the source.

## The modules

| module | models | uses |
|---|---|---|
| `MessageStore` | message lists and stored messages, as operators | |
| `Subtree` | subscriber lists of the table, as operators | `MessageStore` |
| `Broker` | the process: sessions, handlers, sending | `Subtree` |
| `Numbering` | a history for `Broker`: how many identifiers have been given since a message began to wait | `Broker` |
| `MessageLifetime` | what reference counting promises, without counts | |
| `QosExchange` | publishers and subscribers, and the packets between them and the broker | `Broker` |
| `Delivery` | what the whole delivers, without handlers, lists or identifiers | |
| `EventLoop` | epoll, descriptors, sessions by descriptor, where the process waits | |
| `TopicWalk` | the walk of one publication through the table | |
| `PacketLength` | the remaining length: reading and writing | |
| `PacketReader` | one packet: its fields, the reply, the publication sent on | `PacketLength` |
| `RecursionProofs` | lemmas: induction, recursive functions and folds | |
| `BrokerProofs`, `HandshakeProofs`, `ExchangeProofs`, `DeliveryProofs`, `EventLoopProofs`, `TopicWalkProofs`, `PacketReaderProofs` | theorems | |
| `MCBroker`, `MCNumbering`, `MCQosExchange`, `MCEventLoop`, `MCTopicWalk`, `MCPacketLength`, `MCPacketReader` | values for the constants | |

### MessageStore and Subtree

A client's list is a function from ranks to entries; `list_add` puts an entry behind the
list head and gives it the greatest rank, `list_del` takes a rank away, a loop over the
list runs from the greatest rank down. The store is a function whose domain is the set of
stored messages. An entry keeps the fields anyone reads: message, state, direction, QoS,
identifier. `packet_id` is not set by `insert_message_to_subtree`; the value that malloc
left there is `NoPid`.

The table is a function from filters to sequences of nodes; a filter that is absent from
the hash table has the empty sequence, because `iotbroker_subtree_unsub` deletes a filter
with its last node. The comparison of client ids reads through the `Client` pointers:
`CompareUndefined` says when it meets a freed or null one, `DisplayUndefined` says so for
the debug display (`DEBUG` is a constant; the code defines the macro).

### Broker

Each handler is one action, because nothing runs between its steps:

| action | code |
|---|---|
| `Accept` | `handle_accept`, `iotbroker_session_add`; any free address may be given |
| `ReadFails` | `iotbroker_read_packet` fails without a change: end of file, malformed or refused packet, DISCONNECT |
| `Disconnect` | `handle_disconnect` of `net.c` and `iotbroker_session_clean` |
| `HandleConnect`, `HandleSubscribe`, `HandleUnsubscribe` | the handlers, with their reply |
| `HandlePublish` (QoS 0, 1), `HandlePublish2` (QoS 2) | `handle_publish`, `iotbroker_subtree_pub` |
| `HandlePuback`, `HandlePubrec`, `HandlePubrel`, `HandlePubcomp` | the handlers; an unknown identifier changes nothing |
| `WritePacket` | `iotbroker_write_packet` and `send_publish`; the write of any entry may fail |
| `Sigpipe` | a write to a closed peer |

A handler that fails, or whose reply cannot be written, sets `closing`; then `Disconnect`
is the only step that can follow, as in `handle_read` and `handle_write`. PINGREQ, an
acknowledgement nobody waits for, and a refused protocol level whose CONNACK is written
change nothing and are stuttering steps.

Where the code reads memory that has been freed or never set, C defines no behaviour. The
process then stops (`Halt`), and no property says anything about what would follow. All
properties are about the process up to that point.

A publication on a name of one level and at least two bytes visits the lists of the name,
of `+` and of `#` (`Visited`). That this is what the walk does is checked in `TopicWalk`
(the last conjunct of `FindsGated`); names of several levels are left to that module.

### Numbering

`send_publish` gives a message the next number of a UINT16 and never looks whether an older
message still waits with it, so identifiers are not unique, and an acknowledgement may end the
handshake of another message than it was meant for. What does hold is how long they differ.
`Numbering` adds one history variable to `Broker`: `given[c][p]` counts the identifiers client
`c` was given from that of entry `p` on (`Around` for any number above `PidMod`), and
`SharedOnlyAfterRound` says that two waiting entries have the same one only after a whole
round. `Give` reads the lists before and after a step and constrains nothing of `Broker`.

### QosExchange and Delivery

`QosExchange` puts clients around the handlers of `Broker`. `inp[c]` and `out[c]` are the two
streams of the connection of `c`: TCP neither loses nor reorders, until `BrokerDisconnects`
loses both streams with everything on the way. `BrokerReads` takes a whole packet and does
the action of `Broker` that handles it; the reply goes to `out` unless its write fails.
`BrokerWrites` is `WritePacket` and puts what it took from the list on the stream.
The clients are not in the repository and are modelled from what MQTT asks of them:
`ClientPublishes`, `ClientRepeats` (the packet that has not been acknowledged, on the same
connection or the next), `ClientReads` (an acknowledgement, a publication, PUBREL),
`Reconnect` for publishers that did not subscribe.

`Delivery` is the abstract specification: a PUBLISH makes one copy for every subscriber, a
copy in transit is delivered once, and lost only in a step that loses a connection or ends
the process. The refinement mapping counts where a copy can be (`Transit`): in the publisher's
stream, held until PUBREL, in the subscriber's list, in its stream. Copies the publisher's
handshake lets through twice are two copies: a QoS 2 PUBLISH that is repeated with its
identifier is stored again (`packet_handle.c:353`). `NoExtraCopy` therefore bounds the copies
by the PUBLISH packets sent; MQTT's bound, one, does not hold of this code.

### EventLoop

`at` is where the process is: in `epoll_wait`, before the next event of the batch, in a read,
in the write of a reply or of queued messages, in `handle_disconnect`. An action is what
happens between two places where the process may be held up:

| action | code |
|---|---|
| `EpollWait` | `main`: some of the ready descriptors in some order, at most `EPOLLEVENTS` |
| `HandleAccept` | `handle_accept`: `accept` fails, or gives the lowest free descriptor; then `iotbroker_session_add`, and `add_event`, which fails or not (`AddEvent`) |
| `Dispatch`, `EventsDone` | the loop of `iotbroker_handle_events` |
| `ReadPacket`, `ReadFails` | `handle_read`, `iotbroker_read_packet`: a packet and what it queues; end of the stream |
| `WriteReply`, `WriteQueued`, `QueueWritten` | the writes; a full send buffer holds up the process |
| `Sigpipe` | a write to a closed peer |
| `HandleDisconnect` | `handle_disconnect` with `delete_event` (`DeleteEvent`), `iotbroker_session_clean` |

When `epoll_ctl` fails for an accepted connection, `add_event` prints a message and `handle_accept`
goes on (`net.c:171`): the connection is open and has a session, nothing watches it, and what its
client sends is never read, nor is it closed. `interest` is therefore a part of the open
descriptors (`SessionOfConnection`), and `InputRead` and `QueueDrains` are about those in it. An
unwatched one can have messages queued: its `Client` may be allocated where a node of the
table still points. The calls at start-up (`iotbroker_net_init`) are assumed to succeed.

`BeginPacket`, `FinishPacket`, `ClientReads`, `ClientCloses` and `ClientConnects` are the
clients'. The field `conn` of an event is a history of which connection it was reported for.
Which sessions a packet queues messages for is a free choice here; what is queued is
`Broker`'s business.

### TopicWalk

`TopicWalk` follows `insert_pub_message` byte by byte, because the bytes a call leaves in
the shared buffer decide what later calls look up. Each of its three look-ups, and each of
its two clean-ups, is an action; `stack` holds the active calls. The walk stops with
`overrun` set when it writes behind the buffer or reads a string with no end inside it.

The separators that calls leave behind can end up right behind a filter that is written
later: with subscribers of `aaa`, `aaa/+`, `aaa/+/aaa`, `+`, `+/aaa` and `+/aaa/aaa`, the walk for
`aaa/aaa/aaa` looks up `+/aaa/aaa/` and misses the last of them. `FindsGated` is therefore about
`Regular` names, those in which no two variants of a filter are so close in length.

### PacketLength and PacketReader

`PacketLength` is the loop at the beginning of `iotbroker_read_packet`, one action for each
byte. Its arithmetic is written without a modulus: `LengthBounded` says that it does not
come near 2^32.

`PacketReader` goes on behind the length. A packet is the sequence of fields that MQTT gives
it; the handlers do not know the fields, they count bytes with `load_pos` (`ReadField`, one
`read_*` of a handler) and decide from counts and values what to read next (`After`). A field
that is not there, or is of another kind than the handler expects, leads to `"astray"`: C does
not say what is read. A string is abstracted to its length, its length up to the first zero byte and whether it is `MQTT`.
`Handled` builds the reply, `WriteReply` writes it, `Forward` is `send_publish` with any QoS
a subscriber may have. Allocations above 4096 bytes abort under `DEBUG`.

Every packet out has two lengths, `remain_len`, which is allocated, and `load_pos`, up to which
the code fills it. `handle_subscribe` counts topics in a UINT16 (`packet_handle.c:456`) and
`send_suback` allocates by that count, but writes a code for each entry of its list (`Suback`). At
2^16 topics the two part, and the handler writes behind the allocation (stage `"overrun"`, of
which nothing more is said). `CounterMod` is the number of values of the counter.

## The runs

| run | constants | shows |
|---|---|---|
| `messages` | 2 connections, 1 client id, 2 messages, lists of 2 ranks, 1-bit identifiers, `DEBUG` | reference counts, states of entries, handshakes, isolation of clients, how long identifiers differ, and `Broker` implements `MessageLifetime` |
| `subscriptions` | 2 connections, 2 client ids, 1 message, lists of 3 ranks, a name and a wildcard | no connection twice in a list; counts for publications that reach several lists |
| `exchange` | 2 clients that may both publish and subscribe, 1 name of QoS 0, 1 or 2, 2 stored messages, 1 packet repeated, 3 identifiers, the publisher's equal to the broker's first | one packet of each handshake on the way; no extra copy; `QosExchange` implements `Delivery`; copies, handshakes and lists come to an end |
| `loop` | 2 clients, 2 descriptors, batches of 2 events, a backlog of 2, buffers of 1 packet, 1 message queued | sessions follow descriptors, no event is stale, where the process waits; accepting, and for watched connections reading and writing, come about |
| `walk` | every name of 5 bytes over a letter and the separator with pairs of 28 short filters; 4 names with longer levels with all 512 sets of filters of two levels; a name of three levels with sets of filters of three levels | what the walk finds; calls do not disturb their callers |
| `reader` | 414 packets in both builds; bytes 0, 1, 127, 128, 129, 255 as a length; contents around 4096 and 2^16 bytes, and with a zero byte; up to 3 topics, counted in 1 bit | reader and writer of lengths agree; handlers and MQTT agree on the layout; what is cut, refused or ends the process |

Two connections are enough for what is shared: one message in two lists, one list changed
while the other's client is served, one address used again while the other session goes on.
Two messages and two ranks let an old and a new message wait together in each list. With
one client id the second connection always meets the first one's nodes; the run
`subscriptions` has two ids, so that a connection has nodes of its own, is renamed by a
second CONNECT, and gets an address back that the table still holds. Identifiers of one bit
come round in `messages` while others wait, so that two of them are shared there and
`SharedOnlyAfterRound` is checked at its boundary. The bounds are guards: `Room`, `Top + 1 \in Rank`, `MaxRepeats`,
`MaxPackets`, `MaxQueued`, `LISTENQ` and the set `Msg`; clients and messages are symmetric
in the runs that check no liveness.

In `exchange` a repeated PUBLISH is the case with two stored copies of a message, so two
messages and one repetition are needed and enough to have it together with a lost connection;
the publisher may be its own subscriber, where both directions of a handshake share one list
and one identifier. `MaxRank` is not reached, and at most two PUBLISH packets are sent, so the
broker's counter does not come round in this run: that case is `messages`' and the proofs'. In `loop` two descriptors and two clients are
what it takes to close a descriptor and give it to another client within one batch of two
events; buffers of one packet make every write meet a full one. In `reader` one, two and three
topics are below, at and above what its one-bit counter holds.

The runs set `CHECK_DEADLOCK FALSE`: the walk and the reader end, the process may end, in
`exchange` all that is to be published may have been, and in `loop` every connection may be one
that nothing watches.

Six runs show that the code does not do what a comment or the README of the repository says:

| run | what the code does |
|---|---|
| `unreferenced` | a QoS 0 or 1 publication without subscribers is stored until the process ends (`message.c:62`) |
| `subscriber` | the nodes of a session that has ended stay in the table (`subtree.h:11`) |
| `versions` | a client of MQTT 3.1, whose protocol name is MQIsdp, is closed without a CONNACK (`packet_handle.c:150`), although `README.md:3` says the server is compatible with that version |
| `walk_buffer` | the buffer has no room for the wildcard (`subtree.c:217`) |
| `walk_equal` | a subscriber of `aaa/aaa` gets nothing on `aaa/aaa` unless `aaa` or `+` has a subscriber; one of `aaa` gets what is published on `aaa/aaa` (`README.md:3`) |
| `length_four` | every remaining length of four bytes is refused (`protocol.c:152`) |

`VersionsServed` also fails, in other behaviours, at the maximum level, 4 (`packet_handle.h:12`):
the level is compared as a signed byte, so 128 to 255 are accepted (`packet_handle.c:133`, 168).
`ConnectOutcome`, which passes, says what a client can rely on in spite of both: what it is
told is what has become of its session.

What `reader` shows besides: for a user name without password `handle_connect` reads on behind
the payload (`packet_handle.c:225`); a content of 2^16 bytes or more, or with a zero byte, is cut;
with `DEBUG`, a publication of 4092 to 4096 bytes is read but cannot be sent on and ends the
process; and the SUBACK for as many topics as come round in their counter is written behind its
allocation. With `DEBUG`, as in the repository, the limit on allocations refuses a SUBSCRIBE long
before it has 2^16 topics (`OverrunsWithoutDebug`); without it, nothing does. These are stated
as the exceptions in the properties, because no text of the repository says otherwise.

Messages that wait for a client are written newest first: `list_add` puts them at the head of the
list that `iotbroker_write_packet` walks from the head on (`subtree.c:143`). `Broker` does the same;
the repository does not say which order it means to keep, so no property is about it.

### Fairness

`Broker`, `TopicWalk` and `PacketReader` are used for safety only. Two modules state fairness.

* `EventLoop`: weak fairness of the process, which runs when nothing holds it up. Strong
  fairness, for each descriptor, of the calls of `epoll_wait` that report it: Linux keeps ready
  descriptors in a list and takes them in turn, so one that is ready again and again is
  reported again and again. Strong fairness of a successful `accept`: the kernel does not
  refuse for ever a connection there is a descriptor for. Weak fairness of the clients
  finishing a packet they have begun and reading what is in the buffer, or closing: without
  it the blocking process is stuck, which is what `WaitsMidPacket` says. `QueueDrains` is
  conditional on a client that does not go on sending for ever, since reads go before writes.
* `QosExchange`: strong fairness of the broker's reads and writes for each client, which is what
  `EventLoop` establishes for a client that does not send for ever; weak fairness of the
  disconnection that is due and of clients reading. Nobody has to publish or repeat.

## The proofs

`tlapm` checks every step of the eight modules named `...Proofs`. The assumptions are those
the modules name: `StoreAssumption` (finitely many clients, at least one identifier, `NoPid` is
not an identifier), `BrokerAssumption` (`NULL` is no client, wildcards are no names, SUBSCRIBE
payloads give filters a QoS), `ExchangeAssumption` (publishers have an identifier for each name, and
there are client ids enough), `LoopAssumption` (finitely many descriptors, positive bounds),
`WalkAssumption` (names and filters have no zero byte),
`LengthAssumption` (bytes are bytes) and `ReaderAssumption` (strings are shorter than 2^16 bytes,
topics of SUBSCRIBE and UNSUBSCRIBE at least one, `CounterMod` at most 2^16, `NONE` is no packet
that is sent).

Every property of the runs `messages`, `subscriptions`, `walk` and `reader`, and every safety
property of `exchange`, is proved, for every number of clients, messages, names, filters, ranks
and identifiers, and for names and packets of every size:

| theorem | property |
|---|---|
| `TypeCorrect`, `RefCountCorrect`, `NoEntryOfFreed` (`BrokerProofs`) | `TypeOK`, `RefCountExact`, `QueuedIsStored` |
| `UnsentOutbound`, `HandshakesFit`, `HeldAlone` (`HandshakeProofs`) | `OutboundIsUnsent`, `HandshakeFitsQos`, `HeldUntilReleased` |
| `HandshakesInOrder`, `OthersLeftAlone` (`HandshakeProofs`) | the action properties `HandshakeOrder`, `OthersOnlyGrow` |
| `SharedAfterRound` (`HandshakeProofs`) | `SharedOnlyAfterRound` |
| `OneNodeEach` (`BrokerProofs`) | `OneNodePerClient` |
| `ImplementsLifetime` (`HandshakeProofs`) | `LifetimeSpec`: `Broker` implements `MessageLifetime` |
| `ExchangeTypeCorrect`, `NoCopyTwice` (`ExchangeProofs`) | `ExchangeTypeOK`, `NoExtraCopy` |
| `OneTokenEach` (`DeliveryProofs`), while identifiers differ | `TokenPerHandshake` |
| `ImplementsDelivery` (`DeliveryProofs`), while identifiers differ | `DeliverySpec`: `QosExchange` implements `Delivery` |
| `DeliveredWithinRound` (`DeliveryProofs`), while no message waits for a whole round of identifiers | `TokenPerHandshake` and `DeliverySpec` |
| `LoopTypeCorrect`, `SessionsOfConnections`, `EventsStayFresh` (`EventLoopProofs`) | `TypeOK`, `SessionOfConnection`, `EventsFresh` |
| `WalkTypeCorrect`, `CallersUndisturbed` (`TopicWalkProofs`) | `TypeOK`, `CallersPrefixKept` |
| `GatedFound`, `LiteralsChained` (`TopicWalkProofs`) | `FindsGated`, `LiteralChain` |
| `JoinedTokens`, `TokensJoined` (`TopicWalkProofs`) | none: splitting a name into levels and joining them are inverse |
| `LengthIsBounded`, `LengthIsRead` (`PacketReaderProofs`) | `LengthBounded`, `ReadsWhatIsWritten` |
| `CursorEnds`, `ConnectsAnswered`, `BuffersFilled` (`PacketReaderProofs`) | `CursorAtEnd`, `ConnectOutcome`, `BufferFilled` |
| `ForwardsWhole`, `AbortsOversize` (`PacketReaderProofs`) | `ForwardedWhole`, `AbortsOnlyOversize` |
| `OverrunsWithoutDebug` (`PacketReaderProofs`) | none: the overrun of a SUBACK needs a build without `DEBUG`, for a counter of 4096 values or more |

*Counts.* None of the first three is inductive alone. A step that lowers a count frees the
message when the count reaches 0: that no entry is left then needs the count to be exact; that
the count stays exact needs every entry's message to be in the store; and both need an address
that is not in use by a session to have an empty list, or `Accept` would lose entries. The
inductive invariant is `IInv == TypeRest /\ Agree(mq, store) /\ UnusedEmpty`, where `Agree`
joins the two facts about messages so that lemmas can speak of it. `BrokerProofs` first
proves what each operator of the store does to `References` and to `Agree`: adding one
entry, adding one to each of several lists, dropping a set of entries and dereferencing their
messages. It then has one step for each action.

*Handshakes.* `HandshakeProofs` first shows, action by action, that every step of the process
that does not end it is `Serving` some client: one client's entries stay, take one step of their
handshake or leave from a state in which they may, and all the others' lists only get new, unsent
entries. `HInv` and the two action properties follow from `Serving`, without going through
the actions again.

*Subscriptions.* The comparison of `iotbroker_subtree_sub` goes through pointers to sessions that
may have been renamed or freed, so a node's id says nothing of when it was added. But a client
that has a node compares equal to itself whatever its id is now, so no second node is added
for it: `OneNodePerClient` needs no strengthening.

*Lifetime.* With exact counts, a message leaves the store in a step just when its last entry
goes in that step. `HandshakeProofs` goes on to show which entries each action lets go of (`LetsGo`), or
that it only inserts, and maps these to the abstract specification.

*Copies.* `NoExtraCopy` is a sum over places where a copy can be. A PUBLISH in the stream of
somebody else than its publisher, an entry queued for a client that has not subscribed or a
second node at `#` would not break it at once, but later. `XInv` excludes these; with it,
`Flow` says of every step for one client that returns: it takes at most one copy of each name
out of the publisher's stream or list and puts one into every subscriber's list, or moves
copies from a list to its stream. The sum then stays, or falls with a connection.

*Handshakes on the way.* A connection is settled (`SettledAt`) if its two streams hold one packet
of each handshake that waits, in one of them, and no other packet that could take on or end
one, and if the client holds the identifiers of those between PUBREC and PUBREL. Reading
such a packet ends its handshake or moves its packet to the other stream; writing begins
new handshakes with new packets. That needs the packet to belong to one handshake: two
handshakes of one client must not share an identifier (`IdsDistinct`). `send_publish` does not see
to that, so `OneTokenEach` and `ImplementsDelivery` have `[]IdsDistinct` as a hypothesis, and
`DeliveredWithinRound` replaces it: with the history of `Numbering` along the run, both follow for every
behaviour in which no message waits while its client is given all the identifiers again
(`WithinRound`). That bounds nothing but how long one message waits; the counter may come round
as often as it will.

*Identifiers.* `SharedOnlyAfterRound` compares two entries; its invariant `NumInv` relates each to the
session: the identifier of a waiting entry is the session's counter less `given`, modulo `PidMod`,
as long as `given` is not `Around`, and of two entries that wait and are within the round
no two have the same `given`. A step of `iotbroker_write_packet` numbers several entries,
from the newest down; `OneRound` is the arithmetic of one round of the counter, and the `Serves` lemmas of
*Handshakes* say that no other step begins a wait or moves the counter.

*Delivery.* Each step maps to a step of `Delivery` or to none: `Flow` with the connection lasting
leaves the copies as they are, with the connection failing it is `Lose`. The one step that looks wrong
is a client that drops a QoS 2 PUBLISH because it holds the identifier: a settled connection
has no such packet, so the connection is closing and the step is `Lose` again.

*Event loop.* `SessionOfConnection` holds whether `epoll_ctl` fails or not. `EventsFresh` needs a batch to name each descriptor once, the descriptor being
served not to be named in the rest of the batch, and connections that wait in the backlog to
be apart from those with a descriptor; all of this is in `LoopInv`. The assumption that
descriptors are finitely many comes in where a batch is made from a set.

*Walk.* A call writes from its own place on, and knows how much it has written there by the step
it is about to take (`Width`); behind that, as far as the next call's place, there is nothing but
zero bytes and separators earlier calls have left (`RestIsBlank`). The token it writes has
no zero byte, so the string found when the next call takes its length ends where the token
and some separators end: the next call's place is behind a separator, and all in front of it is
full (`PrefixesKept`). That separators stay behind is why the place is not always the
token's end, and why the invariant speaks of separators at all.

*What a walk finds.* `FindsGated` is about the end of a walk; `FoundInv` is what holds on the way. The
steps that the active calls are about to take say which levels they stand for (`Path`) and which
filters the walk has been through already (`Seen`): those that part from the path at a call that is
done with the other branch. `Found` says that the lists that got a message are those of the gated
filters the walk has been through, no more and no fewer. That this goes on holding needs every
look-up to be of the filter it is meant to be, which is a matter of bytes: in front of a call are the
levels of its path (`FrontIsPath`), behind what it has written is nothing but separators left behind
variants the walk has been through (`RestIsTraces`), and a wildcard is followed by a zero byte
(`Cleared`). A separator that is left can stand right behind a filter, or one byte further, only if two
variants of the name are that close in length, which `Regular` excludes; without it the theorem is
false. That the walk has been through a filter is said of levels, that it is in the table of strings:
`JoinedTokens` and `TokensJoined` take one to the other.

`LiteralChain` is also about names that are not regular, but only about filters without wildcards.
Such a walk writes nothing but the levels of the name while it goes down (`Down`), so what it looks up
is one leading part of the name after the other. On its way back (`Back`) it looks up strings with a
wildcard, which are in no such table whatever else they have in them, as long as they end
inside the buffer. They do, because the last byte of the name is zero by then: the deepest call has
cleared it, or none has come so far. No wildcard is written over it, since the last level has two bytes.

*Recursion.* The induction theorems of the library take a predicate as a parameter, for which the
provers find no instance. `RecursionProofs` states induction for a set of naturals instead,
from the fact that each has a least element, and derives that a function defined by recursion
exists, and a fold. With that the writer's recursive `Written`, the sums (`Size`) and the
tokens of a name, which are folds, can be reasoned about for every input; for strings, the set is one
of sequences that appending preserves.

*Packets.* The length is read back as it was written because after `k` bytes the value is what
`Written` has put into `k` digits, and the multiplier the power of 128 that belongs to them.
For the payload, `Layout` says field by field what a handler must know of a packet: the kinds
of the fields from there on, and what they add up to. `PacketLayout` proves it of every packet,
for any number of topics. `ReaderInv` then says that the handler is at the field that the packet has at
`load_pos`, that what it has read is the packet's, and how much of the reply is accounted for;
every property of `PacketReader` follows from it. The proof found two guards of `AfterConnect` that
overlapped in a `CASE`, which TLC resolves by their order and the code does not need.

Only model-checked are `WaitsMidPacket` of `EventLoop`, which is about `ENABLED`, and liveness, in
`EventLoop` and `QosExchange`; temporal formulas with fairness are out of reach of the provers here.

## Not modelled

The contents of messages, user names, passwords, wills, keep-alive and retain flags are read
and stored, or ignored, by the code, and decide nothing.

*Short reads and partial writes.* `iotbroker_read_packet` takes a payload of which only a part has
arrived for a whole one; the handlers then parse zeros, and the rest is taken for the next
packet. There is nothing a property could claim behind it, so a payload is taken to arrive in
one piece. A blocking write takes part of a packet only when a signal interrupts it.

*`session_present`.* For a refused protocol level the CONNACK's flag is an unset variable
(`packet_handle.c:252`); the model leaves the flag out.

*The subscriptions of `exchange`* are there from the beginning, and subscribers do not connect
again: what SUBSCRIBE, UNSUBSCRIBE and a subscriber's return do to the table is in `Broker`,
where the freed `Client` behind an old node ends what can be said (`Halt`).

*Memory* that is leaked without a consequence for the modelled state (`MessageQueue` nodes
after `list_del`, packets that get no reply at `protocol.c:224`) is not modelled. `uthash.h` is
third-party code and is taken as a map; `debug.c` prints.

## Plan

Done: `MessageStore`, `Subtree`, `Broker` with `MessageLifetime` and `Numbering`, `TopicWalk`,
`PacketLength`; then `QosExchange` with `Delivery` and its proofs, `EventLoop`, `PacketReader` with
CONNECT; the proofs above.
Left: SUBSCRIBE with several filters, one equal to another, where the closed forms `Sub` and
`Unsub` would be checked against the loops of the handlers.

# Waylander in TLA+

Waylander is a C++ client library for the Wayland wire protocol: it puts
requests into a buffer, sends them with their file descriptors over a local
stream socket, receives the compositor's events from it and hands them to
callbacks. This directory holds TLA+ modules for it, TLC configurations that
check them on small instances, and proofs, checked by TLAPS, that hold for
every value of the constants. `PROJECT.json` lists, for machines, the runs, the
mutants of each property, and the source lines that each definition models.

Paths below are relative to the root of the repository; `wayland/` is short
for `src/wayland/` and `include/waylander/wayland/`.

## Inventory

| component | state | operations | hard behaviour | what makes it correct |
|---|---|---|---|---|
| receive half of `connected_client` (`wayland/connected_client.cpp:60-199`) | `recv_buff_`, the locals of the goto loops | `recv_more_data`, `get_recd_bytes_forming_whole_messages`, `recv_events`, `recv_and_visit_events(..).until` | the socket splits the stream anywhere; a blocking read inside a loop; EOF, a failing read and throwing callbacks half way | `recv_buff_` begins at a message; events reach the application in order, none lost; no read blocks with nothing owed |
| request half of `connected_client` (`connected_client.cpp:38-58`, `connected_client.hpp:43,98-112`) | `next_new_id_`, `request_buff_` | `reserve_object_id`, `register_request`, `has_registered_requests`, `flush_registered_requests` | descriptors travel beside the bytes; a send that fails half way; a full socket | requests arrive whole and in order; a request's descriptors arrive no later than the request; ids are distinct |
| `message_buffer` (`message_buffer.hpp`) | `buff_`, `fd_buff_` | `append`, `release_data`, `release_fds`, `empty` | padding, the 16 bit size field, uninitialised bytes | the buffer is a sequence of well formed messages |
| `message_parser`, `parsed_message_generator` (`message_parser.cpp`) | its copy of bytes, a cursor | `message_generator`, each step of it | lazy; throws on partial messages | yields exactly the messages, never throws on what the client gives it |
| `interpert_message_payload` (`message_intrperter.hpp`) | a byte offset | decoding one payload | null strings, padding | what was encoded comes back |
| `message_overload_set`, `message_visit` (`message_overload_set.hpp`, `message_visitor.hpp`) | a hash map | `add_overload`, `overload_resolution`, `message_visit` | a pair registered twice; overloads that outlive their object | an event is read as the message it was sent as |
| protocol primitives (`protocol_primitives.hpp`) | none | conversions of `Wobject`, `Wnew_id`, `message_for_inteface` | the wire has no types; `bind` takes any handle | a handle has the interface of the compositor's object |
| `static_picture_window` (`examples/wayland/display_static_picture.cpp`) | object ids, found flags, the client | the stages of its constructor, its callbacks, `wait_for_close_event` | callbacks register requests while `until` runs | ids are used in the order reserved; pings are answered; a close ends the wait |
| `list_registry_globals` example | ids | one get_registry / sync round | globals come and go, errors, hang-ups | exactly the globals before the sync are listed; the listing ends |
| `wayland_socket_path` (`system_utils.cpp`) | environment | one lookup | unset, relative and absolute variables | the path that its documentation lists |
| `sstd::unique_handle` (`sstd.hpp`) | a resource, `active_` | construct, move, assign, destroy | self move; a store to a dead object; reused descriptors | one release per resource, none by the wrong handle |
| protocol header generator (`generate_cxx_header_from_wayland_xml.py`) | two counters, the parsed protocol | parse, emit | requests, events and enums are mixed; interfaces name each other | opcodes and arguments are those of the wire; declarations come first |
| generated protocol headers | none | none | a struct per message, each with its opcode and types | what is written is what is read |
| byte containers, `type_utils.hpp` | none | `resize`; compile-time lists | uninitialised bytes | no uninitialised byte is read |
| gnulander (external) | the socket | `read_some`, `write`, `send` | blocking, throwing | external |

The program is single threaded. What it interleaves with is the compositor at
the other end of the socket, which may send, split, delay or hang up at any
time. An application calls the request half (`register_request`, `flush`) and
the receive half (`recv_events`, `until`) of one client in turn; callbacks of
`until` call the request half while the receive half is running. The two halves
share no state but the socket. The hazards of this code, each at its line, are
the list `hazards` of `PROJECT.json`; it says for each which properties are
about it, or why none is yet.

## Modules

    Messages                          intervals of a byte stream: size, boundaries
      EventStream                     the events of one compositor
        EventDelivery                 abstract: what the application is promised
        EventReceive                  detailed: connected_client, receive half
          EventReceiveProofs          theorems
          MCEventReceive              instances for TLC
      RequestDelivery                 abstract: what the compositor is promised
      RequestFlush                    detailed: connected_client, request half
        RequestFlushProofs            theorems
        MCRequestFlush
    WireTypes                         primitives, messages, their layouts
      WaylandProtocol, XdgShellProtocol, TabletProtocol, LinuxDmabufProtocol,
      PresentationProtocol, ViewporterProtocol
                                      the generated headers as tables
        Protocols                     all of them by interface
          MCWireFormat, MCObjectSession, MCHeaderGenerator
      WireFormat                      message_buffer, generator, interpreter on bytes
        WireFormatProofs              theorems
      ObjectSession                   typed handles, overloads, message_visit
        ObjectSessionProofs           theorems
      HeaderGenerator                 from XML nodes to those tables
    StaticPictureWindow               an application above the client
      StaticPictureWindowProofs       theorems
      MCStaticPictureWindow
    SocketPath                        wayland_socket_path
      RegistryListing                 the other application, from lookup to exit
        RegistryListingProofs         theorems
        MCRegistryListing
    UniqueHandle                      sstd::unique_handle and the fd_refs beside it
      UniqueHandleProofs              theorems
      MCUniqueHandle
    QueueLemmas                       queues and the new ids in them; used by
                                      ObjectSessionProofs, StaticPictureWindowProofs

The layers fit together by what they promise. `WireFormat` shows that messages
laid out by `append` are found again by their sizes; `EventReceive` and
`RequestFlush` therefore know a message only as an interval with a size.
`EventReceive` and `RequestFlush` implement `EventDelivery` and
`RequestDelivery`, two FIFO channels; `ObjectSession`, `StaticPictureWindow` and
`RegistryListing` therefore know the client only as two queues. The tables of
messages are shared: `HeaderGenerator` shows that the generator makes them from
a protocol, `WireFormat` that each is read back from its bytes as it was
appended, `ObjectSession` that both sides use the same one for every object.

In each module the definitions marked *Faulty* are variants of the definition
below them, with a bug that this code could plausibly have. They are not part
of the specification; each shows that a property notices the bug.

### EventReceive

`recv_buff_` is three numbers. `buffSize` is its size in the code; `base` and
`taken`, which the code does not have, are the offsets in the stream of the
first byte in it and of the next byte the socket will return. The goto loops
are `pc`: `read` and `read_again` are `recv_more_data` (first and later
passes), `scan` is `get_recd_bytes_forming_whole_messages`, `visit` the loop
of `until`. `unprocessed`, `whole` and `parsed` are the locals
`unprocessed_bytes`, `bytes_forming_whole_messages`, and the two counters of
`until` together (header bytes plus argument bytes of the messages visited).

| action | code |
|---|---|
| `CallRecvEvents`, `CallUntil` | entry of `recv_events` (138) and `until` (148) |
| `ReadPart`, `ReadFull`, `ReadEOF`, `ReadFails` | the four outcomes of `read_some` (81) |
| `ScanNext` | one pass of `try_next_msg` that finds a whole message (111-133) |
| `HandOver`, `StartVisit` | the scan ends in `recv_events` (141-145), in `until` (153-157) |
| `VisitUntil`, `VisitOther`, `CallbackThrows`, `EraseVisited` | one message in the loop of `until` (159-183), and its end (185-193) |
| `ParserNext` | the application takes a message from a `message_parser` it was given |
| `Emit`, `Close` | the compositor (external) begins an event, or hangs up |

`Emit` stands for the compositor's decision to send an event: its bytes arrive
when a read takes them, and until then a read may return fewer. `Close` may cut
the last events anywhere that has not been read.

`CallbackThrows` is the behaviour of line 166 or 182 throwing: the exception
leaves `until` before it erases anything, and `pc` is `thrown` until the next call.
So it is after `ReadEOF`. `ReadFails` ends the behaviour, as the buffer then holds
bytes nobody sent (see Findings).

`EventDelivery` has no buffer: `position` is where the next event delivered begins,
`committed` what is settled, and `call` whether a call is running, has returned or has
thrown. It distinguishes them so that going back needs a throw: `position` returns to
`committed` by `Throw` alone, `until` returns only with the event it waits for, just
delivered and settled (`Return`), and goes on to receive only when it has settled what
it visited (`Commit`). An erase that is left out, or takes too much, is none of these.

### RequestFlush

Bytes and descriptors are numbered from the first ever appended. `buff_` is
the bytes from `released` to `appended`, `fd_buff_` the descriptors from
`fdReleased` to `fdAppended`; while a flush runs, what `release_data` and
`release_fds` returned is `written..released` and `fdsSent..fdReleased`.
`Register` is `register_request`, `Flush` lines 39-45, `SendFd` one pass of the
loop at 49-54, `Write` one of the kernel's steps inside `write` (57),
`FlushReturns` and `FlushFails` the two ends. `carried` records with which byte
a descriptor was sent: that is where the kernel delivers it.

### WireFormat

A message is a sequence of primitives. `AppendBegin`, one action per primitive,
and `AppendHeader` are `message_buffer::append`; `Parse` and `Throw` are
`parsed_message_generator`; the `Read...` actions and `Interpreted` are
`interpert_message_payload`. Bytes are numbers, and `Junk` where `resize` of
`byte_vec` leaves them uninitialised. `Header` lays out object id, opcode and the
size, taken modulo `SizeModulus`; `KeyAt` reads the pair back, and `members` are
the types by which the struct found for it is interpreted. `Sent` is a message of a
batch that is appended: `Batches` are the ones TLC tries, `Layouts` the overloads
of the reader, by object and opcode.

Descriptors are in `fds` and not in the bytes. Only the compositor reads any:
`ReadFd` takes them in the order they came in (`fdsRead`, not in the code), so that
one which was appended out of order, or not at all, is found in the wrong message.
`Sendable` are all messages of all batches. `LayoutsAgree` says that an overload has
the members of the message it is for (`Shape`) and nobody skips a message with
descriptors, `NullsLast` that no argument is behind a null string.

### ObjectSession

The program's `handles` are `Wobject<I>` values, an interface per id; the
compositor's `objects` are what it created. `Reserve` is `reserve_object_id`,
`RegisterRequest` the typed `register_request`, `AddOverload` the map insertion
with its duplicate error, `Visit` is `message_visit` of the next event with a
callback that may keep the object it brings. `Converts`, `NewIds` and `Names`
say which handles the compiler accepts for the arguments of a message. The
compositor handles requests one by one (`Accepts` is what it demands of them),
sends any event of any object, and draws the ids of ended objects again when
`ReusesIds`. What nothing in the library enforces, that a program creates its
objects in the order it reserved the ids, names in `bind` the interface of the
handle and uses no object behind its end, is the assumption the properties
rest on; the mutants drop parts of it.

### UniqueHandle

A slot of storage holds a handle (`held`: owner, moved from, destroyed) whose
base is a descriptor and which has its `active_`. `Release` is the body of the
destructor, which closes whatever file the descriptor stands for at that moment;
closed descriptors are opened again by `Construct`. `MoveConstruct`,
`MoveAssign`, `SelfMoveAssign`, `Destroy` and `EndScope` are the operations of
the class; `AppendRef` and `ReleaseRefs` the `fd_ref`s that `message_buffer`
keeps. `AfterLifetime` is what `active_` reads after `~unique_handle()`: a store
to an object whose lifetime ends is dead, and with `DeadStores` the build drops it.

### SocketPath and RegistryListing

`wayland_socket_path` is a function of two environment variables; paths are
sequences of names, and a relative one does not begin with `"/"`.
`RegistryListing` runs `main` from that lookup to its end: `Connect`, `Ask` (both
ids, both requests, the flush), then one action per event that `until<done_t>`
visits. The compositor announces and removes globals whenever it likes, may send
a fatal error as its last event, and may hang up, when what was received and
not visited is lost with the exception.

### HeaderGenerator

`StartInterface`, `ParseRequest`, `ParseEvent`, `ParseEnum` and `EndInterface` are
one node of the XML each, in whatever order it has them; `Raise` is an assertion
or `RuntimeError` of the parser. `parse_wl_arg` returns three arguments for a
`new_id` without interface; `ArgNodes` (external) is how the XML has it.
`Declare` and `Define` are the two passes of `write_cxx_header`. The protocol is
given as tables, so `HeaderFollowsProtocol` compares what the generator makes of
a protocol with the wire.

### StaticPictureWindow

`pc` is the `until` the window is in: `initial` (line 224), `config` (275),
`wait` (289). `outbox` is `request_buff_`; a registered request that no flush
follows stays in it. `Handle` is the compositor reading a request: it creates
the object, announces globals, answers `sync`. The events `configure`, `ping`,
`close` and `error` come whenever the protocol lets them. `close` is recorded
as `early` when it is sent before any configure.

## Runs

| run | checks | shows |
|---|---|---|
| `receive` | 10 properties, 426 000 states | the receive half is safe, implements `EventDelivery`, and returns when the bytes are owed |
| `receive_read_fails` | 1, violated | finding 1 |
| `flush` | 6, 38 000 | the request half is safe, implements `RequestDelivery`, and a flush ends and arrives |
| `wire` | 4, 79 000 | what `append` writes is read back, for every message of the headers |
| `wire_null_string` | 1, violated | finding 2 |
| `window` | 7, 7 000 | ids in order, requests on known objects, acknowledgement before content; the constructor and the wait end, early pings are answered |
| `window_pings` | 1, violated | finding 3 |
| `session` | 3, 1 100 000 | requests are accepted, events are read as sent, handles agree with objects, also with ids used again |
| `handles` | 4, 2 000 (up to symmetry) | one release per file, by the right handle; what a flush sends is what was registered |
| `handles_self_move` | 1, violated | finding 4 |
| `registry` | 3, 59 000 | the documented socket, a complete listing, an end |
| `header_opcodes` | 2, 1 400 | opcodes, arguments and declarations of a generated header |

Deadlock is checked in all but three. Where a system may rightly stop (after a
read threw, with all requests delivered, with the window closed) a disjunct of
`Next` that changes nothing (`Stuck`, `Finished`, `Quiet`, `Ended`) says so.
`session` and the runs of `UniqueHandle` have CHECK_DEADLOCK FALSE: when the
ids or files of the bounds are used up nothing is left to do.

**Bounds.**
- `receive`: blocks of 8 bytes instead of 1000 and events of 8 and 12 bytes,
  so that a read can end in a header, in an argument and on a boundary, the
  padded block (9) and the plain one both occur, and three events of which two
  are awaited, have an overload or neither fit into `MaxStream` = 24. What
  matters about the block is its size modulo 4 and whether it is below, at or
  above the size of an event; the proofs cover every block size.
- `flush`: requests of 8 and 12 bytes with 0, 1 and 7 descriptors, 7 being the
  most the assumption of `RequestFlush` allows, 32 bytes of them in all, and a
  socket of 5 bytes, smaller than any request.
- `wire`: pairs of requests with words, descriptors, and strings and arrays of
  lengths around the word (0, 1, 3, 4), up to three events with a null string in the last place, a
  message behind one whose size wraps, and from the six headers every request and
  every event without a descriptor. `SizeModulus` is 256 instead of 2^16, so that
  a message can be too large.
- `window`: five lists of globals (two orders, one duplicate, two with
  globals missing), up to two pings and two configures.
- `session`: the interfaces of the tablet protocol with the registry, three ids
  of the program (registry, manager, tablet seat) and one of the compositor,
  enough for a tablet to end and a tool to get its id; two messages under way in
  each direction, one overload of a present object beside any number of stale
  ones.
- `handles`: three slots, two descriptors and three files, so that a descriptor
  is used again while an old handle for it exists.
- `registry`: four values of `WAYLAND_DISPLAY`, two of `XDG_RUNTIME_DIR`, one path
  without a compositor, three announcements and one removal.
- `header_opcodes`: three interfaces that name each other, with one enum each;
  every mixture of their nodes.

**Fairness.** `EventReceive!FairSpec` makes the running call take its next
step if it can. A read can return when there are bytes of an event already
begun, or the stream has ended: the kernel delivers what the compositor has
begun to write, and a compositor that stops in the middle of an event violates
the wire format, which line 66 relies on ("Wayland wire protocol guarantees
that there should be more data coming"). The compositor is never obliged to
begin another event, nor the application to call, nor a read to fail.
`RequestFlush!FairSpec` adds that the compositor reads what is in the socket.
In `StaticPictureWindow` the window runs, the compositor handles requests and
sends a first configure, as xdg-shell has it after the first commit; pings,
close, errors and further configures are optional. In `RegistryListing` the
process runs and the compositor handles requests until it hangs up; announcing,
failing and hanging up are its choice. All fairness is weak.

## What is proved

TLAPS checks the theorems below for every value of the constants that satisfies
their assumptions: `EventSizes` are wire sizes (at least 8, multiples of 4),
`RecvBlock` is positive, `Overloads` is a subset of `Keys`; `RequestKinds` have
wire sizes and at most 7 descriptors, the socket takes at least one byte; the
slots and descriptors of `UniqueHandle` are any sets; the names in the
`GlobalLists` of `StaticPictureWindow` are strings; the tables of `ObjectSession`
number their messages from 0 and create one object per message at most, as the
generated headers do; the `Batches` of `WireFormat` are of messages whose numbers
have two bytes (strings and arrays are of any length), and so has the size field
(`SizeModulus` is at most 2^16); the bounds on ids, messages, pings, configures, globals and
removals are natural numbers of any size.

**EventReceiveProofs.** `Invariance` proves `IInv`, from which follow
`TypeCorrect`, `BufferCorrect` (`BufferIsStream` and `BeginsAtMessage`),
`ReadAgainSafe`, `UntilReadsSafe`, `GeneratorSafe`, `RecvEventsComplete` and
`Refinement` (`EventReceive` implements `EventDelivery`; the calls of the one are those
of the other by `pc` and `op`). `BeginsAtMessage`
alone is not inductive: that an erase ends at a boundary needs `CursorInv`
(`whole` and `parsed` are at boundaries), whose steps need `StreamInv`: the
stream is cut without gap or overlap, so at every boundary before the end of an
event some event begins (`NextMessage`), and what the scan leaves contains no
whole event (`ScanIsComplete`). `ReadAgainIsOwed` rests on arithmetic only: all
boundaries are multiples of 4 (`BoundaryAligned`), and the padding takes a full
read to an offset that is not one, for every block size; this is the argument of the
comments at `connected_client.cpp:61-66` and `91-96`.

**RequestFlushProofs.** `Invariance` proves `IInv`, from which follow
`TypeCorrect`, `DescriptorsInTime`, `DescriptorOrder`, `FlushAssertion` and
`Refinement` (`RequestFlush` implements `RequestDelivery`).
The core is `BacklogInv`: at every moment, for every registered request, fewer
descriptors than bytes are left to send up to its end, or none. A request of 8
header bytes and at most 7 descriptors keeps it when registered; sending a
descriptor uses up one of each; `write` starts when no descriptor is left.
`CarriedInv` turns this into the position of every descriptor.

**UniqueHandleProofs.** `TypeCorrect`, `NeverReleasedTwice` (`SoleOwner` and
`ReleasesOwnFile`), `NeverLeaked` (`NothingLeaks` and `OwnersRelease`) and
`RefsStayValid` have the hypothesis
`~(DeadStores /\ UsesDestroyed)`: either the build keeps the store of the destructor, or
the program neither assigns a handle to itself nor uses a destroyed one. The
inductive invariant joins them: that a release closes the right file needs that
exactly the owners are active, that two active handles never share a descriptor,
and that an open file has its owner, which is what keeps `Construct` from
opening a descriptor somebody still holds.

**StaticPictureWindowProofs.** `Invariance` proves `IInv`, from which follow
`TypeCorrect`, `IdsInOrder`, `ObjectsKnown`, `AckFirst` and `ExitsOnlyForReason`.
The properties speak of the request the compositor handles next, and say nothing
of the ones behind it, so none is inductive. The invariant is about `Pipeline`,
all requests on their way, flushed or not: their new ids are `nextNew`, ...,
`nextId - 1` in this order (`OrderInv`); every object a request names is known to the
compositor or made by a request before it, and is not destroyed in between
(`KnownInv`, of each id the window keeps too, since it may be used in a
request still to be made); and an `attach` has its `ack_configure` before it (`AckInv`).
A flush leaves the pipeline as it is, `Handle` takes its head. `GlobalsInv` is
the other direction: the `done` of the sync is behind all globals, so that a
global which is missing then was not offered. It also has it that a fatal
error is the only other way out.

**ObjectSessionProofs.** `Invariance` proves `IInv`, from which follow
`TypeCorrect`, `AllRequestsAccepted`, `VisitReadsAsSent` and `HandlesTyped`, for
every protocol and with ids that are used again or not. `RequestInv` is to the
requests under way what `OrderInv` and `KnownInv` are above, for any interfaces:
each is laid out as its object's interface has it, and each object in it, and
each live handle, will be known when the compositor comes to it. `EventInv` says
how an event relates to the program's handle of its object, which is out of
date while an event that brings another object of that id is on its way;
`PendingInv` that such an object is in no request and behind no live handle and
is brought once. Without the condition in `PendingInv` on requests, an
id that is used again could be mistaken for the object that had it.

**RegistryListingProofs.** `Invariance` proves `IInv`, from which follow
`TypeCorrect`, `SocketDocumented` and `ListingComplete`. That a listing is complete is
about events under way: `PositionInv` gives each of them its place in the
announcements (the number of globals announced before it was sent), which grows by one
at each `global`, starts with what has been printed, ends with what has been
announced, and is `synced` at `done`; so when `done` is visited, `synced` globals
have been printed. `RequestInv` has the two requests arrive in their order, which is
why `synced` is not below the number of initial globals: it is the step that
fails when the sync is asked for first.

**WireFormatProofs.** `Invariant` proves `IInv`, from which follow
`ParsesAppended`, `InOrder`, `GivesBack` and `ReadsAll`. `Positions` says where each message begins in
`buff_`: `at[1]` is 0, each ends where the next one begins, the last at the end of the
buffer, and unless it is still open there is at its beginning a header with its
object, its opcode and its size (`Heads`); the message the generator is at
lies between `at[index]` and `at[index + 1]`. So the next one is found by
its size (`NextFound`) and nothing is thrown. `BeginFramed`, `GrowFramed` and
`CloseFramed` are the three parts of `append`: they move the end of the last
message, and write over no byte of another (`OverwriteBytes`).

`Filled` goes on inside the messages. `Laid` gives every argument of a message its
place in `buff_` and every descriptor its place in `fd_buff_`: `Found` says what is
there, and the next argument is `Size` bytes or one descriptor further on.
`ElementFound` shows it for what `append` adds, with `WordElement`, `StringElement`,
`ArrayElement` and `NullElement` for each kind; `BeginSpread`, `GrowSpread` and
`CloseSpread` carry it through the whole buffer. `Reached` is the reader: what it has got
are the first arguments, `bytesRead` is the place of the next, and `fdsRead` has
counted the descriptors of all messages before (`Interpreting`). Each `Read...`
action then takes out the argument it is at and ends where the next one begins
(`TakenOut`, `ReadsArgument`): the padding that `append` adds and the interpreter
skips is the same for every length, and none of it is read as contents.

`GivesBack` and `ReadsAll` have the hypotheses `LayoutsAgree` and `NullsLast`. The
batches and layouts of `wire` satisfy both; those of `wire_null_string` satisfy
`LayoutsAgree` and not `NullsLast`, and that run shows that the theorem is false
without it (finding 2). They are hypotheses and not assumptions of the module, as
the first two theorems hold without them. All four stop at a message that outgrew
its size field, as `oversized` says: what is found behind it is up to its bytes.

**QueueLemmas** has what the window and the session share: `InOrder`, the ids of new objects in
a queue, which registering and handling keep.

Each of these invariants was an invariant of the run of its module before it was
proved.

Only model-checked:
- liveness, which TLAPS does not reach under fairness (`UntilReturns`,
  `RecvEventsReturns`, `FlushedArrive`, `ConstructorEnds`, `CloseEndsWait`,
  `EarlyPingsAnswered`, `ListingEnds`);
- `HeaderGenerator`: its two properties compare what a fold over the nodes of a
  protocol, flattened from sets of interleavings, has produced with the tables;
  they are results of induction over data, which the provers cannot do;
- that every message of the six headers satisfies the assumptions on tables:
  TLC evaluates the assumptions for the tables that the runs use, and `RoundTrip`
  fails in `wire` for a header whose layouts are not the protocol's.

## Findings

1. `connected_client.cpp:81`: `recv_buff_` has been resized for the block when
   `read_some` throws, and keeps that size. The client then takes up to a block
   of bytes that no server sent for events (`receive_read_fails`).
2. `message_intrperter.hpp:52`: the early return for a null string does not
   advance `bytes_read`, so the argument behind it is read from the null
   string's length word (`wire_null_string`). In the last place a null string is
   harmless (run `wire` has it there).
3. `display_static_picture.cpp:289`: pings that come while the window waits for
   its close are "handled" by registering a pong that nothing flushes
   (`window_pings`). Pings before the first configure are answered
   (`EarlyPingsAnswered`).

4. `sstd.hpp:61`: `operator=` destroys `*this` and goes on using it. The
   destructor's `active_ = false` is then a store to a dead object, which g++
   drops from -O2 on, so that a handle assigned to itself releases its
   descriptor once more when it goes out of scope, by when it may be that of
   another file (`handles_self_move`). `tests/test_sstd_unique_handle.cpp:109` says it does not.

Met while reading, and not shown by a run:

- `connected_client.cpp:172`: the callback of `until` runs before the erase. If
  it calls `until` of the same client, the inner call erases from the front
  first, and the outer one then erases bytes it counted in the old buffer;
  `connected_client.hpp:45` says the buffer never begins in the middle of a message.
- `message_overload_set.hpp:56`: overloads cannot be removed. When the compositor
  uses the id of one of its ended objects for an object of another interface, the
  old overload reads the new object's events with the wrong types. `ObjectSession`
  has these overloads, apart from the others (`Stale`).
- `protocol_primitives.hpp:53`: the bit-fields of `Wfixed` are laid out from the
  lowest bit, so its `is_negative` is a fraction bit of the 24.8 number.
- `generate_cxx_header_from_wayland_xml.py:506,537`: a message with arguments and
  no description fails an assertion, though lines 211 and 239 call the
  description optional; line 557 refuses an interface with exactly one child.
  `HeaderGenerator` has both (`Raise`).

A close sent before the first configure is skipped (line 275) and the wait at
289 then never ends; nothing in the repository says otherwise, so it is
a hazard in the list and not a finding.

## Not modelled

- A callback that calls `until` or `recv_events` of the client that is running
  it; malformed events (size below 8), which the compositor of the models never
  sends; a client used after `read_some`, `send` or `write` threw; a compositor
  that stops reading because its own socket is full.
- A compositor that hangs up on `StaticPictureWindow`, and one that hangs up during
  the flush of `RegistryListing` and not only while it waits: the client throws, as
  `EventReceive` and `RequestFlush` have it, and neither example catches it.
- Descriptors in events: `message_intrperter.hpp` has no branch for `Wfd` and the
  client does not receive any, so the headers' events with one are only tables.
  Descriptors in requests are in `WireFormat` (which goes with which message),
  `RequestFlush` (when they are sent) and `UniqueHandle` (what they stand for).
- Contents of messages above `WireFormat`, drawing, logging, the hash of
  `message_overload_set` (it places keys in a map), and values of enums.
- Compile-time code: `type_utils.hpp` and the concepts have no state; what
  `to_tuple` returns, the members of a message in order, is what the tables are.
- Allocators, build files, git and file handling of the generator, tests.

## Plan

In this order; later steps extend, and do not weaken, what is here.

1. `EventReceive`: a callback that starts another `until`, which adds a second
   frame of locals and takes `BufferCorrect` to the case it holds in.
2. `ClientSession`: both halves of the client with one compositor that blocks
   when its own socket is full, for the deadlock at `connected_client.cpp:57`.
3. Use after a failed flush: `request_buff_` begins with the next request while
   the stream ended inside one.

# WEEEServer in TLA+

A verification development for WEEEServer, the Django back end of the Teemo G1
children's watch: a TLS/TCP server that the watches keep a connection to, an
HTTP API they call for contacts, and one SQLite database behind both. The modules
are checked with TLC on small instances, and the main safety properties are
proved with TLAPS for every instance.

## 1. Inventory

Two kinds of processes share the database and a Redis channel.

```
 watch --TCP--> handle_client --.                         .--> SQLite <--.
                (one coroutine   >-- one database thread --              |
                 a connection)  |                                        |
 Redis ------> redis_listener --'                                   HTTP workers <--HTTP-- watch
   ^                                                                     |
   '------------------------- notify_add_contact -------------------------'
```

* **TCP server** (`run_tcp_server.py`): one process, one asyncio loop. Every
  connection is a `handle_client` coroutine; `redis_listener` is one more. All the
  handlers decorated with `database_sync_to_async` run in *one* thread, so their
  order is the order in which they were awaited.
* **HTTP server** (`views.py`): several worker processes (three in the README's
  gunicorn command). SQLite commits statement by statement; no view opens a
  transaction.
* **Redis**: `contacts_notify` carries the id of each new contact from a worker to
  the listener, which pushes the contact to the connection registered for its watch.

| component | state it keeps | operations | hard behaviour | what makes it correct |
|---|---|---|---|---|
| TCP sessions (`handle_client`) | `CLIENTS`, per coroutine `device_instance` and buffer | login, other packets, disconnection | reconnection while the old connection is still open; awaits between reading and registering; a second login under another udid | the registered writer is a live session of that watch with its valid token |
| contact push (`redis_listener`) | the writer it took out of `CLIENTS` | take a notification, look up, build, write | the writer is used two awaits after it was read; an exception must not end the loop | pushes reach only connections that logged in as the watch; every notification is read |
| contact API (`add_contact`, `update_contact`, `delete_contact`) | table `Contact` | check, insert, save, publish; find, save; find, delete | statements of several workers interleave; kills and errors between them | requests look atomic; an announced contact is complete |
| chat (`handle_chat_message_db`) | table `ChatLog`, voice files | duplicate check, file, row, ACK | retransmission, lost ACK, kill between file and row, deletion of a log or of its device in between | what is acknowledged was stored with its file, and stays until the operator deletes it; what can be stored is acknowledged in the end |
| framing and parsers (inner loop of `handle_client`) | the buffer of a connection | read, cut a packet out, parse | partial reads, several packets in a read, an unknown type in between | the packets handled are the packets sent, whole, once and in order |
| dispatch (`message_dispatcher`, `general_dispatcher`) | none | reply, error packet or close | which failures close the connection, which are answered, with and without a session | one answer for each request, and none but the error packet before a login |
| device record | table `WatchDevice`, the instance each connection caches | first login, login, ping, status, admin edit and deletion | full and partial saves of stale instances; `baby_id` from the clock | what the admin interface saved stays; a reported state is stored; numbers are stable |
| call records, short messages | `CallRecord`, `SmsMessage` | `update_or_create` for each record, link to a contact | one bad record in a batch, one id for two watches, deletions in between | an answered record is stored for its own watch, and linked to its own contacts |
| locations | `LocationPackage`, `LocationData` | insert the package, then each point | an error between two points, a deletion in between | an answered package has all its points |
| contact synchronisation | none (reads `Contact`) | full list of contacts | a list older than a push, written after it | a list does not take back a push |
| admin interface | none of its own | edit a device; delete a device, a contact, a call, a package, a chat log; add and edit a contact | another process: between any two statements of a handler | see device record |
| image upload | files | save under a free name | | |
| constant answers, passport login, NativeUtils, settings | none of their own | pure answers and conversions | | |

`PROJECT.json` lists the same components with their status, and under `hazards` each
place of the code where one of these behaviours bites, with the properties that watch it.

## 2. Modules

| module | models | extends / instantiates |
|---|---|---|
| `Sessions` | `handle_client`, `CLIENTS`, the login, the database thread, `redis_listener`, restarts | |
| `SessionsProofs` | its inductive invariant and theorems | `Sessions` |
| `ContactApi` | the three contact requests, one database statement an action | `ContactBook` and `ContactFeed` by refinement |
| `ContactApiProofs` | invariant and theorems | `ContactApi` |
| `ContactBook` | what they promise: an atomic book of contacts | |
| `ContactBookProofs` | the refinement, for watches that wait for their answers | `ContactApiProofs` |
| `ContactFeed` | what the TCP server sees of the contact requests: rows that come, go and come back, and announcements | |
| `ChatIngest` | a watch's outbox, the network, `handle_chat_message_db` | `ReliableChat` by refinement |
| `ReliableChat` | what the ACK protocol promises | |
| `ChatIngestProofs` | invariant, theorems and the refinement | `ChatIngest` |
| `Protocol` | the packet header, the dispatch tables, and what each handler answers or raises on | |
| `Stream` | `handle_client` over the bytes of a connection: reads, buffer, inner loop, one handler after the other | `Protocol`; `WatchDialogue` by refinement |
| `WatchDialogue` | what a connection promises a watch: whole packets, one by one, one answer each | `Protocol` |
| `StreamProofs` | invariant, theorems and the refinement | `Stream` |
| `DeviceRecord` | the row of a watch, its cached instances, logins, ping, status, the admin interface | |
| `Uploads` | short messages, locations and call records, over the devices | composes `DeviceRecord` (a step of it is a step of `Uploads`, with the rows a deletion takes along) |
| `DeviceRecordProofs` | lemmas: what every step of a watch or of the admin interface keeps | `DeviceRecord` |
| `UploadsProofs` | invariant and theorems of both | `Uploads`, `DeviceRecordProofs` |
| `ContactPush` | the way of a contact from the worker over Redis and the listener to the watch | the steps of `ContactFeed` for its workers; `ContactDelivery` by refinement |
| `ContactDelivery` | what pushes and lists promise: a watch comes to hold its own book, and nothing is taken back | |
| `ContactPushProofs` | invariant, theorems and the refinement | `ContactPush` |
| `MCSessions`, `MCContactApi`, `MCChatIngest`, `MCStream`, `MCUploads`, `MCContactPush` | symmetry sets, message sets and batches for TLC | |

### Sessions

What the loop runs between two awaits is one action. `ReadPacket` is the inner loop
of `handle_client` down to `await handler(...)`; it appends a call to `jobs`. `RunJob` is the
database thread: it takes the oldest call, runs it (a login replaces `http_token`, which is the
only thing the sessions read back) and appends a result to `done`. The `Resume...` actions are
the rest of the loop body when the result comes back: `ResumeLogin` assigns `device_instance`,
registers the writer and writes the reply, which the code does without an await in between;
`ResumeReport` writes any other reply; `ResumeRaise` is the `except` and the `finally` block,
`Ended`, which removes the registered entry *by udid*, whichever writer is there. A packet is
only known by what it makes `handle_client` do (`Packets`): a login and the udid it names, which the
code takes as it comes, whether or not the connection has logged in before; a handler that is awaited,
one that raises (an invalid login is one of these: it returns a dictionary where bytes are
expected), one answered on the spot, and one whose parser raises. `Disconnected` is the end of
the stream; it may come long after the peer is gone (`link = "lost"`), or never, because no
timeout is set. A peer that does not read (`link = "stalled"`) holds in `drain()` whoever writes to it:
its own coroutine (`phase = "draining"`) until `Drained`, and the listener until `ListenerDrained`.

`Subscribe` is the start of `redis_listener`: no `try` surrounds it, so the coroutine may end there
(`lphase = "dead"`). `TakeRegistered`, `ResumeLookup`, `ResumeBuild` and `ListenerDrained` are its loop,
with three awaits and the writer `lwriter` it keeps across them; `ResumeNothing` is its way back when
the contact is gone (`None`), or when a call or the write has raised (the inner `except`). `Restart`
is systemd's restart: memory, connections and undelivered notifications go, the database stays.

`given`, `left`, `pushed` and `overlapped` record history for the properties: the token each connection
was told for each watch, the watches a connection served before its present one, the pushes that reached
a peer, and the watches that logged in while a session of their own was still open.

### ContactApi and ContactBook

Each worker goes through the statements of one request (`at`): *check* (authentication and the
lookup of the number), *stamp* (the clock is read), *create*, *save* (the other numbers),
*publish*, *reply*; or *find* and *delete* or *write*. `snap` is the model instance a request
holds in memory: `save()` writes all its columns, and inserts the row when its key is gone
(`Saves`, `With`). `Fail` ends a request between two statements, for an error answered with code
500 or because the process was killed; `Login` is the TCP server replacing a token. A row's
`ext` says whether its list of other numbers has been set. `updated` and `deleted` record the
ids an update or a deletion wrote. `ContactBook` has one atomic action for each request;
the refinement maps the book to the rows whose `ext` is set.
`SequentialSpec` is `Spec` with one request of a watch under way at a time (`OneRequestPerWatch`):
that is what a client does which waits for its answer. Requests of different watches still
interleave statement by statement.

`ContactFeed` joins this module and `ContactPush`. It has a step for an insertion, for an announcement
that is made or given up, for a deletion, and for a save that puts a deleted row back. The HTTP workers of
`ContactPush` do just these, and `ContactApi` is shown to do no others (`ImplementsFeed`): a worker between
*create* and the end of *publish* has an announcement open, of the key and the watch in its memory.
`removed`, the watch of each row that was deleted, is history.

### ChatIngest and ReliableChat

A watch sends each message again until it has the ACK. Packets and ACKs may be lost; packets
read wait in `queue` for the database thread (`Take`), which goes through `Check`, `OpenFile`
(`open(..., 'wb')` empties the file), `WriteFile`, `Create` and `Reply`. `Error` gives up the
handler between two of them, `Kill` ends the process. A message is a record of its watch, its id
and its kind of content; "bad" is one the parser or the database rejects, and an "image" is
stored without content, because the code has only a TODO there.

The operator may at any of these moments delete a chat log (`DeleteLog`), which the admin interface
allows, or a device (`DeleteDevice`), whose chat logs go with it; the voice files stay. The session of a
deleted device goes on with a cached instance that has no row (`rowless`): the duplicate check finds
nothing and the insertion fails, until the watch logs in again (`LogIn`, and `TakeLogin` when the thread
creates the device). A watch that logs in again is assumed to have left its earlier connection, so that
no call of the old session is queued behind the login. `removed` is history: the messages whose row
was deleted.

`ReliableChat` promises that a message is confirmed only after it was stored, and that a stored one
stays until the operator deletes it. It may be stored again after that, by a repetition whose ACK was lost.

### Protocol, Stream and WatchDialogue

The bytes of a connection are one sequence, `stream`; `got` of them were read and `cut` of them
consumed, so `buffer` is what lies between, and no byte is ever copied. `Read` is
`reader.read(4096)` with any number of bytes up to `ReadSize`; `AwaitMore` leaves the inner loop for
want of a header or of a whole packet; `CutPacket`, `CutUnknown` and `CutShort` take a packet out and
await its handler, leave the inner loop for an unknown type, or raise for a body without a type.
`Answer` and `Fail` are the return of the handler. `sent` and `starts` remember what the watch sent
and where it starts in the stream. A body is a version, a type and a payload, and of the payload
counts its first byte, which says what the parsers make of it (`ContentOf`): a whole request, an
object that lacks what the handler looks for, values that make it raise, one of the three general
requests, or something unreadable. `Protocol` has one record for each handler: the contents it
answers, and those it raises on, which ends the connection. `WatchDialogue` knows neither bytes
nor reads: a packet sent is ignored, answered, or refused with the end of the connection.

### DeviceRecord and Uploads

All handlers share the database thread, so a job runs to its end before the next; `job` is where
the thread is. The admin interface and the HTTP workers are other processes and may come between
two statements: a login is `LoginRead` and `LoginSave`, a location message is `CreatePackage`, one
`Point` after the other and `AnswerPoints`, a batch of calls is `SaveRecord` and `Link` for each
record and `AnswerCalls`. `Upsert` is Django's `save()`, which writes all columns and inserts
the row again when it is gone; `SaveFields` is `save(update_fields=...)`, which raises then.
`OnDelete` is what Django deletes or sets to NULL with a row. The columns kept are those that two
parties write or that a property is about: `user` stands for everything only the admin interface
edits, `charging` for what a handler compares with its cached instance, `baby_id` for the number.
`edited`, `raced`, `overtaken`, `outdated`, `told`, `deleted`, `acked`, `shared` and `removed` are
history: they name the circumstances that the properties make an exception for.

### ContactPush and ContactDelivery

The workers take the steps of `ContactFeed`: a contact is inserted, and published by a later step of
its worker; it may be deleted, and come back (`SaveAgain`) by an update that read it before. A
contact is its primary key here; two rows that have the same id one after the other, within a
millisecond, are told apart. `channel` is what Redis holds for the subscription, nothing when there
is none. `listener` is where `redis_listener` is: before `subscribe`, in `get_message`, in one of
its two database calls, in `drain`, in the `sleep(5)` of its `except`, or dead. A call of the thread
may raise (`JobRaises`): one of the listener's ends in the inner `except` (`ResumeRaised`), one for a
list in an error packet (`ResumeSync`). `peer` is a
connection as the server sees it: `stalled` does not read, `gone` is lost and not yet noticed.
`wire` is what was written and not read. `known` is what the watch holds: an "add" adds to it, a
list replaces it. `missed` are the contacts that came back, which nothing announces, and those whose
announcement was lost, at the six points where the code can lose it: a worker killed before
`publish`, a Redis that is down or not subscribed, a watch that is not registered, a call of the listener
that raises, a connection, and a restart of the process. `blind` says that this process found Redis down
when it was to subscribe; a restart tries again. `Sessions` has the registry with overlapping sessions; here a watch
returns only after the server has noticed that its connection is gone, so that what is lost is not
lost for that reason. `ContactDelivery` knows only the book and what each watch holds of it
(`Lasting` and `Holds` leave out the contacts that were ever deleted: a watch keeps one until it
next reads a list, and one that came back stays off it until then): a delivery adds contacts of the
watch's own, a deletion removes one.

## 3. What is checked

Deadlock is not checked in any run: every instance has a bounded number of packets,
requests or failures, and stops when these are used up and nothing is under way.

| run | instance | properties | result |
|---|---|---|---|
| `sessions` | 2 watches, 3 connections that log in as either, 3 packets, 1 push, 1 peer that stops to read | `TypeOK`, `AwaitsOneCall`, `RegistrationSound`, `RegisteredHoldsValidToken`, `RegisteredUnlessOverlapped`, `PushAfterLoginReply` | hold |
| `sessions_live` | 1 watch, 2 connections, 2 packets, 2 pushes, 1 peer that stops to read, 1 restart, fair | `RequestsServed`, `NotificationsConsumed` | hold |
| `registry` | 1 watch, 2 connections, 2 packets | `UnregisteredIsNotConnected` | violated |
| `contacts` | 2 watches, 2 workers, 3 requests, 1 login each, 1 failure | `TypeOK`, `ToldIsComplete`, `OwnContactsOnly`, `ImplementsFeed` | hold |
| `contact_book` | 2 watches that wait for their answers, 2 workers, 3 requests, 1 login, 1 failure | `ImplementsBook`, `NoDuplicatePhone`, `OnlyRequestedField` | hold |
| `contact_phone` | 1 watch, 2 workers, 2 requests | `NoDuplicatePhone` | violated |
| `contact_update` | 1 watch, 2 workers, 3 requests | `OnlyRequestedField` | violated |
| `chat` | 2 watches, 2 messages that share an id, 2 failures, 1 deletion, fair | `TypeOK`, `RowFileIsWhole`, `ImplementsReliableChat`, `GoodMessagesDelivered` | hold |
| `chat_shared_id` | the messages of `chat`, no failure, no deletion, fair | `WellFormedMessagesDelivered` | violated |
| `stream` | 3 packets of 9 kinds, reads of 1 to 7 bytes, fair | `TypeOK`, `AnonymousNotServed`, `IdleHoldsNoPacket`, `ImplementsDialogue`, `EventuallyHandled` | hold |
| `uploads` | 2 watches, 2 connections, 4 database jobs, 2 steps of other processes, 2 seconds, batches of two | `TypeOK`, `EditKept`, `ReportsStored`, `NumbersStable`, `AnsweredWhole`, `FiledUnderOwner`, `LinkedToOwn`, `AnsweredCallsStored` | hold |
| `push` | 2 watches, 2 contacts, 1 failure or deletion, 1 list asked for, fair | `TypeOK`, `NothingForgotten`, `ImplementsDelivery`, `PushesGoOn`, `EventuallyKnown` | hold |

**Bounds.** Three connections let a watch reconnect twice, or two watches meet while one of them
reconnects; three packets let every connection log in, or one log in, as one watch and then as the other,
be replaced and raise. One stall can hold the coroutine of the peer, the listener, or both; the restart
is in the live instance, and that the invariants survive it is proved (and was checked with two
connections). One push suffices for its three steps to interleave with everything else, and the live
instance has two, so that a second notification waits for the first. Three requests are an add with an
update and a deletion of the same contact, which is what the conflicts need; two milliseconds let two
contacts have equal or different ids. One failure falls between any two steps; what matters is where it
falls, since each leaves the state in one of the shapes a later failure would start from. In `chat`,
copies of one message can be on the wire, in the queue and at work at a time; the message that is stored
first has its id to itself as long as the operator leaves it there, and two failures let a repetition
fail as well. All four properties were also checked with one failure and two deletions (a log and then
its device, or a device again after its watch has come back), the first three with two of each. In
`stream`, packets are 4 to 7 bytes long and reads 1 to 7, so a header is cut at each of its bytes and a
read ends in every place of two packets; three packets put one of each kind before and after a login. In
`uploads`, two jobs log two connections in, and two more are the ones that meet, with two steps of
another process anywhere between their statements; the properties were also checked with five jobs. In
`push`, one failure of any kind falls between any two steps; the invariants and the refinement were also
checked with two, and with two lists.

**Fairness.** `Sessions!Fairness` and `ChatIngest!Fairness` assume weak fairness of what the loop and the
thread run: `asyncio` resumes a coroutine whose future is done, and the executor takes the next call.
Nothing is assumed of the watches in `Sessions`: not that they send, nor that a lost connection is ever
noticed. The listener's `drain` has strong fairness while its peer reads or its connection has ended:
asyncio resolves the future the moment the buffer is below its limit, or the transport is closed, and it
stays resolved if the peer stops reading again. While a connection is lost and not yet ended nothing
resolves it. `ChatIngest` assumes that a watch goes on repeating an unacknowledged message, which the
comments of the handler count on ("防止客户端重传", "让客户端有机会重试"), and strong fairness of reading a packet and of
receiving an ACK: connections may break any number of times, but not each time before the packet is
through. The watch of a deleted device connects, and so logs in, again in the end. `Stream!Fairness` is
that the coroutine goes on when there is something to read or its handler is back. `ContactPush!Fairness`
is that of the loop, the thread, whose calls may raise, and a worker about to publish, that a watch which
is not stalled reads, and that the server notices a lost connection in the end; nothing is assumed of
Redis, which may stay down, nor that a stalled watch recovers or a lost one returns, and the properties
make these exceptions explicit.

**What the violated properties show.**

* `UnregisteredIsNotConnected`: when the old connection of a watch ends after the watch has
  reconnected and logged in, its `finally` block unregisters the new session. The watch stays
  connected and gets no more pushes until it logs in again.
* `NoDuplicatePhone`: two adds of one number pass the check together.
* `OnlyRequestedField`: an update writes back every column it has read, over the writes of
  others, and revives a deleted contact.
* `WellFormedMessagesDelivered`: the duplicate check is per watch, the uniqueness of `message_id`
  is not; a message whose id another watch has used is repeated for ever.

`RegisteredUnlessOverlapped`, `ImplementsBook` and `GoodMessagesDelivered` say how far the code is
right all the same: a watch that does not overlap its own sessions is registered, requests are atomic
for a watch that waits for its answers, and a message is acknowledged, whatever
the operator deletes, unless another watch's has taken its id.

**What the exceptions in the other properties show.** Each of these is a weakness of the code that
was found while stating the property, and the property says that there is no other.

* `RegistrationSound`: a connection that logs in as one watch and then as another leaves its entry
  under the first, and the `finally` block removes only the second: the entry stays, with a closed writer,
  until the first watch logs in elsewhere or the process restarts.
* `IdleHoldsNoPacket`, `EventuallyHandled`: a complete packet behind one of an unknown type waits in
  the buffer until something more arrives.
* `EditKept`: an edit of the admin interface between the read and the save of a login is lost.
* `ReportsStored`: a session compares with the charging state it cached, so a report is lost after
  another session of the watch has reported.
* `NumbersStable`: a device that was deleted gets a new number, and its number may go to another.
* `FiledUnderOwner`: a session goes on filing locations under the user of its login.
* `LinkedToOwn`, `AnsweredCallsStored`: a record id used by two watches moves the record, with a link
  to the first one's contact.
* `PushesGoOn`, `NotificationsConsumed`: a Redis that is down when the process starts ends the pushes
  for good, and one watch that stops to read, or whose loss is not noticed, holds up all the others'.
* `NothingForgotten`, `EventuallyKnown`: an announcement that is lost is never repeated, also when it
  was the database that was locked for a moment; the watch learns of the contact when it asks for its list.
* `ImplementsReliableChat`: a message the operator has deleted is stored again when its ACK was lost and
  the watch repeats it.

## 4. What is proved

TLAPS proves, from the assumptions each module names (constants that stand for distinct things,
bounds that are numbers) and for any number of watches, connections and messages:

* `SessionsProofs`: `TypeCorrect`, `Registered`, `TokenOfRegistered`, `RegisteredAlone`,
  `PushedAfterLogin`, `OneCallAwaited`, all from `Inductive`. The invariant `IInv` strengthens the properties by
  - `OneCallEach`: a coroutine has at most one call among `jobs` and `done`, and only while it
    waits. Without it a result might belong to a coroutine that has closed its connection;
    `WaitersCall`, proved from it, adds that each that waits has one;
  - `WaitsAlive`: a connection that waits has not ended, and one that never opened has no session;
  - `LastLoginIsValid`: of the finished logins of a watch the last in `done` carries the token in
    the database. This is why registering results in order leaves the valid token with the
    registered session; a queue that reorders results would break it;
  - `RegisteredWasGiven` and `ListenerHoldsWriter`: what is registered under a udid, or kept by the
    listener for it, has been answered a login as that watch.

  `Registered` and `RegisteredAlone` hold for logins under any udid in any order; `left` and `overlapped`
  are the two histories that make exceptions.
* `ChatIngestProofs`: `TypeCorrect`, `FilesAreWhole` and `Refinement`, the chat handler
  implements `ReliableChat`. Its invariant says what holds at each step of the handler
  (`SavesNewMessage`: no row yet, and a whole file before the row), of each row (`RowOfMessage`)
  and of each ACK (`AcksOfStored`: it is that of a message whose row is there, or was deleted). The lemma
  `DeleteEffect` says what a deletion, of a log or of a device, keeps of all this.

* `ContactApiProofs`: `TypeCorrect`, `ToldAreComplete`, `OwnRows` and `RequestsFeedThePush`, for any number of workers. A
  row can be deleted while an instance of it is in memory, and saving the instance puts it back: what
  holds then is said by
  - `KeyIsOneContact`: a key stands for one id and one watch, in the table and in every instance.
    This makes ids unique and rows stay with their watch, although `save()` may insert;
  - `Serves`: a worker works for the watch of its request, on a key that was given out before;
  - `ToldIsThere`: what is announced, or is about to be, is complete, rewritten or deleted;
  - `KeysForRequests`: the keys given out and the workers about to insert are no more than the
    requests received, so that `next_key` keeps its bound.

  `RequestsFeedThePush` is the refinement of `ContactFeed`. `FeedInv` says what it needs besides: a key that
  was not given out yet has not been deleted, a row that a worker may put back was deleted for the watch in
  its memory, and no two workers announce one key. So the theorems of `ContactPush`, whose workers may take
  any step of `ContactFeed`, are about workers that do at least what the requests do.

* `ContactBookProofs`: `SequentialImplementsBook`, `SequentialNoDuplicate` and
  `SequentialOnlyRequestedField`, of `SequentialSpec`. Both violated properties of the contact API hold, and
  so does the refinement, when a watch waits for its answers; requests of one watch that overlap are
  therefore all that goes wrong. The invariant `BookInv` adds to that of `ContactApiProofs`
  - `PhoneStaysFree`: the number a request has looked up is still free when it inserts the contact;
  - `InstanceIsRow`: the instance in memory is the row, field by field, so saving all columns changes one;
  - `Undisturbed` says both of every worker. That no other worker takes them away, since it writes no row
    of the watch, is the lemma `OtherUndisturbed`. It rests on `KeyIsOneContact`, since a save goes by key,
    and would fail if a key could change hands.

* `StreamProofs`: `TypeCorrect`, `NoPacketIdle`, `NamedFirst` and `Refinement`, a connection
  implements `WatchDialogue` for any set of bodies and any size of reads. The invariant says that the
  stream is the packets sent, one behind the other (`Packed`: where a packet starts, its header and its
  body are there), and that the loop is aligned with them (`Aligned`: it has cut exactly the packets
  handled, and the one that is being handled). From the two, the header at `cut` declares the length
  of the next packet sent, and what is cut is this packet.

* `DeviceRecordProofs` and `UploadsProofs`: `TypeCorrect` and every other invariant of the run `uploads`,
  for any number of watches, sessions and jobs and batches of any length. `DInv` says of the device record
  - `KeyIsOneWatch`: whatever names a key, the table, a copy in memory or a reply, names the same watch and
    number with it. A login may put a deleted row back, and this is why it puts the right one back;
  - `RowsApart` and `ToldRows`: numbers differ, and what was told is in the table until it is deleted;
  - `EditsSaved` and `CopiesFresh`: what a session or a login that is about to save holds agrees with the
    row, but for the steps (`raced`, `overtaken`, `outdated`) that the properties make exceptions of.

  Of the uploads it is enough to add what the thread has behind it in a batch (`PointsStored`,
  `CallsStored`), that the record it is about to link is one of its watch (`LinksOwn`), and that foreign
  keys lead somewhere (`Related`); the lemma `Deletion` says what a deletion keeps of all this.

* `ContactPushProofs`: `TypeCorrect`, `NothingIsForgotten` and `DeliversTheBook`, for any number of watches,
  contacts and failures. `NothingForgotten` is not inductive, because a list replaces what a watch
  holds. The invariant says that a list is never behind the push of a contact it lacks:
  - `Ordered`: what a list among the results lacks is still to be taken from the channel, was lost, or is in
    the hand of the listener with no packet of it in front of the list;
  - `InLine`: what a list on a wire lacks is not written yet, was lost, or is behind it on this wire;
  - `Calls` and `OneCall`: the one call of the listener is about the contact in its hand, and a packet
    is missing only for a contact that has been deleted.

  A contact is announced after it is inserted and read by the thread before it is written; with results
  resumed in their order, these keep each other. `FinishLast`, which delivers the last result first, breaks it.
  The refinement needs the converse, `NeverBack`: what a list lacks is new to the watch when it reads it.
  - `OwnOnly`: results, packets and what a watch holds are contacts of its own, or deleted ones;
  - `NewToResults`: what a list among the results lacks is in no earlier result for its watch, in no
    packet on its wire, and not held by it; `NewToPackets` says so of a list on the wire;
  - `BuiltInHand`: the packet built is of the contact in the listener's hand.

The proofs have one step for each action and one lemma for each conjunct of the invariant.

Only model-checked: the liveness properties (fairness and `ENABLED` are beyond the prover):
`RequestsServed`, `NotificationsConsumed`, `GoodMessagesDelivered`, `EventuallyHandled`, `PushesGoOn`
and `EventuallyKnown`. Every other property of a passing run is a theorem.

## 5. What is left out

* TLS, and the text of packets: of JSON and zlib is modelled what the handlers tell apart.
* A peer that does not read holds its own coroutine in `drain`: that is in `Sessions`, while `Stream`
  takes the write of an answer to be immediate.
* The columns that one party writes and nothing compares: the identifiers of a login, power, signal and
  voltage of a heartbeat, the kind of a contact, its photo; of a point only whether it can be saved.
* Overlapping sessions and the push together: `Sessions` shows what they do to the registry, and
  `ContactPush` what becomes of a contact when they do not happen.
* Of the admin interface its pages, among them the text of a location package whose device was deleted
  (`LocationPackage.__str__` raises); edits of contacts; deletion of users, which sets `user` to NULL.
  A contact *added* there is never announced: to the push it is one whose worker dies before `publish`.
* Of a deleted device whose watch has two sessions at a time, the calls that the older one sends after the
  login of the newer (`ChatIngest`): its instance keeps the old key, and what it brings is refused.
* Image upload (one file under a free name, no state shared with another operation), constant
  answers, `NativeUtils` (pure conversions, of which the handlers call one inside a `try`), settings.

## 6. Plan

The modules of the first plan are written. What would say most next:

1. `Sessions` and `ContactPush` composed, with overlapping sessions: which pushes the registry loses.
2. `NativeUtils` as operators, against a reference definition over small blocks.

# Verification of the live streaming server

TLA+ models of the C backend of this repository, checked with TLC, and theorems
about them, proved with TLAPS. Paths are relative to `src/` of the repository.

## 1. The system

| part | source | state | operations | interacts with |
|---|---|---|---|---|
| connection server | `backend/main.c` `main`, `handle_client`, `list_videos`, `stream_video` | the table of file descriptors, one stack per thread | accept, read and route a request, list, stream, close | clients through sockets; one detached thread per connection |
| live stream relay | `backend/main.c` `handle_broadcast`, `handle_live_view`, `send_all` | `live_buffer`, `live_size`, `live_lock` | receive and store a piece; send and empty the buffer | threads through the mutex, peers through blocking `recv` and `send` |
| thread pool | `backend/Systems/ThreadPool.c` | `active`, the queue `work`, a mutex, a condition | constructor, `add_work`, the loop of the threads, destructor | callers and workers through mutex and condition; uses the queue |
| linked list, queue | `backend/DataStructures/Lists`, `Common/Node.c` | nodes on the heap, `head`, `length` | insert, remove, retrieve, sort, search, destructor; push, peek, pop | used by pool, dictionary, request parser |
| search tree, dictionary | `backend/DataStructures/Trees`, `Dictionary` | a tree of entries, a list of keys | insert, search, destructor | used by request parser and HTTP server |
| HTTP request parser | `backend/src/HTTPRequest.c` | three dictionaries | constructor, destructor | called by the handler of the HTTP server |
| HTTP server library | `backend/src/HTTPServer.c`, `Server.c` | routes, socket | register_routes, launch | an accept loop that handles one client after the other, without the pool |
| client | `backend/src/Client.c` | a socket | request | a server, through the socket |
| peer to peer | `backend/src/PeerToPeer.c` | known hosts | a server thread beside a client | both are functions of the caller |
| files | `backend/Systems/Files.c` | none | | |
| frontend | `frontend/streaming-app/src` | signed-in user, current page | | plays a video by its address |

`main.c` is the program that is deployed; the rest of `backend` is the library
(`libeom.a`) it does not link.

Which behaviour is hard, and where:

* **Threads and one mutex.** Broadcasters and viewers share one buffer. A
  viewer sends to its client while it holds the mutex, in three calls of
  `send_all`, each of which reads `live_size` or has read it before.
* **Descriptors.** `handle_broadcast` closes its socket, and `handle_client`
  closes the same number again; in between `accept`, `open` or `opendir` of
  another thread may have got that number. `accept` may fail and its -1 is used.
* **Stacks.** `path` is not initialised. A client that ends its side without a
  request is answered by what the last thread on that stack was asked for.
* **Peers.** They stall, leave in the middle of an answer (SIGPIPE ends the
  process), say nothing, or upload and never read.
* **Lost signals.** The threads of the pool wait without a test of the queue.
* **A struct copied under its users.** The pool's constructor gives the
  address of a local struct to its threads and returns a copy.
* **Text.** The request parser copies strings without their terminators, takes
  the length of what may be nothing, and cuts what one `read` happened to bring.
* **One thread for all.** The HTTP server waits for the request of one client
  before it takes the next, and most errors end the process.
* **Lengths and indexes.** A pop of an empty list makes `length` negative; the
  binary search keeps a lower bound that it has looked at.

What makes each part correct is in the properties below; `PROJECT.json` lists
the hazards line by line, with the properties that would catch them.

## 2. Modules

| module | models | abstract specification | proofs | for TLC |
|---|---|---|---|---|
| `LiveRelay` | the live stream relay | `LossyRelay` | `LiveRelayProofs` | `MCLiveRelay` |
| `StreamServer` | the connection server | `AnswerService` | `StreamServerProofs` | `MCStreamServer` |
| `ThreadPool` | the thread pool | | `ThreadPoolProofs` | `MCThreadPool` |
| `LinkedList` | linked list and queue | `SequenceList` | `LinkedListProofs` | `MCLinkedList` |
| `BinarySearch` | `binary_search_ll` | | `BinarySearchProofs` | `MCBinarySearch` |
| `Dictionary` | search tree and dictionary | `FirstWinsMap` | `DictionaryProofs` | `MCDictionary` |
| `HTTPRequest` | how the request parser cuts strings | | | |
| `HTTPServer` | request parser, HTTP server library, client | `SequentialService` | `HTTPServerProofs` | `MCHTTPServer` |

`NaturalInduction` has the induction and the recursion over numbers that the
proof modules use.

`StreamServer` has the threads of `LiveRelay` as threads that hold a descriptor
and receive pieces or send chunks; what they do with the buffer is in
`LiveRelay` alone. `ThreadPool` and `Dictionary` use a sequence where the code
has a queue or a list; `LinkedList` shows (`ImplementsSequence`) that the code
of the list is a sequence for callers who keep to its indexes, which those do.
In `HTTPServer` a dictionary is a map in which the first value of a key stays,
which is what `Dictionary` is shown to be (`ImplementsMap`), and the crash of a
search in an empty one and of the destructor are taken over from it.

Operators that are named after another one with a suffix (`Check_OffByOne`,
`CloseFile_Twice`) and marked *Mutant* are not part of any specification: each
is a plausible mistake in the definition it is named after, and `PROJECT.json`
names the property that finds it.

### LiveRelay

A broadcaster is at one of `recv lock check copy grow unlock done` and a viewer
at one of `hello lock test head call body tail reset unlock`; each label is a
line of `handle_broadcast` or `handle_live_view` (see *map* in `PROJECT.json`).
`live_size + n < LIVE_BUF`, the `memcpy` and the increment are three steps, so
are chunk header, the call with `live_size` as its argument, every `send` of
`send_all`, trailer and reset. A byte is a pair (broadcaster, number), so that
it can be told where a byte that arrives comes from. `peer[v]` may be `stalled`
(`send` blocks) or `gone` (`send` fails, or `Killed`: SIGPIPE). The length of
the header (90 for 73 characters) and the digits of the sizes are left out.
To `LossyRelay` a piece has been taken when it is dropped or covered by
`live_size`, the content is pending until its trailer is delivered, and a chunk
that a viewer has not got to the end is not among those it got.

### StreamServer

Descriptors are the numbers 1..`NFds`, 0 is the code's -1; `fds` says what
each names. `accept`, `open` and `opendir` take the lowest free number, `close`
frees a number whoever uses it: that is what the kernel does, and all that
makes the second close of an upload interesting. A thread is its stack:
`path` survives from one thread to the next on the same stack. The five paths
of the router, the path the frontend asks for and "anything else" are the
requests. A request arrives whole, and answers are sequences of messages
(header, blocks of the file, chunks). `main`'s loop is `Accept` and
`AcceptFails`; a thread's steps are the calls that touch a descriptor.

### ThreadPool

There are two objects, the constructor's frame and its result, each with mutex,
waiters, `active` and queue. `elided` says that the build makes the result in
place, so that both are one; `Return` copies otherwise, with the mutex as it is
at that moment, and `UseDeadFrame` is what the threads then may do. `Wait`,
`WakeSpuriously`, `Peek`, `Pop`, `Unlock` and `Run` are the lines of
`generic_thread_function`, and `PeekNull` its crash.

### LinkedList, BinarySearch, Dictionary

These have no threads of their own; a step is a call, but for two loops: the
destructor of the list, whose test reads a length that its body changes, and
the binary search. The heap is explicit in `LinkedList` (`heap`, and the `next`
of freed nodes stays as it was), because what can go wrong there is a node that
is lost or used after it was freed. `sort` takes the data of the first node for
a node; it does nothing, crashes, or finds an address there and writes over
that data, which are the three disjuncts of `Sort`. Calls with indexes the list
does not have are made too; `misused` remembers them, and most properties are
about what holds until then. `BinarySearch` starts from any list, sorted or
not. `Dictionary` numbers the nodes of the tree as they are made; `Ordered`
asks that the tree is a search tree the same way round everywhere, not which
way. The crashes of the library (NULL followed, entry freed twice) end the
behaviour in `crashed`.

### HTTPRequest and HTTPServer

`HTTPRequest` has the pure part: `strtok`, the loop that makes a bar of a blank
line, and the three cuts of the constructor, as operators on strings. A string
is a sequence whose members are the separators, one character each (line feed,
carriage return, space, `:`, `|`, `&`, `=`), and words, which stand for two or
more other characters. `NULL` is the empty sequence, since `strtok` finds no
empty string. `HTTPServer`'s `TypeOK` types these strings too (`StringTypes`):
where the code relies on a string that `strtok` found, it is not empty.

`HTTPServer` is the one thread of the library with its clients. Its labels are
the calls in their order: `bind listen register accept read split line fields
header body push route write destroy`; `Handle` is `handler` and what it calls.
One `read` gets any non-empty part of the front of a message, or nothing when
the client has left. The copies the parser makes have no terminator: what is
read where a key, a value or a uri was copied is that string followed by any
member of `Residue`, chosen at each use (for a key, once: it is compared by
every later search). What it may read behind a form without a body, in memory
that was freed, is a choice too (`ExtractForm`). `crashed` and `exited` end it.
A client is `request` of `Client.c`: connect (whose failure it does not see),
send (which then kills it), read the answer; or it leaves.

## 3. Runs

| run | constants | states | what it shows |
|---|---|---|---|
| `live_safe` | 2 broadcasters of 2 bytes, 2 viewers that may stall and leave, room for 2 bytes, pieces of up to 2 | 327,040 | `TypeOK`, `MutualExclusion`, `BufferBound`, `ChunkHonest`, `DeliveredOnceInOrder`, `StableSnapshot`, `ImplementsRelay` |
| `live_fair` | the same, peers that read | 37,100 | `PieceHandled`, `Drained` |
| `live_fanout` | the same | | *violation* of `ViewersShareStream` |
| `server_uploads` | 3 clients that upload, watch or say nothing, 3 descriptors, 3 stacks | 266,250 | `TypeOK`, `NoLeak` |
| `server_views` | 2 clients, of which one may stall, leave or keep silent; 2 descriptors, 3 stacks; listing, video of 2 blocks, live stream | 280,694 | `OwnDescriptors`, `ImplementsService`, `Answered` |
| `server_theft` | 2 clients, one uploads | | *violation* of `CompleteVideo` |
| `pool_safe` | 2 workers, 2 callers, 3 jobs, both builds, spurious wakeups, destructor | 55,237 | `TypeOK`, `JobsConserved`, `WokenHaveWork`, `AddReturns`, `DestructorReturns` |
| `pool_lost_wakeup` | 2 workers, 1 caller, 2 jobs, made in place | | *violation* of `JobsRun` |
| `list` | 4 nodes, 2 data, length down to -2 | 15,617 | `TypeOK`, `NoLeakNoDangling`, `LengthCounts`, `QueueDiscipline`, `ImplementsSequence`, `AtIndex` |
| `search` | all lists of up to 6 of 4 items, every query | 72,464 | `TypeOK`, `StaysInside`, `SearchCorrect`, `Logarithmic`, `Terminates`, `Narrows` |
| `dictionary` | 4 keys, 2 values, 4 insertions | 17,610 | `TypeOK`, `Ordered`, `TreeShape`, `KeysListed`, `ImplementsMap` |
| `http_server` | 2 clients, one of them with eleven kinds of messages; 2 functions for 1 uri | 323,253 | `TypeOK`, `IntendedUnderstood`, `ImplementsService`, `Answered` |

Why the bounds are enough: the relay has a piece that fits, one that just does
not and one that arrives while a viewer sends, two threads of each kind so that
every pair competes for the mutex, and a buffer that is full and emptied more
than once. The server has fewer descriptors than clients with files need, so
`accept`, `open` and `opendir` fail, and a stack and a number are used again
with old content; in `server_views` one client can hold both descriptors, its
connection and its file, while the other waits to be accepted. The pool has
more jobs than workers, so jobs wait while signals are lost. Four nodes are a
head, a tail and two inner nodes; a list of six has a search of four turns;
four keys give every shape of tree with up to four nodes. The eleven messages
of `http_server` (`Requests` in `MCHTTPServer`) have each thing the parser
tells apart: one header or none, one without a value, one without a colon, one
twice, a content type with and without a body, a body with a line end, with a
blank line, a form with a field and with none, line ends of two characters, no
version, a uri with a space, which is cut there, and a uri that is not
registered. `Behind` has nothing behind a copy, or something with a colon, so
that a line without one can get one, and so that the uri that is not registered
(or is cut) is read as the one that is. One uri has a function and the others
have none; with one place in the kernel's queue (`Backlog`) it is full when the
second client comes too early. `MaxFields` (2) stands for the memory a form's
endless loop uses up. Deadlock is not checked where a system stops by itself:
when all clients have been served, the process has ended, all jobs are done,
the container is destroyed, the search is over or the HTTP server has ended.
`live_fair`, where viewers poll for ever, checks it. A violation run makes no
claim of the rest.

### Fairness

* `LiveRelay`: weak fairness of every step of a thread, strong fairness of the
  two lock calls. A viewer sleeps 100 ms between unlock and lock, so a thread
  that waits for the mutex finds it free again and again and is granted it.
  Nothing is assumed of `recv` or of a peer that stalls.
* `StreamServer`: weak fairness of `Accept` and of the steps of each thread.
  Threads share no lock there. Nothing is assumed of clients. So `Answered`
  promises an answer to a client once it is accepted, whatever the others do;
  one that is still queued may wait for ever if again and again every
  descriptor is in use for a client that does not read, does not ask, watches
  or uploads (`Keeps`, `Kept`), since `accept` then fails (main.c:188).
* `ThreadPool`: as in `LiveRelay`. No wakeup without a signal is assumed.
* `BinarySearch`: weak fairness of the loop.
* `HTTPServer`: weak fairness of `Launch`, `Accept` and `Handle`, which are one
  thread that nothing but an empty queue or a silent client can stop. Nothing
  is assumed of clients. `Answered` therefore allows that the server waits for
  another client's message for ever, or ends. A `write` that blocks because its
  client does not read is not in the model: its answers are one message, which
  the kernel takes. The memory a form uses up is `MaxFields` pushes.

### Where code and documentation part

Three runs show a violation, each of a sentence of the repository:

* `live_fanout`: every viewer sets `live_size = 0` after its own send
  (main.c:122), so two viewers split the stream between them. readme.md:148
  says "multiple devices can stream simultaneously".
* `server_theft`: the double close (main.c:103 and 164) cuts off the video of a
  client that got the number in between.
* `pool_lost_wakeup`: a job added while all threads are busy is never run
  (ThreadPool.c:68).

Others were met while reading and modelling, and have no run of their own:

* One viewer that stops reading stops every broadcaster and viewer, since
  `send_all` is called under `live_lock` (main.c:118). `Stall` is in
  `LiveRelay`, and `PieceHandled` fails with it; it is stated for peers that read.
* A client that resets its connection ends the process (no `MSG_NOSIGNAL`,
  main.c:19). `Killed` is in both models.
* The header of the live stream is sent 17 bytes too long (main.c:110).
* readme.md:141-147 describes `Range` and 206; no header is read and the
  answer is always 200 from byte 0. readme.md:136 and the frontend ask for
  `/videos/<name>`, the router knows `/video/<name>`. The documented port is
  8080, the code's 8085.
* `ThreadPool`: with the default build (no optimisation) the threads use the
  constructor's dead frame; the mutex may be copied locked (ThreadPool.c:30);
  the destructor's signals wake threads that follow the NULL of an empty queue,
  and a thread can go to wait after them and be joined for ever;
  `DestructorReturns` says that nothing else keeps it.
* `LinkedList`: the destructor frees half of the list (LinkedList.c:58), `sort`
  takes data for a node (184) and never sorts, a pop of an empty list makes `length` negative
  (161; LinkedList.h:43 has it as the number of nodes).
* BinarySearchTree.h:17 puts smaller items on the left (`previous`) and greater
  on the right (`next`), and BinarySearchTree.c:90 says the same of the
  direction of a walk; the code puts smaller ones under `next`. Insertion and
  search agree on it, so nothing is lost by it, and `Ordered` does not say which
  side is which. A search of an empty tree crashes
  (BinarySearchTree.h:40 promises NULL). The dictionary's destructor frees every entry twice.
* include/HTTPServer.h:20 says "launch sequence begins an infinite loop"; it
  ends with the first answer of a route function, since the request that is
  then destroyed frees an entry twice (HTTPServer.c:131). `OneRoutedAnswer`
  proves it. An unknown uri is answered without that, and leaks the request.
* A form is never parsed: the loop over its fields does not ask for the next
  one and pushes the first until memory is used up (HTTPRequest.c:137).
* A request with the line ends of HTTP (CR LF), without headers, without a
  version, with a content type but no body, or cut short by `read` may end the
  process; a blank line or a `|` in the body cuts it. `Intended` lists what
  the parser does understand, and `IntendedUnderstood` is about that alone.
* `request` of `Client.c` does not look at the failure of `connect` (line 40):
  the `send` that follows kills the client.

## 4. Proofs

`LiveRelayProofs` proves for any number of threads, any sizes and any
behaviour of the peers, from `LiveAssumption` alone:

* `TypeCorrect`, `LockExcludes` (`MutualExclusion`), `CopyFits` (`BufferBound`),
  `ChunksAreHonest` (`ChunkHonest`), `SnapshotIsStable` (`StableSnapshot`).

None of the last four is inductive. That a chunk has the length its header
announced needs that `live_size` does not move between header and body, which
needs that nobody writes it without the mutex; that the copy fits needs that
the room the test found is still there, for the same reason. The invariant
`IInv` joins types, mutual exclusion, the room promised to a broadcaster
between its test and its increment, the honesty of finished chunks and, for the
chunk being sent, `SendInv`: how much of it is in the peer's hands at each
label. One lemma per action and conjunct; the theorems follow by
`IInv /\ [Next]_vars => IInv'`.

`DeliversOnceInOrder` (`DeliveredOnceInOrder`) needs `NoByteAssumption` too
(the mark of a byte nothing was copied to is no byte). That no byte goes out
twice is not inductive, because nothing in it says where a byte that is not out
yet may be. `OrderInv` gives an order between three places: what a peer has got
is older than what is in `live_buffer`, and that is older than the piece a
broadcaster still has in its hands (`PieceInv`, `ContentInv`, `ChunkInv`). The
one exception is the chunk being sent, which *is* the front of the content; the
mutex makes it the only one, and the reset ends the exception by emptying the
buffer. `IInv` is used for the former and for the room of a copy.

`RelayIsLossy` (`ImplementsRelay`) puts these together: `Check` that drops a
piece and `Grow` are the `Offer` of `LossyRelay`, the trailer that reaches a
viewer is its `Take`, the reset after a viewer that left is `Lose`, and every
other step leaves taken, pending and got as they are. `RelayInv` adds that a
piece in hand is one `recv` may return, that a viewer sends only what there is,
and that the chunk of a viewer that has come to the reset is the whole content;
that nothing was appended meanwhile is `IInv`.

`BinarySearchProofs` proves for lists of every length over any integers, from
`SearchAssumption`: `TypeCorrect`, `ProbesStayInside` (`StaysInside`),
`AnswerIsRight` (`SearchCorrect`) and `RangeNarrows` (`Narrows`). The invariant
says that the position is in the range, that it is the lower bound only when
nothing else is left in the range, and that on a sorted list what is outside
the range is too small or too large. The lower bound may itself be a position
that is known to be too small; that is why the loop has to stop at a position
that does not move, and why one more turn than usual may be needed.
`TurnsAreFew` (`Logarithmic`) is from `CostInv`: the turns made so far, as a
power of two, times what is left of the range is no more than the length.

`StreamServerProofs` proves for any number of clients, stacks and descriptors,
from `ServerAssumption`: `TypeCorrect`, `NothingLeaks` (`NoLeak`) and, for
requests without an upload, `DescriptorsAreOwn` (`OwnDescriptors`) and
`ServesEachAlone` (`ImplementsService`).
`NoLeak` is inductive with the types; every step either keeps what its thread
holds or closes what it lets go. `OwnDescriptors` is not: that a `close` takes
nobody else's descriptor needs that two threads never serve one client, hence
that a client is in the queue once and not while it is served (`Alone`), and
that no thread is in `handle_broadcast`, hence that no path left on a stack is
`/broadcast` (`NoUploads`). `server_theft` shows that it fails with uploads.
From there, a thread's messages reach its own client or nobody (`Sends`), so
that every thread can be looked at alone (`ThreadKeeps`). `ServiceInv` says how
much of its answer the client has at each label, in terms of the position in
the file, that the path on the stack is what the client asked for or that the
client never will ask, and that nobody is told anything before its request is
read. A send is then the `Give` of `AnswerService`, the last step its `Close`.

`ThreadPoolProofs` proves for any number of threads, callers and jobs, from
`PoolAssumption`: `TypeCorrect` and `ConservesJobs` (`JobsConserved`), for both
builds, and `NoNullPeek` (`WokenHaveWork`). `Mutex` says who holds which mutex
where; `Conserved` that a thread about to pop finds a job, and that a pool
whose threads use the dead frame has moved nothing; `Signalled` that jobs in
the queue are at least as many as threads that were woken and signals about to
be sent.

`HTTPServerProofs` proves for any clients, messages and bytes behind a copy,
from `HTTPServerAssumption`: `TypeCorrect`, `PlacesHold` (nobody waits twice,
or waits and is served or has been), `AnsweredOnce` (an answer is never
replaced) and `OneRoutedAnswer` (there is at most one answer of a route
function). `AnsweredOnce` needs `Places`: the client that is written to has no
answer because it left the queue when it was taken. `TypeCorrect` covers the
strings of the parsed request. That a string the code goes on with is there at
all depends on what was cut before it, from whatever part of a message `read`
brought: `StringInv` has, besides `StringTypes`, that at each label the parts
and lines the next step uses were found, and `Tabled` that the tables map
strings to strings; what `strtok` and the cuts make of any string is shown in
general (`StrtokParts`, `SplitStrings`, `LineStrings`, `KeyValueStrings`).

`ServerIsSequential` (`ImplementsService`) is for all messages. A uri is read
with what lies behind its copy, so the service may answer by the function of
any such reading (`Readings`), a registered uri that was not sent included. A
message without a method or a uri, or with a space or line end in one of them,
is `Garbled`: where its uri is cut depends on what is missing, and the service
may answer it by any registered function. For the others it is needed that the
uri is cut right from every part of the message that a `read` may bring, as
long as the parser gets that far (`UriIsCut`).

`IntendedIsUnderstood` (`IntendedUnderstood`) needs no more than
`HTTPServerAssumption`: the messages may be of any number and length, and only
those that are `Intended` and arrive whole are spoken of. Its invariant
`ReadInv` has two parts. `Arrival` says that what is in `request` came from the
client that is served; `Reading` says, at each label, how far a message that
arrived whole has been taken apart: `parts` are those of its text, then the
request line is its request line, then the headers not yet read are the last of
its header lines and what is in the table was read from one of the others
(`HeadersRead`), then the body is what the code makes of it. One lemma per step
takes it on. What they rest on is what the parser does to a text of any length:

* `StrtokFirst` and `StrtokLast`: where `strtok` cuts a string;
* `MarkedOnce` and `MarkedNever`: the first loop of the parser marks the one
  blank line between headers and body and no other line end, which is why a
  body must not have blank lines, and why without a body the fields end in two
  line ends (`SplitIs`, `SplitSent`);
* `LinesAre`: in a text that has lines one after the other (`LinesAt`), `strtok`
  finds these lines and in their order. That a flattened sequence of headers is
  such a text is by induction over the headers (`FlattenedAt`, `HeadersSent`);
* `KeyIsCut`, `HeaderValued` and `HeaderBare`: a header line, and whatever bytes
  lie behind the copy of it, is cut at its first colon, so that a key is exact
  and a value begins with the one that was sent. What the code
  finds under Content-Type was sent under it (`ContentTypeSent`), so that the
  body is copied and not taken for a form.

`LinkedListProofs` proves for any finite heap and any lengths, from `ListAssumption`:
`TypeCorrect`, `NothingLeaks` (`NoLeakNoDangling`), `LengthIsCount`
(`LengthCounts`), `WorksAtIndex` (`AtIndex`), `FirstInFirstOut`
(`QueueDiscipline`) and `ListIsSequence` (`ImplementsSequence`). All come from
`ListInv`: there is a sequence of nodes, none twice, that starts at `head` and
is linked by `next` (`Chained`), it is what is allocated and, until a call has
an index the list does not have, `length` counts it (`Counted`). Each operation
is shown to walk that sequence and to insert into it or remove from it.

`DictionaryProofs` proves for any keys, values and insertions, from
`DictionaryAssumption`: `TypeCorrect`, `StaysOrdered` (`Ordered`), `KeepsShape`
(`TreeShape`), `ListsKeys` (`KeysListed`) and `DictionaryIsMap`
(`ImplementsMap`). The invariant `TreeInv` says that links lead to nodes that
were made later, that nothing hangs from two links, that everything is under
the root, that the tree is ordered and that no key is in it twice. That a
search ends at the one link where a key may be is by induction on the way down;
what is under a link after an insertion is what was, and the new node if the
way led over it. Which side is smaller is decided in `iterate_bst`; the proof
shows `Ordered` for that side. `KeysListed`, which is about the first
occurrences in the list, since a key inserted again is listed again, needs
besides that list and tree have the same keys (`SameKeys`).

`NaturalInduction` has what these need and the library's theorems cannot give,
since those take operators as parameters: induction over a set of numbers,
the existence of a function defined by recursion, and iteration.

Every safety property of a passing run is a theorem, the five refinements
included. All liveness is out of the prover's reach and only model-checked
(`PieceHandled`, `Drained`, both `Answered`, `AddReturns`, `DestructorReturns`,
`Terminates`), and so
are, by their nature, the three violations.

## 5. What is not modelled

* In `StreamServer`: the text of requests and answers, the lengths of the
  buffers of `handle_client` and `list_videos`, and how the kernel cuts a
  byte stream into reads; a request arrives whole and alone. (`HTTPServer` has
  partial reads.)
* `malloc` and `pthread_create` that fail, and the failure of `socket`, `bind`
  and `listen` in `main`.
* The key and value blocks that `insert_dict` leaks for a key it has and
  `search_dict` leaks every time; the tree's own destructor, which nothing calls.
* `compare` functions that answer anything but 1, 0 and -1.
* In `HTTPServer`: the list of methods of a route, which nothing reads,
  `register_routes_server`, which nothing calls, what a route function does
  with the request, and a word that is cut by a partial read: a `read` ends
  between words; a `write` that blocks; and the byte that the parser's
  `strcpy` writes past each of its arrays (HTTPRequest.c:26, 64, 87), which are
  as long as the string without its terminator: the copies are exact strings
  here. A second `request` on one socket (backend/tests/test.c's peers make
  one) is left out of the clients.
* `PeerToPeer.c`: a thread and a list that two functions of the caller use
  without a lock; what they do is not in the library, and backend/tests/test.c is the
  only example.
* `Files.c`, pure I/O, and the frontend, a mock-up over constant data.

## 6. Plan

Done, in this order: `LiveRelay` with its proofs, `StreamServer`, `ThreadPool`,
`LinkedList`, `BinarySearch` with its proofs, `Dictionary`; then `HTTPRequest`
and `HTTPServer` with their proofs, and the proofs of `ThreadPool`,
`StreamServer` and of the order of `LiveRelay`; then `NaturalInduction`, the
proofs of `LinkedList` and `Dictionary`, the bound of the search and the
refinements of all five abstract specifications as theorems; and the parser of
`HTTPRequest` for messages of every length.

Left:

1. The blocks `Dictionary` leaks, and the tree's own destructor.
2. `PeerToPeer`, with the two functions of backend/tests/test.c in the caller's place.

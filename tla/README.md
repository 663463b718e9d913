# Verification of otad, the over-the-air update daemon

TLA+ modules for the daemon in `src/daemon` and for `src/librecovery`: what the daemon's threads do to
each other, what it leaves on the disk and in the misc partition, what the recovery system finds there, what goes over its
connections, and the JSON library and the digest it relies on. TLC checks the modules on small instances;
TLAPS proves the most important invariants for every value of the constants.

## The system

The daemon runs three threads and, during a download, a fourth:

- **main** (`main.cpp` 74-136) looks at the markers of the last recovery run, queues the start-up
  messages, removes an installed package, starts the other two threads and sleeps for ever;
- the **socket server** (196-304) accepts one client at a time, "home", waits for its handshake,
  and sends it what is in the message queue;
- the **checker** (306-377) asks the update server once a minute, sets up a download task, has it
  downloaded, compares the md5, arms the recovery system and tells home;
- the **worker** (`Downloader.cpp` 50-120) asks for the size, downloads, retries, and ends.

| component | state | operations | talks to |
|---|---|---|---|
| `MutexQueue` | inner deque, mutex, two conditions | Push, Pop, Front, Size | every thread |
| socket server | homeFd, `first` | accept, handshake, drain, send | queue, home (socket) |
| main | none of its own | start-up messages, clean-up, thread creation | markers, queue, disk |
| checker | the answer, the task, the downloader at hand | check, create or resume a task, judge, arm, disarm, notify | worker, disk, misc, queue |
| downloader and worker | m_TaskInfo, m_Callback, m_ThreadId, m_bResult, retry counter | Run, size request, transfer, progress, Clean | HTTP server, disk, checker |
| download task | url, size, md5, progress; `task_info.txt` | Backup, LoadFromJsonFile | disk |
| boot message | a page of the misc partition | write, clear | bootloader and recovery system |
| mtdutils | partition table, read and write contexts | scan, find, read, write, close | flash device |
| md5 | state, bit count, buffer of a block | update, digest, reset | checker |
| messages to home | a text | JoinElements | queue, home |
| update check | the answer, the objects of a round | request, load, judge | update server, JSON |
| process monitor | none | look for a process | worker's progress callback |
| file, string helpers, device information | none that outlives a call | conversions | |
| librecovery | the command file, `last_install` | installFotaUpdate, factoryReset, status | recovery system; unused by the daemon in operation |
| JSON library (jsoncpp, vendored and compiled in) | a tree of values, the reader's stacks, comments | parse, write, array and object operations, iterators, paths | requests, answers, `task_info.txt`, the handshake |
| curl headers | vendored | | |

What makes the code hard to test:

- the queue is shared by three threads, its `Size` is read without the mutex, its signals are not
  where one expects them, and its consumer is also a producer;
- home may connect, leave and reconnect between any two steps of the server;
- checker and worker share the downloader, the task and the files, and are kept apart by a join
  that the checker may skip;
- the package, `task_info.txt`, the boot message and the marker are four persistent things that are
  never written together; a kill or a loss of power falls between any two of them;
- what a URL serves may change between the offer, the size request and the transfers, and a retry
  appends to what is there;
- failures of the misc partition are not reported to the caller, and it is written block by block;
- an answer comes in pieces of any size and may be cut, and a connection breaks at any byte;
- the JSON reader goes on after an error, keeps pointers into the value it builds, and attaches comments by
  where lines end; values share or own their texts; arrays are maps with holes.

What makes each component correct:

- *queue*: first in first out; never beyond the capacity; no sleeper forgotten;
- *server*: home is handed every notice once and in order; a racy `Size` never stalls the server;
  a connected home is served;
- *checker and worker*: no file or object is taken away from a worker that still uses it; every
  round ends;
- *disk and boot message*: the recovery system is armed only with a whole package, finds it even
  after a loss of power, and does not install it twice; home is told the truth; whatever a crash
  leaves, a later round repairs it;
- *misc partition*: whatever fails and wherever power is lost, a call of `set_bootloader_message_mtd` leaves the old message, the
  new one, or says that it failed, and the other pages are what they were;
- *messages*: home can cut the stream into whole messages, in order, none twice;
- *update check*: an offer is what the server sent, whole; a round frees what it made (one way through it does not);
- *md5*: the digest depends on the bytes alone, not on the pieces they come in;
- *librecovery*: recovery runs the latest command or none; the status is what the file says;
- *JSON*: what is written is read back; what is no JSON is refused, and no error is forgotten; an array is a list;
  every text is freed once, by its owner; comparison is an order; conversions say when they do not fit.

## The modules

| module | models |
|---|---|
| `MutexQueue` | `include/MutexQueue.h`: the steps of Push, Pop, Front and Size, for any callers |
| `QueueClients` | any producers and one consumer on a `MutexQueue` |
| `HomeServer` | main's messages, the socket server, home, and the checker as a producer, on a `MutexQueue` |
| `Outbox` | what queue and server promise together: a bounded outbox |
| `OtaUpdate` | checker, worker, files, boot message, markers, the recovery system, crashes |
| `HomeStream` | the stream to home: handshake, messages with their lengths, breaking connections |
| `UpdateCheck` | a round of the checker: the answer in pieces, the offer, the objects of the round |
| `BootCell`, `MiscPartition` | the boot message set in one step, and block by block through `mtdutils.c` |
| `MtdScan` | the table of partitions |
| `Md5` | the class MD5 around its compression function |
| `ProcessMonitor` | the progress callback and `CheckCertainProcessAlive` |
| `LibRecovery`, `RecoveryText` | librecovery: the command file and the restart; its two texts |
| `StringHelpers` | `utils.cpp`, the reading loops of `fs_utils.cpp` and `md5.cpp` |
| `JsonReader`, `JsonText` | the reader above its tokens; tokens, strings and numbers |
| `JsonWriter` | the three writers |
| `JsonArray`, `JsonValue` | the list that `value.h` promises, and the map that implements it |
| `JsonIterator`, `JsonOrder`, `JsonOwnership`, `JsonPath` | iterators; order and conversions; who owns what; paths |
| `JsonDocs` | the documents for the reader: whole, broken, commented, written |
| `Device` | the composition of `MiscPartition`, `MtdScan`, `Md5` and the texts of files |
| `Daemon` | the composition of `HomeStream`, `UpdateCheck`, `ProcessMonitor` and `LibRecovery` |
| `JsonValues` | the composition of `JsonValue`, `JsonIterator`, `JsonOrder` and `JsonOwnership` |
| `MCQueue`, `MCHome`, `MCOta`, `MCDevice`, `MCDaemon` | values for TLC |
| `MCJson` | `JsonValues` with the reader, the tokens and the paths, for TLC |
| `MCJsonText`, `MCPath`, `MCOrder` | texts, paths and values for `MCJson`, and what is asked of them |
| `MutexQueueProofs`, `QueueClientsProofs`, `HomeServerProofs`, `OtaUpdateProofs` | theorems about the queue, the server and the update |
| `DaemonProofs`, `DeviceProofs`, `MiscProofs`, `JsonValueProofs` | theorems about the parts of `Daemon`, `Device` (the misc partition in `MiscProofs`) and `JsonValues` |

**MutexQueue.** A call is `call[t]`, the place of thread t in it. Taking the mutex, testing the size
and going to sleep is one step, since nothing can come between them; so is the end of a critical
section with its signal. Only the insertion stays apart from the test before it, because `Size`
looks at the deque without the mutex and can meet it half changed (`SizePositive`). The waits may
return an error (61-65, 92-96) or wake without a signal. The constructor leaves the mutex as the heap
block was: `InitialLocks` says what that may be. A Pop of an empty queue keeps the mutex (77-79).

**HomeServer.** `server` is the place of the server thread: setup, select, recv (the handshake),
drain (the test of the inner loop, 281) and send (from Front to Pop). `home` is homeFd and whether
the peer is still there. `HomeLeaves` may come at any time. A send to a peer that has gone may still
succeed, may fail (the message stays in the queue), or may end the process by SIGPIPE. `accepted` and
`sent` are history variables. `Outstanding` maps the queue to the outbox: between the send and the
end of its Pop the head counts as delivered.

**OtaUpdate.** `ck` is the checker (and main before it), `wk` the worker; one value per point at which
a crash or the other thread can tell the difference. Content is what md5 tells apart: the first
`len` units of a version, or `Junk`; appending the wrong piece makes `Junk`. `task_info.txt` is a
task, absent, or `Torn` while it is rewritten. `CreateReady`, `CreateResume` and `CreateNew` are the
outcomes of `createDownloadTask`, with the precedence the code gives to the local file over the
offer. `fs_CleanDir` removes one file per step, in any order. `SetBootMessage` is
`set_bootloader_message_mtd`: it takes effect, or nothing happens and nobody is told; `faults` remembers it.
`Kill` ends the process and keeps the files. `Reboot` is a loss of power: unless
synced, each file is whole, shortened, spoilt or gone; then the recovery system installs the package
that the boot message names if it is whole, sets the marker and clears the message. `Settle` is
the point from which nothing goes wrong any more.

**HomeStream.** The server of `HomeServer` sends messages as values; here they are texts, one character per
token, with the length that `JoinElements` counts. `send` takes all of a text, or a part when the connection breaks
meanwhile, or fails; then the message is popped or stays (289-296). Home is external: it reads one character after the other
(`Arrive`) and takes what it has read for a message when that is as long as its length says (`IsFrame`).

**UpdateCheck.** `HandOver` is one call of `saveToBuffer`: libcurl gives a piece and its length, and `append` looks
for a zero; `BehindPiece` is what may follow a piece in libcurl's buffer, and `overrun` remembers that `append` took some of it, at most once in a transfer. `TransferEnds` takes the result and the response
code as the code does: they are logged. `heap` holds the objects of the rounds.

**MiscPartition.** A unit is the room of one boot message; `pc` goes through the accesses of `set_bootloader_message_mtd`, `read_block`,
`write_block` and `mtd_write_close`, each of which may fail, and `PowerLoss` may come between any two. `misread` remembers that the call
could not read a good block of raw flash: `mtd_read_data` then goes on with the next one.
The preprocessor takes the branch named `rockchip` whenever `TARGET_BOARD_PLATFORM` is not a number, since both names are
then 0; `Rockchip` chooses the branch, and the other one is modelled with its verification, retries and bad blocks.
`BootCell` is the one-step `SetBootMessage` of `OtaUpdate`, with a torn message as the possible result of a loss of power.

**Md5, MtdScan, LibRecovery, ProcessMonitor.** One action per call or per access that can fail; the compression function is
uninterpreted. `LibRecovery` has the steps of `execRecoveryCommand` with a kill between any two, and the loop of `safeRead`.

**RecoveryText, StringHelpers.** Pure functions as operators. The state is a text that grows by one character, so that the runs meet every text up to a length;
what lies behind the text that was read is a choice. The buffer for `last_install` has its size (`BufferSize`): a terminator behind it (`Overruns`)
makes the result `Undefined`.

**JSON.** `JsonReader` turns the recursion of the reader into a stack of frames and names a value by its path from the root, which is what the pointers in
`nodes_` and `lastValue_` stand for. `JsonText` reads characters, and reads back what `valueToQuotedString` and the number writers put down.
`JsonWriter` gives the items that each writer puts out for a tree with comments, and `JsonDocs` has them read again by
`JsonReader`. In `JsonValue` an index is an unsigned word that is stored as a signed one (`Half` is 2^31 in the code, 8 in the runs).
`Shrink` is the truncation of `resize` with its assertion, which may be compiled or not.
`JsonOwnership` runs each operation with its temporaries on a heap of texts; `RefuseComment` is the `setComment` that throws when the old comment is
already freed, and `dangled` remembers that there was one.

**The compositions.** Each of the smaller components is a module of its own with its specification, and an instance
of it in `Device`, `Daemon`, `JsonValues` or `MCJson` is what is checked and proved. These components share no state in the code. In a composition the variable `part` chooses
the component a behaviour is about; the variables of the others keep an initial value. A property of a composition is a
conjunction of `part = ... => ...`, with the component's own properties. So every component is checked by itself, over all
of its initial states, and the states of a composition are the sum of the parts, not the product.

Definitions marked *Slip* are not part of the models. Each is a plausible mistake in the code, and
stands beside the definition it would replace; with the mistake in its place TLC finds a named
property violated.

### Abstractions

- One package at a time: the fota directory holds one package and `task_info.txt`. The code never
  keeps two, since each new task starts with an empty directory.
- The name of a package depends on its URL only (`NameOf`), as in `u_trimUrlGetName`.
- Two versions with different content have different md5 sums, and a size is what the server says.
- A loss of power does not undo a removal, and in `OtaUpdate` the misc partition is written at once and for good;
  `MiscPartition` shows what is behind that, `BootCellSpec`.
- Progress calls of curl come at any time during a transfer, or never.
- Sleeps are left out: a delay only picks one of the orders TLC explores anyway.
- A check without an offer (no network, no update) changes nothing on the disk and is left out of `OtaUpdate`, whose offers are
  what the server sent; `UpdateCheck` shows when that is so.
- In the JSON modules a character stands for its class, a number for its place relative to the limits of its type.

## The runs

| run | asks | instance | states |
|---|---|---|---|
| `queue` | order, bound and wake-ups of the queue | 2 producers, 1 consumer, 2 messages, capacity 2, 4 accepted, failing waits, both initial mutex values | 18,900 |
| `queue_signal` | does a Pop wake a sleeping Push (`MutexQueue.h` 28)? **violated** | the same, without failing waits | |
| `home` | `InOrder`, `OutboxSpec`, the racy `Size`, who may sleep where, the status after reconnects; is everything sent, does a blocked checker go on | capacity 3, 6 accepted, 3 connections | 43,000 |
| `home_status` | is the status queued at every start (`main.cpp` 76)? **violated** | capacity 2 | |
| `ota` | what is armed, who touches what, what home is told | 2 URLs, 2 versions of 2 units and 1, 1 retry, all events | 3.27 million |
| `ota_power` | does recovery find what the boot message names | 1 URL, 3 versions, two of the same size, all events but kill and a failing thread creation | 1.46 million |
| `ota_live` | does every round end, is every state that failures leave repaired | 1 URL, 2 versions, kills, losses of power, new content, network failures | 137,000 |
| `ota_offer` | is what is downloaded what was offered? **violated** | 2 URLs, 3 versions, no events | |
| `ota_finished` | does a finished download count as a success? **violated** | 1 URL, 2 versions | |
| `device` | the misc partition, the table of partitions, MD5, the texts of files | see below | 249,000 |
| `daemon` | the stream to home, the request of a round, the pause for a cast application, librecovery | see below | 100,000 |
| `json` | reader, writers, tokens, paths, values | see below | 300,000 |

`device`, `daemon` and `json` run the compositions. What each asks of its parts:

| run | part | asks | instance |
|---|---|---|---|
| `device` | rockchip | `SetOrSaid`, `PagesKept`: the boot message is old or new, or the call failed, and the other pages are kept; `BootCellSpec` | 14 units in blocks of 2 and pages of 4, 2 faults, 2 calls |
| | raw flash | `SetOrSaid`, `WriteStartIsFirstGood`: the same in the other branch, but for blocks given up or not readable, and the start of writing after skipped blocks | 8 units in blocks of 2, a bad block, 4 faults, 2 calls |
| | scan | `FoundIsSeen`: a search answers for the last scan | 3 slots, 3 device numbers, lines cut at 2 |
| | hash | `NothingLost`, `DigestIsRight`: bytes and digest do not depend on the pieces, nor on digests taken in between | blocks of 4 bytes, words of 16 values, 5 pieces up to 9 bytes |
| | result | `WholeFileRead`: a whole `last_install` is read for what it says, but for the one that fills the buffer | texts up to and with that one |
| | strings | names in URLs, trimming, splitting, values of /proc files, `fs_ReadFile` | texts up to 6 characters |
| `daemon` | stream | `FramesAreMessages`, `InOrderOnce`, `Arrives` | 2 messages, 2 connections that break anywhere, the handshake in 2 pieces |
| | check | `OfferIsAnswer`, `CutIsHarmless`, `OnlyResultsLeak`, `RequestReturns` | 3 rounds, 2 md5s, any pieces and cuts |
| | monitor | `SlowsForCast` | 2 processes, 3 progress calls |
| | recovery | `RunsTheLatest`, `StatusReturns` | 3 calls, calls that fail, kills, interrupted reads |
| `json` | read | errors reported, pointers live, what is accepted, comments once and where their lines say, what is written read back | every text of `Values` with one token wrong; up to two comments; the output of three writers |
| | text | tokens tile the text; strings, code points, integers and doubles read back | words of 6 bits; broken texts up to 6 characters |
| | path | the steps of a text; make, then resolve; the end of every text without a zero | texts up to 5 characters, some with a zero, 7 values |
| | container | `ImplementsArray`, which allows a resize behind a hole to abort or to leave less; `SizeIsHighest` | indices to 3, words of 16 values |
| | loop | `VisitsAll`, `CountsDown` | 5 keys |
| | order | `TotalOrder`, `ConvertsAsPromised`, `ThrowsOutOfRange` | words of 4 bits, nested containers, NaN |
| | owner | `FreedOnce`, `OneOwner`, `ReadsLive`, until a comment is refused where there was one | 2 values, 4 operations |

Why these bounds are enough. The queue's code compares the size with zero and with the capacity only;
capacity 2 or 3 (1024 in the code) has a full, an empty and a half-full queue, and 4 to 6 messages
fill it more than once. Two producers are needed for one to insert while the other sleeps. Three
connections give a first, a replaced and a failed one. One retry (10 in the code) has both outcomes
of the test of the counter; sizes 1 and 2 have an empty, a partial and a complete file, and with
equal sizes a replacement that the size request cannot notice. `MaxLength` 3 is one more than
any version: a file that would grow beyond stays there, and it is not whole at either length.
The theorems below hold without these bounds.

Two messages to home have one behind another in the stream, and two connections one that breaks and one that follows.
Lengths there have two digits, as in the code's messages three, so that a length is not the single
character that any count would give. In the request the pieces and the cut fall at every place of the answer; three rounds show
what earlier rounds leave. The misc partition has more blocks than the pages that are read, and one that ends inside
a page; two faults are a fault and one in what the code does about it, and in raw flash four exhaust the attempts of a block. MD5 has pieces that leave, fill and pass a block and
a total that passes a word of the bit count. The words of the JSON parts are small, so that every value, and
every value past a limit, occurs; the code's comparisons depend on the limits alone. The reader starts from
every document within the bound, with any token replaced, which reaches the recovery from errors at every depth that the documents have;
two comments are one that can replace another.

`CHECK_DEADLOCK FALSE` stands where the system really stops: the daemon may end, the queue may be
locked for ever, a device may have nothing left to do, a text is read to its end.

### What the violated runs show

- `queue_signal`: Pop makes room and signals nobody; `SleepsNearCapacity` and `CheckerResumes` show
  how far this goes: the sleeper has at most one free place beside it, and the next Front wakes it.
- `home_status`: after a successful upgrade the start-up queues the result and no status.
- `ota_offer`: `isNew` is overwritten (469), and a complete older package is armed before it is looked
  at (473-480).
- `ota_finished`: `DownloadFile` returns true at 202 without `m_bResult`, so that a package which was received
  completely is deleted.

### What the code does not keep

Besides the four violated runs, these are the places where the code does not do what its documentation, its assertions or the use of it suggest. The models
have what the code does there, and a property that is concerned says in its comment where it stops.

- *Queue*: a Push whose wait fails drops its message (and leaks it) without a word to the caller (`MutexQueue.h` 61-65). The order and the statuses are
  claimed of accepted messages.
- *Round of the checker*: an offer without a task leaks its `RequireResult` (`main.cpp` 325). `OnlyResultsLeak` says that nothing else is leaked.
- *Raw flash*, the branch that is not built: a block that is given up is unknown to the next reader (`mtdutils.c` 509-512), so that a call that gave one
  up may report success without a message where the reader looks; a good block that cannot be read is stepped over (325-347), and the pages behind it are
  written back in its place. `SetOrSaid` exempts the first from all and the second from what it says of the other pages.
- *Table of partitions*: of a `/proc/mtd` longer than the 2047 bytes that are read (`mtdutils.c` 111) the last line is cut and ignored. `MtdScan` reads as much as the
  code does, and so does the history in `FoundIsSeen`, which claims nothing of the partitions behind.
- *librecovery, texts*: a `last_install` that fills the buffer gets its terminator one place behind it (246). `WholeFileRead` exempts that file.
- *librecovery, loop*: `safeRead` goes on for as long as errno is EINTR, which a read that merely ends does not change (79-81). `StatusReturns` speaks of calls with
  another errno.
- *JSON, comments*: `setComment` frees the old comment before it refuses the new one (`json_value.cpp` 154-157), which leaves a pointer to freed memory that the next comment
  or the destructor frees again. Owner properties hold until then.
- *JSON, resize*: a truncation that ends behind a hole fails `assert( size() == newSize )` (968), or without assertions leaves a shorter array. The
  list of `JsonArray` has a step for it, `ResizeToNull`.
- *JSON, paths*: `strchr( "[.", c )` finds the zero that ends its text (1596), so that a path with a zero in it is never read to its end. `AllEnd`
  exempts it. The test of `isValidIndex` in `resolve` with a default (1675) is the wrong way round: the model has it, and the property about made paths takes names.
- *JSON, conversions*: `isConvertibleTo` allows a number to be a string, which `asString` makes empty (696), and a uint of `maxInt` to be an int, which `asInt`
  refuses (727). A NaN is neither less than nor equal to any real (577, 645), itself included; no text makes one.
- *JSON, numbers*, not modelled: `decodeDouble` puts the terminator of a number of exactly 32 characters behind its buffer of 32 (`json_reader.cpp` 628-632).

And these, of less weight:

- *Request*: `append(data)` takes the text up to a zero (`HttpClient.cpp` 85), while libcurl gives a length and no zero
  (`curl.h`, at `curl_write_callback`). `OfferIsAnswer` holds while no piece was followed by anything. The time limit is one for connecting only.
- *Handshake*: one `recv` reads it (`main.cpp` 173), so a handshake in two pieces is refused.
- *MD5*: `final` calls `update`, which sets `_finished` back to false, so that each `digest` is computed again; state and count are restored
  for that, the buffer is not. Where the padding takes a second block, a second `digest` or further bytes meet the bytes of the padding.
  The daemon asks for the digest once.
  `NothingLost` and `DigestIsRight` hold as long as no digest since the last reset had its padding in a second block (`spoilt`).
- *Process monitor*: a process that goes between the list and `kill` is reported as alive, and costs a progress call a second.
- *librecovery*: `fclose` is not looked at, so that a full disk leaves an empty command; the terminator of a read text is put at `read + 1`;
  a path that only begins like the external storage is converted; the converted path may not fit its buffer.
- *JSON reader*: `badTokenType` joins two inequalities with `&&`, so that an array accepts any separator; a null root passes the test for a
  container; `allowComments_` does not stop comments inside containers; a comment can be replaced by the next one; a `-` alone is the number 0.
- *JSON writers*: arrays on one line lose the comments of their elements; a comment before a value is read back at the value before it when
  it stands on that value's line.
- *JSON values*: `resize` asserts that the last element exists; `get` gives the default for an element that is null; indices from 2^31 on
  sort before the others; an iterator that is assigned stays one of no value; `asInt` refuses an unsigned `maxInt`; in a path the bracket behind `[%` is taken for a name, since the `%` is not skipped. The daemon's own documents, objects of strings and numbers, meet none of them.

### Conditions inside the properties

`ArmedIsIntact`, `NoticeIsTrue`, `NoReinstall` and `RecoveryFindsPackage` except the cases in which
the misc partition could not be written, the thread not be created, or the daemon went down between
the removal of the marker and the end of the clean-up. The code does not report these, and `faults` records exactly them.
`RecoveryFindsPackage` is checked without kills: a package found complete after a restart of the process is
armed without a sync of its own.

### Fairness

`home` (`EverythingSent`, `CheckerResumes`): weak fairness for each step a thread can take by itself, as the scheduler runs runnable
threads and the mutex is not held across waits. No fairness for home, for spurious wake-ups or
for the handshake: `recv` has no timeout, so the properties speak of times at which home is connected
and the server not in `recv` (`Serving`).

`ota_live` (`RoundEnds`, `ArmedInTheEnd`): weak fairness for checker and worker, and strong fairness for the steps of
a transfer, which progress calls interrupt: a transfer goes on, ends or breaks. This is an assumption about
the network; the code sets a limit to the connection only. `ArmedInTheEnd` also assumes that from some time on nothing fails
(`Settle`), and that the server then keeps offering what the device does not run, which is the checker's loop.

`daemon` (`GoesOn`): the server thread and the connection go on, and `Arrives` speaks of a connection that does not break; the
update server goes on sending, so `RequestReturns` says of the code that it needs no more than that; the caller of
`safeRead` goes on. Home, processes and the callers of librecovery may stop at any time.

`json` (`AllEnd`): a call that has begun goes on. The input of the reader, the path parser and the loop is finite, so this is
what a single thread does.

## The theorems

Proved for any threads, messages, capacity, URLs, versions, sizes, retries, calls, partitions, words and indices, from the assumptions on the constants
that the modules name and TLC evaluates in every run (`QueueAssumption`, `ClientsAssumption`, `HomeAssumption`, `OtaAssumption`,
`NoTaskAssumption`, `DaemonAssumption`, `DeviceAssumption`, `ValuesAssumption`). Where a theorem has a hypothesis of its own, it is named below.

- **QueueClientsProofs**: `QueueTypeOK`, `Fifo`, `WithinCapacity`, `NoForgottenConsumer`. The invariant adds that a thread
  about to insert holds the mutex and has room (`InsertIsSafe`), so that no Pop or second insertion comes between test and insertion,
  and that only the consumer sleeps in Front, so that the signal of a Push reaches it.
- **HomeServerProofs**: `TypeOK`, `InOrder`, `ServerNeverMisled`, and the refinement of `Outbox`. `InOrder` is
  not inductive: that the message sent is the head of the queue (`ServerFinds`) needs that nobody but the server
  takes from it (`OneConsumer`), and that a `Size` which is wrong is wrong only while an insertion is under way,
  for which Front then waits at the mutex.
  `SleepsNearCapacity`, `ServerSleepsOnlyOnFull` and `StuckForGood` rest on `Sleeping`: main is through with the queue before
  anybody else calls it, so it never sleeps (`StartUp`); a checker that still sleeps when the server is about to pop has been woken
  by the Front before, and has found the queue full again (`Woken`).
  `StatusPerReconnect` counts: the handshakes after the first, and the statuses accepted with the one under way (`Greetings`). It holds
  where no wait fails (`~WaitErrors`, the hypothesis); when one does, Push drops the status and says nothing (`MutexQueue.h` 61-65).
- **OtaUpdateProofs**: `TypeOK`, `ResultIsFinal`, `ArmedIsIntact`. `ArmedIsIntact` is not inductive, because of what a later round
  could do to an armed package: resume it. So the invariant says of an armed package that
  `task_info.txt`, if it names it, has its size (`Whole`), which makes the next round find it complete. That in turn
  follows at the end of a download from three facts: the task on disk is the task at hand but for the progress (`InfoIsTask`);
  what has come in since the request continues the file or spoils it (`FileFollows`), so that a file which is not
  spoilt has the length the task says; and `m_bResult` is set by nothing but a transfer that came to its end
  (`EarlyResult`). `Disarmed` lists the places in the round at which files are removed or written, where no boot message stands.
  On top of that invariant: `NoticeIsTrue`, with what home has been told at each step of a round (`NoticeOfRound`);
  `NoReinstall`, because offer, task and the task on disk are of versions the device does not run (`Unlike`), and what is armed is
  the task's package (`ArmsTask`); `RecoveryFindsPackage`, because the data of an armed package has been synced (`Synced`). The last has the
  hypothesis that the process is never killed (`"kill" \notin Events`), and needs it: a package that is found complete after a restart is
  armed without a sync of its own (`createDownloadTask`), while what the killed process wrote may not be on the disk yet.
- **DaemonProofs**: `RunsTheLatest`, since fopen empties the file before a line can be cut (`CommandOnItsWay`); `SlowsForCast`, from
  what the callback knows of the processes at each of its steps (`AskedRightly`); `CheckIsRight`, from the answer as far as it has come
  (`AnswerInHand`) and the objects that are live at each place of a round, with what earlier rounds leaked (`LiveAt`, `ObjectsOfRound`).
  `FramesAreMessages` and `InOrderOnce` rest on one fact about the texts: home, which knows no message, takes what it has read for one exactly when
  it has read all of what `send` was given (`FrameFacts`). It holds because a body has fewer than 100 characters and begins with a brace (`BodyShort`), so that the digits
  before the first colon are the length and no shorter beginning satisfies it (`NumberFacts`, `ReadsToTheEnd`). `StreamInv` then says what is on the way: what home
  has read since the last message and the rest of the first text together are the text of the next message (`TextsOnTheWay`), and only the last text may be cut, by the break;
  what earlier connections gave lies below `base` (`CutBefore`), so a new connection continues the order (`CutJoined`).
- **DeviceProofs**: `FoundIsSeen`, since a scan clears the table first (`ScanInv`). `DigestIsRight`, for any size of block
  and word, any pieces, and digests and resets anywhere between them. What was compressed and what waits are the message, and `_count` is its length in
  bits, in two words (`HashInv`, `Counted`): the carry of `_count[0]` is right for any sum of pieces (`Carry`), and because a word counts whole
  blocks (`Md5Assumption`; 2^32 is a multiple of 512) the low word alone says where the next byte goes (`IndexIs`). `UpdateTakes` gives what one call of `update`
  leaves, in the three ways it has through the code, and is used three times by the digest: for the message, the padding and the length. The padding of the code, chosen
  by a comparison with 56, is the number of zeros that the RFC defines by a congruence (`ZerosAre`, `OneRemainder`). A digest restores the state and the count but
  not the buffer; that does no harm, since the waiting bytes are in front of what the padding overwrote.
  `TextsRight` needs no more of the state than the alphabets of the texts (`TextsInv`): each of its parts is a lemma about every text. The loops of `getline` and
  `u_split` go up through the positions; that their recursion has a solution, and is one, follows by going down from the end (`UpExists`, `LinesAre`,
  `TokensAre`). From each position on, the lines with their ends put together are what is left of the text, with a line's end more if it had none (`LinesGiveText`), and the
  tokens are what is left without its delimiters (`SplitGives`, `RestRuns`). That out_of_range is no text (`StringAssumption`) is what makes a thrown exception differ from every value.
  The two lines of `last_install` end before what lay in the buffer begins (`LineIs`), so it is never looked at (`StatusIs`); the text that fills the buffer is exempt (`TakenIs`).
- **MiscProofs**: `MiscKept`, in both branches of `mtdutils.c`, and the refinement of `BootCell` by the one that is built. In that one each unit
  is what it was or what it is to be, according to how far the call has come (`HalfWay`). In the other one reader and writer step over the same blocks as long
  as no good one is given up or fails to be read (`InStep`), so that what is written lies where the next reader looks (`RawHalfWay`); a call that could not read a good block still writes its message where it belongs, which is why
  the invariant speaks of the buffer, and of its content only where all was read. The skipped blocks are noted in
  ascending order (`Ascending`), which is what `mtd_find_write_start` needs to step over all of them in one pass (`TurnsExist`, `TurnsFind`).
- **JsonValueProofs**: the types of a Value for every index of a UInt (`ValueTyped`); and, for callers whose indices are below 2^31 (`Small`), that the
  map is the list of `value.h` (`ArrayRefinement`) and that its size is the highest index plus one. The hypothesis is needed: from 2^31 on an index is stored as a
  negative Int, before index 0, and the size is computed from the last key. The map determines the size (`SizeExists`, `HighestOf`), and size and map the list
  (`ListNow`, `ListAfter`), so that each call can be compared with the call on the list (`MapsAt` to `MapsEmptied`). A truncation that ends behind a hole is the list's `ResizeToNull` (`ShrunkIs`, `EndsAtNullIs`). The append
  is kept below 2^31 by `MaxSize`.
  `LoopRight`: the entries from the iterator on, in the direction of the loop, are those not yet seen (`SeenIs`), so that the distance to the end is their
  number (`LeftIs`); a step takes the next one away (`LoopNext`). `OrderRight`: two containers that differ do so at a first entry
  (`FirstDiffers`), which decides the comparison of the maps; sizes are compared before. What holds of the elements therefore holds of containers of them, and the
  theorem goes up the levels of nesting of `MCOrder` by one lemma, for any set of elements (`NextLevel`). `OwnersRight`: the invariant, `OwnerInv`, gives to every Value the blocks it has to free, no two the same
  (`Fine`, `Shared`), and nothing else is in use. `Turns` says of a piece of an operation which blocks it gives up for which, the others untouched: `~Value` all that the
  Value owns for nothing (`ValueDropped`), the copy constructor nothing for what the copy owns (`ValueCopied`). Such pieces follow one another
  (`Follow`), which is how assignment, with its temporary and its swap, and the making of a member, with its pair, are put together; since the copy is complete before anything is freed, the
  right side may be the left side, or a child of it. The proof needs no bound on operations or Values, and makes no assumption on the bit that the constructors leave unset. It ends where a comment is refused over another one (`UntilDangled`).

The proofs use no induction theorem. Where one would be at hand, they take the least counterexample of a set of numbers (`LeastOf`, `GreatestOf`), which follows from
the well-foundedness of the natural numbers.

Only model-checked:

- the liveness properties (`EverythingSent`, `CheckerResumes`, `RoundEnds`, `ArmedInTheEnd`, `GoesOn`, `AllEnd`), which are out of the prover's reach;
- `ReaderIsRight`, `WrittenIsRead`, `TextIsRight`, `PathIsRight`: the documents of `JsonDocs` are made by recursive operators, which take the
  SMT backend away from every module that reaches them.

## Not modelled

- `Downloader::Interrupt`, `UpdateOta`, `WipeData`, `findLocalAvailableUpdatePackage`, `GetRequest`, `fake_sock_client` and the
  destructor of the queue have no caller.
- Device information: properties and /proc files go into the request; nothing depends on their values. The texts of a message take
  property values as they are, without escapes.
- `json_internalarray.inl`, `json_internalmap.inl` and `json_batchallocator.h` are not built (`JSON_VALUE_USE_INTERNAL_MAP` is not defined).
- The compression function of MD5, the digits of a double (`sscanf`, `snprintf`), and the depth of the reader's recursion.
- The curl headers: declarations of an external library.
- A failing `rm` in `fs_CleanDir`; files of several packages side by side.

## Plan

Done: every part of the daemon and of librecovery that keeps state, and the parts of the JSON library that are built, with the
abstract specifications `Outbox`, `BootCell` and `JsonArray`, each with the refinement proved; theorems for every invariant of the queue, the
server, the update, the misc partition, the table of partitions, MD5, the texts, the stream to home, the request, the pause, librecovery and the Value. Left, in this order:

1. `Otad`: `OtaUpdate` and `HomeServer` composed, so that a notice is a message in the queue and a checker
   may block in it; what home has been told against what is on the disk.
2. A failing `rm` in `fs_CleanDir` in `OtaUpdate`, as another member of `faults`.

# MultiThreadServer: TLA+ models, checks and proofs

MultiThreadServer is a small game server in C++: a gate process and a login
process accept clients with `select`, read threads receive framed messages, a
pool of work threads hands each message to a Lua handler, and a main process
starts and stops the other two. All of the program's difficulty is in what its
threads share. This directory models those parts in TLA+, checks small
instances with TLC and proves the central results with TLAPS for every size.

Paths below are relative to the repository (`src/engine/...` is the program's
own source tree).

## 1. Inventory

| Component | State it keeps | Operations | Talks to |
|---|---|---|---|
| Game logic (`engine/gamelogic/gamelogic.cpp`) | ring `s_ctxs` with `s_ctx_pos`, `s_work_msg_queue`, per worker `busy`, reload flag, mutex and condition | `fl_dispatch_message`, `fl_reload_lua_script`, `s_work_thread`, `fl_stop_gamelogic` | called by the gate's read threads and watchdog; calls Lua |
| Gate (`engine/gate/gate.cpp`) | `s_connections`, `s_read_bit_record`, `s_read_msg_queue`, the session counter | select loop, accept, read threads, stop | clients; game logic (callback); watchdog |
| Bit record (`engine/BitRecord.cpp`) | an array of bytes, no lock | `SetBit`, `ResetBit`, `IsSetBit` | gate, login |
| Message queue (`header/MsgQueue.h`) | a `std::queue` and a counter under a mutex | `push_message`, `pop_message`, `Size` | gate, login, game logic |
| Connection (`system/net/net.cpp`) | descriptor, session, the message being received, a read-write lock | `SetSocketInfo`, `Recv`, `Send`, `Close` | everything that has a socket |
| Gate watchdog, login watchdog (`*_watchdog.cpp`) | 32 control connections, a run flag | accept, `shutdown`, `reload_lua_script`, `client` | main process, login, gate, game logic |
| Login (`engine/login/login.cpp`) | as the gate, plus a work queue and `gate_conn` | select loop, read threads, two work threads | clients; the gate's watchdog |
| Buffer pool (`system/memory/buffer.cpp`) | nine free lists with counters and locks | `fl_malloc`, `fl_realloc`, `fl_free`, `fl_gc_buffer` | byte arrays |
| Byte arrays (`system/memory/*ByteArray.cpp`) | a buffer and positions | typed reads and writes | handlers, watchdogs, login |
| Database pool (`engine/database/database.cpp`) | a lock and a flag per connection | get, reuse, query | no callers yet |
| Lifecycle (`main.cpp`, `server.cpp`, `exit.cpp`) | exit handlers, two control connections | start, SIGINT, exit | both watchdogs |
| Environment (`system/envirment.cpp`) | a map of keys to values | load, reload, get | read at start by everything |
| Lua states (`engine/c2lua`, `engine/lualib`, `lua/`) | per worker one interpreter with tables of parsers and handlers | run `lua_main`, call `fl_handle_main`, typed reads and writes | work threads; byte arrays; file tools |
| File tools (`system/filetools.cpp`) | none | listings of directories | Lua scripts |
| Lua interpreter (`3rd/lua-5.3.3`) | tables, heap, code, stacks | compile, run, collect, resume | Lua states |
| Log, timer, hotfix, globals, `handler.cpp`, test clients | - | wrappers, dead code, drivers | - |

How they interact: the gate's loop queues the index of a readable slot; a read
thread receives on that slot under its read lock and, from inside `Recv`, calls
back into `fl_dispatch_message`, which writes a ring slot, queues it and wakes a
worker; the worker compares the slot's session with the message's and runs the
handler, which may `Send` on the slot. The watchdog threads do the same in one
thread and run commands from inside `Recv`.

What is hard, and what makes each part correct:

* **Game logic** - a wake-up must not be lost, a ring slot not written while it
  is in use, a message freed once, a closed session's message not handled, a
  reload not forgotten.
* **Gate** - a descriptor neither leaked nor closed twice, one reader per slot,
  a failed reader closes its own connection, every client is watched and read.
* **Connection** - what is delivered is what was sent, frame by frame, however
  the bytes arrive and whatever a former session left behind; concurrent senders
  do not mix their frames.
* **Buffer pool, byte arrays** - a buffer has one owner; the counters match the
  lists; a request gets a buffer that is large enough; an array's content stays
  inside its buffer and reads inside the content.
* **Watchdog and lifecycle** - a shutdown command stops the process.
* **Login** - a request is forwarded once and whole.
* **Database pool** - one user per connection, and a wait comes to an end unless
  the waiting threads wait for each other.
* **Environment, Lua states, file tools** - a load leaves what the files say and
  no file open; a message is handled as the script in use registered, whatever
  reloads failed; a listing has what was in the directory.
* **Lua interpreter** - a table is a map; nothing reachable is collected; compiled
  code computes what the program means; errors and yields find the protected call
  or resume they belong to; the library gives what the manual says.

## 2. The modules

The order is that of importance: first what every message passes, then what
holds it up, then what stops it, then what handles it.

| Module | Models | State |
|---|---|---|
| `GameLogic`, `GameLogicProofs` | dispatch, ring, work threads, reload | checked, invariants proved |
| `WorkQueue` | what dispatch and workers promise together | `GameLogic` implements it: checked and proved |
| `GateLoop`, `GateLoopProofs` | select loop, bit record, read threads, slots | checked, invariants proved |
| `ClientTable` | what loop and read threads promise about clients | `GateLoop` implements it: checked and proved |
| `FrameReader`, `FrameReaderProofs` | `Recv` on one slot over sessions | checked, safety invariants proved |
| `SequenceLemmas` | nothing of the code: induction over sequences, for the proofs | proved |
| `BufferPool`, `BufferPoolProofs` | the free lists, the byte arrays' buffers, lengths and positions | checked, all invariants proved |
| `Allocator` | who has which buffer | `BufferPool` implements it: checked and proved |
| `Watchdog`, `WatchdogProofs` | control connections, shutdown, the main process's exit | checked, safety invariants proved |
| `LoginForward` | the login's work threads and `Send` | one run, a finding |
| `DatabasePool` | which thread holds which connection, the random wait | checked |
| `Environment` | `$(key)`, included files, failures | checked, invariant proved in `ServicesProofs` |
| `LuaHandler` | one worker's Lua state: loading, reloading, messages | checked, invariant proved in `ServicesProofs` |
| `FileTools` | listing a directory that changes | checked, invariant proved in `ServicesProofs` |
| `ScriptData` | the bytes of typed writes and reads, the scripts' parsers | checked over bounded scripts |
| `LuaTable`, `TableMap` | tables; the map they implement | checked |
| `LuaGC`, `LuaGCProofs` | the incremental collector | checked, invariant proved |
| `LuaValues`, `LuaCode`, `LuaParser`, `LuaMachine`, `LuaCompiler` | the one-pass compiler and the machine | checked against `LuaLanguage` on the programs of `LuaPrograms` |
| `LuaCoroutine`, `Coroutines` | calls, errors, yields over the C stack; what they promise | checked |
| `LuaLexer` | sources cut into tokens | checked against a second half of the module that says which texts are tokens |
| `LuaPattern`, `LuaSort`, `LuaNumbers`, `LuaStrings`, `LuaUtf8`, `LuaTableLib`, `LuaChunk` | the library, number conversions, precompiled chunks | checked against a second half of each module that says what is meant |

`MCGateLoop`, `MCBufferPool`, `MCServices` and `MCInterpreter` instantiate them
for TLC; `GL_*.cfg`, `Gate_watch.cfg`, `Login_forward.cfg` and `Watchdog_*.cfg` use theirs as they
are. `MCServices` and `MCInterpreter` put small parts side by side that share
nothing: the variable `part` chooses one at the start. The modules that are
proved about are extended there, so that TLC evaluates the assumptions their
theorems rest on; their `Init` and `Next` therefore carry their part's name
(`FramesNext`, `ConfigNext`, `CollectorNext`, ...).

What could be done next: proofs that `LuaCoroutine` implements `Coroutines` and
that `LuaTable` implements `TableMap`, for which the `RECURSIVE` operators of
`LuaTable` have to become recursive functions; metamethods of the
interpreter; a composition of `FrameReader`'s channel with `GateLoop` and
`GameLogic`, whose states TLC cannot enumerate together even at the smallest bounds.

## 3. How the modules correspond to the code

`PROJECT.json` gives the source lines of every definition. In all modules a
critical section is one step, and an access outside the lock that protects it is
a step of its own; a loop that only waits (`usleep`, a `select` that times out)
is a disabled action. History variables are marked in the modules and are read
by properties only.

**GameLogic** (`gamelogic.cpp`). `Enqueue` is the critical section of
`fl_dispatch_message`, with the test for a full queue; `Scan` and `Signal` are
the unlocked search for an idle worker and the signal under that worker's lock.
The lines 92-98 are one step: the dispatch lock keeps other dispatchers out, and
workers touch only the queue, through its own mutex. A worker goes through `top`
(the reload flag), `load`, `pop`, `conn`, `message`, `check`, `handle` (the copy
and the `free`, after which a message of proto 0 goes no further), `session`
(line 207), `client` (line 209), `run`, or `sleep` and `wait`. `ctx->conn`,
`ctx->message` and the session are read in several places without a lock and each
read is a step, so that a close, a new client or a lap of the ring may come
between. That is why `HandlerContext` excepts sessions that ended while their
message was handled: line 207 asks the connection again, and finds 0 or the
session of whoever came next (listed as a hazard). Locals that are dead are reset, which merges
states and allows nothing new. Where two accesses are consecutive and nobody
else can touch what they touch, they are one step. A message dropped at a full
queue is freed at once and is not counted in `freed`. `fl_stop_gamelogic` is
left out: `Watchdog` shows that a shutdown never reaches it.

**GateLoop** (`gate.cpp`, `BitRecord.cpp`). `BuildLook`/`BuildAdd` are the two
unlocked reads of a slot's descriptor while the set is built, `Select`, `Accept`,
`Probe` and `SetSocketInfo` the accepting half, `Look`, `IsReady`, `TestBit` and
`Queue` the queueing half. `SetBit` and `ResetBit` read a byte and write it back
(`Byte`, `StoreByte`), so that an update of a neighbouring bit may be lost: the
history variable `torn` says that it was. A read thread goes through `pop`,
`recv`, `receive`, `close`, `clear`, `store`. `Recv` returns after one message,
whatever else there is to read (`net.cpp:303`). It also returns true with nothing
read, and will do so for ever, once `recv_message` holds a header of length 0, a
negative length or a dropped message that was overshot (`net.cpp:229` goes on to
314): `stalled` has the session in which that happened, so that a reader finds
the input, and even the client's hang-up, where it was. A client may bring this
about at any message. `BuildAdd` has `FD_SET` of a slot that was closed after the
look at it: bit -1 is no bit of the set, or another descriptor's, or one that is
not open, and `select` then fails. Descriptors are reused by the
kernel as soon as they are closed, lowest first or not. The random start of the
search for a slot is `\E`. `s_conn_bit_record` is written and never read, and is
left out. The read of `max_client_connection` at start is a constant. The login's
loop and read threads are the same code (`login.cpp:213-229`, `312-406`), and the
map names those lines for `Main` and `Read`.

**FrameReader** (`net.cpp`, `Recv`). Every `recv(2)` is a step; bytes are
`0 .. 255`, a header is the four bytes of a length of up to `2^31 - 1`, highest
byte first, and everything arrives in any pieces. What the code keeps in a `char`
or an `int` is signed. `recv_message` is kept across calls and across sessions;
`Emptied` is what `fl_drop_message_data` leaves of it. `StoreHeader` does what line 176 does with a header that comes in
pieces: `&header.c + n` is `n` arrays further, so the bytes land in the fields
behind the header. What the code then does is modelled as far as it is defined
("undefined" stands for the rest). `upset` remembers that a header was split,
that a message was empty or that skipping a large message ran past its end; the
safety properties hold as long as none of them happened, and `frame_split` shows
what happens otherwise.

**BufferPool** (`buffer.cpp`, `WriteByteArray.cpp`, `ReadByteArray.cpp`). A
visit of a class is a step (`Take`, `Miss`), as each class has its own lock;
`Heap` is `malloc(3)` and may fail (`HeapFails`). `Copy` is the second half of
`fl_realloc`. A free list is a set: which buffer is on top makes no difference.
A buffer the heap gave is one whose `size` is not 0. `Trim` is `fl_gc_buffer`,
which has no callers and is modelled all the same. The byte arrays are their
buffer, the length of their content and, for readers, a position; the unit of
lengths is a number's, so that every buffer holds a number and doubling it once
is enough for one more (`WriteNumber`), while a string may need several
doublings (`WriteString`). The bytes are the subject of `ScriptData`. Seeks and
the lengths of received strings are any `int`: the code tests their upper end
only (`WriteByteArray.cpp:139`, `ReadByteArray.cpp:132`), and adds a length to the
position before it compares (`ReadByteArray.cpp:392`), where the sum may wrap.
`strayed` remembers the arrays that a negative seek, a negative length or a sum
that wrapped has led before their start, until a seek, new content or a new
buffer brings them back. `ContentInside` says that this is the only way out: no
upper end is ever passed. Not represented: contents of length 0; a write to an
array whose length is negative; a write whose `CHECK_BUFFER` got no memory, which dereferences NULL
and ends the program. `InitBuffer` on an array that has a buffer would lose it,
as `fl_realloc` answers NULL when the buffer is large enough
(`WriteByteArray.cpp:102`, `buffer.cpp:170`); its two callers (`server.cpp:39`,
`login.cpp:272`) release the buffer first, so `InitBuffer` is an action of
arrays without one.

**Watchdog** (`gate_watchdog.cpp`, `gate.cpp:113-138`, `server.cpp`, `exit.cpp`,
`main.cpp`). The watchdog thread is `Select`, `Accept`, `Recv`, `CloseGone`; the
commands that change nothing here are "other". `InHandler` is the time the
watchdog thread spends in a shutdown command, during which it holds the read
lock of `slot`. `StopThread(t)` is `fl_stop_net_gate_server`, run by the watchdog
thread and, when the loop has left (`LeaveLoop`), by the main thread. The main
process is `Connect(Main)`, `Interrupt`, `Clear`, `Exit`. A peer connects once
and stands for its descriptor; session numbers of control connections are never
compared and are left out. The login's watchdog and its stop are the same code
(`login_watchdog.cpp`, `login.cpp:40-57`, which also closes the connection to the
gate); the map names those lines for `WatchdogThread`, `InHandler` and `StopThread`.

**LoginForward** (`login.cpp:185-282`, `net.cpp:321-394`). `Pop`, `Check`,
`Enter`, `Send` are a work thread; a message goes out in `Pieces` calls of
`send(2)`, of which the first is its header. `SendFails` is any of them failing:
what has gone out stays on the stream and nobody is told.

**WorkQueue, ClientTable, Allocator** are the abstract specifications of the
three parts above, and the refinement mapping is in the detailed module:
`ImplementsWorkQueue` (a message is accepted when dispatched, handed out when
popped; `lapped` is `overrun`, after which nothing is promised),
`ImplementsClientTable` (a client is in the loop's hand between `accept` and
`SetSocketInfo`, its seat is the slot that holds its descriptor) and
`ImplementsAllocator` (what an array holds is its buffer and, while
it copies, the new one).

**DatabasePool** (`database.cpp`). `Get` takes `s_get_mysql_lock`, `TryLock`
tries one connection; when all are taken the lock is given up and `LockRandom`
waits for a connection chosen at random, until its owner calls `Reuse`, which
takes no other lock. Connecting and querying are done by the thread that has the
connection, one step a call. Rows are left out: `fl_database_fetch_row` never
reads one.

**Environment** (`envirment.cpp`). A file is a sequence of lines; a value is a
sequence of keys (for `$(key)`) and of pieces of text. `frames` is the recursion
of `fl_load_config`, `fl_setenv` the replacement of `$(key)` with what the
key has at that time. An inner failure ends the outer readings, each of which
closes its file (`Leave`). Which characters separate key and value is left out.

**LuaHandler** (`gamelogic.cpp:109-226`, `c2lua`, `lua/`). One worker. The
script `lua_main` is a sequence of registrations, one line a step, and any line
may fail; at its end it defines `fl_handle_main`. A reload runs in a state of its
own and replaces the one in use only when the script came to its end. The
message's array is made, parsed, released, destroyed; the handlers run in order;
an error anywhere ends the message.

**FileTools** (`filetools.cpp`, `flfiletools.cpp`). `readdir` and `lstat` are two
steps, between which another process may remove, replace or add an entry.

**ScriptData** (`fldatawrite.cpp`, `fldataread.cpp`, `writeArray.lua`,
`readArray.lua`, `lua/proto/`, the typed operations of the byte arrays). A byte
holds `BASE` values. A value of Lua is what the three checks of `lauxlib` make
of it: its integer, its float, its text, or none where the check raises an error.
Numbers are written most significant byte first, whatever the order of
the machine's memory, and the two machines are chosen independently. A
script is a list of typed writes and another of typed reads; the meaning says
which values come out, wrapped to the width of their type, as far as the types
that are read are those that were written, and that no read leaves the array.

**The Lua interpreter** (`3rd/lua-5.3.3`), which every message runs through.

* `LuaTable` is `ltable.c`: main positions, collisions, the free pointer, rehash
  with the computation of the array part's size, `luaH_getn`, `luaH_next`, and
  the cache of absent metamethods. It implements `TableMap`, a function from keys
  to values with a border and a traversal.
* `LuaGC` is the incremental collector: states from `pause` to `callfin`, one
  step for each object marked or swept, with the program running in between:
  it makes objects, stores with the barriers of the code, interns strings (which
  may bring a dead one back), sets finalizers and drops references. Weak
  tables are there, ephemeron tables are not.
* `LuaParser` and `LuaCode` are `lparser.c` and `lcode.c`: expressions whose
  value is delayed, jump lists with their patching, constant folding, register
  allocation, upvalues, blocks, goto, calls and assignments. `LuaMachine` runs
  the code. `LuaLanguage` evaluates the same programs as trees, one cell per
  local variable, and knows of no registers. `LuaCompiler` puts them together
  and `LuaPrograms` has the programs.
* `LuaLexer` is `llex.c`: one character ahead, with the buffer from which escapes
  and delimiters are removed by count, and the token looked at ahead of time. What
  it gives is compared with a declaration of which texts are comments, strings,
  numerals, names and symbols, and of the line each ends on. `LuaParser` works on
  sequences of tokens: their texts and lines are not in its programs.
* `LuaCoroutine` is `ldo.c` with `lcorolib.c`: one C stack for all coroutines,
  CallInfo lists, longjmp to the nearest setjmp, `pcall` and `xpcall` with and
  without continuation, the count of C calls. It implements `Coroutines`, where
  each coroutine is a stack of calls. A coroutine that was resumed by
  another and is then resumed itself is left out by `ResumesNormal = FALSE`:
  see the known deviations in section 7.
* `LuaPattern`, `LuaSort`, `LuaNumbers`, `LuaStrings`, `LuaUtf8`, `LuaTableLib` and
  `LuaChunk` are functions of their arguments, or machines that work on data of their own.
  Each has a part that follows the code and a part that says what the manual
  promises, in other terms: a match as the first in a set of all possible
  matches, a sorted table as a permutation, numbers by their exact values, a
  packed string as the sum of its aligned fields, a code point by the table of the
  encoding. Sizes are those of a small
  machine (4-bit integers, 3 bits of mantissa, bytes of 2 or 3 bits), which
  makes every boundary and every wrap-around reachable. Not covered:
  numeric loops with step 0 or a limit that is not a number, an unpacked `z`
  without its terminator.

## 4. What each run checks

| Run | Instance | Checks |
|---|---|---|
| `gl_ring` | 2 workers, 2 ring slots, 2 read threads, 3 messages, 2 sessions | types; the queue is a ring segment; a popped slot is rewritten only after a lap; sleepers look idle; one owner per message; the handler's context; the refinement of `WorkQueue` |
| `gl_drain` | 2 workers, 1 read thread, 2 messages, 1 reload | a reload is not forgotten; a dispatch to sleeping workers gets the queue drained |
| `gl_wakeup` | 1 message | **violated**: a message may stay queued with all workers asleep |
| `gate_pair` | 2 slots in one byte, a session counter that wraps at 2; either 3 clients and 1 read thread, or 2 read threads and clients one after another | types; descriptors accounted for; session iff open; one reader per slot; a `Recv` that failed on a live connection closes that one; the refinement of `ClientTable`; the client with the highest descriptor is attended to |
| `gate_watch` | 2 slots, 2 clients | **violated**: a client with a lower descriptor than a lower slot's is not watched |
| `frame_split` | the frames of `services`, one of them | **violated**: a header in two pieces keeps its message from arriving |
| `buffer_pool` | 2 classes of 1 and 2 units, 4 buffers, a writer and a reader, requests up to 4, `int`s from -2 to 4 | types; counters; classes; one owner per buffer; room for what is copied; the content inside its buffer but for what strayed; the refinement of `Allocator` |
| `watchdog_control` | 2 control connections, 3 peers | types; descriptors accounted for; a stop waits before its own connection; commands are read; Ctrl-C ends everything |
| `watchdog_shutdown` | the same | **violated**: a shutdown command does not stop the gate |
| `login_forward` | 2 work threads, 2 requests | **violated**: two messages mix on the connection to the gate |
| `services` | five parts: frames (3 bodies, 2 frames, 2 sessions), pool (3 threads, 2 connections), configuration (2 keys, 2 files of up to 3 lines, 2 loads), Lua state (3 scripts, 3 loads, 3 messages), directory (2 changes, 2 listings) | what is delivered was sent, in step with the stream, and every legal message is; a wait for a connection ends; a load leaves what the files say; a message is handled as registered; a listing has what was present |
| `interpreter` | parts for tables, the collector twice (weak tables; strings), coroutines, patterns, sorting, and calls of functions | nothing live is collected; the refinements of `TableMap` and `Coroutines`; compiled code and library compute their meaning |

The five violated runs are the findings of `PROJECT.json`, each with the line of
the repository that says otherwise.

Every property of a passing run has a mutant: a definition written with a likely
mistake (`...PastEnd`, `...Unlocked`, `...Uncounted` and so on, next to the right
one) under which TLC finds the property violated.

`CodeComputesMeaning` and the second half of `LibraryComputesMeaning` are about
functions of their arguments: the instance chooses a call at the start, its one
step makes the call, and the property compares result and meaning on that step.

### Bounds

* `GameLogic`: a ring of two slots and three messages are the least with which a
  dispatcher laps a worker (`overrun` becomes true) and the queue is full; two
  workers and two dispatchers race for one flag. `MaxSessions = 2` lets a
  connection be reused while a message of its first session is under way. There
  are no further messages once a bound is reached, so the instances stop:
  `CHECK_DEADLOCK FALSE`.
* `GateLoop`: two slots in one byte are what an update needs to be lost;
  `MaxSession = 2` stands for `0xFFFFFFFF`, so that the counter wraps and a
  newcomer on a reused descriptor can be told from its predecessor; `MaxQueue = 1`
  keeps the loop from queueing a second slot before the first is taken. All of this
  with two read threads and three clients at a time is beyond TLC, so
  `MCGateLoop` has two scenes. In the "crowd" one read thread runs and three
  clients find the two slots full, freed and filled again: the races are between
  that thread and the loop. In "turns" two read threads run, and a second client
  comes when the first has been closed: the races are between the threads, one of
  which may still have the slot that the newcomer gets. `accept` returns the
  lowest free descriptor in both. The proofs are about all of it together, any
  number of slots, clients and read threads and any length of the queue.
* `FrameReader`: bodies of none, two and three bytes with a limit of two, one of
  255 among the bytes, read in pieces of one byte and more; a second session shows
  what the first left behind. The real sizes (128K and 1024) are numbers the code
  only compares; the proofs are about any bodies whose length an `int` counts.
* `BufferPool`: two classes with one buffer each are exhausted by two arrays, of
  which a growing one needs a second buffer while it copies; four buffers let the
  heap be used and refuse. Requests of 3 and 4 are above both classes, and a
  string may need two doublings. With `int`s from -2 to 4 a seek may be negative,
  and the sum of a position and a length may pass the largest `int`. Deadlock is
  checked there.
* `Watchdog`: two control connections for three peers, so that the set is full
  and a shutdown may come in on the first or the second. A peer connects once,
  so the system may stop.
* `LoginForward`: two of everything.
* `DatabasePool`: two connections for three threads that want up to two each, so
  that all may be taken and a wait without end is possible; four requests.
* `Environment`: files of up to two lines from all kinds of lines, and of three
  with an inclusion in the middle; three files open at once, so that a circle of
  inclusions ends where the process runs out of descriptors.
* `LuaHandler`, `FileTools`: a load that fails and a later one that succeeds around
  messages with and without a parser; an entry that comes, goes or changes its
  kind during a listing.
* `LuaTable`: three integer keys, a string and an object whose main positions
  meet in tables of every size; `LuaGC`: three places of an instance of five in each
  of its two parts, the least with which a reference moves from an object not
  traversed to one that was; `LuaCoroutine`:
  three coroutines, six calls, four C calls, so that the limit is met; programs,
  patterns, arrays, arguments and sources are listed in `MCInterpreter` and
  `LuaPrograms`.

Symmetry is used in safety runs only (read threads; buffers).

## 5. Fairness

Threads are scheduled: every step of a worker, read thread, main loop, watchdog
thread or the main process that stays possible is taken (weak fairness, one
conjunct per thread). The pool's threads go on scanning, give their connections
back, and take the one they wait for when it stays free; nothing keeps others
from taking it first again and again, but as the number of requests is bounded
(`MaxGets`) they stop at some time. `pthread_mutex` and `rwlock` waits are
single steps that become possible when the lock is free; no run needs a lock to
be fair. Clients, peers, the user's Ctrl-C and reload commands are never forced.
The network delivers what was sent (`FrameReader`), as TCP does. Condition
variables may wake a worker without a signal (`SpuriousWakeUp`), and need not:
the action has no fairness.

## 6. What is proved

TLAPS proves, for every value of the constants that the named assumptions allow:

* **GameLogicProofs** - type correctness, `QueueIsRingSegment`,
  `ReusedOnlyAfterALap`, `SleepersLookIdle`, `ReloadNotForgotten` and `OneOwner`.
  The inductive invariant is `TypeOK /\ QueueIsRingSegment /\ RingContents /\
  SlotInUse`: the queue alone is not inductive, as a pop hands a slot to a worker
  and nothing but the positions in the ring says what that slot holds; so
  `RingContents` says it of every slot of the ring in order of dispatch, and
  `SlotInUse` ties the slot a worker uses to the number of the message it popped.
  A write then either spares that slot or comes a whole lap later. The other
  invariants are inductive relative to this one. `OneOwner` is proved with a
  further invariant on who owns which number.
  The same module proves `ImplementsWorkQueue`: every step of a dispatcher, a
  worker or a client is one step of the abstract queue or none; and
  `HandlerContext` (`ContextOfPoppedMessage`: what a handler is given belongs to the
  message its worker popped, unless the ring lapped it or the session has ended),
  which needs four further invariants: a session in use is
  below the counter (`SessionsFresh`), the message of a ring slot names a
  session its connection has or had (`MessagesLive`, `Live`), and what a worker
  knows between its reads of slot, connection and message (`WorkerKnows`).
* **GateLoopProofs** - all five invariants and `ImplementsClientTable`.
  `LiveFailureClosesItsOwn` is about a `Recv` that failed on a live connection while
  no update of the bit record was lost; a `Recv` of a slot that was closed already
  may be followed by the close of a newcomer (`gate.cpp:174`, a hazard). The
  five are inductive together with `LoopKnows` (the slot the loop has found free
  stays free, as nobody else fills slots; the number of ready descriptors is that
  of the set) and `ReaderKnows` (a read thread inside `Recv` holds the lock, so its
  slot keeps its client). The refinement follows from them step by step.
* **BufferPoolProofs** - all six invariants, and `ImplementsAllocator`. They are
  proved together with `CallOK`, what a call knows between two visits of
  classes: `fit` is 0 or large enough, the new length fits what was asked for,
  and an array holds a second buffer exactly while it copies. `GotOwner` and
  `FreedBuffer` say once what getting and freeing a buffer do to ownership; each
  operation follows from one of them. `ContentStaysInside` is about any `int`s, and
  its lower end is that of `ContentInside`: arrays that strayed are excepted. Cardinalities come from
  `FiniteSetTheorems`; the assumption that class sizes increase gives that a
  buffer has one home (`SizesDiffer`).
* **WatchdogProofs** - type correctness, `ControlDescriptorsAccounted` and
  `StopWaitsForItself`. The invariant adds `ReadyWatched` (what `select` found is
  still there when it is served, as nobody else closes slots) and `StopOrder`
  (`s_run_state` is 0 only once the watchdog thread is in the handler, and the
  main loop stops only after that). So a thread closes slots in order, under the
  handler, up to the handler's own slot, where it needs a write lock that the
  handler's `Recv` never gives back: `gate # "exited"` for any number of control
  connections.

* **LuaGCProofs** - `NothingLiveCollected`, for any set of objects of any kinds. The
  invariant is the one of a tricolour marking. While it is kept, no black
  object has a white one in a field and every gray one is in a list
  (`Tricolour`); live objects have only live ones in their fields
  (`LiveClosed`); there are dead ones only while `allgc` is swept, and each is still
  to be met (`DeadToSweep`); colours that remain are still to be removed
  (`MarkedToSweep`). The step that matters is the atomic one: what it marks is
  the least closed set (`LeastClosed`), only of objects there are
  (`MarkedAllocated`), and holds what its objects' fields hold (`MarkedClosed`), so
  that after the exchange of the whites the live objects are the marked ones.
* **SequenceLemmas** - what the next two modules need of sequences of any length. The
  library's induction theorems take an operator as a parameter and are of no use
  here; `SetInduction` is the same for a *set* of numbers, and is proved from
  the library's fact that inclusion is well-founded on finite sets.
  `RecursionUpTo` says that a recursive function on `0 .. n` exists and
  obeys its definition. From these come the facts on `FlattenSeq` and on the
  sequences the invariants speak of.
* **FrameReaderProofs** - `DeliveredAsSent` and `InStep`, for bodies of any bytes and
  of any length up to `2^31 - 1`, any maximal length, any number of sessions and any
  cut of the stream into pieces, as long as `upset` is empty. `HeaderSays` is that
  the four bytes of a length give it back as a signed `int`, the branch of messages
  too large included.
  What was received in a session, followed by what is on the way, is what the
  client has sent. While framing is not upset the reader stands at a frame:
  the frames it passed are those it delivered and those that were too long, and
  what it has of the next one is the beginning of that frame. `CutAnywhere` and
  `OneMore` say that a `recv` moves that cut and nothing else.
* **ServicesProofs** - `HandledAsRegistered`: the tables of a Lua state are what
  the lines its own script has run so far have registered (`AsRun`), and a
  worker always has a state whose script came to its end, or is still in one
  of its own. `ListedAsPresent`: the list has names that were
  seen, each once, those that had a wanted kind at some time, and of the names
  seen all that had one throughout (`Listing`).
  `LoadsAsWritten`: the open files are a chain (`Chain`). Each was begun with
  some environment, what it has read so far is what its lines before the present
  one make of that (`SoFar`), where those that include a file stand for what
  `Reading` says of that file alone; each outer file waits for the answer of
  the next inner one. When the innermost returns, its answer is the one the
  outer was waiting for. That `Reading`, a recursive function on the number of
  files that may still be opened, and `AfterLines`, one on the lines of a file, obey
  their definitions is itself proved (`ReadingStep`, `AfterLinesStep`).

Assumptions are the `ConstantsAssumption` of each module, and in the parts of
`MCServices` and `MCInterpreter` the `FramesAssumption`, `ConfigAssumption`,
`HandlerAssumption` and `CollectorAssumption` that the theorems name as
hypotheses; TLC evaluates them in the runs. All safety invariants of the
passing runs are proved for every value of the constants.

## 7. What is only model-checked, and limits

* Liveness (`DispatchDrains`, `TopClientServed`, `EveryMessageDelivered`,
  `WaitEnds`, `CommandsRead`, `SystemStops`): out of the prover's reach.
* `ImplementsTableMap`, `ImplementsCoroutines`, `CodeComputesMeaning` and
  `LibraryComputesMeaning`: checked on the instances above, not proved. All but
  `LuaCoroutine` declare `RECURSIVE` operators, about which nothing can be
  proved here; of `LuaCoroutine` the proof has not been done.
* `DatabasePool`, `ScriptData` and the modules of the interpreter other than `LuaGC`
  are checked on the instances above.
* Several safety properties say "as long as no lap happened" (`overrun`), "no
  update was torn" (`torn`), "nothing upset the framing" (`upset`) or "nothing led
  the array astray" (`strayed`). Beyond
  these the code gives no guarantee: a ring of 102400 slots has to be lapped by
  dispatchers while one worker handles one message; two bits of one byte have to
  be changed at once; see the findings and the hazards for the other two.
* Memory ordering: an unlocked read returns the last value written.
* What a handler of a message does is one step for `GameLogic`; `LuaHandler`,
  `ScriptData` and the interpreter's modules look inside.

### Deviations that the models show and no run demonstrates

The instances keep clear of these, each by a bound or a set of inputs that says
so; the hazards of `PROJECT.json` name the lines.

* A generic `for` with four expressions or more leaves the register count of the
  function too high (`lparser.c`, `adjust_assign`): `for x in f, nil, nil, 4 do
  local y = 6 return y end`.
* A numeral operand that does not fit an instruction's constant field is not
  loaded when the right operand is a condition: `2 + (a or b)` (`lcode.c:1018`:
  the `LOADK` comes between the second operand's code and the end of its jumps,
  which pass it over).
* Resuming a coroutine whose status is "normal" fails, as it should, and leaves
  the count of C calls of its ancestors too high (`ldo.c:655-680`).
* `fileTools.lua:13` drops the path it is given, so `bootstrap.lua` lists the
  wrong directory and loads no module; nothing else loads `lua/proto/*.lua`.
* `Pt000.lua` assigns the number it reads to the upvalue that held its proto.
* A message of proto 0, or one whose parse fails, leaves its array undestroyed
  (`gamelogic.cpp:204`); `HandledAsRegistered` says exactly when.
* `On10000` indexes a number and always raises an error.
* `Recv` reads no more of a session whose client sent an empty message, and does
  not see the client hang up: it returns true each time and the slot is queued
  again at once, for ever (`net.cpp:229`, 314). `TopClientServed` therefore says
  that the client is attended to, not that its input is read.
* `ReadString` adds a length it read to the position as an `int`, and accepts a
  negative one and a sum that wraps; `ReadSeek` and `WriteSeek` accept negative
  positions (`ContentInside` says exactly when). `WriteString` and `ReadString` reverse a string's text on
  little-endian machines only, so machines of different byte order do not
  understand each other's strings.

## 8. Not modelled

* `fl_stop_gamelogic`: no shutdown reaches it (`Watchdog`).
* `fl_gate_send_message_to_client`, `fl_login_send_message_to_client`: without
  callers in this version. `Send` itself is in `LoginForward`.
* The log, the timer, the hotfix, the former process model (`handler.cpp`):
  wrappers or dead code without state that other parts read. The test
  clients are what the client actions stand for.
* File tools of one system call each, the generated tables `proto2c`.
* Failures to open sockets at start, which end in code that works on objects not
  yet made.
* Of the interpreter: metamethods other than their cache and
  finalizers, bitwise instructions, ephemeron tables, memory errors, hooks and
  debug information, `string.format`, and the libraries io, os, math, package
  and debug: formatting, wrappers of C, or more of what is modelled in the
  same form.

# A verification of Lengineset in TLA+

Lengineset is a collection of small engines in C++ and Lua: a remote debugger for
Lua scripts, an application loop with timers, three redis clients, an epoll echo
server, and a number of exercises and demonstrations. This directory holds TLA+
models of the parts that carry state, the TLC configurations that check them on
small instances, and proofs, checked by TLAPS, of what matters most for all
instances.

`PROJECT.json` lists the components, the runs, the source lines each definition
stands for, the hazards and the theorems. Paths below are relative to the
repository.

## 1. Inventory

| Component | State | Operations | What is hard | Correct means |
|---|---|---|---|---|
| **Debug server**, `project/test/lua/debugserver/debugserver.cpp` | `m_dbgstate`, listening and client sockets, `m_nPing`, `m_qRecv`, three threads | script: StartServer, StoprServer, Send, Recv, Dettach, destructor; accept thread; receive thread | no common lock; handles are reused; ping timeout against late answers; joins | one client at a time, every accepted socket owned by somebody, commands in order, threads end before what they use |
| **Debug console**, same file | `std::cin`, `m_qConsole`, console thread | StartConsole, ReadCmd, StopConsole | hand-over by polling; the stop talks to the thread through its own input | lines arrive once, in order; the stop ends |
| **l_debug**, `project/test/lua/script/ldebug.lua` | `list`, `map`, `enable_count`, `match`, `mode`, the debug hook | add, delete, enable, set_mode, init, release; hooks on call, return, line | commands are given from inside stepped functions; counter and tables are kept apart | tables agree; hook set exactly while needed |
| **Epoll echo server**, `project/test/epoll/server/main.cpp` | epoll set, one shared buffer | accept, read, write handlers | handlers of a batch change what later events refer to; one buffer for all | no stale event, nothing left in the buffer of a client that has gone, nothing echoed twice, a client that reads is served |
| **Application loop**, `project/app`, `include/ltimer.h` | two timers, `m_bRun` | Run, Loop, callbacks, Exit | late and uneven polling, catching up | never early, exit honoured |
| **LRedisClient**, `project/hiredis/redisclient.cpp` | context, credentials | Init, Uninit, (Re)Connect2Redis, Set/Get String/Byte, HSet/HGetByte | each request may fail before or after the server executed it, and be executed late | contexts freed once; reads explainable |
| **LRedisNOBlock**, `project/hiredis/redisnoblock.cpp` | context with output buffer and reader, `m_nUnSubscribe` | Init, Uninit, Connect2Redis, Breath | pipelining, replies that come together, messages at any time | subscribed; nothing left half done; Breath returns |
| **LRedisAsyncClient**, `project/hiredis/redisasyncclient.cpp` | context, event base | constructor, destructor, Init, Uninit, Connect2Redis; three callbacks | the event loop runs inside the connect, and hiredis frees the context inside the loop | no context lost but with its object, none left open, callbacks touch nothing that is gone, the connect returns |
| **CMultiDelegate**, `include/MyDelegate.h` | list of owned delegates | `+=`, `-=`, call, clear | delegates change the list, and call it again, while they are called | owned once; a call reaches those subscribed when their turn comes |
| **Directory helpers**, `include/fileutil.h` | the file system | SplitPath, MKdirIsNotExist, RMdirIsExist | test-then-act between processes; names at the buffer's limit | what a call returns is true of the tree |
| **qsort, reverlist**, `project/test/node` | array, linked list | partition and recursion; build, reverse, free | a pivot that moves; termination; pointers in mid-change | sorted and rearranged; reversed, nothing lost or freed twice |
| Luna binding, `luawrapper.h`, and wrapper methods | one userdata per object | Register, Constructor, Proxy, GCObj | object life time is the garbage collector's | not modelled |
| tcp test pair, `project/test/tcp` | one socket each | Init, Run | | not modelled |
| Demonstrations, third-party headers, `lthread.h`, host program | none of their own | | | not modelled |

How they interact. In the Lua host, `luamain.cpp` registers the debug server with
the Lua VM; scripts call its methods on the VM's thread, which is the "main"
thread of `DebugServer` and `DebugConsole`. Server and console share the object but
no member: commands from the network go through `m_qRecv`, from the keyboard
through `m_qConsole`. `l_debug` runs in the VM's thread and only shares that thread
with the server. The redis clients, the epoll server, the application loop and the
exercises are separate programs; the delegates and the directory helpers are headers
for any of them.

## 2. Modules

For every component a module with its state, one action per operation or step; an
`MC...` module with the values of a small instance; where something is proved, a
`...Proofs` module: `DebugServerProofs` for the debug server, its console and l_debug,
`FrameworkProofs` for the application loop and the directory helpers, `StructuresProofs`
for the delegates, qsort and reverlist, and one each for the epoll server and the three
redis clients. Two abstract specifications, `CommandChannel` and `Multicast`, say
what `DebugServer` and `MultiDelegate` promise; the detailed modules are shown to
implement them. Two modules are shared: `SeqFilter` has the one operator `Only(s, S)`,
the elements of `s` that are in `S`, in order; `SequenceFacts` has the lemmas about
sequences, recursion and induction that the proofs of several components use.

**DebugServer.** Three threads (`main`, `acc`, `rcv`), each with a program counter.
The members are shared without a lock, so each access that another thread can
separate from the next is an action: `AccTest`, `AccStore`, `AccPing`, `AccAttach`,
`AccFionbio` are five lines of the accept thread; `DettachCheck`, `DettachClose`,
`DettachInvalidate`, `DettachState` are `Dettach`, run by `main` or `rcv`;
`RcvPingLoad` and `RcvPingStore` are the two halves of `m_nPing--`. Where a member is
tested and used at once, the compiler may read it once or twice, and both are
allowed (`seen`). Sockets are handles of an OS table (`kind`, `id`, `nb`); a closed
handle may come back from the next `accept`. A blocking `recv` (FIONBIO not set yet)
waits. What a client sends is a sequence of numbered commands and pongs; `recv`
returns any non-empty prefix of what has arrived. The port passes through `short`,
as in the code. `Send` changes no member and is left out.

**DebugConsole.** `std::cin` is a sequence of characters, each `putback` of
`StopConsole` a step. Assumed, as the code does: operations on `std::cin` are atomic
and putbacks succeed. What the script is to get of the lines typed is `Only` of them
that are not empty.

**LDebug.** The break point tables, the counter, `match`, `mode` and the installed
hook, over a stack of functions that call and return at will. The functions of
l_debug are themselves on the stack (`API`) when they work, so that hooks see their
calls and returns too. `find_index` returns any break point of the function, because
`pairs` has no order. A position is what `get_break_info` makes of the text.
`init` is an action as well as the initial state: a script may load the file again, or
call it, and the hook stays. `toggled` is a history variable: TRUE as long as, since the
tables were last emptied without leaving a hook behind, `set_enable` has only been used
to change a break point's state.

**EpollServer.** `epoll_wait` returns any ready descriptors in any order, up to
`EPOLLEVENTS`; the handlers then run one by one on `events`, while clients go on.
The buffer is a function on cells; what `write` sends ends at the first NUL, be it the
buffer's own or one a client has sent (`Zeros`), and may run past a full buffer (`JUNK`).
A client need not read: a write may leave its connection `full`, whereupon it is not
writable, and `epoll_wait` does not report it, until the client receives something or is
gone. Assumed of the kernel: it reports a socket as writable only when there is room for
what one buffer holds, so that `write` on the blocking sockets neither waits nor is cut
short. `close` is the kernel's and removes a descriptor from the epoll set, so the
`EPOLL_CTL_DEL` after it has no effect. A write to a connection that was reset after its
end raises SIGPIPE (`alive`).

**LuMyApp.** Each reading of the clock is a step, and time passes between any two.
`AppInit` allows both the base class' Init and the one of App_Test, which overrides
it and does not reset the timers.

**RedisClient.** Each request has a life of its own: sent, perhaps executed, perhaps
answered; `Break` may come between any two, and a request left behind may be executed
after the client has reconnected. A context that `redisConnectWithTimeout` returns in
error is allocated and in the member until `ConnectRefused`, the Exit0 of Connect2Redis,
frees it. `known` and `doubtful` are history: what the caller
may expect to find, and what failed writes may have left.

**RedisNOBlock.** hiredis' output buffer (`obuf`) and reader, the wire in both
directions, and a server that executes, publishes and closes. Commands and replies
travel whole.

**RedisAsync.** The life of one object after the other (`New`, `Delete`), the destructor
freeing nothing, as in the code; `dropped` is history, the contexts that members named
when their objects were deleted. `_Connect` as two parts: making the event base, which
may fail, and the context (with the three results of `redisAsyncConnect`), and the event loop, in which the connect succeeds or fails,
replies arrive and the connection may end at any point. What hiredis frees is freed in
`context`, whatever the member says; `crashed` names the function that used it.

**MultiDelegate**, implementing **Multicast.** The heap of delegate objects, the list
of pointers with its nulls, and the iterators of the nested calls in progress. Between
the steps of a call's loop the delegate it calls may do anything a user may, a further
call included. An iterator whose node is erased under it becomes invalid, and its next
use sets `undefined`, which ends the behaviour. The mapping: the subscribers are the
targets of the non-null entries; those a call has still to reach are the ones behind
its iterator; the abstract specification is what a user of the header would write down.
Both filter with `Only`: the list without its nulls, the subscribers without a target.

**QuickSort.** One action is one turn of the partition loop, both halves; the
recursion is a stack of the locals of the calls in progress. **ReverList.** One action
per turn of each of the three loops; the `next` of the header that `new Node` leaves
undetermined is any pointer. `MCStructures` puts the three sequential programs side by
side: one of them runs, the others are at rest.

**Directory.** `SplitPath` runs the loop body, `SplitStep`, over the characters of the
path, as a recursive function. `Names` says without a loop what it should return: the
longest stretches of characters that are no separators, from left to right.
`MKdirIsNotExist` and `RMdirIsExist` are run by several processes; each `access`,
`mkdir` and `rmdir` is a step. The operating system may refuse any of them. A place in
the tree is a sequence of names, the string `temp` cut at the slashes the code itself
puts in. `hurt` and `raced` are history: what happened since a call began. Assumed of
the constants: "/" is a character and paths are strings of them, there is a process, and
no file lies below another file.

**CommandChannel**, implemented by **DebugServer.** Numbered commands per client that
may be sent, lost and delivered; the mapping takes for "in flight" what is unread in
the socket, in the receive thread's `msg`, or in `m_qRecv`.

## 3. Runs

| Run | Configuration | Checks | Expect |
|---|---|---|---|
| `serving` | DebugServerServing | TypeOK, SocketsOwned, CommandsInOrder, IsCommandChannel | pass |
| `shutdown` | DebugServerShutdown | ShutdownAlone, EndedClientReleased | pass |
| `wedged` | DebugServerWedge | FreeOrServing | violation |
| `console` | DebugConsole | OneLineAtATime, LinesArriveAsTyped, StopEnds | pass |
| `epoll` | EpollServer | NoStaleEvent, NoLeftovers, EchoedInOrder, InputConsumed | pass |
| `app` | LuMyApp | NeverEarly, KeepsPace, NothingAfterExit, AppExits | pass |
| `redis` | RedisClient | RedisTypeOK, NoContextLeak, CrashOnlyUnconnected, ReadsKnownValue | pass |
| `noblock` | RedisNOBlock | NothingHalfDone, Subscribed, LeavesChat, CallsReturn | pass |
| `ldebug` | LDebug | TablesConsistent, HookedIffEnabled | pass |
| `structures` | Structures | StructuresTypeOK; OwnedOnce, IteratorsKept, IsMulticast; SortedAtEnd, EndsOrSticks; ListKept | pass |
| `async` | RedisAsync | OnlyDeleteLoses, OnlyUninitCrashes, ConnectReturns | pass |
| `directory` | Directory | NamesInOrder, ReturnsTheTruth, SomeoneGetsThrough | pass |

Several of these are conjunctions of named parts, the type invariant among them where
it has no line of its own: SocketsOwned (NoSocketLeak, ClientSocketOpen,
NeverRefuseTheClient), TablesConsistent (LDebugTypeOK, BreaksIndexed, MatchIsABreak),
NoLeftovers (EpollTypeOK), OnlyDeleteLoses (AsyncTypeOK), EchoedInOrder (EchoedAtMostOnce), SortedAtEnd (Rearranged), ListKept
(ReversingKeepsAll, FreesEachOnce), ReturnsTheTruth (MakesPath, FailsOnlyInTheWay).
ConsoleTypeOK and AppTypeOK are proved.

What they show.

- `serving`: two clients, three handles (one listens), two commands each, a queue of
  two, a ping counter that starts at 0. With this a client is attached while another
  is being given up, a handle is reused, `recv` merges two commands, the queue
  overflows and the ping timeout fires. The socket properties need that only the
  receive thread calls `Dettach` (`SingleDetacher`): a script that calls it beside the
  receive thread can close a handle twice. Handles are interchangeable (symmetry).
  IsCommandChannel is the refinement of `CommandChannel`: beyond the order, a command
  that was dropped, by the full queue, by a reset or with its handle, never turns up.
- `shutdown`: one client, all methods of the script, including Dettach and the
  destructor. No symmetry, since it checks liveness. With a second client
  EndedClientReleased fails for the reason `wedged` shows.
- `wedged`, a finding: `Dettach` invalidates the socket before it sets DBG_DETACH; a
  client attached in between is held and ignored, and everyone else is refused.
- `console`: three lines out of four (two commands, the empty line and "q") and two
  stops. After the first stop a "q" may be left in the stream, so LinesArriveAsTyped
  ends there. StopEnds says when a stop returns: whenever its four putbacks come
  between two lines, whatever has been typed and whether or not the script has taken
  the last line.
- `epoll`: two clients, two descriptors, three bytes each, the first of one client a 0,
  a buffer of two, batches of three. A descriptor can be closed and reused, also within
  a batch, the buffer can be full, the two clients' data meet in it, and either client
  may stop reading. NoLeftovers: who sent what is in the buffer is still connected and
  due for a write, so the `memset` of do_write comes in time on its failing path too.
  EchoedInOrder: a lone sender gets its bytes back in order, and misses only a 0 and
  what it cuts off, which is less than a buffer (`CutOff`). InputConsumed asks of the
  client only that it be writable again and again; the other client need not read. That
  answers may be lost or go to
  the other client is possible in the model and not forbidden: no text in the
  repository promises otherwise.
- `app`: a frame of two and a second of three units, stalls of up to five: ticks are
  missed, doubled and cut short; exit at the third call instead of the tenth.
  KeepsPace bounds what `ticking()` loses by forgetting the rest of a period: at most
  the time of one poll for each tick, a pause inside `initialize()` counted as one.
- `redis`: six calls, two connections, each of which may be refused, one key, two databases, two passwords, values
  with a NUL inside and longer than the buffer.
- `noblock`: two channels, three messages. CallsReturn: the only loop in which a call
  can stay is `while (!wdone)` on a context in error.
- `ldebug`: a script with nested functions, a C function, a main chunk and a second
  file with an equal line number; three break points, a stack of three.
- `structures`: three targets, lists of up to four entries, calls nested twice, so that
  a nested call erases nodes under the outer one; all arrays of one to five elements
  over three values, equal ones included, which is enough for every shape of partition
  of up to three recursive calls; lists of one to five nodes (the program uses five).
- `async`: four contexts, each of which may be refused, broken, answered or cut off, and
  any number of objects. OnlyDeleteLoses: a context not freed is in the member or was
  there when its object was deleted, and none is left connected.
- `directory`: two processes, names of at most two characters, nine paths: empty, one
  and two names, relative and absolute, all separators, doubled ones, a name that just
  fits and one that does not, and a file where a directory is needed. Processes are
  interchangeable. With two processes each can make, and remove, under the other
  between its test and its use.

The bounds are constants named `Max...`, and appear only in guards. Every property of
a passing run has a mutant: a variant of one action with a plausible mistake, next to
it in its module, under which TLC finds the property violated.

Fairness. Weak fairness for each thread that has been started and for a call that is
in progress (`DebugServer`, `DebugConsole`, `EpollServer`, `LuMyApp`): the operating
system schedules a runnable thread, and none of these steps waits for anything but
its guard. Clients, users and scripts owe nothing; clients of the
epoll server not even to read, so that InputConsumed is conditional on it. The clock advances (`LuMyApp`).
In `RedisNOBlock` the server reads what it is sent, and the caller goes on calling
`Breath`, as the program in `project/hiredis/test/main.cpp` does once a second.
`QuickSort` runs on. In `RedisAsync` the event
loop runs on, a connect is decided, and a server that owes a reply sends it or the
connection ends; a server that owes nothing may keep the connection open for ever,
which is why it matters that getCallback disconnects.
`RedisClient`, `LDebug`, `MultiDelegate`, `ReverList` and `Directory` have no liveness
property and no fairness.

CHECK_DEADLOCK is off where the system may stop: a server no client ever
calls (`DebugServer`, `DebugConsole`, `EpollServer`), a client whose calls are used up
(`RedisClient`, `RedisAsync`), a program that has come to its end (`MCStructures`).

## 4. Proofs

| Theorem | States | Argument |
|---|---|---|
| `DebugServerProofs!Typed` | TypeOK | by action |
| `DebugServerProofs!ShutdownIsAlone` | ShutdownAlone | `ThreadsInv`: a thread that runs is joinable, so the labels after the join are reached only without it |
| `DebugServerProofs!SocketsSafe` | SocketsOwned, given SingleDetacher | `SocketInv`, one part per thread: what each holds of the sockets at each label (`MainInv`, `AccInv`, `RcvInv`). The properties alone are not inductive: that the handle the receive thread closes is still the client's needs that the accept thread stores only over INVALID_SOCKET |
| `DebugServerProofs!CommandsKeepOrder` | CommandsInOrder | `OrderInv`: the order holds along the whole way of a command (socket, `msg`, queue, script) and `msg` is empty outside its use; one lemma per step that moves commands |
| `DebugServerProofs!ServerIsAChannel` | IsCommandChannel: DebugServer implements CommandChannel | by action, each a step of the channel or none; that what `Recv` hands over is newer than what was given before and older than what is in flight is `OrderInv` |
| `DebugServerProofs!ConsoleRendezvous` | ConsoleTypeOK, OneLineAtATime | `QueueInv`: where the console thread is tells how many lines are queued |
| `DebugServerProofs!ConsoleFaithful` | LinesArriveAsTyped | `LineInv`: until the first stop, the typed lines are those that have gone through the thread and those to come (`Progress`); of the former, the ones not empty were handed over, are queued or are in the thread's hand, and what is left of `std::cin`, with what getline has taken, spells the latter (`Spells`); one lemma per step that moves a line |
| `FrameworkProofs!TimersNeverEarly` | AppTypeOK, NeverEarly | `EarlyInv`: calls, undelivered ticks and the time up to `m_pass` balance; the product of ticks and period is handled by four arithmetic lemmas |
| `FrameworkProofs!SecondsKeepPace` | KeepsPace | `PaceInv`: the same balance from the other side, with what each poll may have forgotten |
| `FrameworkProofs!LoopStopsAtExit` | NothingAfterExit, an action property | `ExitInv`: where the loop is once `m_bRun` is false |
| `FrameworkProofs!TruthReturned` | ReturnsTheTruth | `DirInv`: the directories are a tree (`TreeInv`); each call stands at some name of its path (`CallOK`) and what it has met is still there unless it is hurt (`MetOK`); a place is taken between its access() and its mkdir() only by a process that then is ahead of it (`RaceOK`); one lemma per system call |
| `FrameworkProofs!OneGetsThrough` | SomeoneGetsThrough | from `DirInv`: had all failed, the one that came furthest would have another ahead of it |
| `FrameworkProofs!NamesKept` | NamesInOrder | `SplitNames`, what the loop of SplitPath computes: by induction over the characters read, each stretch that has ended has been pushed and the one that has not is in `ch` (`CutCloses`, `CutGoes`) |
| `EpollServerProofs!EventsStayFresh` | NoStaleEvent | `WatchInv`: the server watches exactly the descriptors that are open (WatchedIffOpen), a batch names each descriptor once, a client waits in the backlog or has a descriptor, never both; the handlers rest on each other's invariants, so these are proved together |
| `EpollServerProofs!BufferIsOwed` | NoLeftovers | from `WatchInv` and `BuffInv`: a byte enters the buffer in the step that watches its sender for writing, and that watch ends only in do_write, with the memset, which clears the others' bytes as well; that a handler meets the client it is for is NoStaleEvent |
| `EpollServerProofs!EchoKeepsOrder` | EchoedInOrder | `OnceInv`: bytes wait in order and only bytes read are in the buffer or echoed; `BuffInv`: the buffer has no gaps, and while it holds something somebody is watched for writing; `OrderInv`: echo, what a 0 has cut off, buffer and unread bytes of the one sender are one sequence |
| `RedisClientProofs!ContextOwned` | NoContextLeak | `OwnInv`: a call in progress, one that is about to free a context in error included, and a successful connect all imply a context |
| `RedisClientProofs!CrashOnlyByMisuse` | CrashOnlyUnconnected | the same |
| `RedisClientProofs!ClientTyped` | RedisTypeOK | `TypeInv`: a connection never made has carried nothing; what is cut at a NUL or at the buffer's end is not longer than before |
| `RedisClientProofs!GetsAreExplained` | ReadsKnownValue, given that the server has all the databases asked for | `ReadInv`: a value followed from the call that writes it, through a request that may be executed late, to the reply a read takes; a late write of an abandoned request is among the `doubtful` |
| `DebugServerProofs!TablesAgree` | TablesConsistent | inductive as it stands |
| `DebugServerProofs!CountedAndHooked` | HookedIffEnabled | `CountInv`: the hook follows the counter, the counter the number of enabled break points |
| `RedisNOBlockProofs!CallsFinish` | NothingHalfDone | `HalfInv`: what the writing and the reading loop have left at each label; that replies keep their type needs that a queued subscription names a channel (`Asked`) |
| `RedisAsyncProofs!AsyncOwned` | OnlyDeleteLoses | `AsyncInv`: what a connect in the event loop, and one that has come back from it, have left of the context the member names; `DroppedInv`: what was dropped is in no member and was made once, so that no later connect takes it up |
| `RedisAsyncProofs!AsyncCrashesInUninit` | OnlyUninitCrashes | the same |
| `StructuresProofs!DelegatesOwned` | OwnedOnce | `OwnInv`: nulls apart, the list is the allocated addresses without repetition; `IterInv` keeps the erasing iterator inside the list |
| `StructuresProofs!IteratorsStay` | IteratorsKept, an action property | by action, from `IterInv` |
| `StructuresProofs!IsAMulticast` | IsMulticast: MultiDelegate implements Multicast | `DInv`: `OwnInv`; `HeapInv`, no two allocated delegates have the same target; `LoopInv` and `IterInv`, where the iterators of the calls in progress may stand. By action, each a step of the abstract calls or none; erasing a null moves every iterator behind it, and what a call has still to reach stays the same (`Rest...` lemmas) |
| `StructuresProofs!ListSurvives` | ListKept | `LinkInv`: what `next` of each node is, node by node, while the list is built, reversed and freed; from it `Chain` is computed by induction along the path (`ChainIsPath`) |
| `StructuresProofs!Sorts` | SortedAtEnd | `SortInv`: what j and k have passed is on its side of the moving pivot; when they have met, the range is split; a waiting call's split survives what happens inside one of its parts, because a turn rearranges the running call's range (`Moved`, a bijection for each value) and the running call is inside the part each waiting one waits for; the part a call returns with is the one its caller waited for |
| `StructuresProofs!StructuresTyped` | StructuresTypeOK | `IterInv`, `SortInv`, `ListInv`: no index of qsort leaves the array, no iterator passes the end, every pointer is a node or null |

They hold for every value of the constants that satisfies the named assumptions of
the modules (handles other than INVALID_SOCKET, positive periods, finitely many
descriptors, and the like), which TLC evaluates in every run. Two theorems have a
hypothesis of their own: SocketsSafe that only the receive thread detaches, and
GetsAreExplained that the databases the callers select exist (`Dbs \subseteq
ServerDbs`): a SELECT the server refuses leaves the client in database 0, and
`Connect2Redis` returns 1 all the same (section 5), so that without it a read may be
answered from the wrong database. The `redis` run has this hypothesis in its constants.

Each strengthened invariant was also checked by TLC on the instance of its run, but for
`LineInv`, which speaks of any two sequences of lines and cannot be enumerated.

Induction over data. The library's induction theorems take an operator as a parameter,
which the installed provers cannot instantiate. `SequenceFacts` states induction over a
set instead of a predicate (`Induction`: a subset of Nat that has 0 and with each number
the next one is Nat), proved from the existence of a least element, and from it
`Recursion`, which gives a recursive function its two equations, and the facts about
`Only` and parts of sequences. This is what LinesArriveAsTyped, IsMulticast, ListKept and
the three properties of Directory needed.

Only model-checked is all liveness: EndedClientReleased, StopEnds, InputConsumed, AppExits,
Subscribed, LeavesChat, CallsReturn, EndsOrSticks, ConnectReturns. Fairness and ENABLED
are out of the prover's reach. Every invariant, action property and refinement that a
passing run checks is also proved.

## 5. Known limits of the code

The finding, `wedged`: `Dettach` forgets the client before it sets DBG_DETACH. Besides
it the models contain these; the properties are stated around them:

- StoprServer and the destructor wait for the accept thread while its listening socket
  is still open (`debugserver.cpp:82`), and the destructor for the receive thread,
  which never ends (`:250`).
- DBG_ATTACH is published before the socket is non-blocking (`:40`): the receive
  thread may block on a silent client, and the ping timeout is then never reached.
- `Connect2Redis` returns 1 when AUTH or SELECT was answered with an error
  (`redisclient.cpp:93`, `:118`). After a refused AUTH every command fails; after a
  refused SELECT they work, in database 0.
- A pong that `recv` returns together with a command is queued as part of the command;
  commands of a client that has gone stay in the queue.
- `set_enable` called twice with the same value makes `enable_count` wrong
  (`ldebug.lua:161`). `init` called again leaves the hook (`:23`); under the hook "crl" or
  "r" no return ends the stepping then, and new break points are not met until `release`.
  The same happens when `match` is cleared for an equal line number in another file
  (`:110`). The position of a deleted break point cannot be used again (`:75`).
- The epoll server's `strlen(buff)` (`epoll/server/main.cpp:215`): a 0 byte that a client
  sends, and what follows it in the same read, is not echoed. A client that sends and
  does not read is no longer writable after a while and its input stays unread; nobody
  else waits for it. All share one buffer, so an answer may be lost or go to another.
- A line the console thread holds while StopConsole empties the queue is pushed after
  that (`debugserver.cpp:181`): the thread waits for a reader, StopConsole for the
  thread, although the comment above the loop means it to make sure "there is no data".
  Putbacks that meet a line being read become part of it. One of the two "q" lines
  stays for the next session.
- `ticking()` sets `m_pass` to the present instead of advancing it by whole periods
  (`ltimer.h:80`): LoopSec, "called every second" (`myapp.h:54`), falls behind without
  bound.
- On a context in error `redisBufferWrite` never sets `wdone`, and Breath does not
  return (`redisnoblock.cpp:117`).
- LRedisAsyncClient: after a connect whose loop has run, `m_pRedisContext` names a
  context hiredis has freed, and Uninit frees it again (`redisasyncclient.cpp:79`); a
  context in error makes the next Connect2Redis return 1; the destructor frees nothing
  (`:41`), so an object deleted without Uninit (`hiredis/test/main.cpp:71`) takes with it
  a context in error; event bases are never freed.
- CMultiDelegate: `+=` of a pointer the list already holds deletes it in the list
  (`MyDelegate.h:226`; not modelled, `newDelegate` makes a new one each time); a delegate
  that subscribes another one for itself in each call never lets the call end; a call
  nested in a delegate that has removed itself erases the node the outer call stands on.
- qsort's loop spins when both indices have come to mid (`quicksort/main.cpp:29`), as on
  two elements in descending order; on the array of its own main it does not.
- reverlist's header has an undetermined `next` when initlist is asked for no nodes.
- SplitPath drops the character that no longer fits a name of 260 and goes on with a new
  name; a path that begins with ":" counts as absolute, one with a drive letter before
  the colon does not (`path[0]` in the loop, `fileutil.h:93`); a file at the last place
  of a path counts as the directory made.
- `DebugServer::Dettach` called by the script beside the receive thread can close a
  handle twice (`debugserver.cpp:354`), and a failed `bind` leaves the listening socket
  open (`:337`). A second StartServer before the accept thread has set DBG_DETACH makes
  another listening socket, cannot bind it and forgets the first (`:325`).

## 6. Not modelled

The Luna binding: straight-line calls on the Lua stack, with one object per userdata and
nothing kept between two calls; when `__gc` runs is Lua's decision, and the destructor
it calls is the `Delete` of DebugServer. The tcp test pair: two programs for trying out
sockets that keep nothing beyond the socket. `lthread.h` (the thread is never started), the Lua host and scripts (no state; `on_tick`
is defined nowhere), the language and library demonstrations, third-party headers and
archives, and build files. Of the modelled parts: logging and printing, the parsing of
texts and configuration files, and start-up code that ends the process on failure.

Most of the lines under `include/` are third-party headers (hiredis, libevent, Lua,
MySQL, spdlog, json); of these the models contain what the program uses, as external
definitions.

## 7. What could come next

The hazards without a property are things the code does (section 5): each could become a
property of a run, or a run of its own, if the code is changed to handle it. A repository text that says to whom the epoll server's answers belong would make a
property of what is now only noted in section 3.

# TLA+ specifications of the LinuxWebsocket programs

The repository holds small Linux network programs, each in one source file (the
examples of a book on high-performance servers). Four of them are servers or parts
of servers: a multi-process **chat server**, a **sorted timer list**, the
**server that closes inactive connections** with it, and a **process pool**. Eight
more are small: demonstrations of threads, of communication between processes and of
signals, an HTTP parser and a file server. This directory models these twelve, checks
the models with TLC and proves with TLAPS the invariants and action properties TLC checks.

    tlc -workers 2 -config chat_safety.cfg MCChatServer   # one run
    tlapm UserTableProofs.tla          # the proofs; likewise the other *Proofs.tla

`PROJECT.json` lists the components, the runs, the lines each definition stands
for (`map`), defective variants of the code that each property detects
(`mutants`), the disagreements between code and comments (`findings`) and what
is hard to test in this code (`hazards`).

## 1. Inventory

| part | source | state | operations | hard behaviour | modelled |
|---|---|---|---|---|---|
| chat server, tables | `multiprocessingChatServer.cpp` | `users[]`, `sub_process[]`, `user_count` | enter a client (accept + fork), remove a dead child | entries move when one dies; pids are reused | yes: `UserTable`, `Sessions` |
| chat server, parent | same, `main` | epoll set, signal pipe, `stop_server`, `terminate` | accept, broadcast, waitpid loop, SIGTERM | merged edges and signals, a batch whose events affect each other, full pipes | yes: `ChatServer` |
| chat server, child | same, `run_child` | `idx`, `stop_child`, two fds, its segment of shared memory | read the client, announce, relay, stop | races on the shared memory, a signal between test and wait | yes: `ChatChild` |
| timer list | `linklistTimer.h` | doubly linked list | add, adjust, delete, tick, destroy | pointers at the ends of the list; the order | yes: `TimerList`, `TimerSet` |
| inactive connections | `closeNonactiveConn.cpp` | `users[fd].timer`, the list, alarm, `timeout` | accept, data, end of a connection, SIGALRM | stale pointers, fds closed by a timer, the chain of alarms, the clock | yes: `TimerServer` (accept does not fail), `Leases` |
| process pool | `processPool.h` | `m_sub_process[].m_pid`, `m_stop`, pipes | dispatch, SIGCHLD, SIGTERM; child: accept, stop | deaths before handlers are installed, `m_stop` taken back | yes: `ProcessPool` (not the class `T` it is a template of) |
| lock wrappers | `locker.h` | semaphore, mutex, condition | wait, post, lock, unlock, signal | `cond` keeps no predicate; a woken thread must get its mutex back | yes: `Locker` (not constructors and destructors) |
| dead lock demo | `deadLockDemo.cpp` | two mutexes, `a`, `b` | two threads lock both | lock order | yes: `DeadLockDemo` |
| fork and a mutex | `multithreadForkDeadlock.cpp` | one mutex, and the child's copy | fork with its handlers | fork while another thread holds the mutex | yes: `ForkMutex` |
| semaphore | `IPC_PRIVATE.cpp` | a System V semaphore, `semadj` | P, V, removal | the result of `semop` is ignored; a process is killed with the semaphore | yes: `SemMutex` |
| message queue | `msgQueueDemo.cpp` | a System V queue | send, poll | no permission, no child: a poll for a message that never comes | yes: `MsgQueue` |
| unified events | `unievent.cpp` | epoll set, signal pipe, `stop_server` | accept, signals | signals merged, edges, a full pipe | yes: `UniEvent` |
| HTTP parser | `httpparser9_3.cpp` | the buffer and its indices | `parse_line`, `parse_requestline` | a line end split between two reads | yes: `HttpParser` |
| file server | `webServer6_2.cpp` | `valid`, `file_buf` | stat, open, read, answer | uninitialized variables; the file changes in between | yes: `WebServer` |
| signal thread | `threadHandlesAllsigs.cpp` | a signal mask | `sigwait` | none in the steps | no |
| others | `socketTimeout.cpp`, `passFD.cpp`, `sigUrgent.cpp`, `sendFile6_3.cpp`, `spliceDemo6_4.c` | a descriptor or two | one straight sequence of system calls | | no |

The binary `multithreadForkDeadlock` is a build product and is not considered.

How the parts interact: the chat server's parent and children share the segments
of `share_mem` and a socketpair each; an int in a socketpair is the number of a
segment. Deaths reach the parent as SIGCHLD, through `sig_handler`, the signal
pipe, epoll and the `waitpid` loop. `closeNonactiveConn.cpp` includes
`linklistTimer.h` and drives it from one thread. The process pool stands alone,
with the same way of turning signals into events. The small programs share nothing,
with each other or with the servers; nothing includes `locker.h`.

What makes each part correct:

* tables: `users` and `sub_process` inverse to each other; entries leave only after
  the end of their own child;
* parent: every death is noticed, the server stops when it should, and no child is
  left;
* child: segments are inside the mapping and private; what is sent is relayed;
* timer list: both chains intact, sorted, nothing expired left behind by a tick;
* inactive connections: a timer for every connection and the reverse; alarms never
  end; silent clients are closed, others are not;
* pool: no death is missed, the parent outlives its children, SIGTERM ends all,
  connections are handed out;
* threads and IPC: exclusion, and nobody waits for ever for what another has given up
  (`DeadLockDemo`, where two threads can, is there to show it: nothing else goes wrong);
* parser: the same lines however the input arrives, and the request lines of the grammar;
* file server: 200 only for a file others may read, and with a buffer that was allocated.

## 2. Modules

    Sessions            abstract: the set of clients served
      ^ implemented by (ImplementsSessions)
    UserTable           the tables                         UserTableProofs
      ^ implemented by (ImplementsUserTable)                     ^ used by
    ChatServer          parent + environment               ChatServerProofs, then
      instances  ChatChild (the children), UserTable       ChatSignalsProofs, ChatSegmentsProofs;
                                                           MCChatServer
    TimerSet            abstract: operations on a set of timers
      ^ implemented, operation by operation (ImplementsTimerSet)
    TimerList           the links                          TimerListProofs; MCTimerList
    Leases              abstract: what clients may count on
      ^ implemented by (ImplementsLeases)
    TimerServer         instances TimerList                TimerServerProofs (uses
                                                           TimerListProofs); MCTimerServer
    ProcessPool                                            ProcessPoolProofs
    HttpParser, DeadLockDemo, ForkMutex, SemMutex, MsgQueue, Locker, WebServer, UniEvent
                        one program each                   MCHttpParser, MCPrograms, ProgramsProofs

The MC modules of the servers only add the symmetry set of the model values.
`MCPrograms` puts the small programs, which have at most a few thousand states each,
in one run: its variable `program` says from the start which of them runs, and the
variables of the others stay at an initial value. Its state space is thus the disjoint
union of theirs, and each property speaks of its own program. Definitions
called *defective variant* in the modules are never used by a specification;
they are plausible wrong forms of the definition that follows them, and
substituting one for the other makes a property fail (`mutants`).

### What is common to the models

* **epoll.** All fds are registered `EPOLLIN | EPOLLET`. `ready` (`cready` in a
  child) holds the fds with an edge since the last `epoll_wait`; new data, new
  connections and ends of file add to it. `epoll_wait` returns the part that is
  still readable, and forgets the rest. Data left unread therefore stay unnoticed
  until more arrive, which several of the findings are about. The events of a
  batch are handled in any order (in `ProcessPool`, where the code uses an event's
  number, the batch is a sequence and every order is tried).
* **Signals.** A pending signal of a kind merges with further ones (`sigpend`).
  `SigHandler` runs at any moment and puts the signal in the signal pipe; it
  changes nothing else, so handlers need no finer interleaving with the loop.
  `epoll_wait` returning `EINTR` leaves the loop where it was. SIGINT and SIGTERM
  share their code in the servers and are one signal, `TERM`, here. (Ctrl-C also
  reaches the chat server's children, which inherited `sig_handler` for SIGINT:
  their `send` goes to a descriptor they have closed and fails.)
* **Steps.** An action is what the program does between two points at which another
  process, or the kernel, could make a difference. Where a handler is split
  (`WipeSegment` / `RecvFromClient`, `CheckStop` / `EnterWait` / `WaitReturns`,
  `HandleSigchld` / `Reap` / `ReapDone`) it is because something can happen in
  between. Where it is not, the steps inside commute with all others: the `kill`s
  of one SIGTERM, the `send`s of one broadcast, the system calls of one accept.
* **External parts** (`"external"` in the map): clients, the clock, whoever sends
  signals, the kernel's process table and closing of sockets.

### UserTable, Sessions

An entry of `users` is named by its `pid`; `NoPid` is what it holds before it is
assigned. `children` is the kernel's set of children that exist and have not been
waited for. `AddUser(p)` is the success path of the accept branch, `RemoveUser(p)`
the body of the `waitpid` loop, including the order of its two writes to
`sub_process`: when the dead child owned the last entry, the second write undoes the
first, and a stale index stays in `sub_process`. That is harmless only because a
pid is entered again before it is looked up again, which `TableOK` shows. `zombies` are the
children that have ended (`ChildExits`, the return from `run_child`) and not been waited for.
`Sessions` says what the tables are for, as a set: a client joins while there is room, its
process ends, and only then it may leave; `serving` is mapped to the pids listed in `users`,
`ended` to the kernel's zombies. A table that gives up another entry than that of the
child waited for takes a step that is no `Leave`.

### ChatChild, ChatServer

`cpc[p]` follows child `p` through `run_child`: `forked` (it still holds the parent's
signal pipe), `unhandled` (its SIGTERM handler is not installed), `check`, `enter`,
`wait`, `handle`, `recv`, `exit`, `zombie`. `inbox` is what its client has sent,
`up`/`down` the two directions of its socketpair, `shm` the shared memory. Client
data are numbers (all different), and an announcement in a pipe carries, besides
the index, the data it announced: a history value no action's guard reads.
The parent is at `poll`, `batch` (between two events), `sigs` (between two
signals), `reap` (in the `waitpid` loop) or `stopped`.

* A parent-side fd is named by the child whose pipe it is. An event left in a batch
  after its child was reaped finds a closed fd, or the pipe of the next child with
  that name; this is also what a reused descriptor number would do, to the extent
  that the int is read by the wrong event but sent to the right children.
* `inherits[p]` are the children whose parent-side pipe ends `p` got from `fork`.
  Only that decides when a child sees the end of its pipe after the parent has gone
  (`Holders`, `HangUp`).
* A child that has not closed the inherited signal pipe when SIGTERM reaches it puts
  the signal back into the parent's pipe (`echoes` in `KillChildren`).
* A child dies only by returning from `run_child`.

### TimerList, TimerServer

Timers are addresses; `next`, `prev`, `expire` are functions on them, and a freed
address may be returned by `new` again. `Add`, `Adjust` and `Del` have one disjunct
per path of the code. `InsertAfter` is the private `add_timer`: the walk is a
function on the number of steps. `Tick` frees the expired timers from the head on,
and, as the code does, leaves `tail` dangling when the list becomes empty. A null
dereference sets `crashed`, and nothing happens after. `TimerSet` says what each operation is
for: its one variable maps the timers in the set to their times, and the refinement
mapping takes the timers *reached from `head`* (not those allocated), so that a link left
behind or cut off by mistake shows. `ImplementsTimerSet` ties each operation to its own
counterpart with the same arguments: `Tick(cur)` is `Expire(cur)`, which takes only timers
due at that `cur`, `Del(t)` is `Remove(t)`, and so on. The `add_timer` that crashes leaves the
set as it was.

`TimerServer` counts seconds, as `time()` and `alarm` do. `now` is what `time()` returns and
`alarm` how many seconds are left to the alarm that is set: `Elapse` is the beginning of a
second, and the alarm rings (`Ring`) at some moment of the second it is due in. So a
connection accepted in the middle of a slot is past its time for some seconds, with the next
alarm set, before a tick closes it. `timer_handler` is two steps, `TimerTick` (in which `tick`
reads the clock) and `SetAlarm`, because time may pass between them. The pipe of
signals holds `PipeSize` (at least two), and a signal that finds it full is dropped.
`users[fd].timer` keeps its value when the timer is deleted, as in the code. The
variable `epollfd` that `cb_func` uses is the global one, which `main` shadows and
never sets: its `epoll_ctl` fails, and the `close` that follows is what takes the
fd out of the set. `SetClockBack` sets `time()` back and leaves `alarm` alone.

`Leases` is what a client sees of it: a connection is on a lease of `Timeout` from when the
server last heard of it. Its clients speak and go (data and ends of connections that the
server has not read: `data` and `hup`), and the server takes a lease only if it has run out
(`Expire`, at the time of the clock) or if the client has gone and all it said is heard
(`GiveUp`). It is the specification of the *server*, not `TimerSet`: with the clock set back
`ClientData` may bring a timer's time forward, for which `TimerSet` has no operation, and
the list may lose its order; leases hold nevertheless.

### ProcessPool

`run_parent` waits on an epoll set that contains only the signal pipe. The constant
`Listening` says whether `m_listenfd` is in it too: FALSE is the code as it stands
and gives the finding `pool_listen`; TRUE is used in the run `pool`, so that the
code written for that event can be examined at all. The parent's pipe of signals holds
`PipeSize`; `dropped` remembers the kinds of signal that found it full with none of their
kind in it. (A SIGCHLD dropped by a pipe that holds another is no loss: `DeathsKnown`.) (Also, the in-class initialiser
of the static member `m_instance`, line 169, is not accepted by a C++ compiler, so
the header needs repair before it can be used.)

### The small programs

* **HttpParser.** What a client sends is a sequence of symbols, taken from `Input`, and
  arrives in pieces of any length. A symbol is a character that the parser tests, or a
  word (`GET`, `http://`, `HTTP/1.1`) it compares as a whole. `parse_line` is the next CR
  or LF from `checked_index` on and what follows from its neighbours; the buffer keeps the
  zeros it writes, and those of `parse_requestline` at the end of method and url. `Read` and `Parse` are the caller, which the file does not have (its
  `main` calls neither function, and does not compile for want of a semicolon in line 122).
  `LineEnds`, `Faults` and `IsRequestLine` are the reference definitions. The branch for an
  LF not reached through its CR (lines 44 to 53) never returns `LINE_OK`: a CR at the end
  of the data is looked at again, so its comment's question, whether it can go, is answered
  by *yes, down to `LINE_BAD`*.
* **DeadLockDemo.** `at[t]` is the place of a thread, `owner` the holder of each mutex. The
  two threads are the same program with `a` and `b` exchanged.
* **ForkMutex.** The child has a copy of the mutex as it is at the fork. The comments in
  the child ("it will find the lock taken", "I can not run to here") are from before the
  handlers were added: `ChildEnds` shows the opposite. glibc runs the parent's handler also
  if fork fails (`InforkParent` from `failed`). The thread that cycles the mutex can starve
  `prepare`, since it unlocks and locks without a pause; nothing is claimed before the fork.
* **SemMutex.** `semadj` is what the kernel takes back when a process ends. `P` blocks on 0;
  `PFails` is a P that returns without the semaphore: at once if there is no set, with EINTR
  if the waiting process was stopped and continued. `unguarded` remembers who came in this way.
* **MsgQueue.** `permitted` is whether the process is privileged: the mode given to `msgget`
  contains no permission bit, so for anyone else both calls fail.
* **Locker.** Threads call the member functions as they like, up to `MaxCalls` calls.
  `sem_wait` may be interrupted.
  `cond::wait` is five steps, because `pthread_cond_wait` gives up the mutex and takes it again.
  (Constructors are not modelled. That of `cond` destroys `m_cond` if `m_cond` could not be
  made, line 76, where `m_mutex` is what there is to release.)
* **WebServer.** `file` is what the name stands for and changes at any time. `valid` starts
  with any value, and only failures assign it: a legal file may be answered by 500, but 200
  needs a `stat` that found a file others may read. A `read` that gets less than was asked
  for is no failure (line 82 tests for a negative result): a file that has shrunk since
  `stat` goes out with 200 and zeros for what is missing (`file_buf` is then `"part"` or
  `"zeros"`). If `stat` fails there is no answer, and `delete[]` gets the uninitialized
  `file_buf` (`"undefined"`).
* **UniEvent.** As the parent of the chat server, without children.

## 3. Runs

| run | checks | bounds and why they are enough | distinct states |
|---|---|---|---|
| `user_table` | `TypeOK`, `TableOK`, `CountsChildren`, `SlotsOnlyMoveDown`, `ImplementsSessions` | 4 pids for 3 places: full table, reuse of pids, removal of first, middle and last, in any order of the ends of children and of their waitpids | 12 241 |
| `chat_safety` | `TypeOK`, `SlotBelowIdx`, `PrivateSegments`, `RelaysNothingOlder`, `ImplementsUserTable` | 2 children, 2 places, 3 connections (one pid used twice, or one connection refused), 2 messages (an announcement can be overtaken by the sender's next one); pipes of 1, so that they can be full; no SIGTERM and no failures, which `chat_live` has | 658 000 (with symmetry) |
| `chat_live` | `DeathReported`, `DeadChildReaped`, `DrainedServerStops`, `OrphansExit` | 2 children, 1 SIGTERM, a signal pipe of 2 (deaths, SIGTERM and the children's echoes fill it), 1 failing accept or fork, fairness; no messages, on which stopping does not depend | 59 000 |
| `timer_list` | `WellLinked`, `AdjustKeepsSorted`, `AddKeepsSorted`, `TickExpiresAll`, `ImplementsTimerSet` | 5 timers, times 0..4: a timer can have two on each side, with equal and different times | 2 100 (with symmetry) |
| `timer_server` | `TypeOK` (with that of the list), `TimersMatchConnections`, `EventsAreOfOpenFds`, `AlarmGoesOn`, `InactiveIsClosed`, `ImplementsLeases` | 2 descriptors and timers for 3 connections (both are used again), slots of 2 seconds (accepts in the middle of a slot), clock to 7 (a timer lives 6), 1 message, 1 SIGTERM, a pipe of 2 signals (can be full), clock set back once (without that a second connection crashes the server) | 3.4 million (with symmetry) |
| `pool` | `TypeOK`, `DeathsKnown`, `StopsLast`, `TermStopsPool` | 3 children, 2 connections, 1 SIGTERM, 1 crash, a pipe of 2 signals, fairness | 884 000 |
| `programs` | `ProgramsTypeOK` and, by program: | fairness where stated below | 216 000 |
| ... parser | `LinesOfText`, `AcceptsRequestLines` | texts of up to 5 of CR, LF and another character, alone and after a request line; lines of up to 3 symbols of any kind, and of GET and up to 5 of those that matter (two spaces before the version take 5); every split into reads | 200 000 |
| ... `DeadLockDemo` | `EndsSeriallyOrCrossed` | none: the program is finite | 35 |
| ... `ForkMutex` | `ChildEnds` | none | 20 |
| ... `SemMutex` | `OneUnit`, `WaitersGetIn` | none | 67 |
| ... `MsgQueue` | `MessageTaken` | none | 9 |
| ... `Locker` | `WokenReturn` | 2 threads, 5 calls: each can wait twice, with a signal between | 1 400 |
| ... `WebServer` | `SendsOnlyItsBuffer` | 2 changes of the file, one for each gap; reads that fail, fall short or get nothing | 456 |
| ... `UniEvent` | `TermStops` | 4 signals for a pipe of 2, 2 connections | 13 000 |

`CHECK_DEADLOCK FALSE` throughout: the environment's actions are bounded, and a
server that waits for them, or has stopped, has nothing to do.

`InactiveIsClosed` allows a connection to be past its time, but not for longer than since
the last tick (`since`): what `tick` left had its time to come. It speaks of the times at
which the list has always been in order; the history variable `misordered` remembers that it
once was not. In the run it never is (with two timers the order is lost only if the clock is
set back twice); the theorem covers longer lists. `TimerServer`'s other properties hold whatever the order, up to
the crash. `AlarmGoesOn` has a way out that the code has: with SIGTERMs and a full
pipe a SIGALRM can be dropped, but then the server is about to stop.

### What the code does and its comments do not say

| run | property | what happens |
|---|---|---|
| `chat_idx` | `IdxIsUsersIndex` | a child's `idx` is no longer its place in `users` once an entry was moved; two clients can then share a segment |
| `chat_accept` | `ConnectionsAccepted` | one `accept` per edge: the second of two simultaneous connections waits |
| `chat_term` | `StoppedChildExits` | SIGTERM between the test of `stop_child` and `epoll_wait` is not noticed |
| `timer_crash` | `AddNeverCrashes` | a second timer that is not earlier than the first dereferences null |
| `pool_listen` | `PoolAccepts` | `m_listenfd` is never polled |

Each is a run whose property TLC finds violated; the liveness ones are checked under
`FairSpec`, so the counterexample is not one of a process that just stops. The same
causes show elsewhere, and the models have them without a run of their own:

* the comment at `multiprocessingChatServer.cpp:179` has a child relay the data that were
  announced; the sender may have wiped or refilled its segment by then. `RelaysNothingOlder`
  says what is left: while segments are private, nothing older is sent;
* a second announcement in one event of a child's pipe waits, like the second connection
  of `chat_accept`;
* a client accepted in the batch that stops the chat server gets a child that nobody
  kills (it leaves by itself: `OrphansExit`);
* `add_timer` never inserts between the first timer and the second, against the comment
  at `linklistTimer.h:163` (`AddKeepsSorted` gives conditions under which the order is kept); with the
  clock set back this lets a silent client stay;
* a client whose last data and end of file arrive together is not noticed to be gone, and
  its child and place stay taken;
* `run_parent` selects child `j` and sends to `m_sub_process[i]`, `i` being the number of
  the event;
* `valid` in `webServer6_2.cpp` is never set to true (`if(valid)`, line 94, reads it
  uninitialized).

### Fairness

`FairSpec` assumes weak fairness of each process (the kernel's scheduler runs every
runnable process) and of the delivery of each pending signal to a running process. In
`ChatServer` the parent's fairness is that of `ParentStep` as a whole: some step of its
loop, not a particular one. `ProgramsFairness` does the same for the small programs:
each process or thread, and the delivery of signals; not for `PFails` while there is a
semaphore, `Kill`, `Wake`, or any caller. In `Locker` weak fairness is enough for a
contended mutex because the number of calls is bounded; with unbounded calls it would take
a fair mutex, which POSIX does not promise. Nothing is assumed of clients, of the clock, or of whoever
stops a server. The safety runs use no fairness.

## 4. Proofs

All proofs hold for every value of the constants that satisfies the named assumptions:

| assumption | says | because |
|---|---|---|
| `UserTableAssumption`, `ChatServerAssumption` | limits are positive, `NoPid` is not a pid, pids differ from the names of the two other fds | `USER_LIMIT` and `BUFFER_SIZE` are; names are only names |
| `TimerListAssumption` | null is no address, addresses are finitely many, times are numbers | memory |
| `TimerServerAssumption` | the same, at least as many addresses as descriptors, `MaxFd > 0`, a slot of a second or more, a pipe of two signals or more, times up to the clock's bound plus three slots | `new` does not fail; `FD_LIMIT` is 65535; `TIMESLOT` is 5; a socket's buffer holds many bytes; `expire` is the clock plus `3 * TIMESLOT` |
| `ProcessPoolAssumption` | 1 to 15 children; a pipe that holds a signal | the assertion at `processPool.h:176`; a socket's buffer |
| `HttpParserAssumption`, `ProgramsAssumption` | texts are sequences of symbols, bounds are numbers | |

| module | theorems: of the runs' properties; and others |
|---|---|
| `UserTableProofs` | `TypeOK`, `TableOK`, `CountsChildren`, `SlotsOnlyMoveDown`, `ImplementsSessions` |
| `ChatServerProofs` | `SlotBelowIdx`, `ImplementsUserTable`; the `ImplementsSessions` of `UserTable` for the whole server; indices inside the mapping |
| `ChatSignalsProofs` | `DeathReported`; a SIGTERM is kept (`TermIsKept`) |
| `ChatSegmentsProofs` | `TypeOK` of `ChatServer`, `PrivateSegments`, `RelaysNothingOlder`; how the server ends (`DrainedServerEnds`, `OneChildLeft`, `NoOrphanStuck`) |
| `TimerListProofs` | `WellLinked`, `TickExpiresAll`, `AddKeepsSorted`, `AdjustKeepsSorted`, `ImplementsTimerSet` |
| `TimerServerProofs` | `TypeOK`, `TimersMatchConnections`, `EventsAreOfOpenFds`, `AlarmGoesOn`, `InactiveIsClosed`, `ImplementsLeases`; `WellLinked` for the list in the server; `LeasesAreShort`, `TermGoesOn` |
| `ProcessPoolProofs` | `TypeOK`, `DeathsKnown`, `StopsLast`; `m_pid` names the children not waited for (`PidsAreChildren`); how the pool ends (`TermDoomsForGood`, `NeverRestsEarly`) |
| `ProgramsProofs` | `ProgramsTypeOK`, `LinesOfText`, `AcceptsRequestLines`, `OneUnit`, `SendsOnlyItsBuffer`, `EndsSeriallyOrCrossed`; who waits for whom (`ForkedMutexIsFree`, `UnitNeverWithTheDead`, `MessageNotLost`, `WaitGivesMutexBack`, `TermStaysOnItsWay`) |

**UserTableProofs.** `IInv` is `TypeOK`, `TableOK` and `CountsChildren` together with the
finiteness of the set of children; `TableOK` alone is not inductive, since it says
nothing of `user_count` against the limit, and `CountsChildren` needs both halves of
`TableOK` to know that exactly one entry goes when a child is removed. The case
analysis in `RemoveUserInv` is on whether the dead child owned the last entry.
`SlotsMoveDown` uses that the last entry is the only one that moves, and to a lower
index; `Implementation` shows that `AddUser` is `Join`, `ChildExits` is `End` and
`RemoveUser(p)` is `Leave(p)`, of the same `p`, on the set of listed children: filling a hole
with the last entry loses nobody, and who is lost had ended.

**ChatServerProofs.** Every step of the server is `AcceptClient`, `Reap`, or *quiet*: it
leaves the tables, the `idx`s and the set of children alone (`QuietSteps`). The
invariant `IInv` joins that of `UserTable` (used through an instance of
`UserTableProofs`) with the types the proof needs and with `SlotBelowIdx`. `SlotsBelow`
is the reason why a child may use a stale `idx` without leaving the mapping
(`SegmentsInMapping`). `Implementation` carries all theorems of `UserTable` over to the
server; `ServesSessions` does so for the refinement of `Sessions`, so that the two
refinements compose: the children forked and not yet waited for are the sessions, the
`zombie`s among them those that have ended.

**ChatSignalsProofs.** `DeathReported` becomes inductive with two facts on where the loop
is: `batch` is empty when it polls, and `signals[]` is empty when it is outside the loop
over signals (`LoopShape`); without them `epoll_wait` or `recv` could overwrite an event
or a SIGCHLD not yet handled. Most steps are *bystanders*, which move no signal and let
nobody die unreported. The others move SIGCHLD on by one stage: `PutSignalsKeeps` (a
signal added never displaces one in the pipe), `PollReturnsSigInv` (the edge is returned
because the pipe is not empty), `TailKeeps` (a SIGTERM worked off leaves the SIGCHLDs
behind it), and `ReapDoneSigInv` (the waitpid loop ends only when nobody is dead). The
number of echoes of a SIGTERM is finite because the children are: this is where `IInv` of
ChatServerProofs is used. A SIGTERM goes the same way: while the pipe holds anything its edge
is still to be reported (`PipeReported`), and a step that takes a SIGTERM from one stage puts
it into the next, unless the pipe is full (`PutSignalsFits`).

**ChatSegmentsProofs.** `KindInv` says of every variable what it may hold and where; its
numeric part bounds connections accepted by connections made. `SegInv` says, while nobody
has left (`Private`: as many forks as users): a child's `idx` is its place in the table
(`OwnSlot`), the announcements on their way up carry the sender's own index, those on
their way down never the receiver's, and the segment of each announcement still holds the
announced data, or was wiped for a new owner, or holds later data, while what its owner
has not read is later still (`Current`). Queues of a child that is gone are empty and the messages
in a client's queue ascend (`QueuesOK`), so that a segment only ever gets newer content.
Most steps are *still*, which one lemma deals with.

Its last part is about the end. `Stopping` says that `stop_server` comes only with an empty
table, that it is tested before the next wait, and that the one accept the last batch may
still hold makes at most one user. So the child left behind was forked when `users` was
empty: it inherited no other pipe, and since nobody else is listed nothing was ever announced
to it (`LastPipe`). That matters because fds are edge-triggered: with an int before the end
of file, `recv` would take the int, the edge would be used up, and the child would wait for
ever. `HangUps` then follows the end of file from the edge through the batch to `stop_child`,
in every place the child may be at when it comes.

**TimerListProofs.** The list is a `Chain`: there is a number `n` and a sequence of `n`
different timers, all that are allocated, and the links are what that sequence says.
The invariant is that there is one, and that the links of unallocated timers are null,
which `add_timer` relies on when it inserts without clearing them. Each operation inserts
behind the k-th element, removes the k-th, or drops the first k; what these do to the
links is proved once for chains (`LinksIn`, `LinksOut`, `LinksOff`) and used by each path
of the code that does so. That following the links from `head` finds the chain, in at most
as many steps as there are timers, takes an induction on the step (`PathDef`). `WellLinked`,
the order properties and the refinement all speak of that walk. `ListIsTimerSet` maps the
list to the times of the timers reached, and takes the operations one by one: what is reached
after each is what was reached before with the one change the operation is for.

**TimerServerProofs.** The server calls the operations of `TimerList` through its own
instance; `SInv` has the list's invariant (through an instance of `TimerListProofs`), the
types, that events in a batch are of descriptors with something to read,
`TimersMatchConnections`, and that `misordered` remembers a loss of order (`OrderNoted`).
`TimersMatchConnections` and the list's invariant need each other: del_timer is called for
a timer that is in the list because the connection is open. `AlarmGoesOn` follows the signal
from the alarm through the pipe to `timeout`. At most one SIGALRM is on its way at a time
(`AlarmOnce`), so what fills the pipe when one is dropped holds a SIGTERM; a SIGTERM dropped
finds another there in the same way, and what is in the pipe has its edge still to be reported
(`PipeOK`). `InactiveIsClosed` is inductive on top of `SInv`: `since` goes up with the clock, and
only a tick, which leaves nothing that is due, resets it.
`KeepsLeases` maps the open connections to the times of their timers and shows each step to
be one of `Leases`: `Accept` opens one although the fd and the timer's address may have
served others (`AcceptOpens`), a connection closed by `ClientGone` is one whose client has gone and was
heard out (`GoneGivesUp`), a deleted timer takes no other connection's time with it
(`FreedLeases`), and what `tick` frees has run out, wherever it stops (`TickExpires`). It
holds without any assumption on the clock, the list's order, or the absence of the crash.
`LeasesAreShort` bounds the leases from above, step by step in `Leases` and not in the
server. `TermGoesOn` follows SIGTERM as `AlarmGoesOn` does SIGALRM.

**ProcessPoolProofs.** `PidsAreChildren` needs to know what can still make the parent
notice a child's death, and `StopsLast` that `m_stop` implies that no entry is left
(`StopMeansEmpty`); the three are inductive only together (`Deaths`). The types need
counting: a batch reports a source at most once, and an int is written to a pipe once for
each reported connection (`Accounts`), so that what waits in the pipes and what has been
accepted stay natural numbers within the connections made.

`EndInv` is about the end of the pool. A SIGCHLD noted is pending, in the pipe with its event
or read, and neither a batch of events that `Dispatch` ends early nor a full pipe that holds
another loses one (`DeathsKnown`). `m_stop` may be taken back by a SIGCHLD that finds
children, but a child that was told to stop stays `Doomed` (`TermDoomsForGood`): it has ended,
or has the signal in its own pipe with the event that makes it read it. Both together say that
the pool does not come to rest before the parent has left (`NeverRestsEarly`), unless a full
pipe has dropped a signal and held none of its kind.

**ProgramsProofs.** Each small program has its own invariant, proved for its own
`Next`; a step of the whole is for each program a step of it or none (`StepOfEach`).
`SemInv` follows which units of the semaphore each process owes or will get back
(`Owed`, by its place), `DeadInv` fixes the owner of each mutex and the value of each
counter by the places of the two threads; `WebInv` relates `valid`, `file_buf` and
`found` to the place of the server. `ParserInv` says that the buffer is the text from
`checked_index` on, that the character before it is no CR (in either), and `LinesOfText`;
`ParseLineStops` says what `parse_line` returns, in terms of the text, `PlainText` that
skipping characters without CR and LF loses no line and no fault, and `MoreText` that
text that arrives later changes neither behind `checked_index`. `AcceptsRequestLines`
follows the first line of the text: until it is found nothing before it is overwritten
and nothing is answered (`FirstLine`), and later reads do not change it (`ReadKeepsFirst`);
that `parse_requestline`, which cuts the line by searches for blanks, accepts exactly the
lines of the grammar is `RequestLines`. `EndsSeriallyOrCrossed`
speaks of rest as no thread's `CanMove`, which is `ENABLED` spelled out for this program's
steps (its 35 states show the two to be the same): `ENABLED` is beyond the prover.
`NobodyForgotten` is about waiting: who holds a mutex is about to give it up, a message sent
can be taken, signals in the pipe have their edge. With `SemInv` it gives the theorems on who
waits for whom.

The library's induction theorems cannot be used, since they take an operator as a
parameter; where induction is needed (the walk along the list, least elements) the proof
takes the least counterexample, which `WFMin` provides.

Only model-checked: the nine liveness properties (fairness is beyond the prover):
`DeadChildReaped`, `DrainedServerStops`, `OrphansExit`, `TermStopsPool`, `ChildEnds`,
`WaitersGetIn`, `MessageTaken`, `WokenReturn`, `TermStops`. Of each, the part that depends on
the order of steps is proved: what is waited for is never lost on its way, and whoever waits
can be woken. What is left to TLC is that the fair processes then take these steps:

| liveness property | what is proved towards it |
|---|---|
| `DeadChildReaped` | `DeathReported` |
| `DrainedServerStops` | `DrainedServerEnds` (and `TermIsKept`) |
| `OrphansExit` | `OneChildLeft`, `NoOrphanStuck` |
| `TermStopsPool` | `NoDeathMissed`, `TermDoomsForGood`, `NeverRestsEarly` |
| `ChildEnds`, `WaitersGetIn` | `ForkedMutexIsFree`, `UnitNeverWithTheDead` |
| `MessageTaken`, `WokenReturn`, `TermStops` | `MessageNotLost`, `WaitGivesMutexBack`, `TermStaysOnItsWay` |

The five disagreements of section 3 are counterexamples, for TLC alone.

## 5. Not modelled

In the modelled parts: data of messages beyond their identity; what is written to a
client's socket; failing `epoll_wait`, `socketpair` and `recv` with errors other than the
end of file (they leave by the same path where the code treats them alike); leaked
descriptors after a failed fork; accept failing in `closeNonactiveConn.cpp`, where its
result is used as an array index and what follows is undefined; the class `T` of the
process pool, of which the repository has no instance; constructors of the lock wrappers.

Whole files: `threadHandlesAllsigs.cpp` is a loop around `sigwait` (that `main` sends
SIGUSR2, which is not in the mask and ends the process, is seen by reading);
`socketTimeout.cpp`, `passFD.cpp`, `sendFile6_3.cpp` and `spliceDemo6_4.c` are one sequence
of system calls each, whose state is the kernel's; `sigUrgent.cpp` prints what it receives.

## 6. Plan

Done: the four servers, the small programs, the abstract specifications `Sessions`,
`TimerSet` and `Leases`, theorems for every invariant, action property and refinement the
runs check, and for the part of each liveness property that is one of safety.

What is left has no property: the hazards listed without one (a client's data that
wait for more, descriptors leaked by a failed fork, announcements dropped at a full pipe or
merged in it, `accept` failing in `closeNonactiveConn.cpp`, the number of an event taken for
that of a child, pids given to other processes, a message that could not be sent), of which
each `note` in `PROJECT.json` says why; and the files of section 5.

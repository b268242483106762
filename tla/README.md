# TLA+ specifications of yans

yans is a set of small cooperating daemons and tools written in C: process
supervision and an event loop (`lib/util/eds.c`), daemons built on it (knegd,
stored, clid, fc2), an SCGI server that forks per request (sc2), a resolver
thread pool, a network scanner with the programs that process its results, and
libraries for messages, tables and input. These modules specify the parts whose
correctness depends on the order of events (signals against main loops, callbacks
inside callbacks, threads, files left behind by a dead process) and the
algorithms whose corners a test hardly reaches.

Every definition is translated from the C code; `PROJECT.json` maps each one to
its lines.

## Inventory

| Part | State | Operations | What makes it hard |
|---|---|---|---|
| sc2 `apps/sc2/main.c` | slot table, `used`, `term_`, signal mask | serve loop, fork and register, SIGCHLD handler, lifetime kill | the handler preempts the loop anywhere, pid reuse, capacity |
| eds supervisor `lib/util/eds.c` | `pids[]` per service, restart counter | start, wait and restart, shutdown | deaths during start, restart and shutdown; failed fork; rate limit |
| eds listener `lib/util/eds.c` | client table, descriptor sets, tickers | select round, client API, removal | callbacks that remove, add or send on any client, nested; descriptor reuse |
| knegd `apps/knegd/kng.c` | job list, queue directory, ID links | requests, dispatch, tick, reaping, restart | crash between steps, failed starts, traversal kept open, lost SIGCHLD |
| dnstres `lib/net/dnstres.c` | request list, references, condition variable | add, resolve, free | free against add and resolve, last reference, wake-ups |
| clid `apps/clid/resolver.c` | clients waiting for results, descriptors | receive, send, resolve, stop | threads and event loop share the descriptor table |
| fc2 `apps/fc2/fc2.c`, `fcgi.c` | client and CGI process pairs | parse, fork, relay, reap | either side ends first, exit against end of output |
| stored `apps/stored/store.c`, `sindex.c`, its clients, ycl | store entered by a client, buffers, index | enter, open, list, rename, index | buffers shared and reused, short reads and writes, crash, index replaced |
| scan: bgrab over `reaplan.c`, `idset.c` | connection slots, timer, close queue | connect, read, write, expire | one connection twice in a batch, throttling, timeout |
| scan: collate, `component.c` | tables of services, chains, components | five programs | IDs joined through files, limits of a service |
| generators `dsts.c`, `ip.c`, `ports.c`, `reorder.c` | cursors | next, reset | wrap-around, merging, rejected values |
| tables `idtbl.c`, `objtbl.c`, `deduptbl.c` | open addressing with probe distances | insert, remove, contains, grow, sort | shifting, full table, death while entries move |
| vulnspec, vulngen, versions | compiled program, interpreter | parse, write, validate, evaluate | offsets, shared strings, nesting, a file cut short |
| webfetch `fetch.c`, modules | transfers, receive buffers | start, receive, complete | chunks of any size, limit, any order of ends |
| CSV, lines, netstring, SCGI, a2 `yapi.c` | reader positions | read | boundaries of chunks, left-over bytes |

Everything else (option parsing, logging, sandboxing, printing, generated code)
is I/O without state that a property could be about; `PROJECT.json` lists it with
the reason.

## Modules

| Module | Models |
|---|---|
| `Sc2`, `Sc2Proofs`, `MCSc2` | sc2, with its proofs |
| `EdsSupervisor`, `EdsSupervisorProofs`, `MCEdsSupervisor` | the supervisor process of eds |
| `Eds`, `EdsProofs`, `MCEds` | one listener process: its select loop and client API |
| `KngQueue`, `Kng`, `MCKng`, `KngJobProofs`, `KngProofs` | knegd: the queue on disk; the daemon over it and over the reaping of eds |
| `DnstresAbs`, `Dnstres`, `DnstresProofs`, `MCDnstres` | the resolver pool and what its header promises |
| `Clid`, `ClidProofs`, `MCClid` | the resolver service over eds and the pool, with its clients |
| `Store`, `MCStore` | stored over eds, its index, and the clients with ycl and the opener |
| `Fc2`, `MCFc2` | fc2 over eds, the web server and the CGI processes |
| `Reaplan`, `ReaplanProofs`, `MCReaplan` | the connection engine and the banner grabber |
| `Tables` | the three hash tables |
| `Generators` | address, port and destination generators |
| `Collate` | the programs of `scan collate` |
| `Vulnspec` | vulngen and the interpreter of its files, version comparison |
| `Webfetch` | webfetch over libcurl |
| `Readers` | CSV, lines, netstring and SCGI readers, a2's reading of a request |
| `MCLibrary` | the last six together, one at a time |

Operators named as variants of another (`ForkUnmasked` before `Fork`) are faulty
forms of it, kept to show that a property notices the fault; no specification
uses them.

### Sc2

`pid`, `waited` and `age` are the slot table, `used` is `ctx->used`, `proc` is
the kernel's view of the children. The main loop is a program counter with one
step per point at which the signal handler can run: one slot of
`sc2_check_procs` and of `sc2_reset_reaped` at a time, the term check, the
capacity check, `poll`, `accept`, `fork`, registration. The handler is its own
sequence (`HandlerEnter`, one `Reap` per child, `HandlerReturn`) that suspends
the loop, and cannot start while SIGCHLD is masked. The two `assert`s of the code
are transitions to `pc = "abort"`. `ReusePids` says whether the kernel may hand
out the pid of a reaped child that a slot still names; the safety properties
other than `NoSlotLeak` do not depend on it.

### EdsSupervisor

`pids` is the `pids[]` array of each service, `alloc` whether it is allocated,
`nrestarts` and `recent` the counter of `test_restart_interval` and whether
`last_restart` is the current second. `fork` may fail at any time (`broken`
records it). `RestartRate` is strict: the restart that would make the counter
reach `MAX_SERVICE_RESTARTS_PER_SEC` is not made, the service is given up. A stop
sends SIGTERM to all, sleeps, sends SIGKILL to all and frees the arrays; a listener
that got SIGTERM may or may not end by itself. The SIGKILL loop does not skip
entries that are -1 (`eds.c:770`), those of a service that was given up or whose
fork failed: `KillListener` has the `kill(-1)` for the processes of the model, and
what it would do to others is outside it.

### Eds

The variables are the fields of a client (`inuse`, `removed`, `susp`, `ext`,
`onr`, `onw`, `trans`, `ticker`) as sets and functions over descriptors, the
listener's sets `rfds`, `wfds`, `cmd`, and the copies `rsel`, `wsel`, `num` of
one round. Calls nest in this code: a callback calls the API, which runs another
callback. `stack` is the C stack of those calls, and every API call is an action
possible whenever a callback is on top. `MaxOps` bounds the API calls of a round
and `MaxDepth` the nesting. A service only passes clients that are in use, or
its own (`Targets`). A failing `accept4` starts the round over or leaves the loop
for the cleanup of all clients, as a stop does. A step of `on_eds_client_send` that
ends in a callback puts the frame of that callback in place of its own, which is
why `CallbacksInLifetime` looks at frames that are replaced as well as at those
that are added.

### KngQueue and Kng

A queue file's name is the second and the sequence number; `files` maps names to
contents and modification times, `dirtime` the directories to theirs, `links` IDs
to names, `fts` is the traversal that `kngq_next_file` keeps open between calls.
`Kng` runs request handlers, dispatch, tick and reaping over it, one step per
system call that a crash can separate: create, write, link; read (with the
removal of the link), unlink, start. `Crash` may happen at any of them; `ModInit`
starts on what is left. `acked`, `tried` and `reqs` count, for the properties,
what was promised, started and asked.

A directory or a complete file may fail to be read (`Fault`, at most `MaxFaults`
times): no memory, an error of the disk, or no descriptor left, for which knegd has
a source of its own: `kngq_next` expects `ycl_close` to close the file it read
(`kng.c:440`, "takes ownership of fd"), but `ycl_close` only closes a descriptor
that ycl opened itself (`ycl.c:44`, `67`), so each file that is read stays open. A
file that is not read is removed all the same, its link stays, and `dispatch_n_jobs`
ends; `unread` and `cut` record it. A file that a dead daemon left half written is
treated the same way.

`NamesRecur` says when a queue file's name can come up a second time, since `seq`
starts at 0 with the process: after a death, or after a shutdown with files left
in the queue because of a failure. There `kngq_put` opens a file that exists, with
neither `O_EXCL` nor `O_TRUNC`; `overwritten` counts what is lost by it.

Assumptions: `unlink(2)` of a queue file and of a link does not fail; a failing
`fts_open` is a `Crash` (its result is used unchecked); seconds pass while the
daemon waits, is down, or writes; jobs of a dead daemon are not followed; the
directory names do not wrap around (there are 256 in the code); the branch for a
queued request without type or ID is unreachable, since requests are validated
before they are queued.

### DnstresAbs and Dnstres

`DnstresAbs` is the contract of `dnstres.h`: a submitted request has each of its
hosts reported once and then `on_done` once; freeing the pool drops queued
hosts; a request may be refused then. `Dnstres` has the mutex, the condition
variable with spurious wake-ups, the reference counts, one caller, one freer
(the signal thread of clid) and the resolver threads, and is shown to implement
`DnstresAbs` with the refinement `closing <- done`.

### Clid

The event loop, the threads of the pool and the signal thread of clid run in one
process, so they share `fdt`, the descriptor table in which every call takes the
lowest free number. `slot` and `ud` are eds' client and `struct resolver_cli` of a
descriptor, `run` the callback in progress; the pool does what `DnstresAbs`
promises (report each host once, then `on_done`). `buffer` and `file` tell the
lines in a `FILE` from those in the result file. The program that asks is part of
the model, since it decides when it hangs up. The data of a descriptor starts as
`calloc` left it, with 0 where -1 is meant, so a client that is removed before its
first request has descriptor 0 closed by the cleanup. `NullKept` says that this has
not happened yet. Allocations may fail at each place that has one; `dropped` are
the clients whose request had no memory, which see the end without their lines.

### Store

`eds` and `udata` are what the daemon keeps per descriptor, `stk` the callbacks
in progress (a handler that sets a callback runs it at once), `up` and `down` the
two directions of a connection. A message is two chunks so that every read can be
short; a list may be written short too. `files`, `index`, `link` and `fp` are the
disk: stores with their files, index files by inode, the inode `INDEX` names and
the one the daemon writes. `Crash` restarts the daemon on the disk; `UnlinkIndex`
removes `INDEX` under it. A client runs one command at a time as the script of
requests that `apps/store`, the opener or knegd makes of it. Responses of a status
are taken to fit into the socket, and no client of the repository sends a request
before it has the answer to the last, so the socket is not full when a descriptor
is sent. `put_index` may fail and leave nothing or a part of an entry (`Bad`): such
an index has a size that is no multiple of an entry's and is refused as a whole
(`BadIndex`). Making `INDEX` anew may fail (the stream stays closed, `fp = 0`), and
so may opening it, in which case the client gets the error and the null descriptor.

### Fc2

A request has two eds clients, its connection and the socket of its CGI process,
whose data (`ud`) hold pointers to each other. `run` is the callback in progress;
every callback of fc2 ends with the call of the next one, so one is enough. `cgi`
is the process with its socket, `sigchld` the flag of the listener. FastCGI
messages arrive in pieces and may belong to other request IDs. Forking may fail
before the process exists, or after (`PostforkFails`: it is killed), and the
parameters may exceed `MAX_PARAMSZ`. The result of `fcgi_cli_init`, which the code
ignores, is taken to be success.

### Reaplan

One action per step of the loop of `reaplan_run`: connect, `kevent` (which returns
any batch of pending events up to the limit), handling of one event with bgrab's
callback, closing, expiry and timer. `sock` is the peer's end: it may accept,
refuse, stay silent, send or close. `free` and `full` are the ID set. `started`
counts connections since the timer fired. Three things of the error paths are not
visible in it: `reaplan_cleanup` after a failure uses the ID set after it was freed
(`Fail` only closes); `malloc` for a destination may fail (`bgrab.c:290`); and a
socket that cannot be registered is not closed (`bgrab.c:416`).

### Tables, Generators, Collate, Vulnspec, Webfetch, Readers

These are sequential. `Tables` has the layout of the three tables with distances,
and takes the hash values from a set of functions chosen so that everything
collides, nothing does, or two clusters meet; an update of the mapped table is one
step per store, with the process killed in between. `Generators` keeps the
wrap-around of addresses (`AddrBits` for 32), of the linear congruential generator
and of ports, and refuses a text with an address or port that does not parse.
`Collate` runs its programs one after the other over rows, with the CSV rule that
null and empty are the same when read back; a banner that does not parse ends
`banners` without output, and the reading of `matches`. `Vulnspec` compiles to cells
that refer to each other by offset, as the code does by bytes, cuts source and file
at every place, and evaluates components one after the other. `Webfetch` leaves the
choice of chunks, the order of ends and failures to libcurl, and ends when `select`
fails. `Readers` reads what was written by the CSV encoder, a file by chunks, a
request by any split of its bytes, also one whose frame is no netstring.

## Runs

Passing runs (distinct states are those TLC reports):

| Run | Instance | States | Shows |
|---|---|---|---|
| `sc2` | 2 slots, lifetime 1, 3 pids | 47 thousand | the counter equals the table and no slot is lost (`SlotTable`), no assert fails, never more than maxreqs children; a slot is given back |
| `eds_supervisor` | services of 2 and 1 processes, 2 restarts a second, 4 pids | 129 thousand | each listener is in one slot and none is left after a stop (`ListenersReachable`); fewer restarts a second than the limit; the dead are replaced while fork works |
| `eds` | client structures for 3 descriptors, 2 of them used by clients, 2 calls a round, depth 4 | 3.4 million | descriptor sets, open descriptors and tickers match the clients (`ClientsConsistent`), no ready client skipped, callbacks, those of a completed send included, within a client's life and `on_done` once at its end |
| `kng_queue` | 2 IDs, 2 pids, 1 slot, 3 requests, 1 crash, 1 stop, 1 failure to read, 3 seconds | 2.7 million | a request starts at most once even across a crash; what is accepted is lost only to a failure to read, to a death while in hand or to a name that recurs, and until then links match files (`QueueFaithful`); no slot idles unless a failure to read ended the dispatch (`SlotsUsed`); oldest first within a directory |
| `kng_jobs` | 1 ID, 2 pids, 1 slot, 1 crash, 1 failure to read | 155 thousand | every job ends, by itself or by SIGTERM then SIGKILL |
| `dnstres` | 2 threads, requests of 2, 1 and 0 hosts | 47 thousand | references exact and nothing left after free (`RequestsOwned`), the refinement, requests finish and free returns (`PoolDrains`) |
| `store` | 2 connections, 2 commands of 7 kinds, 2 IDs and names, 1 fault | 720 thousand | answers reach their own client and stores are made once (`AnswersOwn`); descriptors released; index exact; commands end |
| `fc2` | 1 request of 3 kinds, 2 chunks of output, sockets of 1 unit | 136 thousand | body and output whole and in order, the pair linked, both ends removed in the end |
| `scan` | 2 connections, 2 or 3 destinations, with and without delay and TLS | 431 thousand | slots exact, each destination done with once, connection rate, the run ends |
| `clid` | clients with 1 and 2 hosts, descriptors 0 to 7 | 225 thousand | until a client whose data was never set is removed, the end of the signal means a complete file (`CompleteWhileNull`) and an open descriptor has one owner (`DescriptorsOwned`); every program ends in any case |
| `library` | the six sequential modules | 604 thousand | each gives what its reference definition says |

One run shows where a comment and the code differ: `clid_zero`, the model of `clid`
with a third client and no condition on descriptor 0. The descriptor that clid
sends is "used to signal when the resolving is done" (`resolver.c:164`), after the
result file was closed "to be sure that all data is flushed" (`resolver.c:151`). In
the run two clients are removed before their first request. The cleanup of the
first closes descriptor 0, which its zeroed data names (`resolver.c:308`); the
socket pair of a third client is given number 0; the cleanup of the second closes
that, and the third client sees the end before its first line is written.

### Further configurations

These instances of the same modules show other differences between a comment and
the code, each as a counterexample to one property:

| Configuration | Property | The comment | What happens |
|---|---|---|---|
| `MCSc2Term.cfg` | `TermStops` | sc2 breaks its loop on requested termination (`main.c:396`) | SIGTERM between the check and `poll` waits for the next event |
| `MCEdsSupervisorRestart.cfg` | `AlwaysRestarted` | terminated processes are always restarted (`eds.h:178`) | not after a failed fork |
| `MCEdsSend.cfg` | `SentDataKeepsWriter` | a send transitions to the next state on success (`eds.h:148`) | the transition of an outer send takes the writer of an inner one |
| `MCEdsLimit.cfg` | `LimitKept` | accepting stops at the set limit (`eds.c:254`) | the limit is tested on the newest descriptor only |
| `MCKngOrder.cfg` | `OldestOfQueue` | the oldest entry is returned (`kng.c:416`) | directories are ordered by their own modification time |
| `MCKngReap.cfg` | `DeadReaped` | the flag is cleared after reaping zombies (`eds.c:62`) | a SIGCHLD just before the clearing is forgotten |
| `MCLibraryLines.cfg` | `LastLineRead` | it is OK for the last line not to end with a newline (`lines.c:120`) | such a line is only returned if no other newline, but one at its very start, is in its chunk |

**Bounds.** Two slots, clients, threads or processes let every pair of them
interleave, with one more pid than can be alive at once so that a fresh one is
always there. Two descriptors allow a callback to act on itself and on another
client before and after it in the scan, and to take over its descriptor. The
queue needs three requests for one running, one queued and one arriving, and two
seconds' difference for the order of files and directories; one failure to read
(`MaxFaults`) can meet each of the three. Properties about the
order of queued files over directories use `DirSpan`, the seconds that share a
directory. The `VIEW`s leave out fields that the code does not read again
before it writes them; symmetry is used only in runs without liveness.
In `store` two commands meet on two connections or follow each other on one, so
that a buffer, a descriptor or an ID is used again; the faults (a hang-up, a
crash, a removed index) come one at a time. In `scan` a third destination needs
the slot of an earlier one, and a batch has room for the two events of one
connection. In `clid` the second client can take every descriptor the first one
frees. In `library` the tables grow, fill and wrap around with five keys in
eight slots; addresses have 3 bits, so that all lists of two blocks are covered
up to the largest address; files have up to three banners, lines up to ten
characters in chunks of five, and requests are split at every byte.

**Fairness.** sc2, the supervisor and knegd are single threads that the kernel
schedules (weak fairness of their steps), the clock runs, and a process that was
sent SIGKILL ends. The supervisor's `wait` gives each zombie its turn (strong
fairness). The knegd tick comes round although requests also arrive (strong
fairness of `OnTick`). In the pool a thread that asks for the mutex again and
again gets it (strong fairness of `Lock` and `Insert`) and lookups return.
In stored and fc2 a callback goes on (weak fairness) and the scan of select
serves every ready descriptor in its round (strong fairness of `Accept` and
`Event`); the store's clients go on with their script, the web server reads its
response and a CGI process its input. In reaplan the loop goes on, seconds pass,
and kevent reports an expired timer in some batch (strong fairness of `Second`
and `TimerFires`). In clid the loop, the threads and the programs go on.
Nothing is assumed about peers that are scanned, about jobs and children ending
by themselves, about CGI processes writing or ending, or about anyone freeing
the pool.

**Deadlock** is checked in every run but the two of `MCLibrary`, whose programs
and algorithms end; the modules of the daemons that end have an explicit final
step (`Finished`), and knegd can always be started again.

## What holds only with an exception

Modelling the code line by line showed a few places where it does not do what one
would expect. The properties leave them out by name or by the inputs of the run:

- `Generators`: a block that ends at the largest address is merged as if the next
  address were 0 (`ip.c:518`, `WrapsAround`); a shuffled range of the full width
  never ends, as the overflow flag is never set (`reorder.c:107`,
  `EndlessReorder`); blocks of the same zone are not merged when one of another
  zone sorts between them (`MixesZones`). In all three every value is still given
  and no other one is, but values may be given twice.
- `Tables`: a deduptbl whose process was killed may lack one ID for each death
  (`deduptbl.c:263`); two processes must not update it at once, it is mapped
  without a lock. The largest ID marks an empty slot of an idtbl; a lookup or
  removal of it is left out, as no caller passes it (only the tests remove it).
- `Collate`: a banner without a name, and one whose protocol found no room in its
  service, lose their components; the test for an empty version in `cves`
  compares the pointer, but vulnspec has no match for an empty version anyway.
- `Webfetch`: a message that cannot be parsed costs a fetcher when met at the
  start, and ends the reading when met later (`fetch.c:436`, `457`).
- `Readers`: an empty line at the end of a chunk is skipped, a line that fills its
  chunk up to the newline is followed by an empty one that is not in the file, and
  a row of one empty field is read back as a row without a column. The limit of
  `yapi_read` is only met by a body longer than it announced to be.
- `Reaplan`: without a delay per tick the loop can wait for silent peers without a
  timer (`reaplan.c:511`); `RunEnds` is about runs with a delay.
- `Fc2`: one request at a time; the pointers that an ended request leaves in the
  data of its descriptors are not followed into a second one.
- `Clid`: after SIGTERM, and without memory for a request, results may be
  incomplete; for descriptor 0 see the run `clid_zero`.
- `Kng`: after a crash, or a shutdown that a failure to read preceded, within the
  second of a put, the next process may use the same file name (`NamesRecur`).

## Proofs

Seven components have their safety properties proved for every value of the
constants, each from the assumption on the constants that its module states
(knegd's proof takes two modules: `KngJobProofs` has the lemmas on the part of the
invariant that survives a crash, `KngProofs` the rest and the theorems):

| Module | Theorems | Assumption |
|---|---|---|
| `Sc2Proofs` | `InvariantHolds`, `Sc2Safety`, `SlotTableHolds`, `NoAbortHolds`, `NoOvercommitHolds` | `Sc2Assumption`: any slots, lifetime, finite set of pids, with or without pid reuse |
| `EdsSupervisorProofs` | `SupervisorInvariant`, `ListenersReachableHolds`, `RestartRateHolds` | `SupervisorAssumption`: any service table, restart limit and set of pids |
| `EdsProofs` | `ListenerInvariant`, `ClientsConsistentHolds`, `NoEventSkippedHolds`, `CallbacksInLifetimeHolds` | `EdsAssumption`: any number of descriptors, calls per round, nesting and transitions |
| `DnstresProofs` | `PoolInvariant`, `RequestsOwnedHolds`, `ImplementsHolds` | `DnstresAssumption`: any finite set of threads, any requests with any number of hosts |
| `ReaplanProofs` | `EngineInvariant`, `SlotsExactHolds`, `EachDestinationOnceHolds`, `ConnectRateHolds` | `ReaplanAssumption`: any slots, destinations, timeout, word width of the ID set; `connects_per_tick` between 1 and the slots |
| `ClidProofs` | `DescriptorInvariant`, `OwnedWhileNull`, `CompleteWhileNullHolds` | `ClidAssumption`: any clients, hosts and descriptors |
| `KngProofs` | `DaemonInvariant`, `SlotsUsedHolds`, `StartedAtMostOnceHolds`, `QueueFaithfulHolds`, `OldestOfDirectoryHolds` | `KngQueueAssumption`, `KngAssumption`: any ids, pids, slots, bounds on requests, crashes, stops and failures, any span of a directory |

Each has one inductive invariant `IInv`, a lemma that the initial states satisfy
it, lemmas that steps preserve its parts, and theorems that read the properties
off it. None of the properties is inductive by itself; what each one needs is the
argument why the code is right.

**sc2.** That the handler never meets an
unknown child (`NoAbort`) needs that every unreaped child has an unmarked slot or
is the one being registered (`ChildrenCovered`), that registration happens with
SIGCHLD masked, and that the loop gets from the capacity check to registration
with a free slot left (`used < MaxReqs`), which in turn needs the counter to be
exact (`SlotAccounting`). `PidsDistinct` is what makes marking the first slot
with a pid mark the right one. `NoOvercommit` follows from `ChildrenCovered` by
an injection of the children into the slots. `SlotTable` is `SlotAccounting` and
`NoSlotLeak`.

**Supervisor.** `TableInv`: every process has a slot, two slots never name the
same one, and the only stale slot is that of the process just waited for. While
the start loop runs the slots ahead of it are empty (`StartInv`); while the kill
loop runs every process still alive is in a slot ahead of it (`StopInv`), so none
is left at the end. `RateInv` ties the restarts of this second to `nrestarts`,
which is only meaningful if `last_restart` is this second.

**Listener.** Callbacks nest, so the invariant is about the C stack: a client
being removed is not in use, has its descriptor still to close, and is removed by
one frame only (`StackInv`), which is what keeps a second removal of the same
client from closing its descriptor again. `CountInv` is the argument that
`num_fds` may be decremented for clients that are gone: it never falls below the
number of ready descriptors still ahead. `CallbacksInLifetimeHolds` is an action
property; it splits the steps into those that call nothing, a callback of a
client in use, or `on_done` of the client just taken out of use (`CallCases`).

**Resolver pool.** `RequestsOwned` counts the holders of a request (the list, the
detached list, the threads and the caller at their places) by a cardinality; each
step moves one holder. The refinement needs in addition that results, hosts left
and hosts being looked up add up to the hosts of the request (`HostsInv`), that a
request is open exactly while it has references (`StatusInv`), and that a freed
pool stays empty (`FreeInv`). `ImplementsHolds` maps every step to one of
`DnstresAbs` or to a stutter; `DnstresAbs` has no fairness, so this is the safety
part, which is all it states.

**Reaplan.** The bit of a slot in the ID set, the connection in it and the
counter agree (`SlotInv`), for a set of whole words whose last word has bits
beyond the slots. A destination is handed out, connected to, done with, in that
order (`DstInv`, `OnceInv`). `BatchInv` is about one batch of events: it names
open connections only, although handling an event queues connections for closing,
since closing waits for the end of the batch; a connection whose banner was
written is in the queue, so it is not read twice; and the queue cannot overflow.
`RateInv` shows that the throttle flag is what keeps `setup_connections` from
running twice in a tick.

**clid.** `OwnerInv` says that each open descriptor of the process is named by
someone who will close it, `ConnInv`, `DataInv` and `PoolInv` that what they name is
open for that purpose and client; with the purposes distinct, the owner is unique.
All this rests on descriptor 0 being what the process was started with (`NullKept`),
as the user data of a client may hold 0 where -1 is meant; the invariant says
nothing of the states after it was closed, and the run `clid_zero` shows that
nothing can be said of them. `LineInv` accounts for the lines of a request: to be
looked up, in the buffer, in the file.

**knegd.** Two kinds of facts. What holds whatever happens: the list of jobs is the
children, one entry each (`ListInv`), the budget `n` of `dispatch_n_jobs` is what
`kngq_navailable` says at every step of it (`BudgetInv`), a request is counted
once, to be written, in a file, in hand or in `tried` (`CountInv`), which survives a
crash because the file is removed before the job is started, and what was accepted
is counted, unread, written over or one of those that a death took from the hand
(`AckedInv`). A traversal that the current call opened has every file still ahead
unless a failure to read hid some (`WalkInv`), so `dispatch_n_jobs` returns only
with no slot left, an empty queue or after such a failure (`IdleInv`); this needs no
assumption on names, as an old traversal that lists files that are gone, or misses
some, is followed by a new one. What holds until a name can come up a second time
(`SafeInv`): a new name is new, as `(time, seq)` is greater than every name in the
queue or in a link, and a shutdown with files in the queue takes a second
(`NamesInv`); only the file being written is incomplete (`ContentInv`); the
traversal lists files that exist (`FtsInv`); what is left of a listing is older than
what was put in the directory since (`OrderInv`); links and files match but for the
file in hand and for the links of files that could not be read (`LinkInv`). A
shutdown without jobs takes no time, and there `NamesInv` needs `IdleInv`: without
jobs, and without a failure, the queue is empty. `SafeCases` describes the steps by
what they do to the files, and each part of `SafeInv` is proved over those
descriptions. `Garbage \notin Ids` is the one assumption beyond the bounds: a file
that was created and not written cannot be read as a request.

**Only model-checked.**

- Liveness (`SlotsReturn`, `DeadReplaced`, `JobsEnd`, `PoolDrains`, `CommandsEnd`,
  `RequestsEnd`, `RunEnds`, `ResolvingEnds`): the prover has no reasoning
  about fairness and ENABLED.
- `Tables`, `Generators`, `Vulnspec`, `Readers` and what uses them: recursive
  operators and induction over data are outside the prover's reach. `Fc2` measures
  its streams by a recursive function (`Torn`), for which the same holds.
- `Collate` and `Webfetch` compare whole tables and responses with a reference
  definition by folds over sequences, again an induction over data.
- `Store`: no principal obstacle, but not proved yet.

## Not modelled, and the plan

- The FreeBSD device `tcpsrc` and its driver: a kernel interface that only one
  system has.
- Generated code (`yclgen`, `ycl_msg`), the RE2 wrapper and its tables.
- `url`, `urlquery`, `punycode`, `str`, `u8`, `hexdump`, `flagset`: functions over
  the characters of a string, of which a model would be a copy.
- The command line clients `kneg` and `dnstres`, `expand-dst` and the printing
  part of `scan banners`: one request or one loop over a modelled library.
- Error paths of creating the resolver pool; allocation failures other than those of
  clid, of fc2 after a fork, and of the queue of knegd.
- Logging, sandboxing, option parsing, certificates, allocators, hashes.

Proofs that come next: `IndexExact` and `AnswersOwn` for `Store`, whose invariant
has to follow a request through the client, the socket and the handler.

# A verification project for fenglingTunnel

fenglingTunnel publishes a web server that stands behind a firewall. A *client*
(`Cmain.c`) keeps a few TLS connections, its tunnels, open to a *server*
(`Smain.c`) on the Internet and announces a subdomain on each. Browsers connect
to the server; one of its worker processes looks the subdomain up in a route
table in shared memory and passes the request through one of the client's
tunnels to the web server on the client's machine. Everything is processes,
System V shared memory, one System V semaphore, signals and `kill(pid, 0)`;
there are no threads.

Every definition here is translated from the C source; `PROJECT.json` gives for
each the file and the lines. Code of others (the kernel, OpenSSL, browsers, the
local web server) is modelled from how this program uses it and marked external.

## Inventory

| Part (source) | State | Operations | Hard about it | Correct when |
|---|---|---|---|---|
| semaphore (`fenglingSem.c`) | value; the kernel's undo of each process | `init_sem`, `sem_p`, `sem_v`, exit | deaths at any statement; `init_sem` run again by `fenglingShow` or a second start | at most one process inside; no permit lost or made |
| name hash (`keyToIndex`, `fenglingShm.c`) | an accumulator | one turn per character, shift, mask | signed overflow; arithmetic shift; a mask that is no mask | the index is one of four slots |
| route table (`fenglingShm.c`) | per slot: name, total, count, cursor, handles | `CAShmInit`, `SetFLRoute`, `GetFLRoute`, `RmFLRoute` | deaths halfway through an update; wrap of the probe at the wrong size; equality test on the cursor | a lookup returns a connection of that name; all are dealt in turn; a full table refuses |
| server's pool (`fenglingShm.c`, `fenglingEpoll.c`, `fenglingProcess.c`, `fenglingDaemon.c`) | ids of workers in shared memory; pending signals | `EpollShmInit`, `pool_monitor`, fork, `pool_setpid`, `CLD_OUT`, `pool_poolclear` | no lock; id reuse; deaths between fork and record; a second start | the pool refills, never exceeds its size, and can be cleared |
| client's pool (`fenglingCA.c`, `fenglingShm.c`) | the same table | `Cpool_monitor`, fork, `pool_setpid` | a child whose connection ends falls through into the monitor's code; several monitors, no lock | every entry comes to name a tunnel again |
| event loop of the workers (`EpollServerInit`, `EpollServerRun`) | listening socket and epoll instance, shared; descriptor tables, each its own | accept, read, answer, close | edge-triggered events that go to any worker and name a number of one | requests are read; connections of waiting browsers stay open |
| tunnel (`EpollServerRun`, `CARun`) | records on their way, buffers, the worker's `retMsg` | a frame each way | one read for a body of several TLS records; lengths refused; buffers cleared in part; a pointer nothing sets | an answer reaches the request it was made for |
| local request (`gotoClient`) | a buffer, a socket, its own epoll | connect, `getchar`, write, read | partial writes, and the edge when there is room again; edges that carry both directions; no timeout; descriptors left open | the request arrives intact; the call returns an answer and leaves nothing open |
| configuration (`fenglingConf.c`) | twelve static flags and counters, the dictionary, `g_global_conf` | `conf_init`, `parse`, `trim`, `conf_get`, `get_var_int`, `get_var_str`, `global_conf_init` | a nesting without a stack; numbers wider than an int | a setting goes under the key its block means; the program runs with its global block's settings, or the defaults |
| dictionary (`fenglingDict.c`, `fenglingHash.c`, `fenglingList.h`) | an array of heads, rings of items | `dict_init`, `dict_insert`, `dict_search`, the hashes, the list | keys in one chain; four links written one by one, of nodes that may be the same | every walk comes back; first value kept, duplicates told |
| log (`fenglingLog.c`) | a descriptor and an inode, per process | `log_init`, `log_doit` | replaced files, midnights, inodes used again, other processes | everyone writes to today's file |
| request head (`fenglingHTML.c`) | the worker's buffer | `parseHtmlHead` | `strtok` on a buffer that is passed on afterwards; the Referer looked for in the first line only, and NULL read from when it is not there; a domain taken for a set of characters | the name is the host's first label |
| CA server (`CAServerInit`) | the connection at hand, those waiting | accept, TLS, read head and body, `SetFLRoute` | blocking reads, one connection at a time, results not looked at (`strtok`'s NULL among them), nobody restarts it | no tunnel is overlooked; it takes the next connection, whatever becomes of this one |
| start (`Smain.c`, `Cmain.c`, `fenglingDaemon.c`, `fenglingProcess.c`) | signal dispositions | `signal_init`, `daemon_start` | which handler is installed for what | part of the pool |

### How they interact

    browser --TCP--> worker (EpollServerRun) --GetFLRoute--> route table <--SetFLRoute-- CA server
                       |        ^                            (semaphore)                     ^
                       | frame  | frame                                                      | name-count
                       v        |                                                            |
                     tunnel process (CARun's child) -------- TLS connection ------------------
                       |        ^
              gotoClient        answer --> web server on the client's machine

The route table is the only state under a lock. The process tables of both pools,
the epoll instance, the log file and each tunnel's byte stream are shared without
one. Supervision is by `kill(pid, 0)` on recorded ids, as `SIGCLD` is ignored.

### Correctness in one list

1. The lock: exclusion and no lost permit under deaths; bounded damage by a reset.
2. The route table: ownership, single registration, completeness, rotation,
   termination of probes; an implementation of an abstract registry.
3. The pools: size, refilling, every worker recorded, clearing reaches all of them.
4. The event loop: no stranded connection, no lost edge, no connection cut off.
5. The tunnel: in step, the right answer, no blocked worker.
6. The local request: intact, answered, returning.
7. Configuration: the flags are a stack; keys follow nesting; the settings are those
   of the file; chains stay whole; `trim` trims.
8. The log: all processes settle on today's file.
9. The CA server: every tunnel registered or refused, and dealt while it lives.

## Modules

| Module | Models | Correspondence |
|---|---|---|
| `FenglingSem` | `init_sem`, `sem_p`, `sem_v`, the kernel's undo | one operator each; extended by its users, no specification of its own |
| `FenglingSemUse` | the users of the semaphore | `pc` is idle, in `sem_p`, inside, dead; `Reset` is `fenglingShow` |
| `KeyToIndex` | `keyToIndex` | one step per character; words wrap (`Wrap`), the shift is of a signed word |
| `RouteRegistry` | nothing in the code: the promise of the table | register, ask, answer in one step each |
| `FenglingRoute` | `SetFLRoute`, `GetFLRoute`, statement by statement | labels `set_*`, `get_*`; a step is one access to shared memory; composes `FenglingSem`; homes are those `KeyToIndex` allows; slots are one array of words, so that `Handle` of a cursor beyond the slot is the next slot's |
| `FenglingPool` | master, workers, signals, a second start | `master` is the statement of the loop, `cnt` is `lCnt`/`_lCurRec` |
| `FenglingClientPool` | `CARun`'s monitors and tunnels | the entry `cnt[p]` is inherited by fork as `_lCurRec` is |
| `FenglingEvents` | `EpollServerRun`'s loop | `fds[w]` is a process's descriptor table; an event carries a number; `batch` is `events[]`; at `ask` a worker is in the tunnel, from where it may not return |
| `FenglingTunnel` | the request loop of `CARun` and the worker's half; the answer comes out of nowhere | a stream is a sequence of TLS records; the two buffers remember which request, or whose answer, wrote each unit |
| `FenglingLocal` | `gotoClient`, call after call in one process, and the web server | `nsend`, `n` as in the code; `got` is what the server received; `nospace` is the kernel's note that a write found the socket full; no specification of its own |
| `FenglingExchange` | both of them composed: a tunnel process from one end to the other | the call is made with the string in `buf` and its answer is framed; implements `FenglingTunnel` |
| `FenglingServer` | `CAServerInit`, what `CARun` announces, `parseHtmlHead`, a start that clears the table | `ca` is the call it blocks in, `sent` the records of the announcement; `slots` is the table's used slots, a call on it is one step; text is sequences of characters, cut as `strtok` and `strstr` cut it, with NULL where they return it |
| `FenglingList` | `fenglingList.h` | the memory is two functions, an operator is what a call leaves of it, in the order of its assignments |
| `FenglingDict` | the dictionary's operations | nodes below `Size` are the heads, the others the items' links; `Sign` is the checksum of a key |
| `FenglingHash` | which characters of a key the hashes read | sets of positions |
| `FenglingConf` | `conf_init`, `parse`, the getters, `global_conf_init` | `open` and `num` are the static flags and counters under their names; a line is what `sscanf` makes of it |
| `FenglingTrim` | `trim` | one step per turn of its loop, one for each of its breaks |
| `FenglingLog` | `log_doit`'s look at the file | `st_ino` is `log->statbuf`; stat and open are two steps |
| `MCRoute`, `MCConf`, `MCServer` | | values for the constants |
| `*_proofs` | | theorems about the module of that name; those about `FenglingLog` are in `FenglingSemUse_proofs`, about `KeyToIndex` in `FenglingRoute_proofs`, about `FenglingList`, `FenglingHash` and `FenglingTrim` in `FenglingConf_proofs`, about `FenglingTunnel` in `FenglingExchange_proofs` |

Definitions marked `(mutant)` are plausible bugs of the code (a reset forgotten, a
guard dropped, an order swapped). They are in no specification; `PROJECT.json`
names for each property one that TLC finds to violate it.

## The runs

Deadlock is checked for the semaphore, the route table and the client's pool, whose
processes always have something to do. The other configurations say
`CHECK_DEADLOCK FALSE`, because their systems stop: a file ends, a call returns,
the master dies and the workers with it, browsers stop sending.

Where a module's type invariant is not listed it is a conjunct of the invariant
marked with a star.

| Run | Properties | Bounds, and why they are enough |
|---|---|---|
| semaphore | `ExclusiveUntilReset`, `PermitsBounded`*, `WaitEnds` | 3 processes, 2 resets: a reset while one is inside and another waits, twice |
| route_fair | `CallsReturn`, `RoundRobin`, `ImplementsRegistry` | CA and 2 workers; 4 connections of two names that share a home from which 2 slots can be reached: collision, second connection, wrap of the probe, refusal; a third name nobody registers; two lookups at once |
| route_deaths | `TypeOK`, `MutualExclusion`, `RoutedToOwner`, `RegisteredOnce`, `CursorInRange`, `ProbeRegions` | CA and a worker, killable at every statement and replaced; 5 connections; two handles to a slot and one word between the handles of two slots (`HEADER`, 9 in the program, with 10 handles), and a cursor up to 4: past both handles it is read at the word between, and then at the next slot's first handle; a name too long for a slot that is stored as another's; names of the last home: one in the last slot, one in the slot behind the table, one whose lookup faults off the page; clients of one name with two totals |
| server | `NoneOverlooked`, `TurnInRange`, `DealsLive`, `CrashesHalfway`, `CAComesBack` | 3 tunnels: two of one client, so that a cursor turns, and one of another, whose name loses its second half at a hyphen, with it its total, and is too long for a slot (`MAXSUBDOMAIN` 2) and stored as the first's; a stranger that may say FL and one token; queue of 2; one slot, so that a probe finds no room, on a page that ends there or not; a kill; one clearing of the table; 4 requests: for a name, for one that `Domain` cuts, for a name too long, and one without a Referer in its first line. 116 938 states |
| pool | `PoolBound`*, `ClearReachesRecorded`, `PoolRefills` | 2 entries, 3 ids so that ids are soon reused, 2 deaths, another program, a second start: a wiped worker beside a full pool takes all three |
| client_pool | `TunnelBound`*, `TunnelsRestored` | 2 entries, 5 ids, a dropped connection and a death: two monitors, the tunnels, and one more that both may have forked for |
| events | `OneDescriptor`*, `NoneStranded`, `NoEdgeLost`, `NeverCutOff`, `RequestsRead` | 2 workers, 2 connections, 2 numbers each: one number can mean two connections; resets, faults, failing accepts, a kill |
| exchange | `ClientInStep`*, `AnswerIsOwn`, `RequestDelivered`, `AnswerBegun`, `DescriptorsKept`, `ImplementsTunnel`, `ExchangeEnds` | head 1, cleared 2, record 3, limit 5 units for 10, 1024, 16384 and the body limit; requests of 1, 5 and 6: one that is shorter than what is cleared, one at the limit and of two records, one above it; answers of 4, more than a record, of which a call may read any part; 2 requests, so that one finds what the other has left; 2 short writes: a third piece, or an EAGAIN, or a second and a third copy; a pointer of 2 units (`PtrClear`, 8 bytes in the program), and a string of 3 found where it points: an answer of 1 is cut at the pointer's size, one of 2 is followed by the end of the string. 432 000 states |
| configuration | `OneBlock`, `ChainsWhole`, `SettingsFollowNesting`*, `SettingsRead` | all files of 7 accepted lines: an upstream with two proxies of a server each is 7; two chains, which the keys of different blocks share; a number that fits an int, one that does not, one that does not fit a long, and a text |
| log | `OnTodaysFile`*, `AllSettle` | 2 processes, 3 inodes, a midnight, a removal: enough for an inode to be freed and used again, and never too few to make a file |
| pool_sigterm | `TermEmptiesPool`, violated | `OUT` is for SIGTERM by its comment and installed for SIGKILL |
| events_lost | `EdgeOnItsWay`, violated | two workers; the comment's premise holds for one |

`KeyToIndex`, `FenglingTrim` and `FenglingHash` have no run: their theorems say for
names, lines and keys of every length what a run would say for short ones.

What the passing runs show, where it is less than one might hope:

- `CursorInRange` leaves out slots that a death tore (`torn`), and those whose clients
  announced more than one total: a worker that dies between the cursor's increment and
  its reset leaves the cursor at `total`, and it never comes back, as the test is for
  equality; neither does one that a smaller total leaves behind.
- `RoutedToOwner` says what such a cursor does. It runs on with every lookup, past
  `fd[]` over the name and the numbers of the next slot (`WILD`: taken for a handle, it
  faults in the worker) to the next slot's handles, and the request goes to another
  client's tunnel. The property is that nothing else sends one there: the cursor must
  have come a whole slot (`Stride`) too far, and only a torn slot, uneven totals, or a
  total beyond `Stride` let it. Names are compared as `SetFLRoute` cut them: one of 20
  characters or more is not told from another with the same first 19.
- `RegisteredOnce` counts and places; that a connection has ended, nobody tells the
  table (`RmFLRoute` has no caller).
- `ChainsWhole` says more than that links are inverse: a walk from a head comes by the
  items whose keys hash to it, all of them and no other, and back.
- `ExclusiveUntilReset` ends where `fenglingShow` or a second start runs `init_sem`;
  `PermitsBounded` says what is left then: one process more for each.
- `PoolRefills` takes an entry for filled if its id exists, as the code does; the id
  may be another program's.
- `TunnelsRestored` excepts the case `misnamed`: a connection ends before the
  parent's `pool_setpid`, or had the id of a process recorded in another entry
  before, and the entry goes on naming the child, which is now a monitor and lives
  on, so that it is never filled. `TunnelsRestored` and `PoolRefills` also except a
  host without a free id, which the bound on ids makes likelier than it is.
- `RequestsRead` has a premise beside these: that no worker stays in the tunnel for ever.
  `SSL_write` and `SSL_read` have no timeout, and a worker that waits for a client that
  has stalled, or for the answer to a request over the limit, which never comes, reads
  no other browser's request. Nothing in the model makes a tunnel answer.
- `NoEdgeLost`, `NeverCutOff` and `RequestsRead` are about a worker that alone has
  fetched events so far (`served`), or those forked in its place. With two workers
  serving they fail: `events_lost` shows it for the first.
- `AnswerIsOwn` excepts tunnels that have carried an answer longer than a TLS
  record (`longReply`). After one, the worker takes the answer's second record for a
  head and gives up, and a later request gets an earlier answer. Without the
  exception TLC finds it. And it says of what the browser is sent only that it begins
  with the answer: `memset(retMsg, 0, sizeof (retMsg))` clears the 8 bytes of a pointer,
  and `strlen(retMsg)` bytes are sent. An answer of 8 bytes or more that is shorter than
  some string that was there before may be followed by the end of one, another
  browser's answer; TLC finds that too when the property leaves the case out.
- `ExchangeEnds` is about requests within the limit. A longer one is skipped by the
  tunnel process, nothing is sent back, and the worker waits in `SSL_read` for ever.
- `RequestDelivered`: a request longer than the 1024 bytes that are cleared may be
  followed by the end of an earlier one. Of a third write of one sending, and one after
  EAGAIN (`odd`), it says only that they happen: `nsend` is the last count, not the
  sum, and after EAGAIN it is -1. It allows two copies of the request, and one more for
  each write that found the socket full: the edge that brings the answer has EPOLLOUT
  too, the edge that room brings (`Room`) has nothing else, and the request is written
  again on each.
- A connection that breaks between head and body leaves an empty body, and an empty
  request is put to the web server; the call returns when the server gives the
  connection up (`Idle`).
- `AnswerBegun` says that something of the answer is returned, not all: the first
  EAGAIN ends the call.
- `DescriptorsKept`: a sending that the server's close cuts off leaves an epoll
  descriptor open in the tunnel process each time; nothing else does.
- `DealsLive` has two halves. The ordinary request, whose first line is the request
  line and holds no `Referer`, makes its worker fault: `strstr` returns NULL, and the
  next `strstr` reads from it. (The name is found only in a request whose Referer comes
  before its first CR or LF.) One that does ask for a name is dealt a live tunnel of
  it, for clients all of whose tunnels stand, whose names `Domain` and the hyphen do
  not cut and that are shorter than 20 characters: a longer one is registered, under its
  first 19, and never found. What it leaves out is how the program ages: a connection
  that has ended stays in its slot and is dealt on, and those that come in its place
  stand behind `total` and are never dealt; a hyphen in `SubDomain` cuts the name and
  makes the announced total the number after it, or 0; `Domain` is a set of characters
  to `strtok`, so that a host whose label has one of them is cut there.
- `TurnInRange` speaks of clients that announced one total: a client that comes back
  with a smaller one leaves the cursor beyond it, and the equality test never resets it.
- `CrashesHalfway` says what ends CA's process, and that nothing else does: a tunnel cut
  off between the head and the body of its announcement; a body, of a tunnel or of
  anybody who says FL, without two parts and a hyphen between them (`atoi(NULL)`, both);
  and a registration that walks off the page, as a home of 48 or 49 has no way back.
  Nobody starts another, and every tunnel ends with it.
- `CAComesBack` excepts a stranger that says nothing in the TLS handshake: CA's
  process waits as long as it likes.
- `SettingsRead` is about what `get_var_int` does, not what one may wish: a number
  beyond an int is kept by its low bits.
- `OnTodaysFile` excepts a file replaced between a process's stat and its open
  (`raced`): the inode remembered is then not the open file's, and may be used again
  for the file under the name.
- `NoneStranded` excepts a batch lost with its worker and an accept that failed with
  a connection queued (`lapsed`): the connection waits until another browser knocks.

## Fairness

Weak fairness of a process's steps: the kernel runs it. Strong fairness stands where
the step is open again and again while others compete: `sem_p` (`semop` wakes its
waiters in FIFO order), `fork` after a failure (the code tries again for ever, after
a second; in the client's pool it is enough that some monitor runs and some fork
succeeds), and the log's stat and open. Browsers, operators, midnights, deaths, second
starts, strangers and broken connections are never fair. `FenglingEvents` needs only
what the workers do outside the tunnel (`Serve`); that a tunnel comes back to them
(`Told`) is not fair. `FenglingServer` needs only CA's steps, and that a tunnel writes
the announcement it has begun or ends.

`FenglingExchange` assumes three things of its surroundings, as nothing in the code
has a timeout. The web server answers a request it has received in full (`Serve`). It
gives up a connection on which none comes (`Idle`), as web servers do; that it makes
room again in a socket that was full (`Room`) is not needed. And the `getchar()` that `gotoClient` calls once connected returns (`Getchar`): it does at the
end of a file, and it fails at once for a background process of a terminal, as
`daemon_start` has SIGTTIN ignored and leaves the standard input open; a client whose
input is a pipe that stays open waits there for ever, and is outside the model.

## What is proved

For every value of the constants, from the assumptions named in the modules. Every
invariant that a run checks is also a theorem.

The lock and the index:

| Theorem | Says | Argument |
|---|---|---|
| `FenglingSemUse_proofs!Exclusion` | `ExclusiveUntilReset` for any processes | until a reset, value and adjustments count the process inside: exactly one permit, in the semaphore or with it |
| `FenglingSemUse_proofs!DamageBounded` | `PermitsBounded` for any finite set of processes, any number of resets | `Bounded`: processes inside and permits together never exceed one per `init_sem`, and permits plus those held (an adjustment of 1), less those owed (a process `init_sem` forgot, outside with -1), stay at one or more |
| `FenglingRoute_proofs!WordTypes`, `FourHomes` | the accumulator stays a word; the index is one of 0, 1, `MAXROUTE` - 2, `MAXROUTE` - 1, and -1 for NULL, for names of any length and words of any size that is a multiple of 32 (`AnInt`): what the assumption `HomeAssumption` of the route table rests on | what two signed bits and the mask 49 leave (`HomeOfWord`) |

The route table, for any processes, killed at any statement:

| Theorem | Says | Argument |
|---|---|---|
| `FenglingRoute_proofs!TypeCorrect` | the table's fields stay in range | uses `S1MaxListen < MAXCLIENTCONN`, which the code relies on and does not check |
| `Exclusion` | `MutualExclusion` | `OnePermit`, the same count; a type invariant is not inductive for it, as `sem_v` must find the permit it gives back |
| `ProbesConfined` | `ProbeRegions` | `Regions`: names stand, and probes walk, in the region their home begins; the slots between the two are never reached |
| `CursorComesRound` | `CursorInRange` | `Cursors`: what the cursor is in a settled slot no death tore and of one total, and between the increment and the reset of the one caller inside; other slots may be in any state |
| `Isolation` | `RoutedToOwner`, for any `MAXCLIENTCONN`, `HEADER` and totals | `HandlesOwned` (a handle stands under its connection's name), `SlotOf` (a caller halfway through an update is in a slot of its own name) and `Cursors`: a handle of another's name was read with a cursor of `Stride` or more, and such a cursor is not below a modest total; each needs exclusion, as another's write would break it |
| `RegistersOnce` | `RegisteredOnce` | `Registered`: an accepted connection stands in one handle, another in none; `Registering`: what CA knows of the count and the handle between the statements that write them |
| `TableImplements` | while no death tears a slot, each step of `SetFLRoute` and `GetFLRoute` is one of `RouteRegistry` or a stutter | below |

`TableImplements` is the safety part of `ImplementsRegistry`. A registration is the
write of the handle; a lookup is answered once, at the statement that decides. Its
invariant `Chains` says: a name stands where its own probe comes by, and all the places
before are taken; handles are filled from the front and the count is theirs; what a
probe has passed holds other names, or full slots of the same one. That is what makes a
"none" right, which the registry permits only while connections are missing: behind a
free slot the name does not stand, and behind an empty handle no connection does. Its hypothesis `Orderly`
has three parts, and each is needed: totals that agree, and that fit a slot's handles,
since the cursor of another reads what lies behind them, the next slot's memory;
and no name that the slot cuts, since the lookup compares it in full and never finds it.
Deaths are allowed as long as none leaves a slot torn: a cursor torn at `total` finds no
connection for ever. The constants of `route_fair` are orderly; `route_deaths` has the
torn slots, names cut and uneven totals, and there `RoutedToOwner` is what is left.

The server and the pools:

| Theorem | Says | Argument |
|---|---|---|
| `FenglingServer_proofs!TunnelsSettled`, `OnlyHalfway` | `NoneOverlooked` and the action property `CrashesHalfway`, for any tunnels and strangers, any text of either | `PeersInv`: where each peer is that CA has not met, that the one at hand is met once, and how much of its announcement there is when CA reads; a second token is missing exactly when no hyphen has a part on either side (lemmas on `strtok`) |
| `CursorsInRange` | `TurnInRange` | `SlotsInv`: every tunnel accepted stands in one place, a name's second slot is begun when the first is full, and a slot's total is what its last tunnel announced |
| `RequestsDealt` | `DealsLive`, for any `Domain` that has a dot, any text of requests, tunnels and strangers | the first line, its first Referer and the first `//` behind it are what `strtok` and `strstr` find, or there is none and NULL is read from; then both cuts come to one name: what `strtok` leaves of a host's label and what it leaves of the announced head agree when neither has a character of the other's separators (lemmas on `strtok` by well-founded induction over positions) |
| `FenglingPool_proofs!PoolBounded` | `PoolBound` for any table, any finite set of ids | `EntryHeld` (the entry the master has chosen stays its own), `WipedOnly` (workers not recorded are at most what the further starts wiped, entry by entry) |
| `Cleared` | `ClearReachesRecorded` | `ClearedSoFar`: what a handler has walked by is on its way out, and nobody records another, as the master is dead |
| `FenglingClientPool_proofs!TunnelsBounded` | `TunnelBound` | `OneMonitor`: until a connection ends the first process is the only monitor; what it saw of an entry stays so until it writes it. Afterwards only `InEntry` is left |
| `FenglingEvents_proofs!DescriptorsAgree` | `OneDescriptor` for any workers, connections and numbers | `Consistent`: descriptors, numbers and registrations say the same |
| `Announced` | `NoneStranded` | inductive with `Consistent` and `Fetched` (what a worker can hold of a batch) |
| `EdgesKept`, `ClosesNoOther` | `NoEdgeLost` and the action property `NeverCutOff` | `Undisturbed`: for a worker that serves alone, an edge that has not been consumed is in the epoll instance or further on in its batch, and a number in its batch means the connection it meant when it was fetched |

Tunnel and local request, for all sizes of heads, buffers, records and requests:

| Theorem | Says | Argument |
|---|---|---|
| `FenglingExchange_proofs!InStep` | `ClientInStep` | `StepInv`: behind every head comes its body's first record (`Led`), a head accepted is followed by its body or the connection is broken (`BodyNext`), and what the buffer then holds (`Accepted`, `Filled`) |
| `OwnAnswers` | `AnswerIsOwn`, for any size of pointer and anything found at `retMsg` | `InTurn`: until a long answer, one request is on its way, and where it is says what either end waits for; `Reach`: no unit beyond the longest string that has been at `retMsg` is anything but NUL |
| `RequestsPassed` | `gotoClient` is called with the request of the head accepted, up to a record of it | from `StepInv` |
| `StepsOfTunnel` | the safety part of `ImplementsTunnel`: every step of the composition is one of `FenglingTunnel` or a stutter | the calls take the place of its answers out of nowhere |
| `Delivered`, `BeginsAnswer`, `Descriptors` | `RequestDelivered`, `AnswerBegun`, `DescriptorsKept` | `ExInv`: `StepInv`, the shape of a call's variables, what the server has received when each statement runs, sending by sending (`Receipt`), that sendings and edges are no more than the short writes allow, and that an idle process has closed what it opened |

Configuration, its pieces, and the log:

| Theorem | Says | Argument |
|---|---|---|
| `FenglingConf_proofs!TypeCorrect` | the reader's types | the numbers in keys are counts of lines read |
| `BlocksExclude` | `OneBlock`, for files of any length | inductive with the flags' type |
| `ChainsStayWhole` | `ChainsWhole`, for files of any length and any checksum | an item's node is not linked before (`Linked`), and `Added`, for the rings; `NewestFirst` and `WalkComplete`, below, for what a walk comes by |
| `DictionaryIsMap` | at any time `dict_search` returns the value of the one item with the key, or nothing | `NewestFirst` (a chain has its items in the reverse order of insertion) and `OneForKey`; below |
| `KeysFollowNesting` | `SettingsFollowNesting`, for files of any length and any checksum | `NestInv`, below |
| `SettingsAreRead` | `SettingsRead`: what `global_conf_init` reads at the end of the file | the numbers of the `global` block by `KeysFollowNesting`'s invariant; `(int)strtol` by what the low bits of a long are (`TruncatedIs`) |
| `Added`, `Deleted`, `Moved`, `Spliced` (and `Replaced`, `HeadAlone`) | the list's operations keep every ring whole, for any nodes; `list_splice` makes one ring of a ring and another's entries, in their order, without the other's head | by the cases in which neighbours are one node; a head moved behind itself is excluded, as the code breaks its ring |
| `WholeKey` | `mmhash64` reads the characters of a key, all and no others: a key's checksum is a function of the key, as `Sign` assumes | words and tail by division by 8 |
| `NaiveOutside` | `naivehash64`, which has no caller, reads behind a key exactly for lengths 8 to 30 | its five cases |
| `ReadsInside`, `Trims` | `trim` reads inside the line and trims it exactly, for any length | `Passed` (what the two ends have passed is white space), `Rests` (an end that has stopped stands on text), `Where` (which break leads where) |
| `FenglingSemUse_proofs!TodaysFile` | `OnTodaysFile` for any processes, inodes and days | `StatbufTrue`: a process that did not race remembers the inode of the file it has open, which therefore is not used again |

`SettingsFollowNesting` compares the dictionary with the nesting of all lines read so
far, in which neither flags nor counters occur. What connects the two is `NestInv`,
inductive with the types and the rings of `IInv`:

- `FlagsStack`: every set flag stands for a block around the next line, the innermost
  one or that around it, and no flag is set where there is none. So the block `parse`
  thinks it is in is the block the line is in.
- `CountersReset`: `upstream`, `proxy` and `server` count what the block they count in
  has so far, and are 0 when it has been left; `global_ok` and `filter_ok` stay set
  once theirs has been. So the numbers in a key are the ordinals the nesting gives.
- `Kept`: each setting has an item under its key, and there are no more items than
  settings; with `OneForKey`, no setting stands for another.
- `NewestFirst` and `OneForKey`: what `dict_search` returns is what was inserted.

The theory of nesting comes first, in lemmas on what one line more does to the depth
(`DepthGrows`), to the blocks around a place (`AroundNext`), to what is counted in a block
(`WithinGrows`, `OrdinalGrows`), and to the stack of open blocks (`StackMoves`). The lines
before are as they were, but for the place after the last. Of `Depth`, a difference of two
counts, the proofs use only what a line more adds to it. A walk of a chain ends
and comes by every item (`WalkComplete`), as it goes to an older item with every step:
the first number it would fail for has one before it for which it fails too.

Model-checked only:

- Liveness under fairness, and everything about ENABLED: `WaitEnds`, `CallsReturn`,
  `RoundRobin`, `PoolRefills`, `TunnelsRestored`, `RequestsRead`, `ExchangeEnds`,
  `AllSettle`, `CAComesBack`, and the fairness in `ImplementsRegistry` and
  `ImplementsTunnel`.

## What is not modelled, and why

- What is pure output: formatting, `fenglingShow`'s listing, the text of the log.
- Code without a caller: `CEpollShmInit`, `RmFLRoute` (which would clear the slot's
  last handle instead of the one it moves there: it writes `fd[nowcounts - 2]` when it
  means `nowcounts - 1`; connections that have ended are dealt on), `dict_clear`, `dict_setcmp`, `log_deinit`,
  `filter_conf_init`; `upstream_conf_init` is commented out. `del_sem` is called only
  by a start that fails, with a shared-memory id. The client clears its table with
  `EpollShmInit`, for `SMaxPoll` entries, and scans `CMaxPoll`; the runs give both one
  value.
- `cld_out` and `OUT` never run: `SIGCLD` is ignored and `SIGKILL` cannot be caught.
  `SIGPIPE` and `SIGABRT` are ignored, yet `abort` still ends the process.
- A CA server that cannot load its certificate or key: its process returns from
  `CAServerInit` into `main` and runs `EpollServerRun`, a second master on the table of
  the first. `FenglingPool` has one master.
- Whether the `SSL *` the CA process stored is of any use in a worker's process is
  memory: `FenglingEvents` has four ends of a request (answer, refused, fault, none).
  `FenglingTunnel` takes the handle to work, one worker at a time, and no body to begin
  with the letters FL. Two workers that were dealt one tunnel would have two copies of
  its TLS state.
- Where `retMsg` points, which nothing sets: `FenglingTunnel` takes it for memory that
  nothing else uses, with any string in it to begin with.
- A worker that dies in the middle of an exchange, whose successor finds the tunnel with
  an answer on its way: deaths are in `FenglingEvents`, where a tunnel has no content.
- Answers of the web server as long as `gotoClient`'s static buffer, and longer: each
  read may put `PKG_BODY_LEN` - 1 bytes behind what is there (`fenglingEpoll.c:514-523`),
  without a bound, and what lies behind the buffer is overwritten. `ReplyAssumption`
  leaves such answers out; every property of the exchange is about shorter ones.
- What a worker passes on of a request: `parseHtmlHead`'s `strtok` writes a NUL at the
  end of the first line and another after the subdomain, in the buffer whose string is
  sent afterwards, so that the web server gets no more than the first line.
  `FenglingTunnel` takes any length for what is left, and `FenglingServer` only the
  name.
- A lookup of NULL (nothing behind the `//`): `keyToIndex` returns -1, and
  `GetFLRoute` reads before the table, or from NULL. It is a fault in `FenglingServer`,
  and no key of `FenglingRoute`.
- In `FenglingServer` all names have one home, which is above the wrap or not, and a call
  on the table is one step: `FenglingRoute` has homes, statements, deaths, and what lies
  behind a slot's handles. There the announced totals of a
  name agree; here they need not.
- In `FenglingConf` names hold no dots, which could make two keys one;
  `host_default_ok` is set and never read. A last line without a newline is dropped by
  the loop (`feof` after `fgets`), so a file is its complete lines.
- In `FenglingLocal` a reset connection.
- The shared-memory demos (`shm_producer.c`, `shm_customer.c`, `clearshm.c`) and the
  TLS demos are programs beside the router; the hash table of `fenglingHash.bak.c` is
  not built.

## The plan

Done: semaphore, hash, route table with its registry, both pools, event loop, tunnel,
local request and their composition, CA server, configuration with its settings, list,
dictionary, log; theorems for every safety property that a run checks. Left:

1. The registry under deaths: what abstract table, of torn slots, the route table
   implements when `torn` is not empty.
2. A second master beside the first (the failing CA server), for which `FenglingPool`
   needs a master per process.

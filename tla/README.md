# Verification of the Minix semaphore server

The repository adds POSIX-style counting semaphores to Minix 2: a semaphore
server compiled into the file system process (FS), hooks in FS for fork, exec
and exit, a client library and some example programs.  This directory holds
TLA+ specifications of it, the TLC configurations that check them on small
instances and TLAPS proofs for every size.  Paths below are relative to the
repository (`src/fs/...`); in `PROJECT.json` they start with `src/src/`.

## 1. The system

| Part | Code | State | Operations |
|---|---|---|---|
| semaphore server | `src/fs/semaphore.c` | `sem_array` of 10 slots (`sem_count`, `ref_count`, `proc_list`, `blocked_list`, `unlinked`), the name map, FS's global `errno` | `sem_open`, `sem_init`, `sem_close`, `sem_unlink`, `sem_destroy`, `sem_wait`, `sem_trywait`, `sem_post`, `sem_getvalue`, `sem_open_all`, `sem_close_all` |
| name table | `src/fs/hash.c` | 40 rows: a key text and a value | create, insert, find, remove |
| list library | `src/fs/list.c` | pools of 80 lists, 20 nodes, 20 elements | new, insert, delete, remove first, search, iterate, free |
| request dispatcher | `src/fs/semaphore2.c`, `my_param.h` | the request message `m`, the reply message `m1` | `semaphore_entry`, `answer`, `sem_wake` |
| FS main loop | `src/fs/main.c`, `table.c` | `who`, `dont_reply` | take a request, call its handler, `reply` |
| process hooks | `src/fs/misc.c` | - | `do_fork`, `do_exec`, `do_exit` call `sem_open_all` / `sem_close_all` |
| client library | `src/libsem/semaphore.c` | a `sem_t` per semaphore | packs each call into a message and unpacks the reply |
| example programs | `src/examples/prod_cons.c`, `pc_init.c` | two semaphores | producer and consumer |
| Linux emulator, server | `src/examples/linux/sem_serv.c` | `conn_array` and `status_array` of 31 connections, `afds`, `who`, `dont_reply` | accept a connection, take a request, answer, `sem_wake`, disconnect; the same `semaphore.c` behind it |
| Linux emulator, library | `sem_cli.c`, `protocolo_sem.c` | one connection per process | connect, a request and its answer per call, `clean_all` at exit |
| test console | `src/examples/console.c` | a table of 5 handles and names | a menu of all calls, `free_space` |
| installer, call tables, stubs | `tpminix.sh`, ... | - | copying files, constant tables |

How they interact.  A client's library call sends a message to FS and waits for
the reply (`_syscall`).  FS takes one message at a time, so a handler runs to its
end without interruption; `sem_wait` on a taken semaphore sets `dont_reply`, and
the caller stays asleep until the `sem_post` of another process makes FS send it
the reply.  On Linux a socket takes the place of the message, and the index of
the connection that of the process slot.  MM (the memory manager) tells FS about fork, exec and exit, and kills
processes, asleep ones included.

What is hard here:

* processes interleave at the granularity of requests, and a sleeper is woken by
  somebody else's request;
* a process can be killed while it sleeps, and its process slot, which is its
  identity to the server, is given to another process;
* every list shares one pool of 20 nodes, and no caller of `ListInsert` tests its
  result;
* `errno`, the reply message and the name table are global state that one
  request leaves behind for the next;
* the key array of the name table is declared with its dimensions swapped, so
  that inserting a key overwrites other rows;
* FS replies with a synchronous `send`, which blocks if the destination exists
  and does not await a reply;
* the emulator's clients come, leave and are killed at any time, an index of
  `conn_array` passes from one to the next with its memberships, and the set of
  sockets given to `select` outlives them.

What makes each part correct: a slot behaves as a counting semaphore and loses
no sleeper; a freed slot leaks nothing into the next semaphore; a name leads to
the semaphore made under it; no list node is lost or shared; the caller gets its
own answer; FS itself never hangs; every call to the emulator is answered once,
to its caller.

## 2. Modules

| Module | Models | Composes |
|---|---|---|
| `HashTable` | `hash.c` as operators on a table value | - |
| `SemServer` | `semaphore.c`, the process hooks of `misc.c`, replies | `HashTable` |
| `Semaphore` | abstract: one counting semaphore with its sleepers | - |
| `SemSyscall` | `libsem/semaphore.c` and `semaphore2.c` around the server | `SemServer` |
| `PcInit` | `examples/pc_init.c` run against the server | `SemServer` |
| `ListPool` | `list.c` at the level of nodes, elements and links | - |
| `BoundedLists` | abstract: the lists as sequences, with the answer codes of `list.h` | - |
| `SlotLists` | which lists the slots' pointers reach | - |
| `LinuxServer` | `sem_serv.c`, `sem_cli.c` and the messages between them | `SemServer` |
| `Console` | `examples/console.c` run by several users on the emulator | `LinuxServer` |
| `ProdCons` | `examples/prod_cons.c` run by several users on the emulator | `LinuxServer` |
| `MCSemServer`, `MCSemClaims`, `MCSemSyscall`, `MCListPool`, `MCConsole`, `MCProdCons` | symmetry, views, and statements of docs and comments | |
| `SemServer_proofs`, `SemSleepers_proofs` | theorems about the server, the second module on top of the first | `SemServer` |
| `SemSyscall_proofs` | theorems about library and dispatcher | `SemSyscall`, `SemSleepers_proofs` |
| `LinuxServer_proofs`, `Console_proofs` | theorems about the emulator and the console on it | `Console`, `SemSleepers_proofs` |
| `ProdCons_proofs` | theorems about `prod_cons` on the emulator | `ProdCons`, `LinuxServer_proofs` |
| `SlotLists_proofs` | theorems about the slots' list pointers | `SlotLists` |
| `ListPool_proofs` | theorems about the linked lists | `ListPool` |

Definitions keep the names of the functions and fields they stand for;
`PROJECT.json` gives the lines of each.  Operators whose names end in a suffix such
as `Taken_Late` are deliberately wrong variants, each marked as a mutant, which show
that a property notices that mistake.

**SemServer.** Each field of `sem_cdt` is a variable indexed by slot.  A handler
is one action, because FS handles one request at a time.  `proc_list` is only
searched, inserted into and deleted from, and is the number of occurrences of
each process; `blocked_list` is a sequence whose head was inserted last.  Both draw on
`NodesLeft`, and an insertion without a node silently changes nothing, as in the code.
`waiting[p]` is the slot whose `sem_wait` keeps `p` without a reply; a killed
process leaves `alive`, and a later fork may reuse its slot number.  `fs_stuck` is
FS blocked for ever in `send`.  `errno` is FS's global.  `opened_as` is a history variable.
`sem_post` on a negative count with an empty queue wakes any process slot at all,
since the code then uses an uninitialised variable.

`sem_destroy` is the whole handler, which does not ask whether the semaphore has a name.
`MayDestroy` is what callers are taken to keep to instead: `sem_destroy.3` allows only what
`sem_init` made, the models ask a little less, that no name leads to the semaphore.  All modules that
issue the call guard it with this (`HandleCall`, `lib_destroy`, the console's
`m_destroy`); `pc_init` only destroys what it initialised.  A caller that does not
keep to it gets, in the code, a free slot that a name still leads to: `sem_open` then
revives it with its freed lists, which `NewList` later gives to another slot, and from there on
two slots share their lists; a sleeper may be lost and a post may wake a process, or answer a
client, that is not asleep.  Lists shared by slots are not modelled, so nothing here
is said about the system after such a call.

**SemSyscall** adds `m1.m1_i2` (`reply_param1`), each process's `sem_t` and what
its last call returned.  Values the code never sets (`return_val` after
`SEM_OPEN`, the result of `sem_post`) are chosen from `Garbage`, zero or not.

**PcInit** runs two processes with program counters, each with its own copy of the
two handles after the fork; a wake-up overwrites the handle as `SemSyscall` has it.

**ListPool** has the three pools with their busy flags; a pointer is an index.
`Chain(l)` is the walk every operation makes.  `ListGetElement` is explored
while the cursor is on its list: the only caller rewinds first.  `ListInsert` has no
case for a node without an element (`list.c:231-235`): by `NodesOwnElements` it
never happens.

**BoundedLists** states contents by sequences, and answers by the codes that `list.h:11-15`
defines, which are the ones `list.c` returns.  The comments above three prototypes
of `list.h` announce others, and are not what is checked:

| Call | Comment of `list.h` | `list.c` and `BoundedLists` |
|---|---|---|
| `ListInsert` of a repeated element | 1 (73-75) | `LIST_ELEM_EXISTS`, 4 |
| `ListDelete` of an absent element | 0 (89-91) | `LIST_NO_ELEM`, 3 |
| `ListGetElement` at the end | 0 (149-152) | `LIST_END`, 2 |

So `while (ListGetElement(...))`, the loop `list.h` shows, never ends, and
`if (Delete(...))` is always taken.  No code of the repository uses the results.

**SlotLists** keeps of the server only when a slot gets and gives back its two
lists.  A slot keeps its pointers afterwards, and `sem_open_all` and
`sem_close_all` search them, so what matters is whose lists they reach.

**LinuxServer** reuses the handlers of `SemServer` with `Procs` as the indexes of
`conn_array` and `alive` as `status_array`.  A round of the server's loop is one action
(`accept_connection` or `aceptar_pedido`); connecting, sending a request and
reading its answer are steps of the client, so everything that interleaves in a run
of the emulator does here.  Two conditions stand for the ways in which the loop stops
serving: `WaitsInAccept` (a closed socket is left in `afds`, `select` fails, `rfds`
is still the full set and the server blocks in `accept`) and `SpinsWithNoSlot`
(no free index for a connection that waits).  `fs_stuck` is a
`connection_recv` that reads the end of a killed client's socket for ever.  The
connection library is a binary archive; what is taken from it is that messages
arrive whole and in order, that `accept` blocks, that `connection_destroy` closes the
socket and that `connection_recv` does not return at the end of one.

**Console** lets each user pick any entry of the menu at any time, quit, be killed
and start the program again.  What the code reads past the end of its table
(`get_sem_fd` admits `MAX_SEM`) is `NoHandle`, the handle of no slot, or in `m_unlink`
a name that no semaphore has; unlinking a name that is `NULL` crashes the program.
The menu lets its user destroy any entry; users are taken to keep to
`sem_destroy.3`, as above.  They can judge only when they choose, and the request may wait at the server
while others act: `DestroysAreLawful` says that it is still in order when it is read.

**ProdCons** gives every process a program counter over the statements that call the
library, and its user `INPUT` characters or an end of input at any earlier point.
`produced` and `consumed` are history variables.

## 3. Runs

| Run | Instance | Shows |
|---|---|---|
| `always` | 2 processes, 2 names, 2 slots, 3 nodes, kills | what holds in all circumstances: types, empty free slots, queues within debt, a name table that agrees with the slots and misleads nobody in spite of overwritten keys and failing insertions |
| `kills` | 3 processes, 1 name, 2 slots, 20 nodes, kills | queue length and count stay equal, no sleeper loses its semaphore while slots are closed, destroyed and created again, unlinked semaphores have members |
| `quiet` | 3 processes, 1 name, 2 slots, 20 nodes, no kills | every slot implements `Semaphore`, the queue is exactly the sleepers, FS never hangs |
| `lists` | 2 lists, 3 nodes, 3 values, both orders | chains partition the nodes, each node owns an element, the lists implement `BoundedLists`, deletion keeps the cursor on its list |
| `slot_lists` | 8 slots, 17 lists | slot i only uses lists 2i and 2i+1; stale pointers reach nobody's list; `NewList` does not fail |
| `syscalls` | 2 processes, 1 name, 2 slots, kills | a call fails exactly when its caller's errno is set; a call that does not sleep gives back the caller's own handle; whoever becomes a member of a semaphore is told so |
| `prodcons_ends` | 6 items | `pc_init` ends and leaves no semaphore behind |
| `consoles` | 2 users, 2 connections, 1 slot, 1 table entry, kills | a call in progress is unread, asleep or answered once, with an answer to that call; connections never displace each other; a DESTROY that was lawful when sent is lawful when read |
| `prod_cons` | 2 producers, 1 consumer, 2 connections, 4 slots, capacity 1 | handles stay valid until closed, nothing is consumed before it is produced, names and unlinked semaphores are released, and every call is served unless the loop has stopped in one of the two ways above |

Three runs end in a counterexample.  Each checks a statement of a comment, a manual
page or the report that the code does not keep (quoted under "findings" in `PROJECT.json`):

| Run | Statement | What happens |
|---|---|---|
| `claim_name` | the same name is the same semaphore | the key was overwritten; a second one is created |
| `claim_handle` | `sem_wait` leaves its parameter alone | a woken process finds another handle in its `sem_t` |
| `claim_serves` | each character typed produces or consumes an element | one client leaves; the server waits in `accept` and answers no other until a new one connects |

Other behaviour of the code that the models reproduce and no run is about:

* `sem_init` fails although a slot is free when any earlier request left `errno` set
  (`semaphore.c:104`); on Linux the failing `select` sets it too.
* With no list node left a process falls asleep without being queued
  (`semaphore.c:362`), and the next post wakes whatever slot an uninitialised
  variable names.  `BlockedIsDebt` holds only with enough nodes.
* A process killed in `sem_wait` stays in `blocked_list` and a later post is spent on it
  or on the process that took over its slot.  `BlockedListHoldsSleepers` holds
  only without such kills.
* A client of the emulator that disconnects closes nothing: the next client at its
  index is a member of whatever it left open.  One that is killed makes
  `connection_recv` loop at the end of its socket, and the whole server with it.
* With three `prod_cons` processes a semaphore whose row of the name table was
  overwritten while it was in use is never released; `NamesAreReleased` excepts it.
* A consumer posts `sem_prod` once more at the end of its input, so places are
  added to the buffer; `BoundedBuffer` bounds it until then.
* In a full table the console drops a semaphore it has just opened.
* `sem_post` wakes the process that fell asleep last (`ListInsert` puts it first).
* A process that opened a name twice and exits stays in `proc_list` once, so the
  unlinked semaphore is never released.
* `sem_open` with `O_CREAT|O_EXCL` on a new name creates nothing and is reported as
  success with handle 0; other failures of `sem_open` are reported or not
  depending on an uninitialised `return_val` (`semaphore2.c:100`).
* `sem_post` returns no value on success.
* `ListRemoveFirst` leaves the cursor on the node it frees; its only caller rewinds
  before it reads.
* When nodes run out within a fork the child is counted in `ref_count` of semaphores it is
  not a member of, and its calls on them are refused.
* In `pc_init` the consumer's `s_full` becomes the handle of `s_empty` after it has
  slept, so it can run ahead of the producer.  It still ends.

**Bounds.**  `MaxRef`, `MaxCount` and `MaxDebt` cut off `ref_count` (never
decremented by the code), posts and waits; they only remove steps.  They let a
process open twice or a fork follow an open, two processes sleep on one semaphore and
a dead sleeper's slot number be reused.  Two slots let a freed slot be taken again while the
other one is in use.  `SEM_VALUE_MAX` is 0 or 1 so that one more is an illegal
value; in `kills` no count goes above 0, because only counts that make processes
sleep matter there.  Three nodes fill up within a few calls; 20 never do in the
instances that use them (`NodesUsed` is bounded by members and sleepers).
`ROW_SPAN` is the code's 6, more than the table has rows, so an insertion reaches every
later row.

In `consoles` one slot and one table entry are enough for handles that outlive their
semaphore, a full table and an index inherited by another client; two connections for
two users let either be the first.  A second slot makes the run too long; what it would
add, requests that meet a semaphore in another slot, is in the theorems, which hold for
any number of slots.  In `prod_cons` three processes share two
connections, so that one waits in front of a full `conn_array`; four slots hold two
generations of the two semaphores, and the bounds `MaxRef`, `MaxCount` and `MaxDebt`
are out of reach.  One character each and a capacity of 1 make every process
sleep, post and end in every order.

**Symmetry and views.**  Process slots and names are interchangeable; all properties
under symmetry are invariants or properties of single steps.  The views leave out
only what no step reads: which error `errno` is (only its being 0 is
tested), results already delivered, contents of free pool entries.

**Deadlock** is not checked where the system may stop: all processes may
sleep, all may have exited, FS may be stuck, a program may have ended.  `lists` and
`slot_lists` check it.

**Fairness** is assumed in `PcInit` and `ProdCons`.  In `PcInit`: weak fairness for each process, because the
kernel schedules every runnable process and FS takes and answers requests one after
the other.  A process asleep in `sem_wait` is not enabled, so nothing is
assumed about wake-ups.  A failing fork is an alternative of the fair step, not
excluded.  In `ProdCons`: weak fairness of `Proceeds`, the server's loop together
with the return of calls that are answered, because the kernel runs both when
they can run.  No user has to start a program, type, or end the input.

## 4. Proofs

`SemServer_proofs` proves, for all values of the constants, `TypeCorrectness`,
`QueuesWithinDebt` and `FreedSlotsKeepNobody`.  The inductive invariant is
`QueueInv`: `TypeOK`, `FreeSlotsAreEmpty` and `BlockedWithinDebt`.  The last two
need each other: a slot taken again starts with a count of at least 0, which
keeps the queue within its debt only because the queue is empty.

It goes on to the name table, with `NameTableCorrect` and `LookupsAreSound`, over
`NameParts`, which adds the three parts of `NameTableMirrorsSlots` and
`LookupIsSound`.  The heart is `TableHasRoom`: while a slot is free, fewer rows are in
use than there are slots (rows inject into linked slots), so the table, with
`INITIAL_SEM <= MAX_HASH_ELEM`, has a free row, and `sem_open` may ignore
`HASH_NO_MEM`.  An overwritten key reads as empty and no client name is empty, so lost
keys lose names and never redirect them.

`SlotLists_proofs` proves `PairsAreOwned`, `StalePointers` and `NewListSucceeds`
from `2 * INITIAL_SEM <= MAX_LISTS`.  The inductive invariant is `SlotsOwnPairs` with
types; `CreateFindsPair` shows that the first free slot i finds lists 2i and
2i+1 as the first free ones.  `StalePointersAreHarmless` is not inductive by
itself: it does not say that a list in use belongs to its slot.

`SemSleepers_proofs` proves `CountsAreQueueLengths`, `NobodySleepsOnFreedSlot` and
`UnlinkedAreGivenBack`, with killed sleepers, as long as nodes last.  Every step
of the server is first shown to have one of a dozen effects (`Creates`, `Joins`,
`Closes`, `Sleeps`, `Wakes`, ...), and the invariants are proved effect by effect.
The inductive invariant `SleepInv` adds to the name table's one that every sleeper is
queued on its semaphore (`SleepersAreQueued`): this makes `sem_destroy` refuse,
and it survives a post only because `BlockedIsDebt` keeps the queue from
being empty when somebody is to be woken.  The name table is needed because
`sem_open` adds a member to whatever slot it finds, unchecked.

It goes on to `QueuesHoldTheSleepers`, `FsGoesOnServing` and
`ServerImplementsSemaphores` when, besides, no sleeper is killed.  `QuietInv` says of
every slot (`SlotIsSound`) that its queue is exactly its sleepers, each once,
and that its count is below zero by their number; so the process at the head of a
queue awaits FS's reply, and `send` does not block.  For the refinement, `value` (the
count with the sleepers added back) is then the larger of the count and 0, and `live` is that
`ref_count` is not 0; taking a slot is `Create`, giving it back is `Retire`, counting up and down
is `Unlock` and `Lock`, falling asleep is `Sleep`, and a post with sleepers is `Wake`.  As `Create`
needs a slot that is not live, a semaphore in use changes its number by locks and unlocks only, also
while nobody sleeps.  In a free slot the number is anything: a `sem_open` or `sem_init` whose value is
past the limit stores it before it is refused.

`SemSyscall_proofs` proves that library and dispatcher run the server
(`LibraryRunsServer`: `SysSpec => Spec`, so that the theorems above hold behind them)
and the three action properties of the run `syscalls`, with kills and without any
assumption on nodes.  `SysInv` holds the types of what the library keeps and that the last
result of every process agrees with its `errno`; the rest is which `errno` each
function of the server leaves behind on success and on failure.

`LinuxServer_proofs` shows that every action of the emulator and of its clients keeps
`LinuxInv`, and `Console_proofs` concludes `EmulatorIsTyped`, `CallsAreAnsweredOnce`,
`DestroysStayLawful` and `ConnectionsAreKept` for any number of consoles whose users keep
to `sem_destroy.3`.  `LinuxInv` has five parts.  `ServerInv` is `SlotIsSound` for every slot, which holds here too: a
handled request is a step of `SemServer`, and the only index given back without closing its
semaphores is one that does not sleep.  `MessageInv` has the types, with requests that
are legal.  `ConnectionInv` says that each connection is in the backlog or at one
index, and that one of a process that is gone still has something to be read (so
that a console started again finds no connection of its predecessor).
`ClientInv` is the place of each call; it adds to `EachCallInOnePlace` that a
`DISCONNECT` comes from a client that does not sleep.  A wake-up reaches the right
client because the head of the queue sleeps, so it is in use, and its index
belongs to one client only.  The fifth is `DestroysAreLawful`: a handled request must
be a step of `SemServer`, and it is inductive because only its caller's own request takes a client
out of a semaphore or makes it a member of a new one (`OthersMayDestroy`), and a client has one
request at a time.  The console's part, `TableInv`, is that its table holds handles.

`ListPool_proofs` proves `ListsShareTheNodes`, `ElementsFollowNodes`,
`DeletesKeepTheCursor` and the refinement `ListsImplementSequences`, for pools of any
size.  `Chain` walks recursively; that the walk exists, and that it returns the path
it starts on (`WalkIsPath`), is shown by
induction over sets of numbers (`LeastNumber`, `Induction`), which needs no
operator parameter.  From then on a chain is a path, a sequence of nodes
whose links lead from one to the next (`IsPath`), and every operation inserts into a path or
deletes from it at some position (`InsertPath`, `DeletePath`).  The inductive invariant
`ListInv` says that some paths, one for each list, share the nodes in use between
them (`Partition`), and that each of these nodes owns one element (`Owned`); a path has no
repetitions, so it fits in the `MAX_NODES + 1` steps of the walk.

The refinement is over `SequenceInv`, which adds that the nodes hold values and that sorted
lists increase.  Each operation is reduced to what it does to one chain (`Becomes`) while
the other nodes keep their values (`ValuesStay`); `FindFacts` says where `ListFindNode`
stops: at the first node with the value or, in a sorted list, where it belongs.
That `ListInsert` fails exactly when the sequences hold `MAX_NODES` elements
(`TotalCountsNodes`) follows from a bijection between their positions and the nodes in use.

`ProdCons_proofs` proves `HandlesAreKept`, `NamesAreGivenBack` and `BufferIsKept` for any
number of producers, consumers, connections, characters and places.  Over `LinuxInv`,
`ProgramInv` ties the request of every client to the statement it is at, and every sleeper
to its `sem_wait`.  `HoldParts` says who has which semaphore under which name, from the
server's answer to `sem_open` to its answer to `sem_close`: it is in use, was created under
that name or has been unlinked, and its members are exactly those that have it, once each
(`HeldLive`, `HeldOnce`, `MembersHold`); and a name in the table leads to a
semaphore somebody has and has still to unlink (`NamesHeld`), so when all have
unlinked a name it leads nowhere.  A request then has one of nine effects (`OpensOld`,
`OpensNew`, `DropsName`, `TakesUnit`, ...), none of them a refusal.

The buffer needs counting.  `Units` is a set with a member for each unit in a semaphore and
one for each client that carries one; a step moves a member or drops some, and
`BoundedBuffer` follows as no set has fewer than no members.  `ElementsInv` bounds
the elements in all semaphores ever opened as `sem_cons`, and on their way, by
`produced - consumed`.  For the places (`PlacesInv`) there must be one `sem_prod` only: a
second one brings `CAPACITY` more.  `Packed` shows this until somebody ends: rows are then taken
one after the other, the padding of a new key runs over free rows only, and every
semaphore in use is found by its name.  After the first unlink neither holds, which is why
the property stops there.

These theorems assume `[]SlotsLast`: whenever the server has to create a semaphore, a slot
is free.  The program does not test what `sem_open` returns.  `SlotsSuffice` proves it from
`2 * Cardinality(Clients) <= INITIAL_SEM`, slots that are never given back
included, as each is charged to one `sem_open` of one client; with fewer slots it may
still hold, as in the run `prod_cons`, where TLC finds it in every state.

The hypothesis `[]NodesLast` (some list node is left before every request) is
what the code silently relies on: no caller tests `ListInsert`.  In the instances of
`kills`, `quiet`, `consoles` and `prod_cons` it holds in every state, as members and sleepers together
are fewer than 20; in `always` it fails, and the theorems of `SemServer_proofs` do
not need it.  `~KillsSleepers` is about MM; in the emulator nothing reads that constant.
TLC checked each inductive invariant on an instance of the runs as well; of `ListInv`, its
consequences `NodesArePartitioned` and `NodesOwnElements`, and of `SequenceInv` also what
it adds to them.

Assumptions: the named `ASSUME`s of the constants; names are non-empty and shorter than
40 bytes; `sem_destroy` is called on semaphores no name leads to (`MayDestroy`, section 2);
other calls
of FS do not write `m1_i2` between semaphore calls (they could, and then a woken process gets
their value); the word at address 0 of FS is 0.

Only model-checked: liveness (`CallsAreServed`, `EndsAndCleansUp`), which with `ENABLED` is
outside TLAPS's reach.  Every other property of the passing runs is stated by a theorem.

## 5. Not modelled

* The installer, the call tables and the assembler stubs hold no logic of their own
  beyond copying files and constants; `timeutils.c` is used by the binary
  connection library only.
* `main.c` beyond the request loop (`fs_init`, the buffer pool, the RAM disk) is stock
  Minix code that reaches no semaphore, and so are the file calls in `misc.c`.
* `pc_init` on Linux: after the fork two processes share one socket, and how their
  requests and answers mix is decided by the connection library.  `prod_cons` on
  Minix: its named semaphores are in `SemServer`, its mixed-up handles in `SemSyscall`.
* Messages of the emulator byte by byte, a name longer than a message, a lost TCP
  connection, and the uninitialised length `accept_connection` gives to `accept`.
* Memory behind the console's table that `free_space` overwrites for entry `MAX_SEM`, and
  the end of input inside one of the console's questions, which it repeats for ever.
* What follows when a semaphore that has a name is destroyed, against `sem_destroy.3`
  (section 2): slots that share their lists.
* `sem_timedwait`: commented out in the library, a stub in the dispatcher.
* The wrap-around of `sem_count` (2^31 posts) and of `ref_count`; a failing `malloc` in the
  library's `sem_open`; `permision` fields, which nothing reads.

## 6. Plan

1. Done: name table, server, dispatcher and library, list pool, slot pointers,
   `pc_init`; the Linux emulator with the console and `prod_cons`; the theorems above.
2. Left: a condition on `MAX_NODES` in place of `[]NodesLast`.  `NodesUsed` is a sum over
   slots and processes, folded, and what a fold computes is induction over
   data; so it stays a hypothesis, which TLC finds true in the instances named above.

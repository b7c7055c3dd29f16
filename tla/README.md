# Specifications of the AOS course systems

TLA+ models, model-checking runs and TLAPS proofs for the programs of this repository. The core
is assignment 3, a BitTorrent-like group file sharing system: `tracker.cpp` and `client.cpp` of
`assignment_3/2022201068/` (the copies one directory up are the same programs at other moments). Beside
it stands assignment 1, a terminal file explorer (`main.cpp` of `assignment_1/2022201068/`).

## 1. The system

### Components, their state and operations

| Component | State | Operations | Interacts with |
|---|---|---|---|
| Tracker registry (`tracker.cpp`, `handle_connection`) | `usertomap`, `loggedin_map`, `grouptomap`, `filetomap`, all in memory | `create_user`, `login`, `logout`, `create_group`, `join_group`, `leave_group`, `accept_request`, `upload_file`, `stop_share`; reading: `list_requests`, `list_groups`, `list_files`, `download_file` | one request, one reply per connection |
| Connection pool (`server_function`, `start_thread`; the same code in tracker and client) | `thread_queue`, `mutexQueue`, `condQueue`, four workers | accept, push and signal; wait, pop, serve | hands sockets to `handle_connection` |
| Client session (`client.cpp`, `client_function`, `connecttotracker`) | `currUser`, `connection_info` | the commands a user types | the first tracker of `tracker_info.txt` that was online when the client started |
| Client download (`downloadstart`, `start_down_thread`, `downloadexec`, `userschunkmapinfo`) | `threadDownQueue`, its mutex and condition variable, `breakcond`, `filetomap`, the file on disk | `download_file`, `ufile`, `show_downloads` | other clients' servers: `getchunks`, `download` |
| Client as a server (`handle_connection` of `client.cpp`) | `filetomap`, which `operator[]` also changes | `getchunks`, `download` | downloading clients |
| Client group and file commands (`client_function`) | `filetomap` | `upload_file` records the file; the other commands forward a request and print the reply | the tracker |
| File explorer (`assignment_1/2022201068/main.cpp`) | cursor, window, `filesarr`, `CWD`, two history stacks, mode, `keys`, `cmdkeys` | keys; `copy`, `move`, `rename`, `create_file`, `create_dir`, `delete_file`, `delete_dir`, `goto`, `search` | the file system |
| Scheduling simulator (`ppts/Priority_Preemtive_Schedule.cpp`) | queues, PCBs, time | arrival, dispatch, preemption | none |
| Kernel exercises (assignments 2, 4) | none | system calls, one module | the Linux kernel |

### What is hard in it

* **Concurrency.** Four tracker threads run `handle_connection` on the four maps with no lock;
  the pool's mutex protects only the queue. On the client, download threads, the server's threads
  and the command line share `filetomap` and `currUser` without a lock.
* **Waiting.** `start_thread` waits without a loop around the condition; no handler closes its
  socket; commands the client refuses leave their connection open and silent; a read waits for ever.
* **Failure.** A tracker that stops forgets everything; clients keep their belief that they are
  logged in; a request whose client has ended is carried out all the same, later.
* **Copies that go stale.** A file's addresses are copied from the accounts at upload time; the
  client's login flag copies the tracker's; leaving a group does not touch the files shared in it.
* **Several trackers.** They exchange nothing.
* **Downloads.** Completion is announced when the chunks are queued; synchronisation objects on
  shared storage are destroyed under waiting workers.
* **Offers.** A client offers as many chunks as its entry says, whether they are holes or data; a chunk that
  arrives replaces the entry by the path and size of the peer's copy; looking a file up inserts a null entry that the
  next look-up follows; asking peers stops at the first who is gone.
* **The explorer's copies of its state.** The row of the cursor, the first line shown, the selected index, the list and the
  screen are five variables set by different functions, with a tree that commands change below them; the working directory
  and `CWD` part when it is renamed or deleted; histories are popped before it is known whether the directory can be entered.
* **The explorer's arguments.** Commands read arguments that were not typed, where those of an earlier command still are.
* **The explorer's recursion.** It reads a directory while it copies or moves into it, follows symbolic links, and ends
  where no more directories can be opened.

What makes each component correct: the registry's maps name each other consistently and groups
follow the membership protocol; no connection is lost, doubled or forgotten by the pool; the
client's belief agrees with its tracker; a client can answer for what it is listed for, what it offers is there, and a
copy is whole unless its own download had a flaw; the explorer shows and selects what the directory
holds, forgets no directory it can go back to, and copies, moves, deletes and finds exactly what it is told to. `PROJECT.json`
lists each hazard at its line with the properties that guard it.

## 2. The modules

| Module | Models | Used by |
|---|---|---|
| `GroupMembership` | what the registry promises about groups: one role per user and group | `Tracker` (`INSTANCE ... WITH role <- roleBar`) |
| `Maps` | `std::unordered_map` | `Tracker`, `TrackerThreads`, `Swarm` |
| `Tracker` | the registry, each command one atomic step | `MCTracker`, `TrackerProofs`, `TrackerThreads` |
| `TrackerThreads` | the same commands taken apart and interleaved by the pool's threads | `MCTrackerThreads`, `TrackerThreadsProofs` |
| `DownloadPool` | one download: `downloadstart` and the threads of `start_down_thread` | `MCDownloadPool`, `DownloadPoolProofs` |
| `WorkerPool` | acceptor, queue, workers, connections of three kinds | `MCWorkerPool`, `WorkerPoolProofs` |
| `ClientSession` | clients and trackers: sessions, replies, restarts, left-open connections | `MCClientSession`, `ClientSessionProofs` |
| `Swarm` | one file among several clients: what they offer, ask of each other and receive | `MCSwarm`, `SwarmProofs` |
| `Pager` | abstract: what can happen to cursor, window, list and screen at all | `Explorer` (extends it; `ImplementsPager`) |
| `FileTree` | paths, symbolic links, system calls, and the explorer's operations on single files | `DirectoryLevels`, `Directories` |
| `Directories` | the explorer's recursive operations: copying, moving, deleting and searching directories | `MCExplorer` |
| `DirectoryLevels` | what copying, moving and deleting do with one directory, their calls of themselves constants: for the proofs | `Explorer` (extends it) |
| `Explorer` | the explorer: keys, directories, histories, command line, commands | `MCExplorer`, `ExplorerProofs` |
| `TrackerProofs`, `TrackerThreadsProofs`, `WorkerPoolProofs`, `DownloadPoolProofs`, `ClientSessionProofs`, `SwarmProofs`, `ExplorerProofs` | theorems and their proofs | |
| `FiniteInduction` | what the proofs need of folds over finite sets and sequences | `ClientSessionProofs`, `ExplorerProofs` (`INSTANCE ... WITH Step <- ...`) |
| `MC*` | constants for TLC | |

A definition called `X_Y` is not part of a model. It is `X` with a plausible slip `Y` (a missing
guard, a value not reset); replacing `X` by it must break one named property. Section 4 lists them.

### Tracker

Variables have the names of the C++ globals, records those of the structs; maps are functions with
a changing domain (`Put`, `Erase`). An action has the name of its command, its guard is the negation of
the command's early returns, its updates are the handler's. A refused command changes nothing and is no
step, except a login with a wrong password, which logs the account out (line 363). Only these are
left out: texts, and a file's SHA and size, which the tracker stores and never reads. `PeersOf` is what
`download_file` answers. Commands are atomic in this module, which is what the code would do with one
thread in the pool; `TrackerThreads` takes that apart.

`AddressesOf` says from which addresses a user's clients run. An address belongs to a client program
(its command-line argument); `FixedAddresses` is the case of every user at a program of its own: one address for each user, and no
address for two.

### TrackerThreads

A handler's look-ups are one step and plan its updates (`todo`); each update of a map or a set is a step of
its own (`Step`), and between any two of them another thread may do the same. That one handler's look-ups happen together is the
abstraction made here: a change by another handler between two look-ups of one is left out, one between look-up and
update is not. File records live in a heap, because `stop_share` deletes
them (line 831) while other handlers hold the pointer: a step through such a pointer does nothing, hits the
record that got the storage, or ends the process (`UseAfterFree`). `Container` says which map, or which set in which record, an update changes.
Two threads that are about to change the same one may end the process, or one change is lost (`DataRace`), also when the two are about different users who join one
group or share one file; a look into a container that another thread is changing may end the process or miss what is there (`MissedLook`, which plans with
`BeginBlind` what the handler does when it finds nothing). A container that a race leaves in disorder, with an element twice or a wrong size, is left out.
A tracker that ends is started again, empty.

`job` says which users, files and new groups a running handler is about; `clashes` counts how often a handler
began while another was about the same, and every data race and missed look. `CommandsApartAreAtomic` is the refinement statement: with no clash
and no race so far, a step maps to a command of `Tracker` or to a stutter, where the abstract registry is the one that the
running handlers will leave when they are through: the registry with the updates that are still due (`Pending`) added to it and taken
away from it (`usersBar`, `flagsBar`, `groupsBar`, `filesBar`). The first step of a handler is where its command happens.

### DownloadPool

`dpc` is where `downloadstart` is, `pc[w]` where worker `w` is in `start_down_thread`. While the mutex is there, a
critical section is one step (`Take`, `Wait`). The queue is a deque: `pushed` is its memory and `first` its cursor, and what is behind the
cursor is popped but still there. Once the mutex is destroyed, looking at the queue, `front`, and the load and the store of `pop` are steps
of their own (`Look`, `Front`, `PopLoads`, `PopStores`), so that two pops may count as one, and a worker that was held up between the two brings back
pieces that others have taken since. The fetching of a chunk is one step with its outcomes: it arrives, is given up, or a peer that breaks
off in mid-reply ends the client; or it never comes, since `Fetch` is under no fairness. What the C library does with destroyed objects is described at the head of the module, after glibc.

### WorkerPool

A critical section of `mutexQueue` is one step, up to the wait that gives the mutex back. `hand` is the
socket between `accept` and `push`. Connections differ in what their client does: a request, a probe
closed at once (`connecttotracker`), or silence until the client ends (`client_function` returning
early). `pthread_cond_signal` wakes some waiter, `pthread_cond_wait` may return by itself. `Exhausted` is the
process's limit on descriptors, which only grows towards because nothing closes a socket; `accept`
then yields -1, and reading from -1 walks below the buffer (`bytes_read` is unsigned) until it finds a
newline or leaves the stack: both outcomes are in `ServeBad`. For a probe the handler writes the terminator to
`request[-1]`, which lies in padding of the unoptimised build the Makefile makes.

### ClientSession

`session[c]` is `currUser.userid` while `currUser.loggedin` is set, `call[c]` the command the client waits
for; a tracker's part is `accounts`, `loggedin_map` and the client that each user is reached at. A client that
ends while its command waits leaves the request behind (`orphans`). `leftopen` counts the connections
left open by commands refused locally: each takes up a thread of the tracker, and with all of them taken
up (`Pinned`) nothing is handled until a client ends.

### Swarm

What `DownloadPool` leaves out: the content. `listed` is whom the tracker names for the file, `disk` the copies
(each chunk a hole or data), `filetomap[c]` the client's entry (none, a null pointer, or path and number of
chunks), `stage[c]` where the client is in its command, `chunktomap` the peers heard of for each chunk, `transfer` a peer's answer that is
not yet acted upon. Sharing takes two steps, since the tracker answers before the client has recorded the file
(`upload_file` or `ufile`, then `Recorded`). `getchunks` asks one peer after the other; `download` is the peer's
answer to one chunk's request, `Arrive` what the downloader does with it, which goes by the size the peer's file has then.
`Lookup` is `operator[]`: the peer that has no entry gets a null one, and following it is the end of the peer.
`Adopt` is the downloader's entry taking the peer's path and size. `ufile` shares the copy once the seed is there; where that has left no copy, it stops at a null
entry and else goes on to the pieces with what an older entry says (`NotUploaded`). `downloadstart` ends when the pieces are queued (`Finish`, at any time while
pieces are left) and its workers go on (`Fetching`) or have left a piece behind (`LeaveBehind`); a client is at rest (`AtRest`) when both are through, and only then
begins another command: commands between the two are left out, and with them a piece that stays in the queue until the workers of the next download take it. Clients end, start again with an empty `filetomap`, and users remove
copies (`RemoveCopy`, the only action that is not the program's; of clients at rest only). All clients run on one machine, as in the code: peers are
reached at `INADDR_ANY`, and the downloader itself looks at the size of the file at the peer's path.

`flaws[c]` records what the download of `c` could have noticed: `cut`, it never heard of the whole file; `missed`, a chunk was given up,
left in the queue, or came as a hole or as nothing; `stopped`, the client ended on the way. `flaws`, `restarted` and `removed` are there for the properties only,
and no guard reads them.

### Pager, FileTree, DirectoryLevels, Directories, Explorer

`Pager` has the six variables of the screen and the two cursor keys as the code has them; its `Turn` allows
any new list, printed or not, with the cursor at the top or left alone. `Explorer` extends it and says when: `ImplementsPager`
is the refinement. `Shown` has `Garbage` in the rows behind the end of `filesarr`; in the code printing one of them ends the program or prints what the
vector held before, and both are choices (`Overruns`).

In `FileTree` a path is the sequence of its names and a tree maps paths to directories, files (a sequence of blocks) and links. `pathresolver` follows a path
name by name (`Onto`, `Along`), from links to where they lead (`LinkEnds`): through links within links up to `MaxLinks` deep, so that links that go round in a circle
lead nowhere. A file that is opened for writing and not there is made where the links end that lead there (`Opened`). An operator takes a tree and gives the one it leaves; `IsTree` says that what exists is a directory, file or link, in directories that exist.
`Directories` has the operations that call themselves, with `RECURSIVE`. Directories are read in the order of `readdir` (`InListing`), entry by entry, from the tree as it is
when the reading begins; `MaxOpen` is how many can be open, which is what ends a copy of a directory into itself.
The provers cannot see a `RECURSIVE` operator, so the recursive operations are constants of `Explorer` (`CopyDir`, `MoveDir`, `RemoveDir`, `SearchExec`), which `MCExplorer.cfg` sets to
those of `Directories`. `DirectoryLevels` has their bodies with the constants in place of the recursive calls, for a proof to say what the constants are, and
`MCExplorer` has TLC look that the two agree (`LevelsAgree`, on small trees): the theorems about cursor, list and screen hold whatever they do to a tree, those about the tree and the histories if they do what `Directories` says.

In `Explorer`, `wd` is the process's directory and `CWD` the path kept of it: they part when it is renamed or deleted (`Follow`).
Every function that goes somewhere is `Visit` (`change_dir`, then `getAllFiles`, also when the first fails). `getAllFiles` gives an empty list where there is no
directory, a list cut off at a dangling link (on which `stat` fails), and else the entries. `keys` outlives a command mode that
is left, and `cmdkeys` keeps earlier arguments behind those typed (`Args`), which `delete_file`, `rename` and `goto` may read. `TooLong` is
`getcurrdir`'s buffer of a hundred characters: `getcwd` gives a null pointer, and the string made of it ends the program. What is
read behind the end of a vector gives what was there or ends the program (`EnterNothing`, `DiesOnTheWay`). Commands take absolute paths.
`AgreementKept` is about normal mode: ESC in command mode sends the cursor to the top (883-890) of a list that may be scrolled and is not shown anew, which parts screen and selection until
the next key that lists; that step is not one of the property's.

## 3. The runs

| Run | Configuration | Shows |
|---|---|---|
| `tracker_registry` | 3 users at an address each that is no other's, 2 groups, 1 file, 2 passwords | types, the five parts of the registry invariant, `FileStaysWhileShared`, `ImplementsMembership`, `AddressesMatchSharers`, `OnlineSharersOffered` |
| `tracker_one_address` | 2 users, 1 address | `OnlineSharersOffered` **violated** |
| `tracker_leaver` | 2 users, 1 group | `SharersAreMembers` **violated** |
| `worker_pool` | 2 workers, 5 connections, 4 descriptors | `NothingLostOrServedTwice`, `WakeupsCoverQueue`, `RequestsAnswered` |
| `client_session` | 2 clients with a user each, 2 trackers, 1 thread | `BelievedSessionIsReal`, `LogoutWorks` |
| `tracker_threads` | 2 users, 1 group, 1 file, 2 threads, 2 records, 2 overlaps | `OnlyAccountsInvolved`, `FounderStays`, `CommandsApartAreAtomic` |
| `group_ids` | the same | `GroupIdsAreUnique` **violated** |
| `download_pool` | 2 workers, the seed and 2 pieces | `PiecesInOnePlace`, `NobodyLeavesWork`, `QueueDrains` |
| `download_done` | the same | `CompletedMeansArrived` **violated** |
| `shared_user` | the same users at both clients, 1 tracker that never stops | `LogoutWorks` **violated** |
| `swarm` | 3 clients, one of them with the file of 2 chunks, 3 commands, 3 ends and removals | `ListedCanAnswer`, `OfferedExist`, `WholeUnlessFlawed` |
| `explorer` | 2 trees of two names, windows of 2 and 3 rows, 14 commands | `CursorArithmetic`, `SelectionInRange`, `ListingIsCurrent`, `AgreementKept`, `HistoryForgetsNothing`, `ImplementsPager`, `CopyIsExact`, `MoveIsExact`, `DeleteIsExact`, `SearchIsExact` |

Each passing run also checks its module's `TypeOK`.

Bounds, and why they are enough:

* `tracker_registry` (186,063 states): a third user gives two sharers beside a downloader, and an applicant beside an admin and a member; a
  second group is what a file's group is compared with; files do not meet in any command, so one is enough. Each user logs in from an address of its own:
  what changes when two of them share one is shown by `tracker_one_address`, and the theorems hold for any `AddressesOf`, but for the
  two about addresses. Groups,
  files and passwords are permuted; users and addresses are not, because `AtHome` ties them together. The run has no liveness property.
* `worker_pool`: two workers race for the queue and for wakeups; two silent connections pin both; the fifth
  connection meets a full descriptor table. `MaxBad` caps the failed accepts waiting in the queue at one:
  the acceptor would otherwise fill it without end. The system stops when the process dies, so deadlock is not checked.
* `client_session`: one mortal tracker and one that stays, one client that may end at any time and one
  that may not, one request of an ended client at a time (`MaxOrphans`), a pool of one thread (`Threads`; the
  code has four: it takes more left-open connections to pin it, and nothing else changes).
* `tracker_threads` (141,430 states): the hazards are races of two handlers about one user, file or group; the second record is the
  one that a second first upload, or an upload after a deletion, gets. `MaxClashes` ends the exploration after two
  overlaps of handlers about the same thing, races or missed looks; overlaps of handlers about different things are not bounded.
* `download_pool` (386,493 states): two workers compete, and with two pieces a worker can count one down, wait, and be woken for another.
  A value of `breakcond` read from a frame that is gone ranges from 0 to one more than the pieces (more than the
  pieces is never reached, 0 or less leaves at once). Workers may wait for ever and the client may end: no deadlock check.
* `swarm` (328,806 states): one client that owns the file, and two that may first hear of each other's partial copies; two
  chunks are the seed, after which `ufile` shares the copy, and one that is still to come. `MaxCommands` is 3: an upload and two downloads, the second of which may
  be from the first's copy, or the same client's again. `MaxMishaps` is 3 ends of clients and removals of copies: enough for a client to end, lose its copy and end again, or
  for each client to have one. The two downloaders are symmetric. Nothing can happen once no copy is left: no deadlock check.
* `explorer` (657,578 states): directories three deep and a tree with links to a directory and to a file; lists of up to four entries in windows that
  hold two or three. `MaxHistory` 2 fills both histories; `MaxEffort` 4 allows two commands, or one and two moves: the second command is the one that
  finds stale arguments, a directory that is gone, or the tree that the first left. `CwdLimit` 2 makes the third directory too deep for `getcurrdir`,
  `MaxOpen` 3 ends a copy into itself. One order of `readdir`, in which `b` precedes `a`. The program may quit or die: no deadlock check.
* `shared_user`: a client that is not `Hasty` waits for ever on a pinned tracker, so deadlock is not checked.

Fairness. `WorkerPool`: weak fairness of the acceptor and of each worker, which are loops of threads the system
schedules; none for clients, spurious wakeups or the end of a connection. `ClientSession`: weak fairness of
handling a request, guarded by a thread being free, which is what `RequestsAnswered` shows of the pool, and
of a client reading its reply; none for what users type, for clients that end, or for trackers that stop or
start. `DownloadPool`: weak fairness of the queueing (`Queueing`) and of each worker's loop around the fetch (`Looping`), threads that keep running; none for the
fetching of a chunk, the seed's included, nor for the tracker's answer to `ufile`, which read from sockets without a timeout, and none for spurious wakeups.
`QueueDrains` therefore excuses a download of which every worker has left or is fetching for ever. `Tracker`, `TrackerThreads`, `Swarm` and `Explorer` have no fairness and no
liveness property: the first two and the last do what users ask when they ask it, and a download need not end, since
`read` waits without a timeout for a peer that is there and sends less than its size promised.

The violated properties are disagreements between the code and what the repository says of it:

1. `tracker_one_address`: `stop_share` erases an address that another sharer also has (`tracker.cpp` 825);
   the assignment wants everything shared before a logout to be shared again after a login.
2. `tracker_leaver`: `leave_group` leaves the user among the sharers (`tracker.cpp` 473), and uploading a name that
   another group lists adds an outsider (677); the assignment has downloads served by group members.
3. `group_ids`: two `create_group` of one id both look (`tracker.cpp` 382) before either inserts (394), and both are
   acknowledged; the assignment wants group ids to differ.
4. `download_done`: "Download Completed Successfully!" (`client.cpp` 1363) is printed when the pieces are queued.
5. `shared_user`: the client advises "Please logout first!" (`client.cpp` 354) where logging out is refused for ever.

## 4. Mutants

| Property | Slip |
|---|---|
| `Tracker`: `TypeOK` | `create_user_NoFlag`: no login flag for a new account |
| `CatalogueMatchesGroups` | `DropFile_StaysListed`: the group's list keeps a dropped name |
| `EveryFileHasASharer` | `LastSharer_Never`: the record outlives its last sharer |
| `PendingIsNotMember` | `Admit_RequestStays`: the request survives the admission |
| `AdminOwnsGroup` | `MayLeave_Admin`: the admin may leave |
| `OnlyAccountsInvolved` | `MayJoin_Anybody`: joining without the account check |
| `FileStaysWhileShared` | `LastSharer_TooEarly`: the size compared one off |
| `ImplementsMembership` | `MayAccept_Unasked`: accepting without a request |
| `AddressesMatchSharers` | `AddSharer_NoAddress`: a second upload forgets the address |
| `OnlineSharersOffered` | `PeersOf_Offline`: the login test the wrong way round |
| `WorkerPool`: `TypeOK` | `Return_StaleSocket`: the worker keeps the socket it served |
| `NothingLostOrServedTwice` | `Pop_FrontOnly`: front without pop |
| `WakeupsCoverQueue` | `Signal_FirstOnly`: a signal only when the queue was empty |
| `RequestsAnswered` | `ReadReturns_NotAtEnd`: the read loop does not end with the stream |
| `TrackerThreads`: `TypeOK` | `Continue_JobStays`: a thread keeps its job when it is through |
| `OnlyAccountsInvolved` | `MayJoin_Anybody`: joining without the account check |
| `FounderStays` | `FoundGroup_Overwrites`: a second group replaces the first |
| `CommandsApartAreAtomic` | `Drop_StaysListed`: the group's list keeps a dropped name |
| `DownloadPool`: `TypeOK` | `NothingThere_NotNull`: `pclient` not reset before the wait |
| `PiecesInOnePlace` | `Pop_FrontOnly`: front without pop |
| `NobodyLeavesWork` | `ReadBreakcond_OneShort`: the count one short |
| `QueueDrains` | `Signal_Forgotten`: a push without a signal |
| `ClientSession`: `TypeOK` | `MayLogin_UnknownUser`: login without the account check |
| `BelievedSessionIsReal` | `SessionAfter_AnyReply`: any reply is a success |
| `LogoutWorks` | `SessionAfter_FlagStays`: logout does not reset the flag |
| `Swarm`: `TypeOK` | `Record_OneMore`: the number of chunks rounded up when nothing is left over |
| `ListedCanAnswer` | `Record_InsertOnly`: `insert` alone, which leaves a null entry in place |
| `OfferedExist` | `Record_AllChunks`: the entry promises the chunks that are still to come |
| `WholeUnlessFlawed` | `Offered_OneShort`: the last chunk is not offered |
| `Explorer`: `TypeOK` | `change_dir_NoLimit`: a path of any length has room |
| `CursorArithmetic` | `init_StartStays`: the first line shown is not reset |
| `SelectionInRange` | `change_dir_CursorStays`: the cursor stays where it was in the directory before |
| `ListingIsCurrent` | `delete_fileexec_NoListing`: the list is not read after a deletion |
| `AgreementKept` | `upkey_SelectionStays`: the window scrolls without the selection |
| `HistoryForgetsNothing` | `goback_Forgets`: nothing is pushed for the way forward |
| `ImplementsPager` | `resizehandler_NoInit`: the cursor stays in a window of another height |
| `CopyIsExact` | `copy_file_Empty`: the copies of files are made and not filled |
| `MoveIsExact` | `rename_file_OldStays`: the file is in its new place and in its old one |
| `DeleteIsExact` | `delete_file_Rmdir`: files in the directory stay |
| `SearchIsExact` | `SearchesIn_Flat`: only the directory itself is searched |

## 5. What is proved

For every value of the constants that meets the modules' assumptions (`AddressesAssumption`, `PoolAssumption`,
`ThreadsAssumption`, `SessionAssumption`, `SwarmAssumption`, `FileTreeAssumption`, `ExplorerAssumption`):

* `TrackerProofs!RegistryConsistent`: `RegistryInvariant` is inductive. Its parts need each other: that every
  sharer has an account (`OnlyAccountsInvolved`) is what makes `usertomap[u].address` defined in `stop_share`, and
  `CatalogueMatchesGroups` needs `EveryFileHasASharer` for the last sharer's case. `TypeCorrect` comes first. `CatalogueRight`,
  `SharersRemain`, `PendingOrMember`, `AdminsIn` and `AccountsOnly` state the parts one by one.
* `FilesStay`, the action property, and `MembershipImplemented`, the refinement: each command changes at most one
  role, along an edge of `GroupMembership` (`OneRoleChanges`, `NoRoleChanges`, `RoleStep`), given `RegistryInvariant`:
  without `PendingIsNotMember` and `AdminOwnsGroup` a role could jump.
* `AddressesAgree` and `SharersOffered` under `FixedAddresses` (each user has one address, which no other user has), from the strengthening `AddressesAreOwn` (an account's
  address is one of its user's). The run `tracker_one_address`, where each of two users has one address but the same, shows that its second half cannot be dropped.
* `WorkerPoolProofs!TypeCorrect` and `NoLostWakeup`, for any finite pool: the argument counts awake workers; a push
  adds one to the queue and wakes one, a take removes one of each, and a worker falls asleep only over an empty queue.
  `EachServedOnce`, from `Exclusive`: every accepted connection is in one place, and the queue holds none of them twice.
* `DownloadPoolProofs`: `TypeCorrect` (with `Stages`, how the stages of `downloadstart` go with the workers and the mutex: no
  worker runs before `SetUp`, and once the mutex is destroyed nothing is left to queue); `NoWorkLeft`, from `WorkCounted`: a
  worker that read `breakcond` in time has at least as many pieces to count as are left; and `EachPieceOnce`, from `OnePlace`,
  which adds that the pieces in hand are among those taken. Both are about the time with a mutex only: without one, two
  workers may take one piece, and a pop that stores an old cursor brings pieces back behind a worker that has left.

* `ClientSessionProofs!SessionsReal`: `BelievedSessionIsReal`, if `UsersApart`: no user sits down at two clients (the run `shared_user`
  shows what happens otherwise). The invariant, `SessionInvariant`, says of every request, sent, replied to or left behind by a client that ended, that
  it is about a user of its client (`OwnSession`, `OrphansKnown`), so that no other client can undo what a reply is about to confirm
  (`RealSession`, which covers the time between the tracker's answer and the client's reading it).
* `SwarmProofs`: `TypeCorrect`, with `CopiesFit` and `JobsFit` (no copy is longer than the file; a chunk is fetched only in its stages and while peers are known for it: the seed before `ufile`, the others after). `ListedAnswer`, from
  `ListedKnow`: who is listed has a path in its entry or is about to write it, and `Adopt` keeps entries of files entries of files. `Offers`, from
  `AllBacked`: entries, answers on their way and those who are recording all lead to copies of listed clients, and a copy only
  grows until it is removed (`Grows`), so that a size once read stays a lower bound. `CopiesWhole`, from `AllSound`: a download without a flaw
  so far has, for each chunk it lacks, a peer that it still has to fetch it from.
* `ClientSessionProofs!TypeCorrect`, without `UsersApart`. Its hard part is `leftopen`: that no client leaves more connections open than its
  tracker has threads follows from the guard about the sum over the clients of that tracker (`Pinned`), of which no term is larger than the sum (`SumBounds`).
* `TrackerThreadsProofs`: `TypeCorrect`, `AccountsOnly` and `FoundersStay`, for any number of threads, users and records and any number of overlaps that `MaxClashes`
  allows. `ThreadsInvariant` says of every update that a handler has planned and not yet carried out that the accounts
  it relies on exist (`Sensible`). That survives all other threads, because the registry only moves on (`Advances`): accounts stay, and groups keep their
  admins. The restart after a crash is the exception, and it empties the plans as well. A use of a freed record or a data race gives the registry before, the one
  after, or hits another record, and each of these keeps the invariant; and what a handler plans when it has missed something (`BlindPlans`) relies on no account that is not there.
* `TrackerThreadsProofs!CommandsAtomic`: `CommandsApartAreAtomic`, the refinement of `Tracker`. The invariant is `ApartInvariant`: as long as nothing clashed or raced, the
  handlers are `Apart`. No two jobs overlap; what each handler has left is about its job only and still possible (`Fit`: a record it is about is in the heap, under a name that leads
  to it; an account it makes is not there yet), in the order of its command (`Ordered`); and the maps lead to what is there (`Kept`). An update spares what handlers with other jobs have
  seen (`UpdateSpares`), which keeps their plans fit. Given that, three things are shown for each kind of update and each command: an update that is made was due, so that the registry that
  will be stays as it is (`UpdateUnseen`; `SizeApart` for the look at `userids` that decides whether the file goes); what a handler looks at when it begins is what it will be when everyone is
  through (`AccountSeen`, `GroupSeen`, `FileSeen`); and so the beginning of a handler is its command (`CreateUserApart` to `UploadFileApart`). A step through a freed record
  is impossible meanwhile (`NoUseAfterFree`).
* `ExplorerProofs`, about `Pager`: `PagerInvariant`, for any lists and windows, and `KeysAgree`, that the cursor keys keep the screen
  in agreement with the list. About `Explorer`, for any trees, commands and windows: `ExplorerImplementsPager`, and with it `CursorConsistent`;
  `ListStaysCurrent`; `SelectionStaysInRange`; `AgreementIsKept`. Every step is of one of six kinds (`StepKinds`): a cursor key, the same list read
  again, a list read with the cursor at its top, a list read after a command, nothing (but, when command mode is left, the cursor at its top), or the end of the program.
  The invariant needs both of its parts: leaving command mode sends the cursor to the top of a list that nobody reads at that
  moment, so that the selection is in range only because the list is current and the list of a directory has at least ".". And the list
  is current because a command that does not read it anew has left the tree as it was (`CommandKeepsTree`), which for `copy` and `move`, folds over their sources,
  is shown source by source (`CopyKeepsTree`, `MoveKeepsTree`).
* `ExplorerProofs!ExplorerTyped` and `HistoriesForgetNothing`, about the tree and the places in it, with `PlaceInv` as the invariant: the file system is a tree, the process is in
  one of its directories, histories hold paths that are short enough. That a tree stays one is shown for each system call and single-file operation (`MkdirKeeps`, `CopyFileKeeps`,
  `RmdirKeeps`, `DeleteFileKeeps`, `RenameKeeps`, `CreateKeeps`), of which `RenameKeeps` is the hard one: whatever is below the old name is carried below the new one and
  nothing else is, which uses that a rename below itself or over a directory with something in it is refused (`Granted`). It rests on what a path leads to (`ResolvedPlace`: nowhere, or
  something that exists), by induction on its names and on the depth of links. `FollowFacts` says that a process whose directory is carried along is in a directory afterwards. No way of going on
  forgets a directory because a path that is a directory's own leads to it (`DirResolves`), so that `goback` ends up where the entry it takes from the history says, if that exists.
  Both theorems assume `DirectoriesRecur`: at every level, `CopyDir`, `MoveDir` and `RemoveDir` do what `DirectoryLevels` says, with themselves below. These are the definitions of
  `Directories` (`LevelsAgree` has TLC compare them), and an assumption here only because the provers cannot see a `RECURSIVE` operator. `RecursionKeepsTrees` takes it to trees at any depth, by
  induction on how many more directories can be opened, and within a level by induction on its entries (`CopyLevelKeeps`, `MoveLevelKeeps`, `RemoveLevelKeeps`).
* `ExplorerProofs!SearchExact` and `DeleteExact`, what two of the recursive operations compute, by the same induction. `LevelFinds`: what is below a directory is below one of its
  entries (`EntryAbove`), and the path of an entry leads to it wherever the path of the directory came from (`EntryResolves`), so that a search that is begun at a path through links finds what
  is in the directory they lead to. It assumes `SearchRecurs`, which is `DirectoriesRecur` for `SearchExec`. Of deleting, two things are shown. `DeletesOnly`, for any links: a path that leads somewhere in what is left of a tree leads to the
  same as in the whole one (`PartLeads`, by induction on its names and on the depth of links), so that no deletion on the way turns a link to where it did not lead before, and what is taken away is
  in every set of paths that has the directory and what the links in the set lead to. `Empties`, without links: after each entry what is left is the tree without the entries read so
  far (`EntryCut`), also where `readdir` gives a name twice, and the deepest level, which cannot be opened, has nothing in it that `rmdir` would stumble over.
* `ExplorerProofs!CopyExact`, what copying computes, again by induction on how many more directories can be opened and within a level on its entries. That nothing disappears (`Grows`) holds of every path and
  link. That the copy is exact is `Grafts`: after some of a directory's entries the tree is the old one with the directory and just these entries copied (`Pasted`, of which `PastedAll` is the whole
  copy), because the entries have nothing in common (`EntriesApart`), one that is copied is still as it was (the copy goes outside of the source), and its own copy again goes to a free place
  outside of it, since `readdir` gives each name once (`ExplorerAssumption`). `TargetPlace` says that a path
  the user gives, made free by `CanMake`, names the place where the copy goes, links on the way included.
* `FiniteInduction`: the library's induction theorems take an operator as parameter, which the provers cannot use. Induction over finite sets is stated with a set
  instead (`MinimalSet`: among the subsets of a finite set that fail, some are minimal), and from it follow that a fold over a finite set or a
  sequence is defined, and what its steps are (`FoldExists`, `SeqFoldSteps`, `StepByStep`). The step of the fold is the module's constant, because what it folds over (trees, registries) forms no set.

The assumptions describe what the code starts from: the explorer is started in a directory that it can list, `readdir` gives every name once, and the sorted list has "." and ".."
(`ExplorerAssumption`, which also says that the directory it starts in is in a tree and its path short enough); no file is called "ERR" (`FileTreeAssumption`); the clients are finitely many (`SessionAssumption`).

Only model-checked:

* `MoveIsExact` of `Explorer`, which says what moving directories computes. Its first part is about contents, not about places: a level of `MoveDir` changes the tree at two places in turn, so that
  neither "nothing disappears" nor "nothing else is touched" is an induction hypothesis, and one that says which files went where through links was not found. Every tree and command of the run `explorer` has it checked.
* Liveness (`RequestsAnswered`, `LogoutWorks`, `QueueDrains`), which is out of the prover's reach.

## 6. Plan

Done, in this order: the registry, its threads, the connection pool, sessions, one download, the swarm, the explorer, and the proofs of section 5. What could
follow: what moving directories computes, level by level, as it is proved for copying, deleting and searching; and login and `stop_share` in `Swarm`, with the registry of `Tracker` in place of `listed`.

### Not modelled

* A second download of one client at the same time. It initialises a mutex and a condition variable that threads are using, which is undefined, and
  nothing says how two downloads are to share one queue.
* The scheduling simulator: a program of the lecture notes in one file, with threads on a clock of sleeps; it belongs to no assignment.
* The kernel exercises: no state of their own.
* The earlier snapshots (`assignment_3/*.cpp`, `assignment_3/learn`, `assignment_1/file_explorer`): other moments of the modelled programs, whose last
  state is the one that was submitted.
* The SHA computation: no reply depends on it.
* `chunknumber * CHUNKSIZE` beyond 2 GiB: `Swarm` counts chunks and has no sizes in bytes.
* SIGWINCH in the middle of `getAllFiles`: a vector changed under a loop over it is undefined; a resize comes between two keys here.
* Commands of a client whose workers still fetch, and a piece that stays in the queue for the next download (`Swarm`).
* Races on the tracker's maps that leave them in disorder; they end the process or lose a change in `TrackerThreads`.
* In the explorer: permissions and owners, the program a file is opened with, relative paths other than "..", and the terminal's modes. Neither are four cases that
  its runs do not reach: the directory that `getAllFiles` leaves open when `stat` fails (`main.cpp` 373-377), which in the end keeps any other from being opened; `CWD` listed
  after a link has taken the place of the directory of that path (357, 373); enter on a list that a dangling link has emptied, where `filesarr[0]` may still be the "." of
  the directory listed before (805, 821) and is then entered; and the two descriptors of `copy_file` (461, 470), which may be missing at the last levels where `opendir` still succeeds.

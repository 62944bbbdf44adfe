# A verification development for TideSDK

TideSDK runs desktop applications written in HTML, CSS and JavaScript. A boot
loader resolves the components an application depends on (having them
installed when they are missing) and starts the runtime, `libtide`. The runtime
embeds a browser engine, loads modules (files, network, processes, workers,
windows, ...) and gives their objects to the application's scripts. This
directory holds TLA+ models of the parts of it in which several threads,
processes, program runs or nested calls interact, the TLC configurations that
check them, and machine-checked proofs about most of them: about the main
thread's queue of jobs, which everything else stands on, events, workers,
asynchronous copies, processes, TCP sockets and servers, the HTTP client, the
installer, the boot loader, modules and windows.

Paths below are relative to the repository; `libtide` is `src/libtide`,
`modules` is `src/modules`.

## 1. The system

### How the parts interact

There is one **main thread**. It runs the platform's event loop (GTK on Linux,
Cocoa on OS X, Win32), all JavaScript of windows, and everything that must not
run elsewhere. Every other thread - workers, sockets, process monitors, pipe
readers, HTTP clients, asynchronous jobs - reaches the application through two
mechanisms:

* `RunOnMainThread(method, args, wait)` (`libtide/host.cpp`) queues a job for the
  main thread; with `wait` the caller blocks on the job's semaphore until the
  main thread has run it;
* `FireEvent` (`libtide/binding/event_object.cpp`) calls the listeners of an
  object, each through `RunOnMainThread`, and of the GlobalObject after it.

So a module's thread is blocked whenever the main thread is, and the main thread
must never wait for a thread that may be waiting for it.

Across program runs the parts interact through files: the directories of
components, the application's own files, the markers `.installed` and `.update`.
The boot loader starts the installer as a process and looks at these files when
it has ended; the installer may start itself again with `sudo`; a running
application writes `.update` and restarts.

### Inventory

| component | source | state | operations | what is hard | what makes it correct |
|---|---|---|---|---|---|
| main-thread jobs | `libtide/host.cpp`, `main_thread_job.cpp`, `*_host.*` | queue, jobs and their semaphores, activations of the loop | `RunOnMainThread`, `RunMainThreadJobs`, `Execute`, `Wait`, wake-up, `Exit` | who deletes a job; nested batches; wake-ups; exit while threads wait | run once, answered with the own outcome, never used after delete, never forgotten |
| events | `libtide/binding/event*.cpp` | listeners per object, events being dispatched | add, remove, `FireEvent`, `stopPropagation`, bubbling | listeners change while an event is dispatched, from other threads and from callbacks | who listens hears an event once, a stopped event goes no further, who was removed is not called |
| worker | `modules/worker` | inbox and outbox, two events, `running`, the thread | `start`, `terminate`, `postMessage` both ways, `onmessage`, `sleep` | terminate against start; wait against post; two threads at the outbox | messages in order and once, no message or termination slept through, `terminate` returns |
| process and pipes | `modules/process` | child, readers, exit monitor, three event queues of the pipes | `launch`, call, read, exit, attach and detach | order of READ, CLOSE, EXIT over three queues and two threads; launching again | all output before EXIT, in order and once, every exit noticed |
| TCP client | `modules/network/protocols/tcp/tcp_socket.*` | state, write queue, reader, writers | `connect`, `write`, `close`, errors | writers start and end; close in every gap of the reader | in order, one writer, a closed socket stays closed |
| installer | `installer/linux` | `stage`, two threads, archives, packages, markers | download, unpack, cancel, sudo, finish | one unprotected `stage` written by three threads; a second run whose end is known only from the program that asked for the password; results of unzip that are dropped | success only when unzip was run on all; ends; cancels |
| versions, dependencies | `libtide/utils/boot_utils.cpp`, `application.cpp` | - | compare, scan, sort, resolve | numbers as text, order of search | the latest that meets the requirement |
| boot loader | `boot` | manifest in use, update file, marker, components | `Bootstrap`, `FindUpdate`, run the installer, launch, update and restart | interrupted installations, updates cancelled or obsolete, archives that could not be unpacked | never starts with a directory missing; an uninterrupted update is applied or still there |
| modules | `libtide/host.cpp` | loaded modules, providers, files no provider could load | load, start, rescan, unload | a module that loads or starts adds a provider: re-entrance | each module is loaded and started, in whatever order providers come |
| asynchronous jobs | `libtide/async_job.cpp` | progress, result, flags | run, cancel, callbacks | callbacks from a thread; cancel against completion | one of completed or error; progress in order |
| thread pool | `libtide/thread_pool.cpp` | threads, pending jobs | start, collect | idle against reserved; queue order | each job run once |
| TCP server | `.../tcp_server_*` | reactor, connections, send queue and its offset | listen, close, write, readable, writable | handler removed while a write comes in; partial sends; close before listening | sent in order; a handler exactly when there is data; close closes |
| HTTP client | `.../http_client_binding.cpp` | `readyState`, the handle, headers, data, abort flag | open, send, receive, abort, timeout, redirect | no lock: only the handle tells that a request is under way; handlers that throw or send again | states in order; answers not mixed; the handle in use is kept; abort ends |
| analytics | `modules/network/analytics_binding.cpp` | stored events | send, start at page load, shutdown | shutdown while sending | stored or sent |
| filesystem | `modules/filesystem` | `AsyncCopy`: running, stopped; the list of copies, its timer | copy, cancel, clean up | cancel against the thread; the timer's answer against a new copy | a cancelled copy stops; its object outlives its thread's work; the list is emptied |
| windows | `modules/ui` | windows, children, the list of open ones; sizes and limits | open, close, resize, exit | listeners open and close windows in the middle of an opening or closing; sizes are reported later | children close with their parent; the list is true; the last window ends the application |
| database, codec, app, platform, monkey, media, the rest of ui, API, JavaScript binding, binding values, utilities, languages | the modules of that name | held by SQLite, the windowing system, interpreters | conversions, queries, calls on the main thread | resource lifetime | out of these models (see PROJECT.json, component by component) |

## 2. The models

Each model follows the code's granularity: a step is what a thread does between
two points where another thread may be seen to interfere (a lock released, a
wait, a call to the main thread, an unprotected read). Names are the source's.

### Main-thread jobs: `MainThreadCalls`, `MainThreadJobs`

`MainThreadCalls` is what a caller is promised: a call is new, called, ran, over;
its method runs once; a waiter gets the result of its own call.

`MainThreadJobs` is the implementation. `mainThreadJobs` is the queue; `obj` says
which `MainThreadJob` objects are allocated or deleted; `frames` is the stack of
activations on the main thread: a batch taken by `RunMainThreadJobs` (with its
vector, index and the flag read before `Execute`) or a job that `RunOnMainThread`
runs in place. A method that runs may post jobs, call in place, and - where the
platform dispatches jobs inside modal loops (`Nested`: Win32, OS X) - run
another batch. `Timer` is Linux, where `SignalNewMainThreadJob` does nothing and
a 250 ms timer runs the jobs; elsewhere wake-ups are counted in `tickles`.
`posted` and `started` are history.

### Events: `EventObject`

Listeners of several objects, copied under the lock by `FireEvent`, called one by
one (through the main thread when fired elsewhere), removed and deleted by
anybody meanwhile; stop and prevent flags of the event; bubbling to the
GlobalObject. Callbacks may fire events, add and remove listeners.

### Worker: `Worker`

The main thread's side (`mpc`) and the worker's (`wpc`, and `op` for what its
script is inside of) with both queues, the two auto-reset events and `running`,
and the handler of the outbox that runs on either thread (`hpc`), over several
starts and terminations. The script may post, sleep, call the main thread and
wait, return or throw at any point; `onmessage` may be assigned and removed at
any time (`setLate` is the history of having done so while the thread lived).

### Process and pipes: `Process`

The child, the operating system's pipe, the reader, the exit monitor, the
events thread of `Pipe` with its three queues (`pipesNeedingReadEvents`,
`pipesNeedingCloseEvents`, `otherEvents`), and the synchronous launch on the main
thread. Each launch is asynchronous (`launch()`) or a call, and comes as soon as
`running` is false: also when the last exit monitor has not ended yet
(`unmonitored`). Histories say what each listener has seen.

### TCP client: `TCPSocket`

The state under its mutex, the write queue, the reader's steps, the writers (each
a run of `WriteThread` on a pool thread), errors met by either, and `connect()`
and `close()` in any gap. `refused` and `closedByApp` are histories.

### Installer and boot loader: `Installation`, `Installer`, `Boot`

`Installation` is one run of the installer as the boot loader can rely on it:
unzip is run on the packages in order, the run succeeds only when it was run on all,
and only then the marker is written and the update removed. It leaves open what
unzip could unpack, for the code drops the result. And where a terminal is all
there is to become root in (`terminal`), success says nothing: the status taken
over is that of `xterm`.

`Installer` is the code: the GTK main loop with its watcher and buttons, the two
threads, the stage, the second process started as root and the status its first
process takes over (`TakeOver`); how many packages, installation or update, who may
write the files and whether there is only a terminal is chosen at the start. It is
checked to implement `Installation` (`KeepsPromise`).

`Boot` composes the promise, with a terminal, with `Bootstrap` and with the
application that asks for an update: it uses the actions of `Installation`, not
those of the installer's code. Here a package has contents: unzip puts a component's
directory or the application's files in place, or fails and leaves any part of
them (`UnzipComponent`, `UnzipApplication`); the directory of a runtime or a module
is made before. A component is there for `Bootstrap` when its directory is. What
each version's manifest asks for, and what is on disk, is chosen at the start. The
SDK supplies all components but the mobile SDK, which supplies itself; when either
is missing SDKs are all that is installed (`FilterForSDKInstall`). `failed` and
`interrupted` are the history of the last installer since the update was asked for.

### TCP server: `TCPServer`

One server from `listen()` to its destruction: the listening thread (`rpc`) with
the reactor's turns, connections that come (`status`), are read from and written
to. `sendData`, `offset` and `installed` are the connection's, `handler` is
whether the reactor has its write handler: the three steps of `onWritable` -
what the reactor calls, the send without the lock, and what is done to the queue
under it - are actions of their own, for `Write` and `Close` come between them.
`Drop` is the connection's destructor, whenever the application drops it, also when
the server is gone: it then uses a reactor that is no more, and what comes of that is
outside of the model.
A send takes any part of the rest, or throws. Poco's reactor and server socket
are external: they are modelled as their use here needs.

### HTTP client: `HTTPRequest`, `HTTPClient`

`HTTPRequest` is what an application relies on: the states of a request in their
order, DONE once. `HTTPClient` is the code: `ExecuteRequest` (`pc`) on a thread
of its own or in place, libcurl's callbacks (`HeaderLine`, `HeaderEnd`, data,
progress), the handlers, each run on the main thread while the request waits
(`call`), and the catch clause. All of a client's members are shared by its
requests, so one that is begun by a handler of the last meets what that has
left. `Patient` says that the application begins no request in the gaps in which
the client takes it though another is under way (`InGap`): before the thread of
the last has set the handle (`http_client_binding.cpp:435`), or when it has given
the handle up and has not shown DONE. What then happens is in section 4.

### Modules: `Modules`

`Host::Run` from `LoadModules` to the shutdown: libraries, scripts that wait for
a provider, `AddModuleProvider` wherever a module calls it - in `Initialize`, in
`Start` or later - with the scans it sets off. The stack of calls under way is
explicit (`stack`), as the calls are nested through the modules.

### Asynchronous copies: `AsyncCopy`

The thread of each copy with its unlocked flags, the list and the references
that keep its object, and the timer: what its thread asks, what the main thread
answers, what its thread does with the answer, and the end of its loop. Poco's
timer (external) goes on while its interval is positive, so that `restart(0)`, called
by its own callback, ends the loop; only a `restart(100)` between that call and the
return of the callback keeps it alive. `late` is the history of copies begun after
the answer that stops the timer.

### Windows: `UserWindow`, `WindowSize`

`UserWindow` is opening and closing, as a stack of calls like that of `Modules`:
at `open`, `opened`, `close`, `closed` and `exit` listeners run and may open and
close windows in turn, to `MaxDepth`. `Careful` says that they open none (see
section 4). `WindowSize` is a window's configured size, the one it reports
(`targetWidth`), the one on the screen and the events in between; GTK and the
window manager are external.

### Versions and dependencies: `Versions`, `Dependencies`

The comparison functions as operators over strings of characters, and the choice
of a component as a function of what is on disk, against a reference order
(`VersionIsLess`) that compares numbers as numbers. `Boot` abstracts from it: a
dependency is met when a component of its name is there.

### Compositions and instances: `Threads`, `Sockets`, `Host`, `UI`, `MC...`

Four modules hold several components side by side that share nothing: `Threads`
(`Worker`, `AsyncCopy`), `Sockets` (`TCPSocket`, `TCPServer`), `Host`
(`Installer`, `Boot`, `Dependencies`, `Modules`) and `UI` (`EventObject`,
`UserWindow`, `WindowSize`). `part`, chosen at the start, says which of them is
at work, and the others rest in one of their initial states. What a run of such
a module shows of one component is what a run of its own would. `Lists` holds
what erasing in a loop leaves of a list; `UserWindow` and `WindowSize` use it.
Modules named `MC...` give the constants of these for TLC. The operators marked
`Mutant:` in the models are plausible mistakes in the code, each paired with a
property that notices it; they are used by no specification.

## 3. What TLC checks

The runs that pass are arranged by what an application has to do with: its calls
to the main thread (two runs, because the platforms differ), threads of objects,
processes, sockets, HTTP, what happens until it runs, and windows. A run that
ends in a violation shows one disagreement of the code with its own comments
(section 4).

| run | components and instance | shows |
|---|---|---|
| `jobs_modal` | main-thread jobs: 2 threads, 4 jobs, wake-ups, nested loops, exit | who deletes a job (`NoJobUsedAfterDelete`), no lost wake-up (`NoLostWakeup`); implements `MainThreadCalls` (`ImplementsCalls`) |
| `jobs_live` | main-thread jobs: 2 threads, 3 jobs, timer, exit | first-in first-out (`QueueOrder`); every job is finished unless the loop ended (`JobsFinish`) |
| `threads` | worker: 2 messages each way, 2 starts; asynchronous copies: 2 of 2 files | order (`QueuesInOrder`), nothing slept through or left behind (`NothingIsLost`), `terminate()` returns (`TerminateReturns`), messages are taken (`MessagesAreTaken`); a cancelled copy stops (`CancelStops`), its object is kept (`KeptWhileRunning`), the list is emptied of all copies that came before the timer stopped (`CopiesAreDeleted`) |
| `process` | process: 2 launches or calls, 2 chunks of output each | output before EXIT and CLOSE, EXIT once (`ExitAfterOutput`); output once and in order (`DataInOrder`); exits are noticed (`ExitIsNoticed`) |
| `sockets` | TCP client: 2 connections, 3 writes, 2 writers; TCP server: 2 connections, 2 and 1 writes of 2 units, 1 piece to read | order over each connection (`SentInOrder`, `ServedInOrder`), write handlers exactly when there is data and none of a connection that is gone, no write to a reactor that is gone (`HandlersAreSound`); connecting ends and queues are worked (`SocketGoesOn`, `ServerGoesOn`) |
| `http` | HTTP client: 2 requests, with a redirection and bodies of up to 1 part | each request shows its states in order (`KeepsPromise`), answers are not mixed (`AnswerIsOwn`), nobody frees the handle in use (`HandleIsHeld`), an aborted request ends (`RequestsEnd`) |
| `host` | installer: up to 3 packages; boot loader: 2 versions over 3 components, anything on disk; choice: 2 directories and the bundle, versions of up to 2 parts; modules: 2 libraries, 3 scripts, 3 providers | only complete archives (`OnlyCompleteArchives`), implements `Installation` (`KeepsPromise`), ends (`EndsUnlessUnheard`); components before the files that need them, applied before forgotten (`UpdateIsSafe`), applied in the end (`UpdateArrives`), unless interrupted or not unpacked; the best is chosen (`BestIsChosen`); no scan within a scan (`ScansDoNotNest`), every file that can be is loaded (`NoFileIsLeft`), every module started (`EveryModuleStarts`) |
| `ui` | events: 2 listeners, 2 events; windows: 4, three deep; sizes: 1 window, 3 sizes | who was there hears an event once (`EveryListenerHearsOnce`), stop is final (`StopIsFinal`); the list of open windows is true (`ListIsActive`), children close (`ChildrenAreClosed`), the last window ends the application (`ExitsWithLastWindow`); the size reported is that on the screen (`WidthIsReported`) |
| `events_removed` | 1 listener, 1 event | *violated*: a removed listener is called (`RemovedIsNotCalled`) |
| `boot_usual` | the boot loader as in `host` | *violated*: a cancelled update keeps a complete application from starting (`StartsAsUsual`) |
| `deps_ten` | one part, 9 and 10 | *violated*: 10 sorts before 9 (`LatestIsChosen`) |
| `copy_timer` | 2 copies of a file | *violated*: a copy begun after the list was once found empty stays in the list (`TimerCleansUp`) |

**Bounds and why they are enough.** Two background threads are the least that
compete for a queue; three or four jobs fill a batch, the queue behind it and a
job in place at the same time, to any depth of nesting the jobs allow. Two
listeners and two events give a listener removed by one dispatch in the middle
of another, in both orders. Two messages in each direction and two starts give a
message queued while one is in flight, and one posted across a restart. Two
chunks of output give events that join writes and an event behind each, and two
launches everything that one leaves for the next (the exit callback, a monitor
that has not ended, queued events). One stream is modelled: stdout and stderr
go through the same queues with the same code, and two of them make the state
space too large for the two launches. Three writes and two connections let one
writer end while another begins, over a connection that was reopened. A write of
two units is the least that can be sent in part, and two of them the least of
which one can be queued while the other is half sent; a connection of its own
shows reading and the reactor's choice between connections. Two requests give
one begun by a handler of the other, or refused because of it; three were tried
once for the safety properties (9 million states) and are what showed that a
handler which throws at DONE lets answers be mixed. Three packages give a first,
a middle and a last job. Two versions are what can be told apart: the installed
one and the one of the update. Three components are one of each kind: a runtime
(a module is treated alike), the SDK that supplies others and the one that does not. Two libraries and three scripts give a provider
that comes before its file, one that comes after it, and a chain of two. A main
window with two children and one grandchild gives a list of children to go
wrong, and a closing within the closing of a parent; depth four is a close from
a listener of a close of a child of a closing window. Two copies are one that is
being deleted and one that comes. Three sizes are one within limits and one
beyond each.

Symmetry is used for listeners, for calls of `FireEvent`, and for jobs where no
liveness is checked; the properties treat these alike.

**Deadlock** is checked except where the program really stops: events when all
have been dispatched, a bounded number of messages, launches, requests or jobs
used up, an installer that has exited, a dependency once resolved, an application
that has exited. In `process` it is checked: the thread that fires events never
ends.

**Fairness.** Threads are scheduled: weak fairness of each thread's next step.
A job's method returns, a child exits, the user answers an installer's dialog
(`Install`), libcurl calls its progress callback again and again. The timer of
the main loop fires again and again. A handler of an HTTP request is run and
returns; the main loop does what the timer of the copies asks. In `Worker` two
steps compete with others that are always possible: the main loop gets to the
call of a worker (`AnswerCall`) although the application may post, start and
terminate for ever, for the queue of jobs is served in order; and a script comes
back to its message loop (`ScriptEnds`) although it may post once more. In
`TCPServer` the reactor's thread serves one connection at a time, and gets to
each that is writable (`Writable`) although others are too: its loop goes over
all of them. These have strong fairness. Nobody is obliged to post, write,
launch, send, update, close or cancel, and no server to answer. Locks are held
only inside a step. A component that rests in a run of several has no fair step
that is possible, or its fairness is asked for only while it is at work (`host`).

## 4. What is disagreed with

`findings` in PROJECT.json lists the disagreements between the code and what its
comments say, each with the run that shows it: a removed listener is called after
it was deleted (`events_removed`); of versions 9 and 10 the first is taken for
the latest (`deps_ten`); a cancelled update keeps an application from starting
that is complete and installed (`boot_usual`); the timer that is to clean up
after copies stops for good when it has found none left, and later ones are never
cleaned up (`copy_timer`).

The models contain further behaviour that one would not expect, and that no text
in the repository speaks of. The properties that pass name it as a condition:

| model | the code does | named in |
|---|---|---|
| `MainThreadJobs` | jobs queued when the main loop ends are never run; a thread that waits for one stays blocked | `JobsFinish` (`stopped`) |
| `Worker` | `terminate()` before the thread has set `running` is undone by it, and joins a thread that does not end | `TerminatedTooEarly` |
| `Worker` | `terminate()` joins, on the main thread, a thread that waits for the main thread | `JoinDeadlock` |
| `Worker` | `onmessage` assigned while the thread lives: both threads take from one queue, test it without the lock, may pop it when empty or pass on out of order | `setLate`, `broken` |
| `Process` | launching again before the last exit monitor has ended: nobody waits for the child | `unmonitored` |
| `Process` | a call after a launch fires EXIT twice | `CalledAfterLaunch` |
| `Process` | launching again while the last run's output is still queued: its events come during the new run | `DataInOrder` |
| `Process` | a call fires EXIT while the listeners of its pipes have not got the output yet, and hands it to `onRead` twice | `ExitAfterOutput`, `Passed` |
| `Process` | a second call returns the output of the first too | `ExitAfterOutput` (`Contains`) |
| `TCPSocket` | connecting while the last read thread ends: the attempt is given up with the state at CONNECTING | `refused` |
| `TCPSocket` | `close()` while the reader connects is undone by it | `Undisturbed` |
| `TCPSocket` | after a reconnection, a writer of the old connection pops the queue of the new one, perhaps when empty | `Undisturbed`, `broken` |
| `Installer` | a request to cancel written over by a thread, or over its result: the progress bar stays | `Unheard` |
| `Installer` | the status of `xterm -e sudo` is 0 whatever `sudo` and the run as root came to: refused, cancelled or crashed, it is a success, the application is marked and the update removed (`installer.cpp:846`) | `Installation`'s `terminal`; `interrupted` |
| `Installer`, `Boot` | the result of unzip is dropped (`job.cpp:283`): the installer succeeds, marks the application and removes the update though an archive could not be unpacked; a component may be an empty directory, and an update whose own archive failed is forgotten with the old files, or some of them, in place | `unpacked`; `failed` |
| `Boot` | an SDK that could not be unpacked leaves components missing under files that need them | `ComponentsFirst` (`failed`) |
| `Boot` | the mobile SDK, when it is missing, is installed alone (`boot.cpp:81`), though it supplies no other component: an update's files are put in place before the rest | `ComponentsFirst` (`missing`) |
| `Boot` | an update whose installer was stopped is forgotten when its dependencies are there: the old files are started with the update's manifest | `interrupted` |
| `Dependencies` | a requirement with `<=` is never resolved | `UnresolvedIsMissing` |
| `Versions` | JavaScript compares parts that are numbers as strings as well | `IsNumber`, one character per part |
| `Modules` | modules loaded by the scan in `LoadModules` are started there and once more with all others (`host.cpp:558`) | `EveryModuleStarts` (`scanned`) |
| `Modules` | a module that adds its provider and then fails leaves the provider, which was seen by no scan | `NoFileIsLeft` (`orphan`) |
| `AsyncCopy` | the list lets go of a copy that was cancelled while its thread uses it | `KeptWhileRunning` (`cancelAt`) |
| `AsyncCopy` | `restart(100)` does not revive the timer (`filesystem_binding.cpp:368`) | `CopiesAreDeleted` (`late`) |
| `AsyncCopy` | `createDirectory` is outside the `try`: its exception ends the thread, and the copy says for ever that it runs (`async_copy.cpp:147`) | `CopiesAreDeleted` (`~running`) |
| `TCPServer` | `close()` before the thread has set `listening` finds nothing to close, and the thread listens for good | `ServerEnds` (`closeHeard`) |
| `TCPServer` | a connection keeps a reference to the reactor, which is a member of the server and goes with it; what keeps a write from using it is that the shutdown has closed every connection before | `NoWriteAfterDestroy` |
| `TCPServer` | nothing keeps the destructor of a connection from using it (`tcp_server_connection_binding.cpp:116`): it takes its handlers from the reactor whatever `closed` says | `Drop`; no property excludes it |
| `TCPServer` | a send that throws leaves its data and the write handler: the reactor calls it again and again, to no end | `HandlerIffData`, `WritesAreSent` (`dead`) |
| `TCPServer` | data read before `onRead` is set is lost | `reads` |
| `HTTPClient` | a request begun before the thread of the last has set the handle makes two transfers at a time; one begun before the last has shown DONE loses what that has received (`http_client_binding.cpp:435`) | `Patient` |
| `HTTPClient` | the catch clause frees whatever handle the client has (`:933`): when a handler of DONE throws after it began the next request, that one's; a third is then not refused, and answers are mixed | `lateThrow` |
| `HTTPClient` | headers cut off by a failure are counted among those of the next request | `HeadersAreLast` (`cut`) |
| `HTTPClient` | a `send()` or `receive()` that is refused has replaced the stream or the handler of the request under way already (`:174`, `:183`), and `open()` its URL (`:652`); `onload` is left out when `onreadystatechange` opens again (`:325`) | not modelled: data |
| `UserWindow` | a child whose CLOSE listener refuses stays open when its parent is closed, although `apidoc/Ti/UI/UserWindow/getChildren.yml` says that children close with their parent | `ChildrenAreClosed` (`refused`) |
| `UserWindow` | a listener of CLOSED that opens a child of the window leaves it open, with no parent | `ChildrenAreClosed` (`late`) |
| `UserWindow` | `open()` from a listener of OPEN opens the window twice (`user_window.cpp:486`): the list holds it twice, and the application never exits | `Careful` |
| `UserWindow` | a listener that opens a sibling while the children are closed invalidates the iterator (`user_window.cpp:214`) | `Careful` |
| `UserWindow` | a window closed by a listener of its own CLOSE fires CLOSED twice | `Closed` |
| `WindowSize` | `oldWidth` is one for all windows (`gtk_user_window.cpp:483`): of two windows, one that takes the size the other reported last is not heard, and `getWidth()` answers wrongly | one window in `ui` |
| `WindowSize` | `SetWidth` and `SetX` of GTK take the size from the configuration, not from their argument (`gtk_user_window.cpp:405`, `:438`); limits that cross are relaxed later (`user_window.cpp:671`) | `Consistent` |

Two more are known from reading and are outside the models: `Exited` joins readers
that read until the last writer of a pipe is gone, so that a grandchild which keeps
it open delays it (`native_pipe.cpp:67`); a write to stdin after the child's exit, or
in the last round of the writer, stays in the buffers (`native_pipe.cpp:154`). What a
reactor does that is called after it was destroyed is undefined, and not modelled
beyond the step that calls it.

## 5. What is proved

`MainThreadJobsProofs` proves, for every set of threads and jobs, every depth of
nesting and both ways of waking the loop, from `JobsAssumption` alone (`NoJob` is
no job, the flags are Boolean):

| theorem | states |
|---|---|
| `TypeCorrect` | `Spec => []TypeOK` |
| `NoUseAfterDelete` | `Spec => []NoJobUsedAfterDelete` |
| `CallerGetsItsOutcome` | `Spec => []AnswerIsOutcome` |
| `JobsAreSignalled` | `Spec => []NoLostWakeup` |
| `NeverTwice` | `Spec => ExecutedOnce` |
| `Refinement` | `Spec => ImplementsCalls` |
| `BegunInOrder` | `Spec => []QueueOrder` |

**The argument.** None of the properties is inductive. That a job is not deleted
too early depends on who holds it, so the inductive invariant `Inv` says that
each job has exactly one holder. `Distinct`: a job occurs once in the queue and
the batches taken together. `QueuedOK`: a queued job is alive and has no outcome.
`FrameOK`: the jobs of an activation that are yet to be run are like queued ones,
and the current one is where its activation says. `FlagOK`: the flag read before `Execute` is the job's own. `ObjectOK`: an
outcome, a set semaphore and an answer only come in that order. `CallerOK`: the
job a blocked thread waits for is alive, synchronous, and no other thread's.
Each action is shown to preserve each part in a lemma of its own; the actions
that push or pop an activation rest on lemmas about taking a whole queue as a
batch. `JobsAreSignalled` needs only types, and `Refinement` maps each step to a
step of `MainThreadCalls` or to none. `BegunInOrder` rests on an invariant of its
own (`Order`): without modal loops only the activation at the bottom of the stack is a
batch, and what was queued is what was begun, what is left of it, and the queue.

`ExecutedOnce` is proved and in no run: `ImplementsCalls`, which is checked, implies it.

`ThreadsProofs` proves, for any number of messages and starts
(`WorkerAssumption`), and of copies and files (`CopyAssumption`):

| theorem | states |
|---|---|
| `TypeCorrect` | `Spec => []TypeOK` |
| `MessagesInOrder` | `Spec => []MailboxInOrder` |
| `NothingSleptThrough` | `Spec => []NoWakeupLost` |
| `OutboxIsHandled` | `Spec => []NothingLeftBehind` |
| `OutboxRises` | `Spec => []OutboxInOrder` |
| `QueuesKeepOrder`, `NothingGetsLost` | the last four, two by two, as the run checks them |
| `CopiesAreSound` | `Copies!Spec => []CopyInv` |
| `CancelStopsCopies` | `ThreadsSpec => []CancelStops` |
| `CopiesAreKept` | `ThreadsSpec => []KeptWhileRunning` |

**The argument.** `MailboxInOrder` and `NothingLeftBehind` are inductive with the
types. `NoWakeupLost` speaks of a worker that waits; `Told` adds the worker on
its way there, which has seen `running` set before `terminate()` cleared it: it
must find the event set. `OutboxInOrder` needs `Alone` (one thread is in
`HandleInbox`, and a thread about to pop has something to pop) and `Follow`
(what was handed over, what is being delivered and what is queued rise in this
order, below the number of the next message).

A copy is freed when neither the list nor the clean-up holds it. `CopyInv` says of
what is outside of the list, said not to run, or freed, that it is expendable: its
thread is at its last statement or past it, or the copy was cancelled. `Cancelled`
follows the file at which `cancel()` met the thread: it is through with that one
at most once it has come back from it.

`SocketsProofs` proves, for any pool of threads, whatever the number of
connections and writes (`SocketAssumption`), and for the server what
`TCPServerProofs` below assumes:

| theorem | states |
|---|---|
| `TypeCorrect` | `Spec => []TypeOK` |
| `WritesInOrder` | `Spec => []SentInOrder` |
| `NeverTwoWriters` | `Spec => []OneWriter` |
| `SocketsWriteInOrder` | `SocketsSpec => []SentInOrder` |
| `ConnectionsServeInOrder` | `SocketsSpec => []ServedInOrder` |
| `ReactorsStaySound` | `SocketsSpec => []HandlersAreSound` |

**The argument.** That only a write into an empty queue starts a writer is no
protection by itself: `Close` and `HandleError` empty the queue under a writer
at work, and `Connected` and `PeerClosed` set `state` whatever it has become.
The invariant says when that can matter. `Worked`: a busy writer has a queue,
unless the connection is closed and the read thread is past reopening it (`Over`).
With `One` (one busy writer) and `Numbered` (wire and queue are the writes in
order while the socket is usable) that is inductive over one connection. Over
two it is not: a writer of the first may meet the queue of the second. The last
three theorems carry over what is proved of client and server to the
composition, which the run checks.

`HostProofs` proves, for any number of packages (`InstallerAssumption`), for any
finite set of components that holds the runtime, which is not an SDK, whatever the
manifests ask for, whatever is installed and whatever unzip fails on
(`BootAssumption`), for any versions, in finite number in each
directory, and any search path (`DependenciesAssumption`: a part of a version is not
empty, and "bundled" and "null", which stand for no directory, are none), and for any
finite sets of libraries, scripts and providers, whichever of them bring which
(`ModulesAssumption`):

| theorem | states |
|---|---|
| `TypeCorrect` | `Spec => []TypeOK` (installer) |
| `AbortedIsNotUnpacked` | `Spec => []OnlyCompleteArchives` |
| `Promised` | `Spec => KeepsPromise` |
| `BootTypes` | `Loader!Spec => []Loader!TypeOK` |
| `RunsComplete` | `Loader!Spec => []Loader!StartsComplete` |
| `FilesComeLast` | `Loader!Spec => Loader!ComponentsFirst` |
| `AppliedBeforeForgotten` | `Loader!Spec => Loader!UpdateIsApplied` |
| `UpdateStaysSafe` | the last two together |
| `VersionsAreOrdered` | `VersionBefore` is a strict total order on versions |
| `TheFirstIsTaken` | `HostSpec => [](resolved # <<>> => Best(resolved[1]))` |
| `BestComponent` | `HostSpec => []BestIsChosen`, if `SameWidth` |
| `ModulesAreSound` | `Loading!Spec => []ModulesInv` |
| `NeverTwoScans` | `HostSpec => []ScansDoNotNest` |
| `ProvidersGetTheirFiles` | `HostSpec => []NoFileIsLeft` |
| `ModulesStart` | `HostSpec => []EveryModuleStarts` |
| `HostUpdatesSafely`, `HostUnpacksComplete` | `UpdateIsSafe` and `OnlyCompleteArchives` of `HostSpec` |

**The argument.** `stage` is written by three threads without a lock. The
invariant lists, for each phase of the two threads (`Before`, `Downloading`,
`Downloaded`, `Unpacking`, `Unpacked`), which stages are possible and which jobs
are done; overwritten stages are among them, and none lets the run succeed early.
A stage SUCCESS without a run of unzip on every package takes a terminal, and the
invariant says where. `Promised` maps a run of unzip to `Unpack`, leaving the loop
with success, or taking it over from a terminal, to `Succeed`, other ends to `Stop`
and `Finish` to `Settle`; `Boot`, which is built over `Installation`, thereby speaks
of the installer as modelled in detail.

The installer counts packages; the loader looks at the disk. `Work` relates the
two: each package counted takes one from the rest of the list (`Rest`), because its
directory is there or because unzip failed on it. `Listed` says what can be on such a
list, and `Got` what unzip leaves: the directories of runtime and modules in any case,
all that the SDK supplies only if it succeeds. When the rest is empty, all that the
manifest needs is therefore there, but for the two cases that an SDK makes
(`AllSupplied`). `Met` says that nothing is launched before its dependencies are
there, and `Through` that an update which came through uninterrupted is no longer
asked for.

The choice of a component is one step; what takes an argument is what that step
computes. Induction is used as a fact about sets of numbers (`Counting`: a set that
holds 0 and, with a number, the next one holds them all; it comes from the least
number outside). With it, a fold is followed through the values of its prefixes
(`FoldExists`, `FoldValues`): `NumberDef` gives what a text says as a number, and
`Gathered` what the scan of the search path leaves, namely all that the directories
hold, that of the first directory before all else. A lexicographic order over a strict
total order is one again (`LexicalTotal`); taken twice, over characters and over parts,
that is `VersionsAreOrdered`. `Sorting` counts, for each element, those before it. The
count grows along the order, so every place is taken once and what `StableSort` returns
is sorted, equal versions in the order they had (`InstalledRanked`). `TakenIsBest`
then follows the search for the first that satisfies, and `Chosen` carries it along.

So far nothing is asked of the versions: `TheFirstIsTaken` says that what is taken is
the best **in the order of the code**. That this is the best **by its numbers** holds
when all numbers at hand have the same number of digits (`SameWidth`; then
`NumbersAreOrdered`), as they have in the run `host`. Otherwise it is false: 10
is taken for earlier than 9 (run `deps_ten`), which is why it is a hypothesis of
`BestComponent` and not an assumption of the model.

The modules' calls are nested through the modules themselves, so `Calls` first
bounds the nesting: of two calls at most under way the inner one scans, and the
flag `autoScan` is cleared just then. `Left` says that a file whose provider is there
waits for nobody but a scan under way, and is ahead of it, or will be looked at
once more, because the scan has loaded something and begins again. `Counted` is
bookkeeping over the lifetime of a module: the calls of `Start` it was given, and those it
is due from each of the two lists that are being worked through, add up to one, or
to two if the scan in `LoadModules` loaded it. This needs `Distinctly`: no module
is in a list twice.

`TCPServerProofs` proves, for any number of connections, writes, messages and
units to a write, and any way a send is cut short (`ServerAssumption`):

| theorem | states |
|---|---|
| `TypeCorrect` | `Spec => []TypeOK` |
| `ServedStaysInOrder` | `Spec => []ServedInOrder` |
| `HandlersStaySound` | `Spec => []HandlersAreSound` |

**The argument.** Queue, offset and handler are changed by two threads, and the
sending itself holds no lock. The invariant follows a connection through that gap.
`Reactor`: before the reactor runs there is no connection, when it has run none is
open, and one connection at most is being sent on. `Handlers`: the handler is
installed exactly when the queue is not empty; that this is so when the queue is
cut after a send rests on the connection having had data all the time. `Sending`:
the queue is the last writes, in order, and the wire is all units of the writes
before them and the first units of the one being sent. `Reading`: what was heard
last is what was read last. The units are a function of their number (`Unit`), so
that lemmas on appending to and cutting sequences do the rest without induction.

`HTTPClientProofs` proves, for any number of requests and parts of a body
(`HTTPAssumption`), the first two whatever the application does:

| theorem | states |
|---|---|
| `TypeCorrect` | `Spec => []TypeOK` |
| `Refinement` | `Spec => KeepsPromise` |
| `HandleStaysHeld` | `Patient => (Spec => []HandleIsHeld)` |
| `AnswersStayOwn` | `Patient => (Spec => []AnswerIsOwn)` |

**The argument.** The refinement rests on types and on the phases of
`ExecuteRequest` (`Results`). The other two are about members without a lock.
Always true are `Numbers` (requests are begun in order), `Results`, `Blocks` and
`Fresh` (what each phase can have received). Under `Patient`, and until a handler
throws at DONE, `Held` says that one request at a time is active, and has the
client's handle from `Initialize` to `CleanupCurl`; `Owned` that what the client
has received is that request's; and `Headed` the same of headers, which are cleared
at another place, unless a request was cut off among them. With `Patient` alone
none of the three is inductive: the catch clause after DONE frees a handle that is
no longer its own.

`ProcessProofs` proves, for any streams, and any number of launches and of chunks
of output (`ProcessAssumption`):

| theorem | states |
|---|---|
| `Invariant` | `Spec => []IInv`, of which `TypeOK` is a part |
| `OutputBeforeExit` | `Spec => []ExitAfterOutput` |
| `OutputInOrder` | `Spec => []DataInOrder` |

**The argument.** EXIT passes three queues and two threads on its way; the data it
must not overtake passes them too, under other locks. `Phases` and `Empties` say
where the threads of a launch can be: above all that nothing is left in the pipes
of a launch that `Exited` has reached. `Exits` counts: an exit is queued, collected or told,
and once unless the process was called after a launch. `Needs` and `Data` follow a
chunk that has been read: it is in a pipe queued for its event, in a collected
event, or with the listeners; and in `processOutput` and then in the result, if the
process was called. `Closes` says that closes and exits which wait are of launches
that have ended. So what `CollectRead` puts together is complete: `CloseTold` and
`ExitTold` say that the data of a collected close or exit comes before it in the
batch. They rest on the order in which the three queues are collected, exits
first; taken the other way round they are false. That the event of the first entry of a queued
pipe holds all its data, though every write queues the pipe again, is the least
element of a set of numbers (`WFMin` of the library).

`OutputInOrder` adds `Ordered`: what was heard of a stream comes before what
collected events have of it, that in the order of the events, and that before what
the pipes have. It is inductive only with `Rows` (of the native pipes of two launches
the older is queued first, so that taking all data of a pipe at its first entry
overtakes nothing) and `Calls` (what a call hands to `onRead` by hand is a call's).

`UIProofs` proves, for any objects, listeners and events (`EventAssumption`), for any
windows, whoever is whose parent, and any depth of nesting (`WindowAssumption`), and
for sizes of any range (`SizeAssumption`):

| theorem | states |
|---|---|
| `EventsAreSound` | `Spec => []EventInv` |
| `EveryoneHearsOnce` | `Spec => []EveryListenerHearsOnce` |
| `StoppedForGood` | `Spec => StopIsFinal` |
| `EventsInUI` | these two of `UISpec` |
| `WindowsAreSound` | `Windows!Spec => []WindowsInv` |
| `ChildrenFollow` | `UISpec => []ChildrenAreClosed` |
| `LastWindowEnds` | `UISpec => []ExitsWithLastWindow` |
| `ActiveIsHeld` | `UISpec => []Held` |
| `WindowsAreListed` | `Careful => (Windows!Spec => []CarefulInv)` |
| `ListHoldsActive` | `Careful => (UISpec => []ListIsActive)` |
| `SizesAreSound` | `Sizes!Spec => []SizesInv` |
| `WidthIsHeard` | `Sized = {w} => (UISpec => []WidthIsReported)` |
| `UITypes` | `UISpec => []TypesOK` |

**The argument.** An event works through a copy of a list that anybody may change.
`Registered` says that the lists keep their listeners apart; `Dispatched` that those ahead
of the event, in the copy and then in the GlobalObject's list, have not heard it;
`Due` that whom it is owed to has heard it or is ahead, is still there and asked for it,
unless a callback wished to stop; and `Stops` that this wish is never forgotten
between callbacks: the thread that dispatches sees it before it looks for the next
listener. That a listener is skipped is no loss, because one that was
deleted is owed nothing.

A window is closed by nested calls, and a listener in the middle may close others or
the same. Which windows may be in what state is not said of windows alone, but
of the calls on the stack: `Marked` (who is past the listeners of its window has one that is
not active), `Cared` (a child that outlives its parent for the moment is about to be
closed by a call below) and `Ended` (the call that forgot the last window is on its way
to `exit`). A call returns to callers whose children have changed meanwhile;
that those still remain to be closed is `Closes`. What `RemoveChild` leaves of the
list - all but the child, in order - is `EntriesKept`, which finds the n-th of the positions kept as the least
with n of them up to it. `Careful` is needed for `ListIsActive` only, and the
theorem says so in its hypothesis: with listeners that open windows the list
may hold a window twice (section 4).

Of sizes, `WithinLimits` and `Told` (GTK knows the limits configured last) hold for any
number of windows. `Reported` says that the last event under way has the size on the
screen, and `Followed` that `targetWidth` is right or an event under way, or the
last one, differs from what is on the screen; the event that comes after it then corrects
`targetWidth`. For two windows this is false, as one `oldWidth` serves both.

**Only model-checked:** all liveness (fairness and `ENABLED` are beyond this prover):
`JobsFinish`, `TerminateReturns`, `MessagesAreTaken`, `CopiesAreDeleted`, `ExitIsNoticed`,
`SocketGoesOn`, `ServerGoesOn`, `RequestsEnd`, `EndsUnlessUnheard`, `UpdateArrives`.
Every safety and action property of the passing runs is the subject of a theorem, some
under a hypothesis that the theorem names. The
library's induction theorems take an operator, which no backend instantiates; that is
why `HostProofs` states induction as a fact about sets (`Counting`), and why lists
are erased from by `Entries`, which says what is left of the list without recursion.

## 6. What is left out

* Contents of messages, output, files and events; their order and number stay.
* The application's scripts: what a callback may do is chosen freely among the
  operations of the model it belongs to. Not chosen: launching a process that
  runs already, which the code does not notice.
* `FireEvent`'s asynchronous flag: no caller passes it.
* A manifest without a runtime: `Bootstrap` dereferences the runtime it lacks.
* The stdin side of processes, stderr (see the bounds), signals, replaced pipes,
  grandchildren that keep a pipe open.
* `RemoveAllEventListeners`: only the destructor of an object calls it, and an
  event being dispatched holds a reference to its object.
* In `Boot`, the name of the data directory (taken from the manifest in use), a
  manifest or an installer that is missing, an `.update` file that cannot be read.
* Windows and OS X variants, except for the wake-ups of the main loop.
* Memory management by reference counts, except where an object is deleted by
  hand or its lifetime ends under a thread (`AsyncCopy`).
* What an HTTP request tells libcurl (method, form, proxy, cookies, credentials)
  and the bytes it sends; two transfers of one client at a time (see `Patient`).
* Position, visibility and decorations of windows, menus, tray, dialogs.

Some components are not modelled at all. `libtide`'s `ThreadPool` is used by
nothing. An `AsyncJob` is one thread whose callbacks go through the queue of the
main thread, which keeps their order (`QueueOrder`); its flags are written by it
alone but for `cancelled`, which nobody reads for it. The IRC client is a vendored
library that passes events on. The rest of filesystem, database, codec, application and properties,
media, platform and monkey are sequences of calls to Poco, SQLite and the
system, made one after the other on the main thread: there is no order of steps
to get wrong. The JavaScript binding and the values of `libtide/binding` convert
between representations. All languages but JavaScript are interpreters that are
embedded. The bulk of the source is of these kinds, or vendored (unzip, IRC,
simplejson), or an implementation for another platform of what is modelled for
Linux, which is why the models stand for a small part of its lines.

## 7. Plan

The parts that interact are modelled in this order; all of these exist.

1. `MainThreadCalls`, `MainThreadJobs`: everything else calls them.
2. `EventObject`, `Worker`, `Process`, `TCPSocket`: the threads behind the API.
3. `Installation`, `Installer`, `Versions`, `Dependencies`, `Boot`: until the
   application starts.
4. `TCPServer`, `HTTPRequest`, `HTTPClient`: the rest of the network.
5. `Modules`, `AsyncCopy`, `UserWindow`, `WindowSize`: re-entrance.
6. Proofs of every safety property the passing runs check.

Left to do: `Process` with stdin and two streams, and with grandchildren that keep
a pipe open; the composition of `Worker` with `MainThreadJobs` instead of its own
abstraction of the main thread; two transfers of one HTTP client at a time.

# TLA+ verification of KCom

KCom is a desktop terminal for serial ports, sockets, pipes and HID devices,
written in Python on Qt. These modules model the part of it where behaviour is
hard to test: the path a received byte takes from a reader thread or a socket
through the coalescer to the log, the triggers and the terminal table; the life of
a connection with its reconnects; the threads of the log, the API server and the
scripts; the window's bookkeeping of sessions and running sequences; and, as plain
operators, what is sent, saved, loaded and shown in forms. TLC checks them on small
instances; TLAPS proves, for every value of the constants, each safety property the runs
check and each refinement.

## 1. The system

Almost everything runs in the Qt main thread, as slots called one at a time by the
event loop. Four kinds of thread run beside it: one reader per serial (or HID)
port, one writer per log file, the API server's thread, and a script thread.
A signal emitted in another thread is queued and served later by the event loop;
a signal emitted in the same thread calls its slots at once, *inside* the emitting
statement. Both facts cause most of the hazards below.

| component | state | operations | interacts with |
|---|---|---|---|
| `core/port_session.py` PortSession | status, handler, RX buffer with its size, first timestamp and idle timer | connect, disconnect, send, slots of the handler's signals, flush | handler (signals), LogManager, DataPipeline, TriggerEngine, listeners of `data_received` |
| `protocols/serial_port.py` | port, reader thread and its `_running`, reconnect timer, `_user_disconnected` | connect, disconnect, send, `_on_reader_error`, `run` in the thread | PortSession, the device |
| `protocols/tcp_client.py`, `named_pipe.py` client | socket, reconnect timer, `_user_disconnected` | connect, disconnect, send, five socket slots | PortSession, the peer |
| `protocols/tcp_server.py`, named pipe server | server, one client | accept, drop, read, close | PortSession |
| `protocols/udp_socket.py`, `usb_hid.py` | socket; device and reader thread | connect, disconnect, send | PortSession |
| `core/trigger_engine.py` | rules, a tail of bytes per rule | feed, set_triggers, clear | PortSession (called), MainWindow (`trigger_fired`) |
| `core/log_manager.py` | file, writer thread, bounded queue, dropped count | start, stop, feed, annotate; SessionLogger: log, export, close | PortSession, API threads, the disk |
| `core/sequence_runner.py` | running, paused, sent, total, timer | start, stop, pause, resume, timeout | MainWindow (`tick`, `finished`) |
| `core/data_pipeline.py` | ring buffer, dropped count, warning flag | feed | PortSession |
| `core/session_manager.py`, `tap_session.py` | map of sessions; two sessions and a forwarding mode | open, close, close all; forward | MainWindow |
| `ui/main_window.py` with `sequence_panel.py`, `port_panel.py` | tabs, running sequences, drip-fed sends, triggers, project | send / stop sequence, tick, trigger actions, open / close / toggle, load / save | everything |
| `ui/terminal_table.py`, `core/filter.py` | records, pending, paused buffer, tints, filter, find bar | append, drain, pause, cap, highlight, filter, find | MainWindow |
| `api/server.py` | subscriber queues, event loop | push_data, broadcast, stream, send | MainWindow, sessions, from its own thread |
| `scripting/runtime.py`, `ui/script_panel.py` | script thread, callbacks, buttons | run, stop, dispatch | MainWindow |
| `core/project_manager.py`, `settings_store.py`, `theme_manager.py` | files, recent projects, settings | load, migrate, save | MainWindow, dialogs |
| `models/*`, `utils/*` | data classes and pure functions | dictionary forms, `TxSequence.get_bytes`, checksums | all |
| `ui/dialogs/*`, `trigger_panel.py` | the controls of each form | load from and read into a model | MainWindow |

What makes each correct:

* *PortSession*: bytes are neither lost, repeated nor reordered; none is held longer
  than the window; the log holds the tail.
* *Protocol handlers*: the status tells the truth; a disconnect is final and ends; a
  connection with auto-reconnect comes back.
* *Trigger engine*: a match is seen once, wherever the chunks are cut.
* *Log writer and logs*: no record vanishes but to a bad disk or a stop that gave up, order
  is kept, stop drains; an open log has every chunk of its session, over restarts and exports.
* *Sequence runner*: finished exactly once, never more sends than asked for.
* *Terminal table*: rows in order of arrival, tints and filter on the right rows.
* *Main window*: the registries of sessions and runs agree; a run has a session; a
  closed window falls silent.
* *API server*: a stream is served; stopping the server ends; what a worker sends is logged
  and its error shown, whatever the session has become.
* *Script runtime*: the Run button says whether a script runs.
* *Models, projects, settings, dialogs*: what is written is read back.

The hazards, each at its line, are the list `hazards` of `PROJECT.json`.

## 2. The modules

| module | models | role |
|---|---|---|
| `PortSession` | `core/port_session.py` with an arbitrary handler | the abstract specification of a session |
| `SerialSession` | PortSession over `protocols/serial_port.py` | two threads; refines PortSession |
| `TcpSession` | PortSession over `protocols/tcp_client.py`, the pipe client | socket slots; refines PortSession |
| `HandlerSession` | PortSession over the servers, UDP and HID | the handlers that do not reconnect; refines PortSession |
| `TriggerEngine` | `core/trigger_engine.py` | |
| `LogWriter` | `core/log_manager.py`: `_LogWriterThread` under LogManager | producers, writer and stop |
| `SequenceRunner` | `core/sequence_runner.py` | |
| `FilterDsl` | `core/filter.py` | an operator that `TerminalTable` uses |
| `RecordView` | | the abstract specification of the table |
| `TerminalTable` | `ui/terminal_table.py` and the window's handlers that feed it | refines RecordView |
| `MainWindow` | `ui/main_window.py` with the session manager and the two panels | sessions, tabs, runs, drips |
| `Consumers` | logs, pipeline, scripts and API server over the sessions | three threads |
| `TxSequence` | `models/sequence.py`, `utils/checksum.py` | operators: the bytes of a sequence |
| `Documents` | the dictionary forms of `models/*`, `core/project_manager.py` | operators |
| `Preferences` | `core/settings_store.py`, `ui/theme_manager.py`, `settings_dialog.py` | operators |
| `Dialogs` | the other dialogs, trigger panel, port access, `core/tap_session.py` | operators |
| `StoreChecks` | | the laws of the last three, as assumptions TLC evaluates |
| `MC*` | | instances for TLC |
| `PortSessionProofs`, `TcpSessionProofs`, `SerialSessionProofs`, `HandlerSessionProofs` | | theorems on the session and on the handlers that implement it |
| `EngineProofs` | | theorems on `SequenceRunner` and `TriggerEngine` |
| `ConsumersProofs` | | theorems on `LogWriter` and `Consumers` |
| `MainWindowProofs`, `TerminalTableProofs` | | theorems on the window and the table |

**PortSession.** The variables are the fields of the class (`rx_buffer` is
`_rx_buffer` joined, `rx_timer` the time at which `_rx_timer` expires) and histories:
`rcvd`, every byte the slot took, `delivered`, every byte fanned out, `emitted`, the
last signal. A byte is its place in the stream with the handler's timestamp and the
time its slot ran. `Hold` and `ForceFlush` are the two ends of `_on_data_received`,
`RxTimeout` the idle timer, `Disconnect` the whole of `disconnect()`. `Reaction` is
what `MainWindow._on_trigger_fired` may do to the session from inside the fan-out:
nothing, a reply whose write fails, or a nested `disconnect()`. The handler is open:
`Connect`, `Disconnect` and `OnProtocolSignal` allow any status a handler can leave.

**SerialSession** extends PortSession and replaces the open handler by the real one.
The reader thread moves through `run()` (`starting`, `test`, `poll`, `returned`) one
read or test at a time; its signals go through `queue` to the main thread. `main =
"stopping"` is the main thread inside the reader's `stop()`: it serves nothing then,
which is when reads pile up behind a disconnect. A handler dropped by a second
`connect()` is destroyed by Qt with its timer and queued signals, but a running Python
thread keeps itself and its port alive: `orphan`. A REST worker (`Worker`, `api`) calls
`send()` in its own thread: it passes the test of `is_connected()`, writes at any time
after, and posts an error that the main thread serves whenever it comes to it, after a
disconnect too (`ApiSend`, `ApiWrites`, `ServeSendError`). The error of a handler that was
replaced meanwhile may be delivered or not (`LateErrors`).

**TcpSession** does the same for the socket's slots, which all run in the main thread.
`abort()` signals `disconnected` only from the connected state. The named pipe's
client has the same slots over QLocalSocket.

**HandlerSession** chooses at the start which of the remaining handlers it is (`kind`).
A server has a client, connections Qt holds for it (`pending`) and the connections whose
other end is up (`alive`). A UDP socket has the number of datagrams in its buffer and
their bytes together, as one slot drains them into one chunk. The HID reader is a thread
like the serial one, but its error only posts a signal, and a REST worker's failed
write posts one as well (`late`). A slot that raises ends the
program (`aborted`), as PyQt does.

**TriggerEngine.** The state is the rules and the tails. A regex is given by the text
length that `feed()` uses and by the set of byte strings it matches. `seen` and
`settled` are histories that say which bytes a rule's present pattern has been
matched against, so that the properties can speak of a rule edited or toggled under
the same id.

**LogWriter.** Each `write()` is three steps (`CheckSize`, `DropOldest`, `Put`), as
the queue's methods are called without a common lock. The writer thread's steps are
`Take`, `WriteRecord`, `MaybeFlush` and `EndDrain`; `StopWriter` and `StopReturns` are the
two ends of `stop_logging()`, whose `join` may time out. The file is buffered: the first
`flushed` records of `file` are on the disk, the others in the buffer. A bad disk shows
where the buffer is passed on. A write that has to make room raises, which ends the loop;
a flush swallows the error, and what the text layer held is gone without a word
(`SpillFails`). A flush that fails in `stop_logging` skips the `close()`: the file is then
closed when the last thread that holds it ends (`DiscardFile`). The disk may fail and
heal. The model is one lifetime from `start_logging` to `stop_logging`.

**SequenceRunner.** One action per method. The owner's tick handler may call `stop()`
inside the tick, in the first tick of `start()` as well; the alternatives of
`StartWith` and `Timeout` say so.

**TerminalTable.** `records` and `table` are `_records` and the rows of the widget, side by
side, so that a place that forgets one of them shows. `pending` waits for the drain timer,
`buffer` for the end of a pause. A row has the columns it was rendered with, its trigger's
tint, a running sequence's mark and whether the filter hides it; the find bar has the set of
rows it found and its place among them. The operations of the class are actions; `Receive`
and `TriggersChanged` are the window's handlers that call several of them. `rules` is the
list of triggers the session's engine has. `TriggersChanged` puts any list in its place:
added, edited, renamed, copied, deleted and switched triggers are all of this form, and a
project loaded without an announcement makes the next one differ arbitrarily from the last.
Tints go by name, as in the code. `RecordView` is the table as a user thinks of it: the last
`Limit` records that left the queue, in which nothing is lost or shown twice.

**MainWindow.** Three registries hold the sessions (`sessions` of the manager, `tabs`,
`items` of the port panel) and three the runs (`runners`, `running_ids` of the
sequence panel, `tints` in the terminals). Each handler is one action, with everything
its signals do inside it: closing a session stops its runs, each of which signals
`finished`, removes its tint and its row, before the user is asked. A drip is the
session and the bytes left of a send with a delay, one timer shot at a time. `status_bar`
has both whom it speaks of and what it says, since opening a session leaves "Connecting"
there whatever the connection has come to. A sequence may have no bytes; it is then sent
and shown, and highlighted nowhere.

**Consumers.** Two logs and a pipeline per chunk received. The script's thread posts its
calls (`posted`) and returns; the server's thread starts, serves and exits on its own
while the main thread calls `start`, `push_data` and `stop`, and waits in the last one.
`files` has the text of each path and the place at which each log writes, so that
two logs of one path are modelled as they are: the second truncates the file, the first
goes on at its own place. `apart` is a history: the sessions whose file no other has
opened since they did. A stream is refused, as FastAPI takes the handler's un-annotated
parameter for one of the query; broadcasts are scheduled all the same.

**Documents, Preferences, Dialogs** are operators: a file or a stored value may be
anything of its type, a dictionary form is a function on the keys present, and a text
that could be a number is a sequence of characters. `StoreChecks` states what holds of
them (a written configuration is read back, migrating twice is migrating once, an
untouched dialog changes nothing but what it cannot show, an operation on the list of
rules touches one rule, a chunk is never forwarded back) as assumptions over small sets
of every shape, which TLC evaluates at the start of the `MainWindow` run. `TxSequence`
is evaluated there too, on the checksums' published check values and the counter's wrap.

### Left out on purpose

Statistics, texts, formats and layout that no property tells apart. In `LogWriter` and
`Consumers` the log filter is taken as not set; in `Consumers` a log's writer writes at
once, and the path of the log of all sessions is no session's. An exception in a record's
formatter is left out. The TCP client, the TCP server and UDP stamp chunks with
`time.time()` (`tcp_client.py:79`, `tcp_server.py:89`, `udp_socket.py:88`), which can be set
back; the models stamp every chunk with a clock that does not, so `StampsOrdered` says
nothing of a wall clock that steps back. The NOT_CONNECTED that the pipe client's `send()`
posts from a REST worker is left out of `TcpSession`. `start()` leaves an idle timer
behind when its first tick stops the run; `Timeout` of a stopped run changes nothing
and is not a step. The test at the top of `_on_timeout` is never true in a reachable
state: it is modelled, and TLC never takes it. The status handler of the window runs
twice per change, to the same effect.

## 3. Runs

| run | checks | what it shows |
|---|---|---|
| `PortSession` | `Lossless`, `SizeAgrees`, `HeldBound`, `FirstStamp`, `StampsOrdered`, `LogTail`, `AllDelivered` | the coalescer under any order of chunks, cap, timer, disconnects inside the fan-out and log toggles |
| `SerialSession` | `SerialInv`, `ImplementsSession`, `OnlyLateWritesShow`, `DisconnectEnds` | the serial session implements PortSession; CONNECTED means an open port and a thread that reads it; after a disconnect nothing opens the port again, and only a REST worker's write that was under way shows ERROR, once; the main thread is not held for ever |
| `TcpSession` | `TcpInv`, `StaysDisconnected`, `ImplementsSession`, `Reconnects` | the same for the socket, and that it comes back when the peer does |
| `HandlerSession` | `HandlerInv`, `ImplementsSession`, `CloseEnds` | a closed server holds no client, a client is one whose connection is up, an open HID device has a reader; all three implement PortSession |
| `TriggerEngine` | `TriggerInv`, `ContainsExact` | a `contains` rule fires in exactly the feeds that complete a match |
| `LogWriter` | `LogInv`, `Conserved`, `FileInOrder`, `StopDrains`, `WriterEnds` | every record is in one place, in order, and is lost only to a disk that failed or a stop that gave up; the queue's overshoot is one per racing thread; a stop in time drains to a sound disk |
| `SequenceRunner` | `RunnerInv`, `OneFinishPerRun`, `CountedRunEnds` | exactly one `finished` per run, whoever ends it |
| `TerminalTable` | `TableInv`, `ArrivalOrder`, `ImplementsView`, `PendingIsShown` | row i shows record i; no tint of a listed trigger that is off; marks of sequences are exact; the order of arrival; the abstract view; nothing pends for ever |
| `MainWindow` | `WindowTellsTruth`, `RunsHaveSessions`, `RowsTellRuns`, `ClosedGoesQuiet` | the registries, titles and toolbar agree in every order of opening, failing, loading and closing, the status bar too but for the "Connecting" of a session just opened; and the laws of `StoreChecks` |
| `Consumers` | `LogsKept`, `PanelTellsScript`, `WaitEnds` | a log whose file is its own is complete, whoever toggles it; the Run button is right; stop and close end |

`TypeOK` of `PortSession` is checked in its run. `SerialInv`, `TcpInv`, `TriggerInv`,
`LogInv`, `RunnerInv` and `TableInv` are conjunctions of named parts, the type invariant
among them where there is one.

Two more runs each find a documented claim violated by what the code does:

| run | claim | what happens |
|---|---|---|
| `SerialReconnects` | `README.md:40`: auto-reconnect for serial sessions | an attempt that fails does not arm the timer again (`serial_port.py:176`); TCP does |
| `ServerReplacesClient` | `tcp_server.py:17`: a new client is accepted and the previous one closed | `abort()` runs the slot that clears `_client`, and the next line raises (`tcp_server.py:79`, `named_pipe.py:151`) |

### Bounds

* `CAP`, `WINDOW`: 2-3 bytes and 1-2 clock units stand for 8 KiB and 8 ms. What
  matters is that a chunk may be below, at and above what is left of the cap, and that
  a timer armed for bytes already flushed meets new ones; a cap of 3 with chunks of 1
  and 2 has all of these. The proofs remove the bound.
* `MaxBytes`, `MaxChunk`, `MaxTime`: 3-4 bytes in a run of 2-4 clock units: at least two
  flushes, by cap and by timer, in either order. A chunk is taken only while its timer
  can still expire before `MaxTime`, so the end of the clock never fakes a lost byte.
* `MaxQueue`: two signals in flight (serial), a chunk and an error in either order; one
  for HID. `Worker`: one REST worker, which the proof makes any number (none in
  `SerialReconnects`). `MaxClients` = 3: one client connected, one pending, one after a drop.
* `Trigger`: one id (rules do not touch one another), which may be any of a set with a
  straddling, a self-overlapping and a one-byte
  pattern, on or off, and one rule of each other type, over two letters and a stream of
  five bytes; patterns are up to three bytes long, so a match can straddle three chunks.
* `MAX_QUEUE` = 2 for 100000 and `MaxRecords` = 5: the queue fills while both producers are
  between the check and the put, and the sentinel may become the oldest entry. The disk fails
  and heals at any moment.
* `MaxSent`, `MaxRuns`: bound a run without end and restarts; counts are -1, 0, 1, 3.
* `MAX_ROWS`, `DRAIN_CHUNK` in `TerminalTable`: a cap of a few rows, below the number of
  records, and a batch smaller than what a resume puts in front, so that a drain is cut
  in two, the cap acts within a batch, and a pause begins with records pending. `MaxRules` =
  2, over a trigger that may match across two chunks and one of the same name that is off:
  names are shared, listed twice, deleted and brought back.
* `MaxUses` bounds what users, peers, triggers and clients do, per run; the program's own
  steps (timers, threads, drains) are not counted. Six in `MainWindow` open two ports and
  a tap, start, edit, load over and close; four in `Consumers` are, for example, start
  a log in each of two sessions on one path, stop one and start it again on the other.
* `RING_SIZE` = 2, `HIGH_WATER` = 1: the third chunk overflows the ring. `Path`: two paths for
  two sessions. `MaxPosted`: two calls of a script wait for the main thread.

Deadlock is not checked: every system here may come to rest, or to its bounds.

### Fairness

* PortSession: the clock and the idle timer (Qt's event loop runs). Chunks, the user and
  the handler are free.
* SerialSession: the reader thread runs, the event loop serves the reconnect timer and a
  queued error, `stop()`'s wait ends. The user, the device and the log toggle are free;
  `Reconnects` assumes the device is back for good.
* TcpSession: the timer fires and an attempt is answered.
* HandlerSession: the reader's polls return, and `stop()`'s wait has its time limit.
* LogWriter: the writer thread runs (a disk that does not stall for ever) and `join` has
  its time limit. Producers are free.
* SequenceRunner: the timer of a running run fires.
* TerminalTable: the single-shot drain timer fires.
* MainWindow: the timers of runs and of drips fire.
* Consumers: the wait for the server has its time limit, the event loop serves what is
  posted, the server's loop runs. The script, the clients and the user are free.

## 4. Proofs

Every invariant and every action property of the passing runs is a theorem, for every
value of the constants, and so is each of the four refinements. A proof assumes only
what the module it is about assumes of its constants, by name, and TLC evaluates each of
these assumptions: caps, windows, queues and batches are positive
(`PortSessionAssumption`, `SerialSessionAssumption`, `HandlerSessionAssumption`,
`LogWriterAssumption`, `ConsumersAssumption`, `TerminalTableAssumption`), bounds are
naturals, the number of API threads is finite and the main thread is none of them,
`AUTO_RECONNECT` is a Boolean, a rule is a rule and one that is no regex matches its
pattern alone (`TriggerEngineAssumption`), the counts of a run are integers
(`SequenceRunnerAssumption`), no port is a tap, a project names ports, taps and
sequences and a sequence may be empty (`MainWindowAssumption`), and no trigger is called
what the model calls none (`TerminalTableAssumption`).

Each proof has one shape: an inductive invariant stronger than what is promised, a lemma per
action (or per group of variables) that it is kept, a theorem `...Inductive` that combines
them, and theorems that read the properties off it. What is worth knowing is why the
property is not inductive itself.

**PortSession** (`PortSessionProofs`).
`CoalescerIInv == TypeOK /\ CoalescerInv /\ TimerBound`. `TimerBound` is the strengthening:
a flush at the cap leaves the timer running over an empty buffer, and the next byte is
within its window only because the timer never lies further ahead than `now + WINDOW`.
`TypeCorrect`, `NothingLost`, `CountExact`, `HeldInTime` and `StampOfFirst` are its parts.
`StampsInOrder` needs `StampInv`, which orders what was emitted, what is held and the last
byte received; `LogHasTail` needs `LogInv`: an open file holds what was delivered since it
was opened. One lemma says what a flush does (`FlushFacts`), one what any step does that
hands on all that is held (`FlushedInvariant`), one what holding a chunk does
(`HoldInvariant`). Reactions need only `ReactionFacts`: whatever a trigger does, it leaves
the buffer alone and the timer off or as it was.

**The handlers** (`TcpSessionProofs`, `SerialSessionProofs`, `HandlerSessionProofs`).
`TcpImplements`, `SerialImplements` and `HandlerImplements` show that each step of a
session with its real handler is a step of `SessionSpec` or leaves its variables alone,
so what is proved of `PortSession` holds of these sessions without a further condition.
This is not a matter of shape: `SessionSpec` takes a chunk only with a stamp that is not
behind an earlier one and not ahead of the clock, and a handler has to see to that.

* TCP: `TcpIInv` adds to the session's invariant `ClockLeads` (no stamp received is ahead of the
  clock) and `RetryRests` (a retry is armed only while the socket rests, so
  `_do_connect` never runs over a live connection). With it `TcpKeepsInv` and
  `TcpStaysDisconnected` are inductive.
* Serial: a chunk is stamped in the reader's thread and served later, so the refinement
  needs `QueueInv`: the reads that wait are in the order of their stamps, behind no stamp
  received and ahead of no clock; an error is the last of them, from a reader that is gone.
  `HandlerInv` says where flags, timer and threads can be together: a
  retry is armed only when the queue is empty and no reader lives, and while the main thread
  waits in `stop()` the handler is marked as disconnected by the user. It holds for any set
  of REST workers, as their errors change the status alone; `SerialOnlyLateWrites` says that
  after a disconnect nothing else changes it.
* Servers, UDP and HID: `SessionIInv` has the same `QueueInv` for the HID reader, `SocketInv`
  (what waits in the UDP socket fits a chunk of the session), and `HandlerIInv`. Its part
  `KindParts` says that the fields of the handlers that were not chosen rest, and
  `NoneWaits` that a server that still runs has taken every connection Qt holds for it.

**SequenceRunner** (`EngineProofs`). `RunnerIInv` adds `TicksAreSends` (each tick is
counted) and `ShortOfCount`: a counted run that goes on has sends left. Without the
latter a step from a state with `sent = total` would send once more.

**TriggerEngine** (`EngineProofs`). `EngineIInv` adds `TailHasSeen` and `SettledTail`: a
tail is the last `len(pat) - 1` bytes of something that ends with what the rule was matched
to, and of nothing else once `settled`. `MatchesAreExact` follows by two lemmas on byte
sequences: a suffix of a suffix is a suffix (`SuffixOfSuffix`), and an occurrence that ends
in the new chunk begins in the tail or later (`StraddleExact`). So for every stream,
chunking, pattern and edit of the rules a `contains` rule fires in just the feeds that
complete an occurrence.

**LogWriter** (`ConsumersProofs`). A record is in one of five places: the file with its
buffer, the thread's hand, the queue, the evicted ones, the lost ones. `LogIInv` says that
these are disjoint and cover what was put (`Parts`), that hand and queue go on in order where
the file ends, that only a thread between its check and its put can exceed the queue
(`Room`), that there is at most one sentinel and only after `stop()` (`Sentinel`), and
that `dropped_count` is the number of evicted records, or one more when the sentinel was
evicted (`DropsCounted`). `Losses` ties the file to the manager: it is closed by
`stop_logging` only and then all on the disk, and a loss shows a disk that has failed or a
join that gave up. It holds for any number of producers and any capacity. `LogDrains` uses
`Drained`: what was put before a stop that is in time is written or evicted once the thread
is done. Every step of the file keeps what was on the disk at the front of it and cuts
only behind (`FileMoves`), which is why order survives failing flushes.

**Consumers** (`ConsumersProofs`). `ConsumersIInv` has one part for each group of
variables: window, pipelines, script, logs, session log, API. Each action is shown to
keep the parts it touches. `LogsOK` says of a log that is `apart` that its file holds exactly
the chunks `since + 1` to `fed` of its session and nothing else, that it writes at the end
of that file, and that no other open log has its path, so that what others write, wherever
they write it, is in other files. `SessionLogOK` says of the session log that it has all
chunks in order and begins with what was exported.

**MainWindow** (`MainWindowProofs`). `WindowIInv == SessionInv /\ RunInv`. The registries of
sessions and what titles, toolbar and status bar say of them (`WindowTellsTruth`) are
inductive with their types. Those of the runs need
`RowsListed`: a row with a Stop button is a row of the sequence panel; and closing
a session is shown for the whole cascade at once, its runs' `finished` included.

**TerminalTable** (`TerminalTableProofs`). `TableIInv` has, beyond the types, `Rows` (row i
is the rendering of record i, hidden as the filter says unless the cap has acted; the only
tints are on received rows and of no listed trigger that is off, which needs that what is
still `pending` has none), `FindBar` and `Feed`: a number is in one of `records`, `pending`
and `buffer`, once, and unless a resume put paused records before pending ones, they rise
within each of them and from one to the next. `TableImplementsView` maps each operation to a
step of `RecordView` or a stutter. A drain takes a batch and then cuts the top at the cap;
that the cut is exactly what `RecordView` allows rests on `Feed`.

Model-checked only:

* liveness under fairness (`AllDelivered`, `DisconnectEnds`, `Reconnects`, `CloseEnds`,
  `WriterEnds`, `CountedRunEnds`, `PendingIsShown`, `ClosedGoesQuiet`, `WaitEnds`): it
  rests on ENABLED, which the provers here do not handle;
* the two violation runs, whose point is a counterexample.

Evaluated on bounded inputs only: the operators of `TxSequence`, `Documents`,
`Preferences` and `Dialogs`. What they compute is defined by recursion and folds over
data, and the induction that would show it for every input is out of the provers' reach.

What is left to prove are those laws of `StoreChecks` that need no induction: that
migrating twice is migrating once, that an operation on the list of rules touches one
rule, and that a chunk is never forwarded back.

## 5. Divergences met while modelling

Places where the code does something other than a comment, a document or its own
neighbouring code leads one to expect. Those of the violation runs above are not repeated.
The others are modelled as the code is, and the properties are stated around them.

*Sessions and handlers.* A reconnect after a failed write opens a second port and leaves the
first with its thread (`port_session.py:124`). Chunks of the reader that wait for the main
thread when it disconnects miss the log (`port_session.py:151`); the abstract session allows
it, so no property fails. The write of a REST worker that is overtaken by a disconnect shows
ERROR on a closed session (`serial_port.py:208,213`, `port_session.py:278`). A HID reader's
error ends as DISCONNECTED. A server is CONNECTED without a client, and what is sent then is
counted and dropped.

*Triggers.* `set_triggers` keeps the tails of rules that stay, whatever they say now
(`trigger_engine.py:52-56`), so a match may join bytes from before and after a gap;
`ContainsExact` leaves such a rule out until its tail is made of bytes it has seen. The tail
of a regex has the length of its text (`trigger_engine.py:93`). Loading a project sets the
panel without `triggers_changed`, so sessions that are open keep their old rules
(`main_window.py:1727`). A reply ignores the byte delay.

*Logs.* Records lost to the join timeout, to an OSError of a write or to one that a flush
swallows are not in `dropped_count` (`log_manager.py:203,229,255,263,406`), and nothing tells
the user of the last. A log started twice within a second and two sessions of one name
(`main_window.py:1370`) use one file, and a script's `start_logging` or the log panel may be
given the path of an open log; the second start truncates the file. `LogsKept` speaks of logs
to which that has not happened. An export whose reopening fails ends the log of all sessions
without a word. CONNECTED is logged twice for the tab in front. A
script's reply is logged before the chunk that caused it.

*Terminal table.* At the cap the drain does not filter its new rows
(`terminal_table.py:888-892`). A resume puts paused records before older pending ones
(780-784); `ArrivalOrder` excepts that case, and the abstract view allows any order. A live
match tints the newest row shown while the packet that matched is still pending (622),
although the tooltip says "matched this packet" (610). The rows of the find bar are stale
after the cap has acted. The tint of a trigger that is deleted, renamed or replaced by a
project stays, and switching one off clears the tints of every trigger of its name
(`main_window.py:1243-1246`). A regex rule is taken as plain text when all matches are
tinted. A change of the mixed layers does not render the rows again.

*Window and sequences.* A drip-fed send is not cancelled by Stop. Closing a session stops its
runs before the user is asked. Loading a project during a run takes away the row with its
Stop button. The preview of a sequence advances its counter; a periodic run computes its
bytes once. What is typed in a terminal is shown as sent although it is not connected. Errors
that `open_session` signals come before there is a tab to show them, and the status bar then
says "Connecting" of a port that is connected or in error (`main_window.py:932`). An empty
sequence can be saved and run; it is highlighted nowhere (`terminal_table.py:697`). Themes
and settings pass over the tabs of taps.

*API and scripts.* Every WebSocket stream is refused: `ws_stream` takes `websocket` without
the annotation `WebSocket` (`server.py:215`), so FastAPI asks for it in the query and rejects
the connection before `accept()`, although `README.md:108` offers the stream. `stop()` before
the server's loop runs leaves it serving (`server.py:116`). Only RX frames are broadcast,
though a comment says RX and TX. A click on Run while the thread ends is lost
(`runtime.py:200`). `stop_requested` does not exist under the documented name.

*Files and forms.* A project save truncates the file before it writes
(`project_manager.py:110,113`). A version with a point cannot be loaded. A `.json` project
gets `.kcom` appended by the dialog. A text value that looks like hex is bytes after a
reload. The sequence editor drops byte delay, color and named values; the trigger editor
resets what it does not show. A port name typed over a listed port is not what is opened
(`port_config_dialog.py:750`). A scan in the tap dialog may put another port, whose name
begins with the vanished one's, in its place. Timeouts lose a millisecond to rounding.

## 6. Not modelled

* Layout, painting, style sheets, menus, help texts, diagnostics, hotkeys, copying and
  exporting from the table, the script editor's files: they hold no state on which another
  part depends.
* `ui/terminal_widget.py`, the plugin loader and the decoder base class: nothing in the
  program uses them.
* Operating-system access (port enumeration, privileges, loading hidapi) and the Qt and
  asyncio libraries: inputs of the models, as the code uses them.
* Start-up and packaging.

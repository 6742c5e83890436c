------------------------------ MODULE LogWriter ------------------------------
(***************************************************************************)
(* kcom/core/log_manager.py: one LogManager from start_logging() to        *)
(* stop_logging(), with its _LogWriterThread.  Records come from the main  *)
(* thread (RX, TX, annotations) and from API threads (session.send logs    *)
(* TX on the thread that called it).  A record is the number of its put.   *)
(* SessionLogger (same file) drives the same thread with the same calls.   *)
(*                                                                         *)
(* The file is opened with a buffer of 64 KiB: a written record is on the  *)
(* disk only once the buffer is full or flushed, and that is where a bad   *)
(* disk shows.                                                             *)
(***************************************************************************)
EXTENDS Integers, Sequences, FiniteSets

CONSTANTS
    Main,       \* the Qt main thread
    Api,        \* the API threads
    MAX_QUEUE,  \* _MAX_QUEUE
    MaxRecords  \* bound: records put in a behaviour

Producer == {Main} \cup Api
Stop == 0       \* the _STOP sentinel
None == -1

ASSUME LogWriterAssumption ==
    /\ IsFiniteSet(Api) /\ Main \notin Api
    /\ MAX_QUEUE \in Nat \ {0}
    /\ MaxRecords \in Nat

VARIABLES
    q,          \* _q: records, and the sentinel
    puts,       \* records put so far
    pc,         \* per producer, where it is in write()
    dropped,    \* _dropped_count
    evicted,    \* history: the records dropped as the oldest
    writer,     \* where the thread is in run()
    hand,       \* the record it has taken and not written
    file,       \* the records written and not lost since, in order
    flushed,    \* how many of them are on the disk; the rest are in the buffer
    fileOpen,   \* the file object is not closed
    lost,       \* history: the records no write or flush brought to the disk
    manager,    \* the LogManager: "logging", "stopping" (in stop()), "closed"
    stopAt,     \* history: records put when stop() was called
    timedOut,   \* history: stop() gave up waiting for the thread
    disk        \* "sound" so far, "failing" (OSError), or "healed" since

queueVars == <<q, puts, pc, dropped, evicted>>
fileVars == <<file, flushed, fileOpen, lost>>
writerVars == <<writer, hand, fileVars>>
managerVars == <<manager, stopAt, timedOut>>
vars == <<queueVars, writerVars, managerVars, disk>>

Record == 1..MaxRecords

TypeOK ==
    /\ q \in Seq(Record \cup {Stop})
    /\ puts \in 0..MaxRecords
    /\ pc \in [Producer -> {"idle", "full", "put"}]
    /\ dropped \in Nat
    /\ evicted \subseteq Record
    /\ writer \in {"loop", "write", "drain", "drain_write", "ended"}
    /\ hand \in Record \cup {None}
    /\ file \in Seq(Record)
    /\ flushed \in 0..Len(file)
    /\ fileOpen \in BOOLEAN
    /\ lost \subseteq Record
    /\ manager \in {"logging", "stopping", "closed"}
    /\ stopAt \in 0..MaxRecords
    /\ timedOut \in BOOLEAN
    /\ disk \in {"sound", "failing", "healed"}

Init ==
    /\ q = << >>
    /\ puts = 0
    /\ pc = [p \in Producer |-> "idle"]
    /\ dropped = 0
    /\ evicted = {}
    /\ writer = "loop"
    /\ hand = None
    /\ file = << >>
    /\ flushed = 0
    /\ fileOpen = TRUE
    /\ lost = {}
    /\ manager = "logging"
    /\ stopAt = 0
    /\ timedOut = FALSE
    /\ disk = "sound"

-----------------------------------------------------------------------------
(* Producers: feed() / annotate(), then write().                            *)

\* The LogManager has a writer, and the main thread is not inside stop().
MayFeed(p) ==
    \/ manager = "logging"
    \/ manager = "stopping" /\ p # Main

\* qsize() against the limit.
CheckSize(p) ==
    /\ pc[p] = "idle"
    /\ MayFeed(p)
    /\ pc' = [pc EXCEPT ![p] = IF Len(q) >= MAX_QUEUE THEN "full" ELSE "put"]
    /\ UNCHANGED <<q, puts, dropped, evicted, writerVars, managerVars, disk>>

\* Mutant of DropOldest: drops without counting.
DropUncounted(p) ==
    /\ pc[p] = "full"
    /\ pc' = [pc EXCEPT ![p] = "put"]
    /\ IF q = << >> THEN UNCHANGED <<q, evicted>>
       ELSE /\ q' = Tail(q)
            /\ evicted' = evicted \cup ({Head(q)} \ {Stop})
    /\ UNCHANGED <<puts, dropped, writerVars, managerVars, disk>>

\* get_nowait(): the oldest entry goes, unless the thread was quicker.
DropOldest(p) ==
    /\ pc[p] = "full"
    /\ pc' = [pc EXCEPT ![p] = "put"]
    /\ IF q = << >> THEN UNCHANGED <<q, dropped, evicted>>
       ELSE /\ q' = Tail(q)
            /\ dropped' = dropped + 1
            /\ evicted' = evicted \cup ({Head(q)} \ {Stop})
    /\ UNCHANGED <<puts, writerVars, managerVars, disk>>

\* Mutant of Put: the newest entry makes room instead of the oldest.
PutReplacesNewest(p) ==
    /\ pc[p] = "put"
    /\ pc' = [pc EXCEPT ![p] = "idle"]
    /\ puts < MaxRecords
    /\ puts' = puts + 1
    /\ q' = IF q = << >> THEN <<puts + 1>> ELSE [q EXCEPT ![Len(q)] = puts + 1]
    /\ UNCHANGED <<dropped, evicted, writerVars, managerVars, disk>>

\* Mutant of Put: the newest record is queued first.
PutInFront(p) ==
    /\ pc[p] = "put"
    /\ pc' = [pc EXCEPT ![p] = "idle"]
    /\ puts < MaxRecords
    /\ puts' = puts + 1
    /\ q' = <<puts + 1>> \o q
    /\ UNCHANGED <<dropped, evicted, writerVars, managerVars, disk>>

Put(p) ==
    /\ pc[p] = "put"
    /\ pc' = [pc EXCEPT ![p] = "idle"]
    /\ puts < MaxRecords
    /\ puts' = puts + 1
    /\ q' = Append(q, puts + 1)
    /\ UNCHANGED <<dropped, evicted, writerVars, managerVars, disk>>

-----------------------------------------------------------------------------
(* The file and its buffer.                                                 *)

\* What is written reaches the disk.
Spill == flushed' = Len(file') /\ UNCHANGED lost

\* The disk raises on the way: the first j records are on it, those after the
\* first k were in the text layer, which forgets what it could not pass on.
SpillFails(j, k, more) ==
    /\ file' = SubSeq(file, 1, k)
    /\ flushed' = j
    /\ lost' = lost \cup more \cup {file[i] : i \in k+1..Len(file)}

\* flush(), whose error every caller swallows.
FlushFile ==
    \/ disk # "failing" /\ UNCHANGED file /\ Spill
    \/ /\ disk = "failing"
       /\ \E k \in flushed..Len(file) : \E j \in flushed..k : SpillFails(j, k, {})

\* The last reference to a file goes whose flush failed: it is closed, and what
\* that does not bring to the disk is gone.
DiscardFile ==
    /\ fileOpen' = FALSE
    /\ \E k \in flushed..Len(file) : SpillFails(k, k, {})

-----------------------------------------------------------------------------
(* The writer thread: run().                                                *)

\* Mutant of Take: the sentinel is taken for an empty queue.
TakeIgnoresStop ==
    /\ writer \in {"loop", "drain"}
    /\ q # << >>
    /\ q' = Tail(q)
    /\ IF Head(q) = Stop
       THEN UNCHANGED <<writer, hand>>
       ELSE /\ hand' = Head(q)
            /\ writer' = IF writer = "loop" THEN "write" ELSE "drain_write"
    /\ UNCHANGED <<puts, pc, dropped, evicted, fileVars, managerVars, disk>>

\* get(): the sentinel leads from the loop to the final drain.
Take ==
    /\ writer \in {"loop", "drain"}
    /\ q # << >>
    /\ q' = Tail(q)
    /\ IF Head(q) = Stop
       THEN writer' = "drain" /\ UNCHANGED hand
       ELSE /\ hand' = Head(q)
            /\ writer' = IF writer = "loop" THEN "write" ELSE "drain_write"
    /\ UNCHANGED <<puts, pc, dropped, evicted, fileVars, managerVars, disk>>

\* write(): on a closed file the record is gone (ValueError).  An open one
\* takes it into the buffer, or spills the buffer to make room, which a bad disk
\* refuses (OSError).  An error breaks the loop into the drain; the drain goes
\* on.
WriteRecord ==
    /\ writer \in {"write", "drain_write"}
    /\ \/ /\ fileOpen
          /\ file' = Append(file, hand)
          /\ writer' = IF writer = "write" THEN "loop" ELSE "drain"
          /\ \/ UNCHANGED <<flushed, lost>>
             \/ disk # "failing" /\ Spill
       \/ /\ fileOpen /\ disk = "failing"
          /\ \E k \in flushed..Len(file) : \E j \in flushed..k : SpillFails(j, k, {hand})
          /\ writer' = "drain"
       \/ /\ ~fileOpen
          /\ lost' = lost \cup {hand}
          /\ writer' = "drain"
          /\ UNCHANGED <<file, flushed>>
    /\ hand' = None
    /\ UNCHANGED <<queueVars, fileOpen, managerVars, disk>>

\* _maybe_flush: when the queue was empty for a while, or after a write.
MaybeFlush ==
    /\ writer = "loop"
    /\ fileOpen /\ flushed < Len(file)
    /\ FlushFile
    /\ UNCHANGED <<queueVars, writer, hand, fileOpen, managerVars, disk>>

\* The drain finds the queue empty: a last flush, and the thread ends.  A file
\* that stop_logging() could not close ends with it.
EndDrain ==
    /\ writer = "drain"
    /\ q = << >>
    /\ writer' = "ended"
    /\ \/ ~fileOpen /\ UNCHANGED fileVars
       \/ fileOpen /\ manager # "closed" /\ FlushFile /\ UNCHANGED fileOpen
       \/ fileOpen /\ manager = "closed" /\ disk # "failing"
            /\ fileOpen' = FALSE /\ UNCHANGED file /\ Spill
       \/ fileOpen /\ manager = "closed" /\ disk = "failing" /\ DiscardFile
    /\ UNCHANGED <<queueVars, hand, managerVars, disk>>

-----------------------------------------------------------------------------
(* stop_logging().                                                          *)

StopWriter ==
    /\ manager = "logging"
    /\ pc[Main] = "idle"
    /\ manager' = "stopping"
    /\ stopAt' = puts
    /\ q' = Append(q, Stop)
    /\ UNCHANGED <<puts, pc, dropped, evicted, writerVars, timedOut, disk>>

\* flush() and close().  A flush that raises skips the close: a thread that is
\* still writing keeps the file open, an ended one does not.
CloseFile ==
    \/ /\ disk # "failing" \/ flushed = Len(file)
       /\ fileOpen' = FALSE
       /\ UNCHANGED file /\ Spill
    \/ /\ disk = "failing" /\ flushed < Len(file)
       /\ IF writer = "ended" THEN DiscardFile ELSE FlushFile /\ UNCHANGED fileOpen

\* Mutant of StopReturns: the file is closed without waiting for the thread.
StopReturnsAtOnce ==
    /\ manager = "stopping"
    /\ manager' = "closed"
    /\ CloseFile
    /\ UNCHANGED <<queueVars, writer, hand, stopAt, timedOut, disk>>

\* join(timeout=2.0) returns, the thread having ended or not; the writer is
\* forgotten and the file closed.
StopReturns ==
    /\ manager = "stopping"
    /\ manager' = "closed"
    /\ timedOut' = (writer # "ended")
    /\ CloseFile
    /\ UNCHANGED <<queueVars, writer, hand, stopAt, disk>>

\* The disk fills up or goes away, and may come back.
DiskChanges ==
    /\ disk' = IF disk = "failing" THEN "healed" ELSE "failing"
    /\ UNCHANGED <<queueVars, writerVars, managerVars>>

Produce(p) == CheckSize(p) \/ DropOldest(p) \/ Put(p)
Write == Take \/ WriteRecord \/ EndDrain

Next ==
    \/ \E p \in Producer : Produce(p)
    \/ Write
    \/ StopWriter
    \/ StopReturns
    \/ MaybeFlush
    \/ DiskChanges

Spec == Init /\ [][Next]_vars

\* Threads run, the disk does not stall for ever, and join() has a time limit.
FairSpec == Spec /\ WF_vars(StopReturns) /\ WF_vars(Write)

-----------------------------------------------------------------------------
(* Properties.                                                              *)

Written == {file[i] : i \in DOMAIN file}
OnDisk == {file[i] : i \in 1..flushed}
Queued == {q[i] : i \in DOMAIN q} \ {Stop}
Held == {hand} \ {None}

\* Each record put is in exactly one of the written ones (on the disk or in the
\* buffer), the queue, the thread's hand, the dropped and the lost ones,
\* whatever the producers, the thread, the disk and stop() do to one another;
\* a closed file has nothing left in its buffer; and a record is lost only to
\* a disk that has failed or to a stop() that gave up waiting.
Conserved ==
    /\ 1..puts = Written \cup Queued \cup Held \cup evicted \cup lost
    /\ Cardinality(Written) + Cardinality(Queued) + Cardinality(Held)
         + Cardinality(evicted) + Cardinality(lost) = puts
    /\ ~fileOpen => Written = OnDisk
    /\ lost # {} => disk # "sound" \/ timedOut

\* The records in s ascend; the sentinel may stand anywhere among them.
Ascending(s) == \A i, j \in DOMAIN s : i < j /\ s[j] # Stop => s[i] < s[j]

\* Records reach the file in the order they were put, and dropping the oldest
\* never lets a later record overtake an earlier one.
FileInOrder ==
    /\ Ascending(file)
    /\ Ascending(q)
    /\ \A r \in Written, s \in Held \cup Queued : r < s
    /\ \A r \in Held, s \in Queued : r < s

\* The bound on the queue holds up to one entry for each thread caught between
\* the check and the put, and the sentinel.
QueueBounded == Len(q) <= MAX_QUEUE + Cardinality(Api) + 1

\* dropped_count is the number of records dropped, give or take a sentinel
\* that was the oldest entry.
DropsCounted == dropped \in {Cardinality(evicted), Cardinality(evicted) + 1}

\* What holds of the queue in every state.
LogInv == TypeOK /\ QueueBounded /\ DropsCounted

\* stop_logging() drains: when the thread ended in time and the disk has not
\* failed at a write or at a flush, every record put before the stop is on the
\* disk or was dropped as the oldest.
StopDrains ==
    manager = "closed" /\ ~timedOut /\ disk = "sound" =>
        1..stopAt \subseteq OnDisk \cup evicted

\* The thread ends after stop_logging() and is not left polling a closed file,
\* unless a producer on another thread, finding the queue full, dropped the
\* sentinel as the oldest entry.
WriterEnds ==
    manager = "stopping" ~> writer = "ended" \/ dropped > Cardinality(evicted)
=============================================================================

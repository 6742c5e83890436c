----------------------------- MODULE PortSession -----------------------------
(***************************************************************************)
(* kcom/core/port_session.py: one connection.  The session owns a protocol *)
(* handler, coalesces the chunks the handler delivers (a buffer, a byte    *)
(* cap and a single-shot timer) and fans each merged chunk out to the log, *)
(* the terminal, the pipeline and the trigger engine.                      *)
(*                                                                         *)
(* The protocol handler is open here: any of its signals may come at any   *)
(* moment.  SerialSession and TcpSession put the real handlers in its      *)
(* place and are shown to implement this specification.                    *)
(***************************************************************************)
EXTENDS Integers, Sequences

CONSTANTS
    CAP,        \* _RX_COALESCE_BYTES_CAP, in bytes
    WINDOW,     \* _RX_COALESCE_WINDOW_MS, in clock units
    MaxChunk,   \* bound: bytes in one chunk of the handler
    MaxBytes,   \* bound: bytes received in a behaviour
    MaxTime     \* bound: the clock stops here

ASSUME PortSessionAssumption ==
    /\ CAP \in Nat \ {0}
    /\ WINDOW \in Nat \ {0}
    /\ {MaxChunk, MaxBytes, MaxTime} \subseteq Nat

VARIABLES
    status,         \* _status
    has_protocol,   \* _protocol is not None
    rx_buffer,      \* the chunks of _rx_buffer, joined
    rx_buffer_size, \* _rx_buffer_size
    rx_first_ts,    \* _rx_first_ts
    rx_timer,       \* when _rx_timer expires, or Off
    is_logging,     \* the session's LogManager has a writer
    log,            \* the RX bytes fed to the current log file
    logStart,       \* history: bytes fanned out when that file was opened
    rcvd,           \* history: every byte _on_data_received took
    delivered,      \* history: every byte fanned out
    emitted,        \* history: the last data_received signal
    now             \* the clock

rxVars   == <<rx_buffer, rx_buffer_size, rx_first_ts, rx_timer>>
logVars  == <<is_logging, log, logStart>>
outVars  == <<delivered, emitted>>
sessionVars == <<status, has_protocol, rxVars, logVars, rcvd, outVars, now>>

Off == -1

Status == {"disconnected", "connecting", "connected", "error"}

\* A byte is told apart by its place in the stream.  It carries the timestamp
\* the handler put on its chunk and the time the session's slot ran for it.
Byte == [id : Nat, ts : Nat, at : Nat]

Chunk(n, ts) == [i \in 1..n |-> [id |-> Len(rcvd) + i, ts |-> ts, at |-> now]]

Nothing == [data |-> << >>, ts |-> 0]

TypeOK ==
    /\ status \in Status
    /\ has_protocol \in BOOLEAN
    /\ rx_buffer \in Seq(Byte)
    /\ rx_buffer_size \in Nat
    /\ rx_first_ts \in Nat
    /\ rx_timer \in Nat \cup {Off}
    /\ is_logging \in BOOLEAN
    /\ log \in Seq(Byte)
    /\ logStart \in Nat
    /\ rcvd \in Seq(Byte)
    /\ delivered \in Seq(Byte)
    /\ emitted \in [data : Seq(Byte), ts : Nat]
    /\ now \in Nat

SessionInit ==
    /\ status = "disconnected"
    /\ has_protocol = FALSE
    /\ rx_buffer = << >>
    /\ rx_buffer_size = 0
    /\ rx_first_ts = 0
    /\ rx_timer = Off
    /\ is_logging = FALSE
    /\ log = << >>
    /\ logStart = 0
    /\ rcvd = << >>
    /\ delivered = << >>
    /\ emitted = Nothing
    /\ now = 0

-----------------------------------------------------------------------------
(* The receive path.                                                        *)

\* The fan-out of _flush_rx_buffer: data_received feeds the log and every
\* other listener.
FanOut(merged, ts) ==
    /\ delivered' = delivered \o merged
    /\ emitted' = [data |-> merged, ts |-> ts]
    /\ log' = IF is_logging THEN log \o merged ELSE log
    /\ UNCHANGED logStart

\* Mutants of Flush: the byte count is reduced by the cap, the byte count is not
\* reset, the buffer is cleared only when the cap was reached.
FlushSubtractsCap(buf, ts) ==
    /\ rx_buffer' = << >>
    /\ rx_buffer_size' = rx_buffer_size - CAP
    /\ rx_first_ts' = ts
    /\ IF buf = << >> THEN UNCHANGED <<outVars, log, logStart>>
                      ELSE FanOut(buf, ts)

FlushKeepsSize(buf, ts) ==
    /\ rx_buffer' = << >>
    /\ UNCHANGED rx_buffer_size
    /\ rx_first_ts' = ts
    /\ IF buf = << >> THEN UNCHANGED <<outVars, log, logStart>>
                      ELSE FanOut(buf, ts)

FlushKeepsBuffer(buf, ts) ==
    /\ rx_buffer' = IF Len(buf) >= CAP THEN << >> ELSE buf
    /\ rx_buffer_size' = Len(rx_buffer')
    /\ rx_first_ts' = ts
    /\ IF buf = << >> THEN UNCHANGED <<outVars, log, logStart>>
                      ELSE FanOut(buf, ts)

\* _flush_rx_buffer on a buffer holding buf: the buffer is cleared first.
Flush(buf, ts) ==
    /\ rx_buffer' = << >>
    /\ rx_buffer_size' = 0
    /\ rx_first_ts' = ts
    /\ IF buf = << >> THEN UNCHANGED <<outVars, log, logStart>>
                      ELSE FanOut(buf, ts)

\* What a trigger that fires during the fan-out does to the session through
\* MainWindow._on_trigger_fired: nothing, a reply whose write may fail, or a
\* nested disconnect(), which stops the timer and the log.  timer is the value
\* the caller leaves in rx_timer.
Reaction(timer) ==
    \/ /\ UNCHANGED <<status, is_logging>>
       /\ rx_timer' = timer
    \/ /\ status' = "error"
       /\ has_protocol
       /\ UNCHANGED is_logging
       /\ rx_timer' = timer
    \/ /\ status = "connected"
       /\ status' = "disconnected"
       /\ is_logging' = FALSE
       /\ rx_timer' = Off

\* Mutants of Hold: every chunk restarts the timer; every chunk's timestamp
\* replaces the one kept.
HoldRestartsTimer(chunk, ts) ==
    /\ rx_buffer_size + Len(chunk) < CAP
    /\ rx_first_ts' = IF rx_buffer = << >> THEN ts ELSE rx_first_ts
    /\ rx_buffer' = rx_buffer \o chunk
    /\ rx_buffer_size' = rx_buffer_size + Len(chunk)
    /\ rx_timer' = now + WINDOW
    /\ UNCHANGED <<status, logVars, outVars>>

HoldKeepsLastStamp(chunk, ts) ==
    /\ rx_buffer_size + Len(chunk) < CAP
    /\ rx_first_ts' = ts
    /\ rx_buffer' = rx_buffer \o chunk
    /\ rx_buffer_size' = rx_buffer_size + Len(chunk)
    /\ rx_timer' = IF rx_timer = Off THEN now + WINDOW ELSE rx_timer
    /\ UNCHANGED <<status, logVars, outVars>>

\* _on_data_received below the byte cap: hold the chunk, arm an idle timer.
Hold(chunk, ts) ==
    /\ rx_buffer_size + Len(chunk) < CAP
    /\ rx_first_ts' = IF rx_buffer = << >> THEN ts ELSE rx_first_ts
    /\ rx_buffer' = rx_buffer \o chunk
    /\ rx_buffer_size' = rx_buffer_size + Len(chunk)
    /\ rx_timer' = IF rx_timer = Off THEN now + WINDOW ELSE rx_timer
    /\ UNCHANGED <<status, logVars, outVars>>

\* _on_data_received at the cap: flush at once; the timer keeps running.
ForceFlush(chunk, ts) ==
    /\ rx_buffer_size + Len(chunk) >= CAP
    /\ Flush(rx_buffer \o chunk, IF rx_buffer = << >> THEN ts ELSE rx_first_ts)

\* A chunk reaches the session's slot.
Take(chunk) ==
    /\ has_protocol
    /\ chunk # << >>
    /\ rcvd' = rcvd \o chunk
    /\ UNCHANGED <<has_protocol, now>>

\* The handler's timestamps never run backwards and never lie ahead of the
\* clock.  A chunk that comes too late for its timer to expire is left out.
Stamps == {ts \in 0..now : rcvd # << >> => rcvd[Len(rcvd)].ts <= ts}

DataReceived ==
    \E n \in 1..MaxChunk, ts \in Stamps :
        LET chunk == Chunk(n, ts) IN
        /\ Len(rcvd) + n <= MaxBytes
        /\ now + WINDOW <= MaxTime
        /\ Take(chunk)
        /\ \/ Hold(chunk, ts)
           \/ ForceFlush(chunk, ts) /\ Reaction(rx_timer)

\* _rx_timer.timeout: the timer is single-shot.
TimerFlush ==
    /\ rx_timer # Off
    /\ now >= rx_timer
    /\ Flush(rx_buffer, rx_first_ts)
    /\ UNCHANGED <<has_protocol, rcvd, now>>

RxTimeout ==
    /\ TimerFlush
    /\ \/ rx_buffer # << >> /\ Reaction(Off)
       \/ rx_buffer = << >> /\ rx_timer' = Off /\ UNCHANGED <<status, is_logging>>

-----------------------------------------------------------------------------
(* The connection's life.                                                   *)

\* connect(): CONNECTING, a new handler, and whatever status that handler
\* signals before its own connect() returns.
Connect(outcome) ==
    /\ status' = outcome
    /\ has_protocol' = TRUE
    /\ UNCHANGED <<rxVars, logVars, rcvd, outVars, now>>

\* Mutants of Disconnect: the log is stopped before the flush; the timer is
\* stopped and nothing flushed.
DisconnectStopsLogFirst(outcome) ==
    /\ status' = outcome
    /\ rx_buffer' = << >>
    /\ rx_buffer_size' = 0
    /\ delivered' = delivered \o rx_buffer
    /\ emitted' = IF rx_buffer = << >> THEN emitted
                  ELSE [data |-> rx_buffer, ts |-> rx_first_ts]
    /\ rx_timer' = Off
    /\ is_logging' = FALSE
    /\ UNCHANGED <<rx_first_ts, log, logStart, has_protocol, rcvd, now>>

DisconnectForgetsFlush(outcome) ==
    /\ status' = outcome
    /\ rx_timer' = Off
    /\ is_logging' = FALSE
    /\ UNCHANGED <<rx_buffer, rx_buffer_size, rx_first_ts, log, logStart, outVars,
                   has_protocol, rcvd, now>>

\* disconnect(): close the handler, stop the timer, flush, and only then stop
\* the log, so that the tail of the stream is in it.
Disconnect(outcome) ==
    /\ status' = outcome
    /\ Flush(rx_buffer, rx_first_ts)
    /\ rx_timer' = Off
    /\ is_logging' = FALSE
    /\ UNCHANGED <<has_protocol, rcvd, now>>

\* _on_connected, _on_disconnected, _on_protocol_error; the last two come
\* together when the reader thread fails.  send() on a handler that cannot
\* write raises the error too.
OnProtocolSignal(outcome) ==
    /\ has_protocol
    /\ status' = outcome
    /\ UNCHANGED <<has_protocol, rxVars, logVars, rcvd, outVars, now>>

StartLogging ==
    /\ ~is_logging
    /\ is_logging' = TRUE
    /\ log' = << >>
    /\ logStart' = Len(delivered)
    /\ UNCHANGED <<status, has_protocol, rxVars, rcvd, outVars, now>>

StopLogging ==
    /\ is_logging
    /\ is_logging' = FALSE
    /\ UNCHANGED <<status, has_protocol, rxVars, log, logStart, rcvd, outVars, now>>

Tick ==
    /\ now < MaxTime
    /\ now' = now + 1
    /\ UNCHANGED <<status, has_protocol, rxVars, logVars, rcvd, outVars>>

SessionNext ==
    \/ DataReceived
    \/ RxTimeout
    \/ \E s \in {"connecting", "connected", "error"} : Connect(s)
    \/ \E s \in {status, "disconnected"} : Disconnect(s)
    \/ \E s \in {"connected", "disconnected", "error"} : OnProtocolSignal(s)
    \/ StartLogging
    \/ StopLogging
    \/ Tick

SessionSpec == SessionInit /\ [][SessionNext]_sessionVars

\* The Qt event loop runs: time passes and an expired timer is served.
SessionFairness == WF_sessionVars(Tick) /\ WF_sessionVars(RxTimeout)

FairSessionSpec == SessionSpec /\ SessionFairness

-----------------------------------------------------------------------------
(* Properties.                                                              *)

\* The coalescer neither loses, repeats nor reorders a byte, whatever mixes
\* the cap, the timer, disconnect() and a trigger that disconnects from inside
\* the fan-out: what was fanned out, then what is held, is what was received.
Lossless == delivered \o rx_buffer = rcvd

\* The running byte count is the number of bytes held, and below the cap.
SizeAgrees == rx_buffer_size = Len(rx_buffer) /\ rx_buffer_size < CAP

\* Held bytes always have a timer, and it expires no later than WINDOW after
\* the oldest of them came: later chunks never push it back, and no path
\* through flush, disconnect or the cap leaves bytes behind a stopped timer.
HeldBound ==
    rx_buffer # << >> => rx_timer # Off /\ rx_timer <= rx_buffer[1].at + WINDOW

\* The timestamp kept for the held bytes is that of the first of them.
FirstStamp == rx_buffer # << >> => rx_first_ts = rx_buffer[1].ts

\* A fan-out is stamped with the time of its first byte, and stamps never go
\* back from one fan-out to the next.
StampsOrdered ==
    [][emitted' # emitted =>
         /\ emitted'.ts = emitted'.data[1].ts
         /\ emitted'.ts >= emitted.ts]_sessionVars

\* disconnect() ends a log only after the tail is in it: the file then holds
\* every byte received since it was opened, bytes held at that moment included.
LogTail ==
    [][is_logging /\ ~is_logging' /\ rx_buffer' = << >> =>
         log' = SubSeq(rcvd', logStart + 1, Len(rcvd'))]_sessionVars

\* Every byte received reaches the listeners, with or without more traffic.
AllDelivered == \A n \in 1..MaxBytes : Len(rcvd) >= n ~> Len(delivered) >= n

CoalescerInv == Lossless /\ SizeAgrees /\ HeldBound /\ FirstStamp
=============================================================================

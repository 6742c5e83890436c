------------------------------ MODULE TcpSession ------------------------------
(***************************************************************************)
(* A PortSession over kcom/protocols/tcp_client.py.  Everything runs in    *)
(* the Qt main thread: the socket's signals call the handler's slots, and  *)
(* those the session's, in one step.  NamedPipeClientProtocol              *)
(* (named_pipe.py) has the same slots over QLocalSocket; the NOT_CONNECTED *)
(* that its send() posts from a REST worker when the pipe closes under it  *)
(* (tcp_client.py's posts none) is not modelled here.                      *)
(***************************************************************************)
EXTENDS PortSession

CONSTANT AUTO_RECONNECT     \* config.auto_reconnect

ASSUME TcpSessionAssumption == AUTO_RECONNECT \in BOOLEAN

VARIABLES
    socket,     \* _socket.state()
    reconnect,  \* _reconnect_timer is active
    user_disc,  \* _user_disconnected
    peer        \* the remote end accepts connections

tcpVars == <<socket, reconnect, user_disc, peer>>
vars == <<sessionVars, tcpVars>>

TcpTypeOK ==
    /\ TypeOK
    /\ socket \in {"unconnected", "connecting", "connected"}
    /\ {reconnect, user_disc, peer} \subseteq BOOLEAN

Init ==
    /\ SessionInit
    /\ socket = "unconnected"
    /\ reconnect = FALSE
    /\ user_disc = FALSE
    /\ peer \in BOOLEAN

streamIdle == <<rxVars, logVars, rcvd, outVars, now>>

\* PortSession.connect: a new handler replaces the last one, whose socket and
\* timer Qt destroys; connectToHost begins.
UserConnect ==
    /\ status # "connected"
    /\ Connect("connecting")
    /\ socket' = "connecting"
    /\ reconnect' = FALSE
    /\ user_disc' = FALSE
    /\ UNCHANGED peer

\* _reconnect_timer.timeout: _do_connect on the same socket.
ReconnectTimeout ==
    /\ reconnect
    /\ reconnect' = FALSE
    /\ socket' = "connecting"
    /\ UNCHANGED <<sessionVars, user_disc, peer>>

\* _on_socket_connected
SocketConnected ==
    /\ socket = "connecting"
    /\ peer
    /\ socket' = "connected"
    /\ OnProtocolSignal("connected")
    /\ UNCHANGED <<reconnect, user_disc, peer>>

\* The tail of _on_socket_error and _on_socket_disconnected.
ArmReconnect == reconnect' = (reconnect \/ (AUTO_RECONNECT /\ ~user_disc))

\* Mutant of ConnectFails: only a drop arms the timer.
ConnectFailsGivesUp ==
    /\ socket = "connecting"
    /\ ~peer
    /\ socket' = "unconnected"
    /\ OnProtocolSignal("error")
    /\ UNCHANGED <<reconnect, user_disc, peer>>

\* An attempt fails: errorOccurred alone.
ConnectFails ==
    /\ socket = "connecting"
    /\ ~peer
    /\ socket' = "unconnected"
    /\ OnProtocolSignal("error")
    /\ ArmReconnect
    /\ UNCHANGED <<user_disc, peer>>

\* Mutant of RemoteCloses: the drop is not passed on to the session.
RemoteClosesSilently ==
    /\ socket = "connected"
    /\ socket' = "unconnected"
    /\ ArmReconnect
    /\ UNCHANGED <<sessionVars, user_disc, peer>>

\* The connection drops: errorOccurred, then disconnected.
RemoteCloses ==
    /\ socket = "connected"
    /\ socket' = "unconnected"
    /\ OnProtocolSignal("disconnected")
    /\ ArmReconnect
    /\ UNCHANGED <<user_disc, peer>>

\* Mutant of Abort: leaves the reconnect timer armed.
AbortKeepsTimer ==
    /\ user_disc' = TRUE
    /\ UNCHANGED reconnect
    /\ socket' = "unconnected"

\* disconnect() of the handler: abort() signals disconnected only when the
\* socket was connected.
Abort ==
    /\ user_disc' = TRUE
    /\ reconnect' = FALSE
    /\ socket' = "unconnected"

UserDisconnect ==
    /\ has_protocol
    /\ Abort
    /\ Disconnect(IF socket = "connected" THEN "disconnected" ELSE status)
    /\ UNCHANGED peer

\* Mutant of TcpReaction: the nested disconnect() leaves the log running.
TcpReactionKeepsLog(timer) ==
    \/ /\ rx_timer' = timer
       /\ UNCHANGED <<status, is_logging, socket, reconnect, user_disc>>
    \/ /\ status = "connected"
       /\ Abort
       /\ status' = "disconnected"
       /\ UNCHANGED is_logging
       /\ rx_timer' = Off

\* A trigger that fires in the fan-out: nothing happens to the connection (a
\* reply is written), or disconnect() runs inside the slot.
TcpReaction(timer) ==
    \/ /\ rx_timer' = timer
       /\ UNCHANGED <<status, is_logging, socket, reconnect, user_disc>>
    \/ /\ status = "connected"
       /\ Abort
       /\ status' = "disconnected"
       /\ is_logging' = FALSE
       /\ rx_timer' = Off

\* _on_ready_read
ReadyRead ==
    \E n \in 1..MaxChunk :
        LET chunk == Chunk(n, now) IN
        /\ socket = "connected"
        /\ Len(rcvd) + n <= MaxBytes
        /\ now + WINDOW <= MaxTime
        /\ Take(chunk)
        /\ \/ Hold(chunk, now) /\ UNCHANGED <<socket, reconnect, user_disc>>
           \/ ForceFlush(chunk, now) /\ TcpReaction(rx_timer)
        /\ UNCHANGED peer

TcpRxTimeout ==
    /\ TimerFlush
    /\ \/ rx_buffer # << >> /\ TcpReaction(Off)
       \/ /\ rx_buffer = << >>
          /\ rx_timer' = Off
          /\ UNCHANGED <<status, is_logging, socket, reconnect, user_disc>>
    /\ UNCHANGED peer

Environment ==
    \/ (StartLogging \/ StopLogging \/ Tick) /\ UNCHANGED tcpVars
    \/ peer' = ~peer /\ UNCHANGED <<sessionVars, socket, reconnect, user_disc>>

Next ==
    \/ UserConnect
    \/ UserDisconnect
    \/ ReconnectTimeout
    \/ SocketConnected
    \/ ConnectFails
    \/ RemoteCloses
    \/ ReadyRead
    \/ TcpRxTimeout
    \/ Environment

Spec == Init /\ [][Next]_vars

\* Timers fire, and an attempt that the peer would accept (or refuse) for ever
\* is answered.  The user and the peer are free.
Fairness ==
    /\ WF_vars(ReconnectTimeout)
    /\ WF_vars(SocketConnected)
    /\ WF_vars(ConnectFails)

FairSpec == Spec /\ Fairness

-----------------------------------------------------------------------------
(* Properties.                                                              *)

\* Every step of the TCP session is a step of PortSession.
ImplementsSession == SessionSpec

\* The status shows CONNECTED exactly while the socket is: no order of drop,
\* retry, abort and trigger leaves a stale status that would let send() or
\* the toolbar act on a dead connection.
StatusFollowsSocket == status = "connected" <=> socket = "connected"

\* Until the user disconnects, a handler with auto-reconnect always has a
\* connection, an attempt or an armed timer: no drop or failed attempt is
\* the last.
NeverGivesUp ==
    has_protocol /\ AUTO_RECONNECT /\ ~user_disc =>
        socket # "unconnected" \/ reconnect

\* What holds of the TCP session in every state.
TcpInv == TcpTypeOK /\ StatusFollowsSocket /\ NeverGivesUp

\* After disconnect() nothing connects until the user does, although the
\* abort() inside it signals the same disconnected as a drop.
StaysDisconnected == user_disc => socket = "unconnected" /\ ~reconnect

\* README.md:40 and tcp_client.py:17: once a reconnect is under way and the
\* peer is back for good, the session is connected, unless the user
\* disconnects.
Reconnects ==
    <>[]peer => (reconnect ~> (status = "connected" \/ user_disc))
=============================================================================

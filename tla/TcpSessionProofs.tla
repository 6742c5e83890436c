---------------------------- MODULE TcpSessionProofs ----------------------------
(***************************************************************************)
(* The TCP session implements PortSession for every cap, window and bound, *)
(* and its own invariants hold.                                            *)
(*                                                                         *)
(* Both rest on one inductive invariant: that of the coalescer, the clock  *)
(* that leads the stamps, and the state of the handler: an armed retry     *)
(* means the socket rests, and a socket that does not rest belongs to a    *)
(* session with a handler.                                                 *)
(***************************************************************************)
EXTENDS TcpSession, PortSessionProofs

HandlerTypes ==
    /\ socket \in {"unconnected", "connecting", "connected"}
    /\ reconnect \in BOOLEAN
    /\ user_disc \in BOOLEAN
    /\ peer \in BOOLEAN

\* _do_connect never runs over a live connection: a retry is armed only while
\* the socket rests.
RetryRests == reconnect => socket = "unconnected"

TcpIInv ==
    /\ CoalescerIInv
    /\ ClockLeads
    /\ HandlerTypes
    /\ StatusFollowsSocket
    /\ NeverGivesUp
    /\ StaysDisconnected
    /\ RetryRests

-----------------------------------------------------------------------------
(* Each step of the TCP session is a step of the open session.              *)

\* What a trigger does from inside the fan-out is something PortSession allows.
LEMMA ReactionImplements ==
    ASSUME NEW timer, TcpReaction(timer) PROVE Reaction(timer)
BY DEF TcpReaction, Reaction

\* _on_ready_read delivers a chunk stamped with the clock.
LEMMA ReadyReadImplements ==
    ASSUME TypeOK, ClockLeads, ReadyRead PROVE DataReceived
<1>1. PICK n \in 1..MaxChunk :
        /\ Len(rcvd) + n <= MaxBytes
        /\ now + WINDOW <= MaxTime
        /\ Take(Chunk(n, now))
        /\ \/ Hold(Chunk(n, now), now)
           \/ ForceFlush(Chunk(n, now), now) /\ TcpReaction(rx_timer)
  BY DEF ReadyRead
<1>2. now \in Stamps  BY ClockStamps
<1>3. \/ Hold(Chunk(n, now), now)
      \/ ForceFlush(Chunk(n, now), now) /\ Reaction(rx_timer)
  BY <1>1, ReactionImplements
<1> QED BY <1>1, <1>2, <1>3 DEF DataReceived

\* The idle timer is the session's own.
LEMMA TimeoutImplements ==
    ASSUME TcpRxTimeout PROVE RxTimeout
BY ReactionImplements DEF TcpRxTimeout, RxTimeout

\* Every step of the TCP session is a step of PortSession or leaves the session
\* alone.
LEMMA StepImplements ==
    ASSUME TypeOK, ClockLeads, [Next]_vars PROVE [SessionNext]_sessionVars
<1>1. CASE UserConnect
  BY <1>1 DEF UserConnect, SessionNext
<1>2. CASE UserDisconnect
  <2>1. \E s \in {status, "disconnected"} : Disconnect(s)
    BY <1>2 DEF UserDisconnect
  <2> QED BY <2>1 DEF SessionNext
<1>3. CASE ReconnectTimeout  BY <1>3 DEF ReconnectTimeout
<1>4. CASE SocketConnected \/ ConnectFails \/ RemoteCloses
  <2>1. \E s \in {"connected", "disconnected", "error"} : OnProtocolSignal(s)
    BY <1>4 DEF SocketConnected, ConnectFails, RemoteCloses
  <2> QED BY <2>1 DEF SessionNext
<1>5. CASE ReadyRead  BY <1>5, ReadyReadImplements DEF SessionNext
<1>6. CASE TcpRxTimeout  BY <1>6, TimeoutImplements DEF SessionNext
<1>7. CASE Environment  BY <1>7 DEF Environment, SessionNext
<1>8. CASE UNCHANGED vars  BY <1>8 DEF vars
<1> QED BY <1>1, <1>2, <1>3, <1>4, <1>5, <1>6, <1>7, <1>8 DEF Next

-----------------------------------------------------------------------------
(* The handler's state.                                                     *)

HandlerInv ==
    HandlerTypes /\ StatusFollowsSocket /\ NeverGivesUp /\ StaysDisconnected /\ RetryRests

\* A trigger that disconnects inside a slot leaves the handler as disconnect()
\* does.
LEMMA ReactionKeepsHandler ==
    ASSUME HandlerInv, NEW timer, TcpReaction(timer), UNCHANGED <<has_protocol, peer>>
    PROVE  HandlerInv'
<1>1. CASE UNCHANGED <<status, is_logging, socket, reconnect, user_disc>>
  BY <1>1 DEF HandlerInv, HandlerTypes, StatusFollowsSocket, NeverGivesUp,
              StaysDisconnected, RetryRests
<1>2. CASE Abort /\ status' = "disconnected"
  BY <1>2 DEF Abort, HandlerInv, HandlerTypes, StatusFollowsSocket, NeverGivesUp,
              StaysDisconnected, RetryRests
<1> QED BY <1>1, <1>2 DEF TcpReaction

\* Every step keeps the handler's invariant.
LEMMA StepKeepsHandler ==
    ASSUME HandlerInv, [Next]_vars PROVE HandlerInv'
<1> USE TcpSessionAssumption DEF HandlerInv, HandlerTypes, StatusFollowsSocket,
        NeverGivesUp, StaysDisconnected, RetryRests
<1>1. CASE UserConnect
  BY <1>1 DEF UserConnect, Connect
<1>2. CASE UserDisconnect
  BY <1>2 DEF UserDisconnect, Abort, Disconnect
<1>3. CASE ReconnectTimeout
  BY <1>3 DEF ReconnectTimeout, sessionVars
<1>4. CASE SocketConnected
  BY <1>4 DEF SocketConnected, OnProtocolSignal
<1>5. CASE ConnectFails
  BY <1>5 DEF ConnectFails, OnProtocolSignal, ArmReconnect
<1>6. CASE RemoteCloses
  BY <1>6 DEF RemoteCloses, OnProtocolSignal, ArmReconnect
<1>7. CASE UNCHANGED <<status, has_protocol, socket, reconnect, user_disc>> /\ peer' \in BOOLEAN
  BY <1>7
<1>8. CASE ReadyRead
  <2>1. PICK n \in 1..MaxChunk :
          /\ Take(Chunk(n, now))
          /\ \/ Hold(Chunk(n, now), now) /\ UNCHANGED <<socket, reconnect, user_disc>>
             \/ ForceFlush(Chunk(n, now), now) /\ TcpReaction(rx_timer)
          /\ UNCHANGED peer
    BY <1>8 DEF ReadyRead
  <2>2. CASE Hold(Chunk(n, now), now) /\ UNCHANGED <<socket, reconnect, user_disc>>
    BY <1>7, <2>1, <2>2 DEF Hold, Take
  <2>3. CASE TcpReaction(rx_timer)
    BY <2>1, <2>3, ReactionKeepsHandler DEF Take
  <2> QED BY <2>1, <2>2, <2>3
<1>9. CASE TcpRxTimeout
  <2>1. CASE TcpReaction(Off)
    BY <1>9, <2>1, ReactionKeepsHandler DEF TcpRxTimeout, TimerFlush
  <2>2. CASE UNCHANGED <<status, is_logging, socket, reconnect, user_disc>>
    BY <1>7, <1>9, <2>2 DEF TcpRxTimeout, TimerFlush
  <2> QED BY <1>9, <2>1, <2>2 DEF TcpRxTimeout
<1>10. CASE Environment
  BY <1>7, <1>10 DEF Environment, StartLogging, StopLogging, Tick, sessionVars, tcpVars
<1>11. CASE UNCHANGED vars
  BY <1>7, <1>11 DEF vars, sessionVars, tcpVars
<1> QED BY <1>1, <1>2, <1>3, <1>4, <1>5, <1>6, <1>8, <1>9, <1>10, <1>11 DEF Next

-----------------------------------------------------------------------------
\* The strengthened invariant holds in every state of the TCP session.
THEOREM TcpInductive == Spec => []TcpIInv
<1> USE DEF TcpIInv
<1>1. Init => TcpIInv
  <2> SUFFICES ASSUME Init PROVE TcpIInv  OBVIOUS
  <2>1. CoalescerIInv  BY InitInvariant DEF Init
  <2>2. ClockLeads  BY DEF Init, SessionInit, ClockLeads
  <2>3. HandlerTypes /\ StatusFollowsSocket /\ NeverGivesUp /\ StaysDisconnected /\ RetryRests
    BY DEF Init, SessionInit, HandlerTypes, StatusFollowsSocket, NeverGivesUp,
           StaysDisconnected, RetryRests
  <2> QED BY <2>1, <2>2, <2>3
<1>2. TcpIInv /\ [Next]_vars => TcpIInv'
  <2> SUFFICES ASSUME TcpIInv, [Next]_vars PROVE TcpIInv'  OBVIOUS
  <2>1. [SessionNext]_sessionVars  BY StepImplements DEF CoalescerIInv
  <2>2. CoalescerIInv' /\ ClockLeads'  BY <2>1, StepInvariant, StepClockLeads
  <2>3. HandlerInv'  BY StepKeepsHandler DEF HandlerInv
  <2> QED BY <2>2, <2>3 DEF HandlerInv
<1> QED BY <1>1, <1>2, PTL DEF Spec

\* What the session does over a TCP handler, with its drops, retries, aborts and
\* disconnects from inside a slot, is what PortSession allows: every theorem
\* about PortSession holds of it.
THEOREM TcpImplements == Spec => ImplementsSession
<1>1. Init => SessionInit  BY DEF Init
<1>2. TcpIInv /\ [Next]_vars => [SessionNext]_sessionVars
  BY StepImplements DEF TcpIInv, CoalescerIInv
<1> QED BY <1>1, <1>2, TcpInductive, PTL DEF Spec, ImplementsSession, SessionSpec

\* CONNECTED is shown exactly while the socket is connected, and a handler with
\* auto-reconnect always has a connection, an attempt or an armed retry until
\* the user disconnects.
THEOREM TcpKeepsInv == Spec => []TcpInv
<1>1. TcpIInv => TcpInv
  <2> SUFFICES ASSUME TcpIInv PROVE TcpInv  OBVIOUS
  <2>1. TypeOK /\ HandlerTypes  BY DEF TcpIInv, CoalescerIInv
  <2>2. TcpTypeOK  BY <2>1 DEF HandlerTypes, TcpTypeOK
  <2> QED BY <2>2 DEF TcpIInv, TcpInv
<1> QED BY <1>1, TcpInductive, PTL

\* After disconnect() nothing connects until the user does.
THEOREM TcpStaysDisconnected == Spec => []StaysDisconnected
<1>1. TcpIInv => StaysDisconnected  BY DEF TcpIInv
<1> QED BY <1>1, TcpInductive, PTL
=============================================================================

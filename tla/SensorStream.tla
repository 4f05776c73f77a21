----------------------------- MODULE SensorStream ----------------------------
(***************************************************************************)
(* protocol-playground: readings sent to the websocket of data-aggregator  *)
(* pass through dataCH to one bidirectional gRPC stream; the invoicer      *)
(* echoes every reading and ReadServerLoop receives the echoes.            *)
(***************************************************************************)
EXTENDS Naturals, Sequences, SequencesExt

CONSTANTS SsReadings,    \* how many readings the websocket client sends
          SsQueueSize    \* capacity of dataCH (128 in the code)

ASSUME SsAssumption == SsReadings \in Nat /\ SsQueueSize \in Nat \ {0}

VARIABLES
  ssUp,        \* the aggregator runs
  ssConn,      \* the websocket is open
  ssRead,      \* readings handleWS has read
  ssQueue,     \* dataCH
  ssSent,      \* requests on the stream
  ssEcho,      \* responses on the stream
  ssGot,       \* echoes ReadServerLoop has received
  ssOpen,      \* the stream works
  ssReading    \* ReadServerLoop runs

ssVars == <<ssUp, ssConn, ssRead, ssQueue, ssSent, ssEcho, ssGot, ssOpen, ssReading>>

SsInit(up) ==
  /\ ssUp \in up /\ ssConn = TRUE /\ ssRead = 0
  /\ ssQueue = <<>> /\ ssSent = <<>> /\ ssEcho = <<>> /\ ssGot = <<>>
  /\ ssOpen = TRUE /\ ssReading = TRUE

\* handleWS blocks while dataCH is full.
SsHandleWS ==
  /\ ssUp /\ ssConn /\ ssRead < SsReadings /\ Len(ssQueue) < SsQueueSize
  /\ ssRead' = ssRead + 1 /\ ssQueue' = Append(ssQueue, ssRead + 1)
  /\ UNCHANGED <<ssUp, ssConn, ssSent, ssEcho, ssGot, ssOpen, ssReading>>

\* A read error ends the goroutine of the connection.
SsWSClosed ==
  /\ ssUp /\ ssConn /\ ssConn' = FALSE
  /\ UNCHANGED <<ssUp, ssRead, ssQueue, ssSent, ssEcho, ssGot, ssOpen, ssReading>>

\* Mutant: every reading is sent by a goroutine of its own.
SsSendConcurrently ==
  /\ ssUp
  /\ \E i \in DOMAIN ssQueue :
       /\ ssQueue' = RemoveAt(ssQueue, i)
       /\ ssSent' = IF ssOpen THEN Append(ssSent, ssQueue[i]) ELSE ssSent
  /\ UNCHANGED <<ssUp, ssConn, ssRead, ssEcho, ssGot, ssOpen, ssReading>>

\* AcceptWSLoop: a failed Send is logged and the reading skipped.
SsSendMsgStream ==
  /\ ssUp /\ ssQueue # <<>>
  /\ ssQueue' = Tail(ssQueue)
  /\ ssSent' = IF ssOpen THEN Append(ssSent, Head(ssQueue)) ELSE ssSent
  /\ UNCHANGED <<ssUp, ssConn, ssRead, ssEcho, ssGot, ssOpen, ssReading>>

\* SensorDataStream of the invoicer.
SsEcho ==
  /\ ssUp /\ ssSent # <<>>
  /\ ssSent' = Tail(ssSent) /\ ssEcho' = Append(ssEcho, Head(ssSent))
  /\ UNCHANGED <<ssUp, ssConn, ssRead, ssQueue, ssGot, ssOpen, ssReading>>

SsReadServer ==
  /\ ssUp /\ ssReading /\ ssEcho # <<>>
  /\ ssEcho' = Tail(ssEcho) /\ ssGot' = Append(ssGot, Head(ssEcho))
  /\ UNCHANGED <<ssUp, ssConn, ssRead, ssQueue, ssSent, ssOpen, ssReading>>

\* The connection breaks: what is in flight is lost, and nothing opens it again.
SsBreak ==
  /\ ssUp /\ ssOpen /\ ssOpen' = FALSE /\ ssSent' = <<>> /\ ssEcho' = <<>>
  /\ UNCHANGED <<ssUp, ssConn, ssRead, ssQueue, ssGot, ssReading>>

\* Recv fails with Unavailable and ReadServerLoop returns.
SsReadServerEnds ==
  /\ ssUp /\ ssReading /\ ~ssOpen /\ ssReading' = FALSE
  /\ UNCHANGED <<ssUp, ssConn, ssRead, ssQueue, ssSent, ssEcho, ssGot, ssOpen>>

SsNext ==
  \/ SsHandleWS \/ SsWSClosed \/ SsSendMsgStream \/ SsEcho \/ SsReadServer \/ SsBreak
  \/ SsReadServerEnds

SsSpec == SsInit({TRUE}) /\ [][SsNext]_ssVars
-----------------------------------------------------------------------------
\* The echoes the aggregator receives are the first readings of its websocket,
\* in order and without a gap, whatever is lost when the stream breaks.
\* (AcceptWSLoop, SensorDataStream, ReadServerLoop)
SsEchoesInOrder == \A i \in DOMAIN ssGot : ssGot[i] = i

=============================================================================

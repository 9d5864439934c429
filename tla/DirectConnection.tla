-------------------------- MODULE DirectConnection --------------------------
(***************************************************************************)
(* DirectConnection (src/src/directconnection.cpp): the QIODevice that     *)
(* wraps one QAbstractSocket.  It decides between an SRV lookup and a      *)
(* direct connect, mirrors the socket's state in socket_state, opens       *)
(* itself when the socket connects and closes itself when the socket       *)
(* closes.                                                                 *)
(*                                                                         *)
(* Every operation below is a relation on the four variables of the        *)
(* connection only.  A module that uses the connection conjoins it with    *)
(* what the slots connected to stateChanged() and connected() do, because  *)
(* Qt runs those slots inside the emitting call.                           *)
(*                                                                         *)
(* Between two handlers socket_state always equals QAbstractSocket's own   *)
(* state (the transient ListeningState never outlives stateChanged), so    *)
(* one variable stands for both.  HostLookupState and ConnectingState are  *)
(* both "Connecting": no code tells them apart.                            *)
(***************************************************************************)
EXTENDS Integers

CONSTANTS
    ServerPort,   \* what Client::setPort or the constructor was given, -1 = unset
    MaxLookups    \* bound: DNS lookups that may be in flight together

ASSUME ServerPortAssumption == ServerPort \in -1 .. 65535
ASSUME MaxLookupsAssumption == MaxLookups \in Nat \ {0}

VARIABLES
    socket_state,   \* d->socket_state
    opened,         \* QIODevice::isOpen() of the connection
    socket_error,   \* d->socket_error differs from UnknownSocketError
    lookups         \* QDnsLookup objects whose finished() is still to come

connVars == <<socket_state, opened, socket_error, lookups>>

SocketStates == {"Unconnected", "Connecting", "Connected", "Closing"}

ConnTypeOK ==
    /\ socket_state \in SocketStates
    /\ opened \in BOOLEAN
    /\ socket_error \in BOOLEAN

ConnInit ==
    /\ socket_state = "Unconnected"
    /\ opened = FALSE
    /\ socket_error = FALSE
    /\ lookups = 0

-----------------------------------------------------------------------------

\* The port travels through a qint16 parameter (TcpConnection's constructor).
ToInt16(p) == ((p + 32768) % 65536) - 32768

\* The constructor's decision: an unset port means "ask the SRV record".
do_lookup == ToInt16(ServerPort) < 0

\* QAbstractSocket::connectToHost.  On a socket that is not idle Qt only
\* warns; newer versions also report OperationError.
ConnectToHost ==
    \/ /\ socket_state = "Unconnected"
       /\ socket_state' = "Connecting"
       /\ UNCHANGED socket_error
    \/ /\ socket_state # "Unconnected"
       /\ UNCHANGED socket_state
       /\ socket_error' \in {socket_error, TRUE}

\* doLookup() leaves socket_state alone: the socket itself is still idle.
DoLookup ==
    /\ lookups < MaxLookups
    /\ lookups' = lookups + 1
    /\ UNCHANGED <<socket_state, socket_error>>

\* DirectConnection::open() as connectToServer() calls it.
Open ==
    /\ IF socket_state # "Unconnected"
       THEN UNCHANGED <<socket_state, socket_error, lookups>>
       ELSE IF do_lookup THEN DoLookup
            ELSE ConnectToHost /\ UNCHANGED lookups
    /\ UNCHANGED opened

\* lookupResultsReady(): whatever was found, the first record is dialled.
LookupResultsReady ==
    /\ lookups > 0
    /\ lookups' = lookups - 1
    /\ ConnectToHost
    /\ UNCHANGED opened

\* stateChanged(ConnectedState): Listening, open(), Connected.
SocketConnected ==
    /\ socket_state = "Connecting"
    /\ socket_state' = "Connected"
    /\ opened' = TRUE
    /\ UNCHANGED <<socket_error, lookups>>

\* error() followed by stateChanged(UnconnectedState).
ConnectFails ==
    /\ socket_state = "Connecting"
    /\ socket_state' = "Unconnected"
    /\ socket_error' = TRUE
    /\ UNCHANGED <<opened, lookups>>

\* The peer or the network ends the connection: error(), then either both
\* ClosingState and UnconnectedState at once, or ClosingState alone while the
\* socket still has bytes to write.
SocketLost(next) ==
    /\ socket_state = "Connected"
    /\ socket_state' = next
    /\ opened' = FALSE
    /\ socket_error' = TRUE
    /\ UNCHANGED lookups

\* DirectConnection::close(): disconnectFromHost() finishes at once when the
\* socket has nothing left to write, and later (CloseEnds) when it has.
Close ==
    /\ socket_state' \in {"Unconnected", "Closing"}
    /\ opened' = FALSE
    /\ UNCHANGED <<socket_error, lookups>>

\* The socket that was closing reaches UnconnectedState.
CloseEnds ==
    /\ socket_state = "Closing"
    /\ socket_state' = "Unconnected"
    /\ socket_error' \in {socket_error, TRUE}
    /\ UNCHANGED <<opened, lookups>>

=============================================================================

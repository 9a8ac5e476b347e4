----------------------------- MODULE RelayServer -----------------------------
(***************************************************************************)
(* The relay (RelayServer.ts): sockets register for a device after an      *)
(* authorization that is awaited, the routing table pairs the browsers of  *)
(* a device with its one daemon, and timers get rid of sockets that never  *)
(* register or no longer answer.  A step is one callback of the relay, or  *)
(* what a peer does to its socket.                                         *)
(*                                                                         *)
(* A peer registers once on a socket, for the role and the device that it  *)
(* is built for: DaemonClient, Connection and the pairing screen open one  *)
(* socket per attempt.                                                     *)
(*                                                                         *)
(* The names of the specification and its parts begin with Relay, for the  *)
(* theorems about a command's way extend the verifier's module, too.       *)
(***************************************************************************)
EXTENDS FiniteSets

CONSTANTS Conns,    \* sockets, each used once
          Devices,
          Users,
          RoleOf,   \* what the peer on a socket registers as
          DeviceOf, \* and for which device
          UserOf,   \* whose token it shows
          OwnerOf,  \* the directory: who owns a device
          NoConn    \* no socket

ASSUME RelayAssumption ==
    /\ RoleOf \in [Conns -> {"daemon", "browser"}]
    /\ DeviceOf \in [Conns -> Devices]
    /\ UserOf \in [Conns -> Users] /\ OwnerOf \in [Devices -> Users]
    /\ NoConn \notin Conns

VARIABLES socket,     \* "new", "open", "closing" (after close()), "dead" (after terminate()), "closed"
          unreachable, \* sockets whose peer is gone without closing
          conns,      \* RelayServer.conns
          timed,      \* sockets with a register timer
          authorizing, \* sockets whose registration waits for authorize()
          registered, \* Conn.registered
          alive,      \* Conn.isAlive
          daemonOf,   \* DeviceBucket.daemon
          browsersOf, \* DeviceBucket.browsers
          told        \* per browser: the last presence sent to it

\* History.
VARIABLE ghosts       \* sockets registered after their close event

tables == <<registered, daemonOf, browsersOf, told, ghosts>>
relayVars == <<socket, unreachable, conns, timed, authorizing, alive, tables>>

Daemons(d) == {c \in Conns : RoleOf[c] = "daemon" /\ DeviceOf[c] = d}
Browsers(d) == {c \in Conns : RoleOf[c] = "browser" /\ DeviceOf[c] = d}

RelayTypeOK ==
    /\ socket \in [Conns -> {"new", "open", "closing", "dead", "closed"}]
    /\ conns = {c \in Conns : socket[c] \in {"open", "closing", "dead"}}
    /\ unreachable \subseteq conns /\ timed \subseteq conns /\ alive \subseteq conns
    /\ authorizing \subseteq Conns /\ registered \subseteq Conns
    /\ daemonOf \in [Devices -> Conns \cup {NoConn}]
    /\ browsersOf \in [Devices -> SUBSET Conns]
    /\ \A d \in Devices : daemonOf[d] \in Daemons(d) \cup {NoConn} /\ browsersOf[d] \subseteq Browsers(d)
    /\ told \in [Conns -> {"nothing", "online", "offline"}]
    /\ ghosts \subseteq {c \in registered : socket[c] = "closed"}
    /\ registered \cap authorizing = {}
    /\ \A c \in Conns : socket[c] = "new" => c \notin registered \cup authorizing

RelayInit ==
    /\ socket = [c \in Conns |-> "new"]
    /\ unreachable = {} /\ conns = {} /\ timed = {} /\ authorizing = {}
    /\ registered = {} /\ alive = {}
    /\ daemonOf = [d \in Devices |-> NoConn] /\ browsersOf = [d \in Devices |-> {}]
    /\ told = [c \in Conns |-> "nothing"]
    /\ ghosts = {}

-----------------------------------------------------------------------------
(* Sending and routing.                                                    *)

Open(c) == socket[c] = "open"

\* JwtAuthVerifier.authorize() with valid tokens: browsers of the owner, the device's own daemon
Permitted(c) == UserOf[c] = OwnerOf[DeviceOf[c]]

\* the sockets that a frame arriving on c is forwarded to
Route(c) ==
    LET d == DeviceOf[c] IN
    IF RoleOf[c] = "browser" THEN {x \in {daemonOf[d]} \cap Conns : Open(x)}
                             ELSE {b \in browsersOf[d] : Open(b)}

\* broadcastPeerState()
BroadcastPeerState(d, state) ==
    told' = [c \in Conns |-> IF c \in browsersOf[d] /\ Open(c) THEN state ELSE told[c]]

-----------------------------------------------------------------------------
(* The peers.                                                              *)

\* onConnection()
Connect(c) ==
    /\ socket[c] = "new"
    /\ socket' = [socket EXCEPT ![c] = "open"]
    /\ conns' = conns \cup {c}
    /\ timed' = timed \cup {c}
    /\ alive' = alive \cup {c}
    /\ UNCHANGED <<unreachable, authorizing, tables>>

\* the peer loses its network or its process: nobody is told
Vanish(c) ==
    /\ Open(c)
    /\ unreachable' = unreachable \cup {c}
    /\ UNCHANGED <<socket, conns, timed, authorizing, alive, tables>>

Pong(c) ==
    /\ Open(c) /\ c \notin unreachable
    /\ alive' = alive \cup {c}
    /\ UNCHANGED <<socket, unreachable, conns, timed, authorizing, tables>>

-----------------------------------------------------------------------------
(* Registration.                                                           *)

\* handleRegister() up to `await authorize(...)`; a frame may still arrive after close()
BeginRegister(c) ==
    /\ socket[c] \in {"open", "closing"} /\ c \notin unreachable \cup registered \cup authorizing
    /\ authorizing' = authorizing \cup {c}
    /\ UNCHANGED <<socket, unreachable, conns, timed, alive, tables>>

\* a frame that is no relay_register on a socket not yet registered, even while its
\* authorization is awaited: an error is sent and the socket closed
BadRegister(c) ==
    /\ Open(c) /\ c \notin unreachable \cup registered
    /\ socket' = [socket EXCEPT ![c] = "closing"]
    /\ UNCHANGED <<unreachable, conns, timed, authorizing, alive, tables>>

\* close() on a socket that may be closed already
CloseSocket(c) == socket' = [socket EXCEPT ![c] = IF Open(c) THEN "closing" ELSE @]

\* the token is not accepted, or authorize() threw
Refuse(c) ==
    /\ c \in authorizing
    /\ authorizing' = authorizing \ {c}
    /\ CloseSocket(c)
    /\ UNCHANGED <<unreachable, conns, timed, alive, tables>>

\* what handleRegister() does in either role once the peer is authorized, whatever has
\* become of the socket meanwhile
Accepted(c) ==
    /\ c \in authorizing /\ Permitted(c)
    /\ authorizing' = authorizing \ {c}
    /\ registered' = registered \cup {c}
    /\ timed' = timed \ {c}
    /\ ghosts' = IF socket[c] = "closed" THEN ghosts \cup {c} ELSE ghosts
    /\ UNCHANGED <<unreachable, conns, alive>>

\* Slip: the socket of the daemon that is replaced stays open.
RegisterDaemonBeside(c) ==
    /\ RoleOf[c] = "daemon"
    /\ Accepted(c)
    /\ daemonOf' = [daemonOf EXCEPT ![DeviceOf[c]] = c]
    /\ BroadcastPeerState(DeviceOf[c], "online")
    /\ UNCHANGED <<socket, browsersOf>>

\* a daemon takes the place of the one before it, whose socket is terminated
RegisterDaemon(c) ==
    /\ RoleOf[c] = "daemon"
    /\ Accepted(c)
    /\ LET old == daemonOf[DeviceOf[c]] IN
        socket' = [x \in Conns |-> IF x = old /\ x \in conns THEN "dead" ELSE socket[x]]
    /\ daemonOf' = [daemonOf EXCEPT ![DeviceOf[c]] = c]
    /\ BroadcastPeerState(DeviceOf[c], "online")
    /\ UNCHANGED browsersOf

\* a browser joins its device and learns whether the daemon is there
RegisterBrowser(c) ==
    /\ RoleOf[c] = "browser"
    /\ Accepted(c)
    /\ browsersOf' = [browsersOf EXCEPT ![DeviceOf[c]] = @ \cup {c}]
    /\ told' = [told EXCEPT ![c] =
                  IF ~Open(c) THEN @
                  ELSE IF daemonOf[DeviceOf[c]] = NoConn THEN "offline" ELSE "online"]
    /\ UNCHANGED <<socket, daemonOf>>

-----------------------------------------------------------------------------
(* Timers and closing.                                                     *)

\* the timer set by onConnection(); registering clears it, so does the close event
RegisterTimeout(c) ==
    /\ c \in timed
    /\ timed' = timed \ {c}
    /\ CloseSocket(c)
    /\ UNCHANGED <<unreachable, conns, authorizing, alive, tables>>

\* Slip: the round pings again what has not answered.
PingForever ==
    /\ alive' = alive \ conns
    /\ UNCHANGED <<socket, unreachable, conns, timed, authorizing, tables>>

\* pingAll(): terminate what has not answered since the last round, ping the rest
PingAll ==
    /\ alive' = alive \ conns
    /\ socket' = [c \in Conns |-> IF c \in conns \ alive THEN "dead" ELSE socket[c]]
    /\ UNCHANGED <<unreachable, conns, timed, authorizing, tables>>

\* Slip: the browsers are not told that their daemon left.
LeaveSilently(c) ==
    /\ daemonOf' = [daemonOf EXCEPT ![DeviceOf[c]] = IF @ = c THEN NoConn ELSE @]
    /\ UNCHANGED told
    /\ browsersOf' = [browsersOf EXCEPT ![DeviceOf[c]] = @ \ {c}]

\* Slip: a browser that leaves stays in the bucket.
LeaveBrowserBehind(c) ==
    /\ daemonOf' = [daemonOf EXCEPT ![DeviceOf[c]] = IF @ = c THEN NoConn ELSE @]
    /\ IF daemonOf[DeviceOf[c]] = c THEN BroadcastPeerState(DeviceOf[c], "offline") ELSE UNCHANGED told
    /\ UNCHANGED browsersOf

\* what a registered socket's close event does to the table; a daemon already replaced leaves it
\* alone
Leave(c) ==
    /\ daemonOf' = [daemonOf EXCEPT ![DeviceOf[c]] = IF @ = c THEN NoConn ELSE @]
    /\ IF daemonOf[DeviceOf[c]] = c THEN BroadcastPeerState(DeviceOf[c], "offline") ELSE UNCHANGED told
    /\ browsersOf' = [browsersOf EXCEPT ![DeviceOf[c]] = @ \ {c}]

\* onClose(): the peer closed or was lost, or the relay did and the closing is done
OnClose(c) ==
    /\ c \in conns
    /\ socket' = [socket EXCEPT ![c] = "closed"]
    /\ conns' = conns \ {c}
    /\ timed' = timed \ {c}
    /\ unreachable' = unreachable \ {c} /\ alive' = alive \ {c}
    /\ IF c \in registered THEN Leave(c) ELSE UNCHANGED <<daemonOf, browsersOf, told>>
    /\ UNCHANGED <<authorizing, registered, ghosts>>

-----------------------------------------------------------------------------
RelayNext ==
    \/ PingAll
    \/ \E c \in Conns :
        \/ Connect(c)
        \/ Vanish(c)
        \/ Pong(c)
        \/ BeginRegister(c)
        \/ BadRegister(c)
        \/ Refuse(c)
        \/ RegisterDaemon(c)
        \/ RegisterBrowser(c)
        \/ RegisterTimeout(c)
        \/ OnClose(c)

\* timers fire, and a socket that is closing gets its close event (ws gives up on the peer)
Fairness ==
    /\ WF_relayVars(PingAll)
    /\ \A c \in Conns :
        /\ WF_relayVars(RegisterTimeout(c))
        /\ WF_relayVars(socket[c] \in {"closing", "dead"} /\ OnClose(c))

RelaySpec == RelayInit /\ [][RelayNext]_relayVars /\ Fairness

-----------------------------------------------------------------------------
(* Properties.                                                             *)

\* A frame reaches exactly the live sockets of the other role that the same user registered
\* for the same device: no daemon that is connected is ever bypassed for a stale one, a late
\* close does not unroute its successor, and nothing crosses devices or users.
RoutesAreExact ==
    \A c \in registered : Open(c) =>
        Route(c) = {x \in registered : /\ Open(x)
                                       /\ RoleOf[x] # RoleOf[c]
                                       /\ DeviceOf[x] = DeviceOf[c] /\ UserOf[x] = UserOf[c]}

\* What a connected browser was last told of its daemon is so: online if a daemon is
\* connected, and offline if none is -- save for a daemon that registered when it was closed.
PresenceIsTrue ==
    \A b \in registered : (RoleOf[b] = "browser" /\ Open(b)) =>
        LET d == DeviceOf[b] IN
        /\ (\E c \in registered \cap Daemons(d) : Open(c)) => told[b] = "online"
        /\ told[b] = "online" => \E c \in registered \cap Daemons(d) : socket[c] # "closed" \/ c \in ghosts

\* The table holds no socket that is closed, unless its authorization outlasted it.
ClosedSocketsLeave ==
    \A d \in Devices : \A c \in browsersOf[d] \cup ({daemonOf[d]} \cap Conns) :
        c \in conns \cup ghosts

\* Sockets and routing table are of a shape the code knows, and nothing closed is left behind.
SocketInvariant == RelayTypeOK /\ ClosedSocketsLeave

\* A peer that is gone without a word, and one that never registers, do not keep their socket.
DeadSocketsClose ==
    \A c \in Conns :
        /\ (Open(c) /\ c \in unreachable) ~> ~Open(c)
        /\ Open(c) ~> (c \in registered \/ socket[c] = "closed")
=============================================================================

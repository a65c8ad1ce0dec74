---------------------------- MODULE ServerThread ----------------------------
(* One Server with its ServerThread and ConnectionHandlers, the connections *)
(* it accepts (Inbound) and those the same program builds as a client       *)
(* (Outbound), each with Connection.start(), its reader and close(), and    *)
(* the thread pools: the static one of ConnectionSettings, with its count   *)
(* of users, and those of their own of a server or connection that does not *)
(* share it.  What a connection does between start and close is in module   *)
(* Connection.  A step is what a thread does under a monitor, or up to the  *)
(* next assignment another thread may see.                                  *)
EXTENDS Integers, FiniteSets

CONSTANTS
  Inbound, Outbound,    \* TCP connections to and from this program
  Allowed,              \* the inbound ones from an address in allowedClientIps
  MaxConnections,
  Sharings,             \* bound: who may share the static pool together,
                        \* "server" and outbound ones
  Throwing,             \* bound: those for which a callback may throw
  MaxStarts             \* bound: calls of Server.start

Conn == Inbound \cup Outbound

ASSUME ConnAssumption ==
  IsFiniteSet(Conn) /\ Inbound \cap Outbound = {} /\ "server" \notin Conn
ASSUME LimitAssumption == MaxConnections \in Nat /\ MaxStarts \in Nat
ASSUME SharingAssumption == Sharings \subseteq SUBSET ({"server"} \cup Outbound)

VARIABLES
  sharing,              \* those of Sharings with useSharedThreadPool
  server,               \* the Server object: where start() and stop() have got to
  thread,               \* the ServerThread; clientSocket is the connection that
                        \* is "accepted" or "admitted"
  numConnections,
  phase,                \* how far a connection has got in being started
  reader, closed, gone, \* its reader, its field closed; its peer left it open
  numOpenConnections, poolShut,  \* of ConnectionSettings
  \* history
  starts,               \* calls of Server.start
  released,             \* those whose reader has gone through closeThreadPool
  early,                \* shared ones released before start() had counted them
  cutOff,               \* the users of the shared pool when it was shut down
  indicated             \* serverStoppedListeningIndication was called

serverVars == <<server, starts>>
threadVars == <<thread, indicated>>
connVars == <<phase, reader, closed, gone>>
poolVars == <<numOpenConnections, poolShut, cutOff>>
releaseVars == <<released, early>>

vars == <<sharing, serverVars, threadVars, numConnections, connVars, poolVars,
          releaseVars>>

----------------------------------------------------------------------------
UseSharedThreadPool(c) == IF c \in Inbound THEN "server" \in sharing ELSE c \in sharing

(* start() has begun and not yet assigned timeoutManager *)
Starting == {"reading", "assigned", "counted"}
(* those for which start() has called incremntConnectionsCounter *)
Counted == {c \in Conn : phase[c] \in {"counted", "rejected", "done"}}

(* those that have taken a place of numConnections and not given it back *)
Holding ==
  {c \in Inbound :
     /\ phase[c] \in {"admitted", "queued", "orphan", "rejected", "done"} \cup Starting
     /\ ~closed[c]}

(* who relies on the shared pool: a server between start and stop, and the  *)
(* connections that are counted and not yet released *)
PoolUsers ==
  (IF server \in {"starting", "running", "stopping"} THEN {"server"} \cap sharing ELSE {})
    \cup {c \in Counted \ released : UseSharedThreadPool(c)}

ServerPoolShut == IF "server" \in sharing THEN poolShut ELSE server = "stopped"
ExecutorShut(c) == IF UseSharedThreadPool(c) THEN poolShut ELSE c \in released

incremntConnectionsCounter ==
  /\ numOpenConnections' = numOpenConnections + 1
  /\ UNCHANGED <<poolShut, cutOff>>

(* The one who calls it is no longer among the users of the next state. *)
decrementConnectionsCounter(leaving) ==
  /\ numOpenConnections' = numOpenConnections - 1
  /\ poolShut' = (poolShut \/ numOpenConnections = 1)
  /\ cutOff' = IF numOpenConnections = 1 /\ ~poolShut
               THEN PoolUsers \ {leaving} ELSE cutOff

----------------------------------------------------------------------------
Init ==
  /\ sharing \in Sharings
  /\ server = "new"
  /\ thread = "none"
  /\ numConnections = 0
  /\ phase = [c \in Conn |-> "idle"]
  /\ reader = [c \in Conn |-> "none"]
  /\ closed = [c \in Conn |-> FALSE]
  /\ gone = [c \in Conn |-> FALSE]
  /\ numOpenConnections = 0
  /\ poolShut = FALSE
  /\ starts = 0
  /\ released = {}
  /\ early = {}
  /\ cutOff = {}
  /\ indicated = FALSE

Moves(c, from, to) == phase[c] = from /\ phase' = [phase EXCEPT ![c] = to]

----------------------------------------------------------------------------
(* Server.start: it counts, then creates the socket, which may fail and     *)
(* leaves the count, then has the pool run the ServerThread, which it may   *)
(* refuse.                                                                  *)

ServerStarts ==
  /\ server = "new"
  /\ starts < MaxStarts
  /\ server' = "starting"
  /\ starts' = starts + 1
  /\ incremntConnectionsCounter
  /\ UNCHANGED <<sharing, threadVars, numConnections, connVars, releaseVars>>

CreateServerSocketFails ==
  /\ server = "starting"
  /\ server' = "new"
  /\ UNCHANGED <<sharing, starts, threadVars, numConnections, connVars, poolVars,
                 releaseVars>>

ServerListens ==
  /\ server = "starting"
  /\ server' = "running"
  /\ thread' = IF ServerPoolShut THEN "none" ELSE "accepting"
  /\ UNCHANGED <<sharing, starts, indicated, numConnections,
                 connVars, poolVars, releaseVars>>

(* Server.stop: stopServer and the socket, then the pool *)
StopServer ==
  /\ server = "running"
  /\ server' = "stopping"
  /\ UNCHANGED <<sharing, starts, threadVars, numConnections, connVars, poolVars,
                 releaseVars>>

StopReleasesPool ==
  /\ server = "stopping"
  /\ server' = "stopped"
  /\ IF "server" \in sharing THEN decrementConnectionsCounter("server")
                             ELSE UNCHANGED poolVars
  /\ UNCHANGED <<sharing, starts, threadVars, numConnections, connVars, releaseVars>>

----------------------------------------------------------------------------
(* ServerThread.run *)

Accept(c) ==
  /\ thread = "accepting" /\ server = "running"
  /\ Moves(c, "backlog", "accepted")
  /\ thread' = "checking"
  /\ UNCHANGED <<sharing, serverVars, indicated, numConnections, reader, closed,
                 gone, poolVars, releaseVars>>

(* accept() throws: because of stop(), or for a reason of the network's *)
AcceptStopped ==
  /\ thread = "accepting" /\ server \in {"stopping", "stopped"}
  /\ thread' = "ended"
  /\ UNCHANGED <<sharing, serverVars, indicated, numConnections,
                 connVars, poolVars, releaseVars>>

AcceptFails ==
  /\ thread = "accepting" /\ server = "running"
  /\ thread' = "ended"
  /\ indicated' = TRUE
  /\ UNCHANGED <<sharing, serverVars, numConnections, connVars,
                 poolVars, releaseVars>>

TurnedAwayMutant(c) == phase[c] = "accepted" /\ UNCHANGED phase
TurnedAway(c) == Moves(c, "accepted", "refused")     \* its socket is closed

Refuse(c) ==
  /\ thread = "checking"
  /\ c \notin Allowed \/ numConnections >= MaxConnections
  /\ TurnedAway(c)
  /\ thread' = "accepting"
  /\ UNCHANGED <<sharing, serverVars, indicated,
                 numConnections, reader, closed, gone, poolVars, releaseVars>>

HasRoomMutant == numConnections <= MaxConnections
HasRoom == numConnections < MaxConnections

TakeSlot(c) ==
  /\ thread = "checking"
  /\ c \in Allowed /\ HasRoom
  /\ numConnections' = numConnections + 1
  /\ Moves(c, "accepted", "admitted")
  /\ thread' = "executing"
  /\ UNCHANGED <<sharing, serverVars, indicated, reader,
                 closed, gone, poolVars, releaseVars>>

(* A pool that is shut down rejects the handler by an exception nobody      *)
(* catches: the place and the socket stay taken, the thread ends.           *)
ExecuteHandler(c) ==
  /\ thread = "executing"
  /\ Moves(c, "admitted", IF ServerPoolShut THEN "orphan" ELSE "queued")
  /\ thread' = IF ServerPoolShut THEN "ended" ELSE "accepting"
  /\ UNCHANGED <<sharing, serverVars, indicated,
                 numConnections, reader, closed, gone, poolVars, releaseVars>>

----------------------------------------------------------------------------
(* ConnectionHandler.run, or build of a client, whose socket has connected. *)

Connect(c) ==
  /\ \/ c \in Inbound /\ server = "running" /\ Moves(c, "idle", "backlog")
     \/ c \in Outbound /\ Moves(c, "idle", "queued")
  /\ UNCHANGED <<sharing, serverVars, threadVars, numConnections, reader, closed,
                 gone, poolVars, releaseVars>>

KeepsSlotMutant(c) ==
  /\ Moves(c, "queued", "failed")
  /\ UNCHANGED <<sharing, serverVars, threadVars, numConnections, reader, closed,
                 gone, poolVars, releaseVars>>
(* getOutputStream throws an IOException *)
ConstructorFails(c) ==
  /\ Moves(c, "queued", "failed")
  /\ numConnections' = IF c \in Inbound THEN numConnections - 1 ELSE numConnections
  /\ UNCHANGED <<sharing, serverVars, threadVars, reader, closed, gone, poolVars,
                 releaseVars>>

(* setConnectionEventListenerBeforeStart throws *)
CallbackThrows(c) ==
  /\ c \in Inbound \cap Throwing
  /\ Moves(c, "queued", "orphan")
  /\ UNCHANGED <<sharing, serverVars, threadVars, numConnections, reader, closed,
                 gone, poolVars, releaseVars>>

(* start(): the reader first, *)
StartReader(c) ==
  /\ Moves(c, "queued", "reading")
  /\ reader' = [reader EXCEPT ![c] = "reading"]
  /\ UNCHANGED <<sharing, serverVars, threadVars, numConnections, closed, gone,
                 poolVars, releaseVars>>

(* then the timers and the executor, *)
AssignExecutor(c) ==
  /\ Moves(c, "reading", "assigned")
  /\ UNCHANGED <<sharing, serverVars, threadVars, numConnections, reader, closed,
                 gone, poolVars, releaseVars>>

NoCountMutant(c) ==
  /\ Moves(c, "assigned", "counted")
  /\ UNCHANGED <<sharing, serverVars, threadVars, numConnections, reader, closed,
                 gone, poolVars, releaseVars>>
(* then the count of the shared pool, *)
CountConnection(c) ==
  /\ Moves(c, "assigned", "counted")
  /\ incremntConnectionsCounter
  /\ UNCHANGED <<sharing, serverVars, threadVars, numConnections, reader, closed,
                 gone, releaseVars>>

(* and last the TimeoutManager, which a pool shut down rejects: then        *)
(* neither connectionIndication is called nor does build return.            *)
StartManager(c) ==
  /\ Moves(c, "counted", IF ExecutorShut(c) THEN "rejected" ELSE "done")
  /\ UNCHANGED <<sharing, serverVars, threadVars, numConnections, reader, closed,
                 gone, poolVars, releaseVars>>

----------------------------------------------------------------------------
(* A connection that has been started *)

CloseAgainMutant(c) ==
  /\ closed' = [closed EXCEPT ![c] = TRUE]
  /\ numConnections' = numConnections - (IF c \in Inbound THEN 1 ELSE 0)
  /\ gone' = [gone EXCEPT ![c] = FALSE]
(* Connection.close and connectionClosedSignal.  Nobody minds the peer of a *)
(* closed connection.                                                       *)
Close(c) ==
  /\ closed' = [closed EXCEPT ![c] = TRUE]
  /\ numConnections' =
       numConnections - (IF c \in Inbound /\ ~closed[c] THEN 1 ELSE 0)
  /\ gone' = [gone EXCEPT ![c] = FALSE]

(* by the application, which has it from connectionIndication or build, or  *)
(* by t1                                                                    *)
CloseHere(c) ==
  /\ phase[c] = "done" /\ ~closed[c]
  /\ Close(c)
  /\ UNCHANGED <<sharing, serverVars, threadVars, phase, reader, poolVars, releaseVars>>

(* The peer closes or sends what the handlers refuse.  One that leaves      *)
(* earlier is not told from one that leaves then.                           *)
PeerLeaves(c) ==
  /\ c \in Holding /\ ~gone[c]
  /\ gone' = [gone EXCEPT ![c] = TRUE]
  /\ UNCHANGED <<sharing, serverVars, threadVars, numConnections, phase, reader,
                 closed, poolVars, releaseVars>>

NoCloseMutant(c) ==
  /\ reader[c] = "reading" /\ gone[c]
  /\ reader' = [reader EXCEPT ![c] = "closing"]
  /\ UNCHANGED <<sharing, serverVars, threadVars, numConnections, phase, closed,
                 gone, poolVars, releaseVars>>
(* ConnectionReader.run leaves its loop and closes.  Besides the end of the *)
(* stream, a frame that comes while start() has not assigned everything     *)
(* ends it (NullPointerException), and an ASDU the pool rejects.            *)
ReaderFails(c) ==
  /\ reader[c] = "reading"
  /\ \/ gone[c] \/ closed[c] \/ phase[c] \in Starting \/ ExecutorShut(c)
     \/ c \in Outbound     \* whose peer may leave at any time
  /\ reader' = [reader EXCEPT ![c] = "closing"]
  /\ Close(c)
  /\ UNCHANGED <<sharing, serverVars, threadVars, phase, poolVars, releaseVars>>

(* closeThreadPool of a connection with an executor of its own only shuts   *)
(* that down.                                                               *)
ReleasePool(c) ==
  IF UseSharedThreadPool(c) THEN decrementConnectionsCounter(c)
                            ELSE UNCHANGED poolVars

(* closeThreadPool, of an executor that start() has not assigned yet *)
ExecutorIsNull(c) == ~UseSharedThreadPool(c) /\ phase[c] = "reading"

(* The rest of the finally clause. *)
ReaderReleases(c) ==
  /\ reader[c] = "closing"
  /\ reader' = [reader EXCEPT ![c] = "ended"]
  /\ ~ExecutorIsNull(c)
  /\ ReleasePool(c)
  /\ released' = released \cup {c}
  /\ early' = IF UseSharedThreadPool(c) /\ c \notin Counted
              THEN early \cup {c} ELSE early
  /\ UNCHANGED <<sharing, serverVars, threadVars, numConnections, phase, closed,
                 gone>>

(* It is not reached when connectionClosed of the listener throws, and ends *)
(* in a NullPointerException when there is no executor.                     *)
ReaderThrows(c) ==
  /\ c \in Throwing \/ ExecutorIsNull(c)
  /\ reader[c] = "closing"
  /\ reader' = [reader EXCEPT ![c] = "ended"]
  /\ UNCHANGED <<sharing, serverVars, threadVars, numConnections, phase, closed,
                 gone, poolVars, releaseVars>>

----------------------------------------------------------------------------
ServerThreadRuns ==
  \/ AcceptStopped
  \/ \E c \in Inbound : Accept(c) \/ Refuse(c) \/ TakeSlot(c) \/ ExecuteHandler(c)

HandlerRuns(c) ==
  \/ StartReader(c)
  \/ AssignExecutor(c)
  \/ CountConnection(c)
  \/ StartManager(c)

ReaderRuns(c) == ReaderFails(c) \/ ReaderReleases(c) \/ ReaderThrows(c)

Next ==
  \/ ServerStarts \/ CreateServerSocketFails \/ ServerListens
  \/ StopServer \/ StopReleasesPool
  \/ AcceptFails
  \/ ServerThreadRuns
  \/ \E c \in Conn :
       \/ Connect(c) \/ PeerLeaves(c) \/ CloseHere(c)
       \/ ConstructorFails(c) \/ CallbackThrows(c)
       \/ HandlerRuns(c)
       \/ ReaderRuns(c)

Spec == Init /\ [][Next]_vars

(* The threads run on; calls, failures and peers are free. *)
Fairness ==
  /\ WF_vars(ServerThreadRuns)
  /\ \A c \in Inbound : WF_vars(HandlerRuns(c)) /\ WF_vars(ReaderRuns(c))

FairSpec == Spec /\ Fairness
----------------------------------------------------------------------------
(* Properties *)

TypeOK ==
  /\ sharing \subseteq {"server"} \cup Outbound
  /\ server \in {"new", "starting", "running", "stopping", "stopped"}
  /\ thread \in {"none", "accepting", "checking", "executing", "ended"}
  /\ numConnections \in Nat
  /\ phase \in [Conn -> {"idle", "backlog", "accepted", "refused", "admitted",
                         "queued", "failed", "orphan", "rejected", "done"}
                        \cup Starting]
  /\ reader \in [Conn -> {"none", "reading", "closing", "ended"}]
  /\ closed \in [Conn -> BOOLEAN] /\ gone \in [Conn -> BOOLEAN]
  /\ numOpenConnections \in Int /\ poolShut \in BOOLEAN
  /\ starts \in Nat /\ indicated \in BOOLEAN
  /\ released \subseteq Conn /\ early \subseteq Conn
  /\ cutOff \subseteq {"server"} \cup Conn

(* numConnections counts exactly the connections that have been given a     *)
(* place and have not been closed, whoever closes them first (the reader,   *)
(* t1, the application, or the handler when it fails): none is given back   *)
(* twice.                                                                   *)
SlotsCounted == numConnections = Cardinality(Holding)

(* Every place is taken once, by a connection that finds one free, and      *)
(* given back once: never more than MaxConnections connections are open.    *)
Limit == INSTANCE ConnectionLimit WITH Connection <- Inbound, holding <- Holding
ImplementsConnectionLimit == Limit!Spec

(* The shared pool is not shut down under a server that runs or a           *)
(* connection that has been started and not ended, in whatever order these  *)
(* come and go, unless a connection has ended before start() counted it.    *)
NobodyCutOff == early = {} => cutOff = {}

(* The server does not stop listening without a sign: if its thread has     *)
(* ended, the application has called stop() or has been told by             *)
(* serverStoppedListeningIndication (the same proviso).                     *)
NoSilentEnd ==
  thread = "ended" /\ early = {} => server \in {"stopping", "stopped"} \/ indicated

(* The place of a connection whose peer has left is free again in the end,  *)
(* unless its handler was not run or the application's callback threw.      *)
SlotReturns ==
  \A c \in Inbound :
    gone[c] /\ c \in Holding ~> c \notin Holding \/ phase[c] = "orphan"

(* A connection that waits to be accepted is started or turned away in the  *)
(* end, as long as the server's thread runs.                                *)
AttemptIsSettled ==
  \A c \in Inbound :
    phase[c] \in {"backlog", "accepted", "admitted"} \cup Starting
      ~> \/ phase[c] \in {"refused", "failed", "orphan", "rejected", "done"}
         \/ thread \in {"none", "ended"}
=============================================================================

------------------------ MODULE ServerThreadProofs ------------------------
(* Theorems about ServerThread, for any finite number of connections, any   *)
(* limit and any choice of who shares the static pool.                      *)
EXTENDS ServerThread, FiniteSetTheorems, TLAPS

(* TypeOK without the claim that numConnections is never negative, which    *)
(* only its meaning gives. *)
Types ==
  /\ sharing \subseteq {"server"} \cup Outbound
  /\ server \in {"new", "starting", "running", "stopping", "stopped"}
  /\ thread \in {"none", "accepting", "checking", "executing", "ended"}
  /\ numConnections \in Int
  /\ phase \in [Conn -> {"idle", "backlog", "accepted", "refused", "admitted",
                         "queued", "failed", "orphan", "rejected", "done"}
                        \cup Starting]
  /\ reader \in [Conn -> {"none", "reading", "closing", "ended"}]
  /\ closed \in [Conn -> BOOLEAN] /\ gone \in [Conn -> BOOLEAN]
  /\ numOpenConnections \in Int /\ poolShut \in BOOLEAN
  /\ starts \in Nat /\ indicated \in BOOLEAN
  /\ released \subseteq Conn /\ early \subseteq Conn
  /\ cutOff \subseteq {"server"} \cup Conn

(* A connection has no reader and is not closed before start() has begun.   *)
StartedFirst ==
  \A c \in Conn :
    phase[c] \notin Starting \cup {"rejected", "done"} =>
      reader[c] = "none" /\ ~closed[c]

LEMMA InboundIsConn == Inbound \subseteq Conn
  BY DEF Conn

LEMMA HoldingFinite == IsFiniteSet(Holding) /\ Cardinality(Holding) \in Nat
  <1>1. Holding \subseteq Conn
    BY DEF Holding, Conn
  <1> QED
    BY <1>1, ConnAssumption, FS_Subset, FS_CardinalityType

LEMMA InitTypes == Init => Types
  <1> SUFFICES ASSUME Init PROVE Types
    OBVIOUS
  <1>1. sharing \subseteq {"server"} \cup Outbound
    BY SharingAssumption DEF Init
  <1>2. /\ phase \in [Conn -> {"idle"}] /\ reader \in [Conn -> {"none"}]
        /\ closed \in [Conn -> BOOLEAN] /\ gone \in [Conn -> BOOLEAN]
    BY DEF Init
  <1>3. phase \in [Conn -> {"idle", "backlog", "accepted", "refused", "admitted",
                            "queued", "failed", "orphan", "rejected", "done"}
                           \cup Starting]
    BY <1>2
  <1>4. reader \in [Conn -> {"none", "reading", "closing", "ended"}]
    BY <1>2
  <1>5. poolShut \in BOOLEAN /\ indicated \in BOOLEAN
    BY DEF Init
  <1> QED
    BY <1>1, <1>2, <1>3, <1>4, <1>5 DEF Init, Types

LEMMA DecrementTypes ==
  ASSUME Types, NEW x, decrementConnectionsCounter(x)
  PROVE  /\ numOpenConnections' \in Int /\ poolShut' \in BOOLEAN
         /\ cutOff' \subseteq {"server"} \cup Conn
  <1>1. PoolUsers \subseteq {"server"} \cup Conn
    BY DEF PoolUsers, Counted
  <1>2. poolShut' \in BOOLEAN
    BY DEF decrementConnectionsCounter
  <1>3. cutOff' \subseteq {"server"} \cup Conn
    <2>1. CASE numOpenConnections = 1 /\ ~poolShut
      BY <1>1, <2>1 DEF decrementConnectionsCounter
    <2>2. CASE ~(numOpenConnections = 1 /\ ~poolShut)
      BY <2>2 DEF decrementConnectionsCounter, Types
    <2> QED
      BY <2>1, <2>2
  <1> QED
    BY <1>2, <1>3 DEF Types, decrementConnectionsCounter

LEMMA StepTypes ==
  ASSUME Types, [Next]_vars
  PROVE  Types'
  <1>1. CASE ServerStarts
    BY <1>1, InboundIsConn DEF ServerStarts, incremntConnectionsCounter,
       serverVars, threadVars, connVars, poolVars, releaseVars, Types,
       Starting, Counted, PoolUsers
  <1>2. CASE CreateServerSocketFails
    BY <1>2, InboundIsConn DEF CreateServerSocketFails, serverVars,
       threadVars, connVars, poolVars, releaseVars, Types, Starting, Counted,
       PoolUsers
  <1>3. CASE ServerListens
    BY <1>3, InboundIsConn DEF ServerListens, serverVars, threadVars,
       connVars, poolVars, releaseVars, Types, Starting, Counted, PoolUsers
  <1>4. CASE StopServer
    BY <1>4, InboundIsConn DEF StopServer, serverVars, threadVars, connVars,
       poolVars, releaseVars, Types, Starting, Counted, PoolUsers
  <1>5. CASE StopReleasesPool
    <2>1. /\ numOpenConnections' \in Int /\ poolShut' \in BOOLEAN
          /\ cutOff' \subseteq {"server"} \cup Conn
      BY <1>5, DecrementTypes DEF StopReleasesPool, poolVars, Types
    <2> QED
      BY <1>5, <2>1 DEF StopReleasesPool, threadVars, connVars, releaseVars,
         Types, Starting
  <1>6. CASE AcceptFails
    BY <1>6, InboundIsConn DEF AcceptFails, serverVars, threadVars, connVars,
       poolVars, releaseVars, Types, Starting, Counted, PoolUsers
  <1>7. CASE AcceptStopped
    BY <1>7, InboundIsConn DEF AcceptStopped, serverVars, threadVars,
       connVars, poolVars, releaseVars, Types, Starting, Counted, PoolUsers
  <1>8. ASSUME NEW c \in Inbound, Accept(c) PROVE Types'
    BY <1>8, InboundIsConn DEF Accept, Moves, serverVars, threadVars,
       connVars, poolVars, releaseVars, Types, Starting, Counted, PoolUsers
  <1>9. ASSUME NEW c \in Inbound, Refuse(c) PROVE Types'
    BY <1>9, InboundIsConn DEF Refuse, TurnedAway, Moves, serverVars,
       threadVars, connVars, poolVars, releaseVars, Types, Starting, Counted,
       PoolUsers
  <1>10. ASSUME NEW c \in Inbound, TakeSlot(c) PROVE Types'
    BY <1>10, InboundIsConn DEF TakeSlot, HasRoom, Moves, serverVars,
       threadVars, connVars, poolVars, releaseVars, Types, Starting, Counted,
       PoolUsers
  <1>11. ASSUME NEW c \in Inbound, ExecuteHandler(c) PROVE Types'
    BY <1>11, InboundIsConn DEF ExecuteHandler, Moves, serverVars, threadVars,
       connVars, poolVars, releaseVars, Types, Starting, Counted, PoolUsers
  <1>12. ASSUME NEW c \in Conn, Connect(c) PROVE Types'
    BY <1>12, InboundIsConn DEF Connect, Moves, serverVars, threadVars,
       connVars, poolVars, releaseVars, Types, Starting, Counted, PoolUsers
  <1>13. ASSUME NEW c \in Conn, PeerLeaves(c) PROVE Types'
    BY <1>13, InboundIsConn DEF PeerLeaves, serverVars, threadVars, connVars,
       poolVars, releaseVars, Types, Starting, Counted, PoolUsers
  <1>14. ASSUME NEW c \in Conn, CloseHere(c) PROVE Types'
    BY <1>14, InboundIsConn DEF CloseHere, Close, serverVars, threadVars,
       connVars, poolVars, releaseVars, Types, Starting, Counted, PoolUsers
  <1>15. ASSUME NEW c \in Conn, ConstructorFails(c) PROVE Types'
    BY <1>15, InboundIsConn DEF ConstructorFails, Moves, serverVars,
       threadVars, connVars, poolVars, releaseVars, Types, Starting, Counted,
       PoolUsers
  <1>16. ASSUME NEW c \in Conn, CallbackThrows(c) PROVE Types'
    BY <1>16, InboundIsConn DEF CallbackThrows, Moves, serverVars, threadVars,
       connVars, poolVars, releaseVars, Types, Starting, Counted, PoolUsers
  <1>17. ASSUME NEW c \in Conn, StartReader(c) PROVE Types'
    BY <1>17, InboundIsConn DEF StartReader, Moves, serverVars, threadVars,
       connVars, poolVars, releaseVars, Types, Starting, Counted, PoolUsers
  <1>18. ASSUME NEW c \in Conn, AssignExecutor(c) PROVE Types'
    BY <1>18, InboundIsConn DEF AssignExecutor, Moves, serverVars, threadVars,
       connVars, poolVars, releaseVars, Types, Starting, Counted, PoolUsers
  <1>19. ASSUME NEW c \in Conn, CountConnection(c) PROVE Types'
    BY <1>19, InboundIsConn DEF CountConnection, incremntConnectionsCounter,
       Moves, serverVars, threadVars, connVars, poolVars, releaseVars, Types,
       Starting, Counted, PoolUsers
  <1>20. ASSUME NEW c \in Conn, StartManager(c) PROVE Types'
    BY <1>20, InboundIsConn DEF StartManager, Moves, serverVars, threadVars,
       connVars, poolVars, releaseVars, Types, Starting, Counted, PoolUsers
  <1>21. ASSUME NEW c \in Conn, ReaderFails(c) PROVE Types'
    BY <1>21, InboundIsConn DEF ReaderFails, Close, serverVars, threadVars,
       connVars, poolVars, releaseVars, Types, Starting, Counted, PoolUsers
  <1>22. ASSUME NEW c \in Conn, ReaderReleases(c) PROVE Types'
    <2>1. /\ numOpenConnections' \in Int /\ poolShut' \in BOOLEAN
          /\ cutOff' \subseteq {"server"} \cup Conn
      BY <1>22, DecrementTypes DEF ReaderReleases, ReleasePool, poolVars, Types
    <2> QED
      BY <1>22, <2>1 DEF ReaderReleases, serverVars, threadVars, Types, Starting
  <1>23. ASSUME NEW c \in Conn, ReaderThrows(c) PROVE Types'
    BY <1>23, InboundIsConn DEF ReaderThrows, serverVars, threadVars,
       connVars, poolVars, releaseVars, Types, Starting, Counted, PoolUsers
  <1>24. CASE UNCHANGED vars
    BY <1>24, InboundIsConn DEF vars, serverVars, threadVars, connVars,
       poolVars, releaseVars, Types, Starting, Counted, PoolUsers
  <1> QED
    BY <1>1, <1>2, <1>3, <1>4, <1>5, <1>6, <1>7, <1>8, <1>9, <1>10, <1>11,
       <1>12, <1>13, <1>14, <1>15, <1>16, <1>17, <1>18, <1>19, <1>20, <1>21,
       <1>22, <1>23, <1>24 DEF Next, ServerThreadRuns, HandlerRuns, ReaderRuns

LEMMA StepStartedFirst ==
  ASSUME Types, StartedFirst, [Next]_vars
  PROVE  StartedFirst'
  <1>1. CASE ServerStarts
    BY <1>1, InboundIsConn DEF ServerStarts, incremntConnectionsCounter,
       serverVars, threadVars, connVars, poolVars, releaseVars, Types,
       StartedFirst, Starting
  <1>2. CASE CreateServerSocketFails
    BY <1>2, InboundIsConn DEF CreateServerSocketFails, serverVars,
       threadVars, connVars, poolVars, releaseVars, Types, StartedFirst,
       Starting
  <1>3. CASE ServerListens
    BY <1>3, InboundIsConn DEF ServerListens, serverVars, threadVars,
       connVars, poolVars, releaseVars, Types, StartedFirst, Starting
  <1>4. CASE StopServer
    BY <1>4, InboundIsConn DEF StopServer, serverVars, threadVars, connVars,
       poolVars, releaseVars, Types, StartedFirst, Starting
  <1>5. CASE StopReleasesPool
    BY <1>5, InboundIsConn DEF StopReleasesPool, decrementConnectionsCounter,
       serverVars, threadVars, connVars, poolVars, releaseVars, Types,
       StartedFirst, Starting
  <1>6. CASE AcceptFails
    BY <1>6, InboundIsConn DEF AcceptFails, serverVars, threadVars, connVars,
       poolVars, releaseVars, Types, StartedFirst, Starting
  <1>7. CASE AcceptStopped
    BY <1>7, InboundIsConn DEF AcceptStopped, serverVars, threadVars,
       connVars, poolVars, releaseVars, Types, StartedFirst, Starting
  <1>8. ASSUME NEW c \in Inbound, Accept(c) PROVE StartedFirst'
    BY <1>8, InboundIsConn DEF Accept, Moves, serverVars, threadVars,
       connVars, poolVars, releaseVars, Types, StartedFirst, Starting
  <1>9. ASSUME NEW c \in Inbound, Refuse(c) PROVE StartedFirst'
    BY <1>9, InboundIsConn DEF Refuse, TurnedAway, Moves, serverVars,
       threadVars, connVars, poolVars, releaseVars, Types, StartedFirst,
       Starting
  <1>10. ASSUME NEW c \in Inbound, TakeSlot(c) PROVE StartedFirst'
    BY <1>10, InboundIsConn DEF TakeSlot, HasRoom, Moves, serverVars,
       threadVars, connVars, poolVars, releaseVars, Types, StartedFirst,
       Starting
  <1>11. ASSUME NEW c \in Inbound, ExecuteHandler(c) PROVE StartedFirst'
    BY <1>11, InboundIsConn DEF ExecuteHandler, Moves, serverVars, threadVars,
       connVars, poolVars, releaseVars, Types, StartedFirst, Starting
  <1>12. ASSUME NEW c \in Conn, Connect(c) PROVE StartedFirst'
    BY <1>12, InboundIsConn DEF Connect, Moves, serverVars, threadVars,
       connVars, poolVars, releaseVars, Types, StartedFirst, Starting
  <1>13. ASSUME NEW c \in Conn, PeerLeaves(c) PROVE StartedFirst'
    BY <1>13, InboundIsConn DEF PeerLeaves, serverVars, threadVars, connVars,
       poolVars, releaseVars, Types, StartedFirst, Starting
  <1>14. ASSUME NEW c \in Conn, CloseHere(c) PROVE StartedFirst'
    BY <1>14, InboundIsConn DEF CloseHere, Close, serverVars, threadVars,
       connVars, poolVars, releaseVars, Types, StartedFirst, Starting
  <1>15. ASSUME NEW c \in Conn, ConstructorFails(c) PROVE StartedFirst'
    BY <1>15, InboundIsConn DEF ConstructorFails, Moves, serverVars,
       threadVars, connVars, poolVars, releaseVars, Types, StartedFirst,
       Starting
  <1>16. ASSUME NEW c \in Conn, CallbackThrows(c) PROVE StartedFirst'
    BY <1>16, InboundIsConn DEF CallbackThrows, Moves, serverVars, threadVars,
       connVars, poolVars, releaseVars, Types, StartedFirst, Starting
  <1>17. ASSUME NEW c \in Conn, StartReader(c) PROVE StartedFirst'
    BY <1>17, InboundIsConn DEF StartReader, Moves, serverVars, threadVars,
       connVars, poolVars, releaseVars, Types, StartedFirst, Starting
  <1>18. ASSUME NEW c \in Conn, AssignExecutor(c) PROVE StartedFirst'
    BY <1>18, InboundIsConn DEF AssignExecutor, Moves, serverVars, threadVars,
       connVars, poolVars, releaseVars, Types, StartedFirst, Starting
  <1>19. ASSUME NEW c \in Conn, CountConnection(c) PROVE StartedFirst'
    BY <1>19, InboundIsConn DEF CountConnection, incremntConnectionsCounter,
       Moves, serverVars, threadVars, connVars, poolVars, releaseVars, Types,
       StartedFirst, Starting
  <1>20. ASSUME NEW c \in Conn, StartManager(c) PROVE StartedFirst'
    BY <1>20, InboundIsConn DEF StartManager, Moves, serverVars, threadVars,
       connVars, poolVars, releaseVars, Types, StartedFirst, Starting
  <1>21. ASSUME NEW c \in Conn, ReaderFails(c) PROVE StartedFirst'
    BY <1>21, InboundIsConn DEF ReaderFails, Close, serverVars, threadVars,
       connVars, poolVars, releaseVars, Types, StartedFirst, Starting
  <1>22. ASSUME NEW c \in Conn, ReaderReleases(c) PROVE StartedFirst'
    BY <1>22, InboundIsConn DEF ReaderReleases, ReleasePool,
       decrementConnectionsCounter, serverVars, threadVars, connVars,
       poolVars, releaseVars, Types, StartedFirst, Starting
  <1>23. ASSUME NEW c \in Conn, ReaderThrows(c) PROVE StartedFirst'
    BY <1>23, InboundIsConn DEF ReaderThrows, serverVars, threadVars,
       connVars, poolVars, releaseVars, Types, StartedFirst, Starting
  <1>24. CASE UNCHANGED vars
    BY <1>24, InboundIsConn DEF vars, serverVars, threadVars, connVars,
       poolVars, releaseVars, Types, StartedFirst, Starting
  <1> QED
    BY <1>1, <1>2, <1>3, <1>4, <1>5, <1>6, <1>7, <1>8, <1>9, <1>10, <1>11,
       <1>12, <1>13, <1>14, <1>15, <1>16, <1>17, <1>18, <1>19, <1>20, <1>21,
       <1>22, <1>23, <1>24 DEF Next, ServerThreadRuns, HandlerRuns, ReaderRuns

----------------------------------------------------------------------------
(* What a step may do to the places: nothing, take one, give one back.      *)
HoldingStep ==
  \/ Holding' = Holding /\ numConnections' = numConnections
  \/ \E c \in Inbound :
       /\ c \notin Holding /\ HasRoom
       /\ Holding' = Holding \cup {c} /\ numConnections' = numConnections + 1
  \/ \E c \in Inbound :
       /\ c \in Holding
       /\ Holding' = Holding \ {c} /\ numConnections' = numConnections - 1

LEMMA CloseHolding ==
  ASSUME Types, StartedFirst, NEW c \in Conn, Close(c), UNCHANGED phase,
         closed[c] \/ phase[c] \in Starting \cup {"rejected", "done"}
  PROVE  HoldingStep
  <1>1. CASE c \in Inbound /\ ~closed[c]
    <2>1. c \in Holding
      BY <1>1 DEF Holding, Types
    <2>2. Holding' = Holding \ {c}
      BY <1>1 DEF Holding, Close, Types
    <2> QED
      BY <1>1, <2>1, <2>2 DEF HoldingStep, Close, Types
  <1>2. CASE ~(c \in Inbound /\ ~closed[c])
    <2>1. Holding' = Holding
      BY <1>2 DEF Holding, Close, Types
    <2> QED
      BY <1>2, <2>1 DEF HoldingStep, Close, Types
  <1> QED
    BY <1>1, <1>2

LEMMA StepHolding ==
  ASSUME Types, StartedFirst, [Next]_vars
  PROVE  HoldingStep
  <1>1. CASE ServerStarts
    BY <1>1, InboundIsConn DEF ServerStarts, incremntConnectionsCounter,
       serverVars, threadVars, connVars, poolVars, releaseVars, HoldingStep,
       Holding, Starting, Types
  <1>2. CASE CreateServerSocketFails
    BY <1>2, InboundIsConn DEF CreateServerSocketFails, serverVars,
       threadVars, connVars, poolVars, releaseVars, HoldingStep, Holding,
       Starting, Types
  <1>3. CASE ServerListens
    BY <1>3, InboundIsConn DEF ServerListens, serverVars, threadVars,
       connVars, poolVars, releaseVars, HoldingStep, Holding, Starting,
       Types
  <1>4. CASE StopServer
    BY <1>4, InboundIsConn DEF StopServer, serverVars, threadVars, connVars,
       poolVars, releaseVars, HoldingStep, Holding, Starting, Types
  <1>5. CASE StopReleasesPool
    BY <1>5, InboundIsConn DEF StopReleasesPool,
       decrementConnectionsCounter, serverVars, threadVars, connVars,
       poolVars, releaseVars, HoldingStep, Holding, Starting, Types
  <1>6. CASE AcceptFails
    BY <1>6, InboundIsConn DEF AcceptFails, serverVars, threadVars,
       connVars, poolVars, releaseVars, HoldingStep, Holding, Starting,
       Types
  <1>7. CASE AcceptStopped
    BY <1>7, InboundIsConn DEF AcceptStopped, serverVars, threadVars,
       connVars, poolVars, releaseVars, HoldingStep, Holding, Starting,
       Types
  <1>8. ASSUME NEW c \in Inbound, Accept(c)
        PROVE  HoldingStep
    BY <1>8, InboundIsConn DEF Accept, Moves, serverVars, threadVars,
       connVars, poolVars, releaseVars, HoldingStep, Holding, Starting,
       Types
  <1>9. ASSUME NEW c \in Inbound, Refuse(c)
        PROVE  HoldingStep
    BY <1>9, InboundIsConn DEF Refuse, TurnedAway, Moves, serverVars,
       threadVars, connVars, poolVars, releaseVars, HoldingStep, Holding,
       Starting, Types
  <1>10. ASSUME NEW c \in Inbound, TakeSlot(c)
        PROVE  HoldingStep
    <2>1. c \in Conn /\ phase[c] = "accepted" /\ phase' = [phase EXCEPT ![c] = "admitted"]
      BY <1>10, InboundIsConn DEF TakeSlot, Moves
    <2>2. ~closed[c]
      BY <2>1 DEF StartedFirst, Starting
    <2>3. c \notin Holding
      BY <2>1 DEF Holding, Starting
    <2>4. Holding' = Holding \cup {c}
      BY <1>10, <2>1, <2>2 DEF TakeSlot, Holding, Starting, Types
    <2> QED
      BY <1>10, <2>3, <2>4 DEF TakeSlot, HoldingStep
  <1>11. ASSUME NEW c \in Inbound, ExecuteHandler(c)
        PROVE  HoldingStep
    BY <1>11, InboundIsConn DEF ExecuteHandler, Moves, serverVars,
       threadVars, connVars, poolVars, releaseVars, HoldingStep, Holding,
       Starting, Types
  <1>12. ASSUME NEW c \in Conn, Connect(c)
        PROVE  HoldingStep
    BY <1>12, InboundIsConn, ConnAssumption DEF Connect, Moves, serverVars,
       threadVars,
       connVars, poolVars, releaseVars, HoldingStep, Holding, Starting,
       Types
  <1>13. ASSUME NEW c \in Conn, PeerLeaves(c)
        PROVE  HoldingStep
    BY <1>13, InboundIsConn DEF PeerLeaves, serverVars, threadVars,
       connVars, poolVars, releaseVars, HoldingStep, Holding, Starting,
       Types
  <1>14. ASSUME NEW c \in Conn, CloseHere(c)
        PROVE  HoldingStep
    BY <1>14, CloseHolding DEF CloseHere
  <1>15. ASSUME NEW c \in Conn, ConstructorFails(c)
        PROVE  HoldingStep
    <2>1. phase[c] = "queued" /\ phase' = [phase EXCEPT ![c] = "failed"]
      BY <1>15 DEF ConstructorFails, Moves
    <2>2. ~closed[c]
      BY <2>1 DEF StartedFirst, Starting
    <2>3. CASE c \in Inbound
      <3>1. c \in Holding
        BY <2>1, <2>2, <2>3 DEF Holding
      <3>2. Holding' = Holding \ {c}
        BY <1>15, <2>1 DEF ConstructorFails, Holding, Starting, Types
      <3> QED
        BY <1>15, <2>3, <3>1, <3>2 DEF ConstructorFails, HoldingStep
    <2>4. CASE c \notin Inbound
      <3>1. Holding' = Holding
        BY <1>15, <2>1, <2>4 DEF ConstructorFails, Holding, Starting, Types
      <3> QED
        BY <1>15, <2>4, <3>1 DEF ConstructorFails, HoldingStep
    <2> QED
      BY <2>3, <2>4
  <1>16. ASSUME NEW c \in Conn, CallbackThrows(c)
        PROVE  HoldingStep
    BY <1>16, InboundIsConn DEF CallbackThrows, Moves, serverVars,
       threadVars, connVars, poolVars, releaseVars, HoldingStep, Holding,
       Starting, Types
  <1>17. ASSUME NEW c \in Conn, StartReader(c)
        PROVE  HoldingStep
    BY <1>17, InboundIsConn DEF StartReader, Moves, serverVars, threadVars,
       connVars, poolVars, releaseVars, HoldingStep, Holding, Starting,
       Types
  <1>18. ASSUME NEW c \in Conn, AssignExecutor(c)
        PROVE  HoldingStep
    BY <1>18, InboundIsConn DEF AssignExecutor, Moves, serverVars,
       threadVars, connVars, poolVars, releaseVars, HoldingStep, Holding,
       Starting, Types
  <1>19. ASSUME NEW c \in Conn, CountConnection(c)
        PROVE  HoldingStep
    BY <1>19, InboundIsConn DEF CountConnection, incremntConnectionsCounter,
       Moves, serverVars, threadVars, connVars, poolVars, releaseVars,
       HoldingStep, Holding, Starting, Types
  <1>20. ASSUME NEW c \in Conn, StartManager(c)
        PROVE  HoldingStep
    BY <1>20, InboundIsConn DEF StartManager, Moves, serverVars, threadVars,
       connVars, poolVars, releaseVars, HoldingStep, Holding, Starting,
       Types
  <1>21. ASSUME NEW c \in Conn, ReaderFails(c)
        PROVE  HoldingStep
    <2>1. phase[c] \in Starting \cup {"rejected", "done"}
      BY <1>21 DEF ReaderFails, StartedFirst
    <2> QED
      BY <1>21, <2>1, CloseHolding DEF ReaderFails
  <1>22. ASSUME NEW c \in Conn, ReaderReleases(c)
        PROVE  HoldingStep
    BY <1>22, InboundIsConn DEF ReaderReleases, ReleasePool,
       decrementConnectionsCounter, serverVars, threadVars, connVars,
       poolVars, releaseVars, HoldingStep, Holding, Starting, Types
  <1>23. ASSUME NEW c \in Conn, ReaderThrows(c)
        PROVE  HoldingStep
    BY <1>23, InboundIsConn DEF ReaderThrows, serverVars, threadVars,
       connVars, poolVars, releaseVars, HoldingStep, Holding, Starting,
       Types
  <1>24. CASE UNCHANGED vars
    BY <1>24, InboundIsConn DEF vars, serverVars, threadVars, connVars,
       poolVars, releaseVars, HoldingStep, Holding, Starting, Types
  <1> QED
    BY <1>1, <1>2, <1>3, <1>4, <1>5, <1>6, <1>7, <1>8, <1>9, <1>10, <1>11,
       <1>12, <1>13, <1>14, <1>15, <1>16, <1>17, <1>18, <1>19, <1>20, <1>21,
       <1>22, <1>23, <1>24 DEF Next, ServerThreadRuns, HandlerRuns,
       ReaderRuns

LEMMA HoldingStepCounts ==
  ASSUME Types, SlotsCounted, HoldingStep
  PROVE  SlotsCounted'
  <1>1. IsFiniteSet(Holding) /\ Cardinality(Holding) \in Nat
    BY HoldingFinite
  <1>2. CASE Holding' = Holding /\ numConnections' = numConnections
    BY <1>2 DEF SlotsCounted
  <1>3. ASSUME NEW c \in Inbound, c \notin Holding,
               Holding' = Holding \cup {c}, numConnections' = numConnections + 1
        PROVE  SlotsCounted'
    BY <1>1, <1>3, FS_AddElement DEF SlotsCounted
  <1>4. ASSUME NEW c \in Inbound, c \in Holding,
               Holding' = Holding \ {c}, numConnections' = numConnections - 1
        PROVE  SlotsCounted'
    BY <1>1, <1>4, FS_RemoveElement DEF SlotsCounted
  <1> QED
    BY <1>2, <1>3, <1>4 DEF HoldingStep

SlotInv == Types /\ StartedFirst /\ SlotsCounted

LEMMA InitSlotInv == Init => SlotInv
  <1> SUFFICES ASSUME Init PROVE SlotInv
    OBVIOUS
  <1>1. StartedFirst
    BY DEF Init, StartedFirst
  <1>2. Holding = {}
    BY InboundIsConn DEF Init, Holding, Starting
  <1>3. SlotsCounted
    BY <1>2, FS_EmptySet DEF Init, SlotsCounted
  <1> QED
    BY <1>1, <1>3, InitTypes DEF SlotInv

(* The inductive invariant of the places: the types, that a reader exists   *)
(* only once start() has begun, and the count.                              *)
THEOREM SlotInvariant == Spec => []SlotInv
  <1>1. SlotInv /\ [Next]_vars => SlotInv'
    BY StepTypes, StepStartedFirst, StepHolding, HoldingStepCounts DEF SlotInv
  <1> QED
    BY <1>1, InitSlotInv, PTL DEF Spec

(* numConnections is the number of connections that hold a place, however   *)
(* many threads close them.                                                 *)
THEOREM SlotsAreCounted == Spec => []SlotsCounted
  <1>1. SlotInv => SlotsCounted
    BY DEF SlotInv
  <1> QED
    BY <1>1, SlotInvariant, PTL

(* Every variable keeps its type; numConnections never becomes negative.    *)
THEOREM TypeCorrect == Spec => []TypeOK
  <1>1. SlotInv => TypeOK
    BY HoldingFinite DEF SlotInv, Types, TypeOK, SlotsCounted
  <1> QED
    BY <1>1, SlotInvariant, PTL

LEMMA SameCardinality == \A S : Limit!Cardinality(S) = Cardinality(S)
  BY DEF Limit!Cardinality, Cardinality, Limit!IsFiniteSet, IsFiniteSet

(* Every step takes one free place, gives one back or leaves them alone: at *)
(* most MaxConnections are open.                                            *)
THEOREM LimitKept == Spec => ImplementsConnectionLimit
  <1>1. Init => Limit!Init
    <2>1. Init => Holding = {}
      BY InboundIsConn DEF Init, Holding, Starting
    <2> QED
      BY <2>1 DEF Limit!Init
  <1>2. SlotInv /\ [Next]_vars => [Limit!Next]_Holding
    <2> SUFFICES ASSUME SlotInv, [Next]_vars PROVE [Limit!Next]_Holding
      OBVIOUS
    <2>1. HoldingStep
      BY StepHolding DEF SlotInv
    <2>2. ASSUME NEW c \in Inbound, c \notin Holding, HasRoom,
                 Holding' = Holding \cup {c}
          PROVE  Limit!Next
      BY <2>2, SameCardinality
      DEF SlotInv, SlotsCounted, HasRoom, Limit!Next, Limit!Take
    <2>3. ASSUME NEW c \in Inbound, c \in Holding, Holding' = Holding \ {c}
          PROVE  Limit!Next
      BY <2>3 DEF Limit!Next, Limit!GiveBack
    <2> QED
      BY <2>1, <2>2, <2>3 DEF HoldingStep
  <1> QED
    BY <1>1, <1>2, SlotInvariant, PTL DEF Spec, ImplementsConnectionLimit,
       Limit!Spec

----------------------------------------------------------------------------
(* The shared pool.  Its count is the number of calls of Server.start and   *)
(* of counted connections, shared or not, less the shared ones that have    *)
(* been released and the server that has been stopped.                      *)
SharedReleased == {c \in released : UseSharedThreadPool(c)}

ServerReleased == IF "server" \in sharing /\ server = "stopped" THEN 1 ELSE 0

PoolCounted ==
  numOpenConnections =
    starts + Cardinality(Counted) - ServerReleased - Cardinality(SharedReleased)

ReleasedHasEnded == \A c \in released : reader[c] = "ended"

ReleasedWasCounted == early = {} => SharedReleased \subseteq Counted

ServerPhases ==
  /\ server # "new" => starts >= 1
  /\ thread # "none" => server \in {"running", "stopping", "stopped"}

LEMMA StepServerPhases ==
  ASSUME Types, ServerPhases, [Next]_vars
  PROVE  ServerPhases'
  <1>1. CASE ServerStarts
    BY <1>1 DEF ServerStarts, incremntConnectionsCounter, serverVars,
       threadVars, connVars, poolVars, releaseVars, Types, ServerPhases
  <1>2. CASE CreateServerSocketFails
    BY <1>2 DEF CreateServerSocketFails, serverVars, threadVars, connVars,
       poolVars, releaseVars, Types, ServerPhases
  <1>3. CASE ServerListens
    BY <1>3 DEF ServerListens, serverVars, threadVars, connVars, poolVars,
       releaseVars, Types, ServerPhases
  <1>4. CASE StopServer
    BY <1>4 DEF StopServer, serverVars, threadVars, connVars, poolVars,
       releaseVars, Types, ServerPhases
  <1>5. CASE StopReleasesPool
    BY <1>5 DEF StopReleasesPool, decrementConnectionsCounter, serverVars,
       threadVars, connVars, poolVars, releaseVars, Types, ServerPhases
  <1>6. CASE AcceptFails
    BY <1>6 DEF AcceptFails, serverVars, threadVars, connVars, poolVars,
       releaseVars, Types, ServerPhases
  <1>7. CASE AcceptStopped
    BY <1>7 DEF AcceptStopped, serverVars, threadVars, connVars, poolVars,
       releaseVars, Types, ServerPhases
  <1>8. ASSUME NEW c \in Inbound, Accept(c)
        PROVE  ServerPhases'
    BY <1>8 DEF Accept, Moves, serverVars, threadVars, connVars, poolVars,
       releaseVars, Types, ServerPhases
  <1>9. ASSUME NEW c \in Inbound, Refuse(c)
        PROVE  ServerPhases'
    BY <1>9 DEF Refuse, TurnedAway, Moves, serverVars, threadVars, connVars,
       poolVars, releaseVars, Types, ServerPhases
  <1>10. ASSUME NEW c \in Inbound, TakeSlot(c)
        PROVE  ServerPhases'
    BY <1>10 DEF TakeSlot, HasRoom, Moves, serverVars, threadVars, connVars,
       poolVars, releaseVars, Types, ServerPhases
  <1>11. ASSUME NEW c \in Inbound, ExecuteHandler(c)
        PROVE  ServerPhases'
    BY <1>11 DEF ExecuteHandler, Moves, serverVars, threadVars, connVars,
       poolVars, releaseVars, Types, ServerPhases
  <1>12. ASSUME NEW c \in Conn, Connect(c)
        PROVE  ServerPhases'
    BY <1>12 DEF Connect, Moves, serverVars, threadVars, connVars, poolVars,
       releaseVars, Types, ServerPhases
  <1>13. ASSUME NEW c \in Conn, PeerLeaves(c)
        PROVE  ServerPhases'
    BY <1>13 DEF PeerLeaves, serverVars, threadVars, connVars, poolVars,
       releaseVars, Types, ServerPhases
  <1>14. ASSUME NEW c \in Conn, CloseHere(c)
        PROVE  ServerPhases'
    BY <1>14 DEF CloseHere, Close, serverVars, threadVars, connVars,
       poolVars, releaseVars, Types, ServerPhases
  <1>15. ASSUME NEW c \in Conn, ConstructorFails(c)
        PROVE  ServerPhases'
    BY <1>15 DEF ConstructorFails, Moves, serverVars, threadVars, connVars,
       poolVars, releaseVars, Types, ServerPhases
  <1>16. ASSUME NEW c \in Conn, CallbackThrows(c)
        PROVE  ServerPhases'
    BY <1>16 DEF CallbackThrows, Moves, serverVars, threadVars, connVars,
       poolVars, releaseVars, Types, ServerPhases
  <1>17. ASSUME NEW c \in Conn, StartReader(c)
        PROVE  ServerPhases'
    BY <1>17 DEF StartReader, Moves, serverVars, threadVars, connVars,
       poolVars, releaseVars, Types, ServerPhases
  <1>18. ASSUME NEW c \in Conn, AssignExecutor(c)
        PROVE  ServerPhases'
    BY <1>18 DEF AssignExecutor, Moves, serverVars, threadVars, connVars,
       poolVars, releaseVars, Types, ServerPhases
  <1>19. ASSUME NEW c \in Conn, CountConnection(c)
        PROVE  ServerPhases'
    BY <1>19 DEF CountConnection, incremntConnectionsCounter, Moves,
       serverVars, threadVars, connVars, poolVars, releaseVars, Types,
       ServerPhases
  <1>20. ASSUME NEW c \in Conn, StartManager(c)
        PROVE  ServerPhases'
    BY <1>20 DEF StartManager, Moves, serverVars, threadVars, connVars,
       poolVars, releaseVars, Types, ServerPhases
  <1>21. ASSUME NEW c \in Conn, ReaderFails(c)
        PROVE  ServerPhases'
    BY <1>21 DEF ReaderFails, Close, serverVars, threadVars, connVars,
       poolVars, releaseVars, Types, ServerPhases
  <1>22. ASSUME NEW c \in Conn, ReaderReleases(c)
        PROVE  ServerPhases'
    BY <1>22 DEF ReaderReleases, ReleasePool, decrementConnectionsCounter,
       serverVars, threadVars, connVars, poolVars, releaseVars, Types,
       ServerPhases
  <1>23. ASSUME NEW c \in Conn, ReaderThrows(c)
        PROVE  ServerPhases'
    BY <1>23 DEF ReaderThrows, serverVars, threadVars, connVars, poolVars,
       releaseVars, Types, ServerPhases
  <1>24. CASE UNCHANGED vars
    BY <1>24 DEF vars, serverVars, threadVars, connVars, poolVars,
       releaseVars, Types, ServerPhases
  <1> QED
    BY <1>1, <1>2, <1>3, <1>4, <1>5, <1>6, <1>7, <1>8, <1>9, <1>10, <1>11,
       <1>12, <1>13, <1>14, <1>15, <1>16, <1>17, <1>18, <1>19, <1>20, <1>21,
       <1>22, <1>23, <1>24 DEF Next, ServerThreadRuns, HandlerRuns,
       ReaderRuns

LEMMA StepReleasedHasEnded ==
  ASSUME Types, ReleasedHasEnded, StartedFirst, [Next]_vars
  PROVE  ReleasedHasEnded'
  <1>1. CASE ServerStarts
    BY <1>1, InboundIsConn DEF ServerStarts, incremntConnectionsCounter,
       serverVars, threadVars, connVars, poolVars, releaseVars, Types,
       ReleasedHasEnded, StartedFirst, Starting
  <1>2. CASE CreateServerSocketFails
    BY <1>2, InboundIsConn DEF CreateServerSocketFails, serverVars,
       threadVars, connVars, poolVars, releaseVars, Types, ReleasedHasEnded,
       StartedFirst, Starting
  <1>3. CASE ServerListens
    BY <1>3, InboundIsConn DEF ServerListens, serverVars, threadVars,
       connVars, poolVars, releaseVars, Types, ReleasedHasEnded,
       StartedFirst, Starting
  <1>4. CASE StopServer
    BY <1>4, InboundIsConn DEF StopServer, serverVars, threadVars, connVars,
       poolVars, releaseVars, Types, ReleasedHasEnded, StartedFirst,
       Starting
  <1>5. CASE StopReleasesPool
    BY <1>5, InboundIsConn DEF StopReleasesPool,
       decrementConnectionsCounter, serverVars, threadVars, connVars,
       poolVars, releaseVars, Types, ReleasedHasEnded, StartedFirst,
       Starting
  <1>6. CASE AcceptFails
    BY <1>6, InboundIsConn DEF AcceptFails, serverVars, threadVars,
       connVars, poolVars, releaseVars, Types, ReleasedHasEnded,
       StartedFirst, Starting
  <1>7. CASE AcceptStopped
    BY <1>7, InboundIsConn DEF AcceptStopped, serverVars, threadVars,
       connVars, poolVars, releaseVars, Types, ReleasedHasEnded,
       StartedFirst, Starting
  <1>8. ASSUME NEW c \in Inbound, Accept(c)
        PROVE  ReleasedHasEnded'
    BY <1>8, InboundIsConn DEF Accept, Moves, serverVars, threadVars,
       connVars, poolVars, releaseVars, Types, ReleasedHasEnded,
       StartedFirst, Starting
  <1>9. ASSUME NEW c \in Inbound, Refuse(c)
        PROVE  ReleasedHasEnded'
    BY <1>9, InboundIsConn DEF Refuse, TurnedAway, Moves, serverVars,
       threadVars, connVars, poolVars, releaseVars, Types, ReleasedHasEnded,
       StartedFirst, Starting
  <1>10. ASSUME NEW c \in Inbound, TakeSlot(c)
        PROVE  ReleasedHasEnded'
    BY <1>10, InboundIsConn DEF TakeSlot, HasRoom, Moves, serverVars,
       threadVars, connVars, poolVars, releaseVars, Types, ReleasedHasEnded,
       StartedFirst, Starting
  <1>11. ASSUME NEW c \in Inbound, ExecuteHandler(c)
        PROVE  ReleasedHasEnded'
    BY <1>11, InboundIsConn DEF ExecuteHandler, Moves, serverVars,
       threadVars, connVars, poolVars, releaseVars, Types, ReleasedHasEnded,
       StartedFirst, Starting
  <1>12. ASSUME NEW c \in Conn, Connect(c)
        PROVE  ReleasedHasEnded'
    BY <1>12, InboundIsConn DEF Connect, Moves, serverVars, threadVars,
       connVars, poolVars, releaseVars, Types, ReleasedHasEnded,
       StartedFirst, Starting
  <1>13. ASSUME NEW c \in Conn, PeerLeaves(c)
        PROVE  ReleasedHasEnded'
    BY <1>13, InboundIsConn DEF PeerLeaves, serverVars, threadVars,
       connVars, poolVars, releaseVars, Types, ReleasedHasEnded,
       StartedFirst, Starting
  <1>14. ASSUME NEW c \in Conn, CloseHere(c)
        PROVE  ReleasedHasEnded'
    BY <1>14, InboundIsConn DEF CloseHere, Close, serverVars, threadVars,
       connVars, poolVars, releaseVars, Types, ReleasedHasEnded,
       StartedFirst, Starting
  <1>15. ASSUME NEW c \in Conn, ConstructorFails(c)
        PROVE  ReleasedHasEnded'
    BY <1>15, InboundIsConn DEF ConstructorFails, Moves, serverVars,
       threadVars, connVars, poolVars, releaseVars, Types, ReleasedHasEnded,
       StartedFirst, Starting
  <1>16. ASSUME NEW c \in Conn, CallbackThrows(c)
        PROVE  ReleasedHasEnded'
    BY <1>16, InboundIsConn DEF CallbackThrows, Moves, serverVars,
       threadVars, connVars, poolVars, releaseVars, Types, ReleasedHasEnded,
       StartedFirst, Starting
  <1>17. ASSUME NEW c \in Conn, StartReader(c)
        PROVE  ReleasedHasEnded'
    BY <1>17, InboundIsConn DEF StartReader, Moves, serverVars, threadVars,
       connVars, poolVars, releaseVars, Types, ReleasedHasEnded,
       StartedFirst, Starting
  <1>18. ASSUME NEW c \in Conn, AssignExecutor(c)
        PROVE  ReleasedHasEnded'
    BY <1>18, InboundIsConn DEF AssignExecutor, Moves, serverVars,
       threadVars, connVars, poolVars, releaseVars, Types, ReleasedHasEnded,
       StartedFirst, Starting
  <1>19. ASSUME NEW c \in Conn, CountConnection(c)
        PROVE  ReleasedHasEnded'
    BY <1>19, InboundIsConn DEF CountConnection, incremntConnectionsCounter,
       Moves, serverVars, threadVars, connVars, poolVars, releaseVars,
       Types, ReleasedHasEnded, StartedFirst, Starting
  <1>20. ASSUME NEW c \in Conn, StartManager(c)
        PROVE  ReleasedHasEnded'
    BY <1>20, InboundIsConn DEF StartManager, Moves, serverVars, threadVars,
       connVars, poolVars, releaseVars, Types, ReleasedHasEnded,
       StartedFirst, Starting
  <1>21. ASSUME NEW c \in Conn, ReaderFails(c)
        PROVE  ReleasedHasEnded'
    BY <1>21, InboundIsConn DEF ReaderFails, Close, serverVars, threadVars,
       connVars, poolVars, releaseVars, Types, ReleasedHasEnded,
       StartedFirst, Starting
  <1>22. ASSUME NEW c \in Conn, ReaderReleases(c)
        PROVE  ReleasedHasEnded'
    BY <1>22, InboundIsConn DEF ReaderReleases, ReleasePool,
       decrementConnectionsCounter, serverVars, threadVars, connVars,
       poolVars, releaseVars, Types, ReleasedHasEnded, StartedFirst,
       Starting
  <1>23. ASSUME NEW c \in Conn, ReaderThrows(c)
        PROVE  ReleasedHasEnded'
    BY <1>23, InboundIsConn DEF ReaderThrows, serverVars, threadVars,
       connVars, poolVars, releaseVars, Types, ReleasedHasEnded,
       StartedFirst, Starting
  <1>24. CASE UNCHANGED vars
    BY <1>24, InboundIsConn DEF vars, serverVars, threadVars, connVars,
       poolVars, releaseVars, Types, ReleasedHasEnded, StartedFirst,
       Starting
  <1> QED
    BY <1>1, <1>2, <1>3, <1>4, <1>5, <1>6, <1>7, <1>8, <1>9, <1>10, <1>11,
       <1>12, <1>13, <1>14, <1>15, <1>16, <1>17, <1>18, <1>19, <1>20, <1>21,
       <1>22, <1>23, <1>24 DEF Next, ServerThreadRuns, HandlerRuns,
       ReaderRuns

(* The steps that change a term of PoolCounted, and what the others leave. *)
PoolUntouched ==
  /\ Counted' = Counted /\ SharedReleased' = SharedReleased
  /\ ServerReleased' = ServerReleased
  /\ UNCHANGED <<sharing, starts, poolVars, releaseVars>>

PoolStep ==
  \/ PoolUntouched
  \/ ServerStarts
  \/ StopReleasesPool
  \/ \E c \in Conn : CountConnection(c) \/ ReaderReleases(c)

LEMMA StepPool ==
  ASSUME Types, [Next]_vars
  PROVE  PoolStep
  <1>1. CASE ServerStarts
    BY <1>1 DEF PoolStep
  <1>2. CASE CreateServerSocketFails
    BY <1>2, InboundIsConn DEF CreateServerSocketFails, serverVars,
       threadVars, connVars, poolVars, releaseVars, PoolStep, PoolUntouched,
       Counted, SharedReleased, ServerReleased, UseSharedThreadPool, Types,
       Starting
  <1>3. CASE ServerListens
    BY <1>3, InboundIsConn DEF ServerListens, serverVars, threadVars,
       connVars, poolVars, releaseVars, PoolStep, PoolUntouched, Counted,
       SharedReleased, ServerReleased, UseSharedThreadPool, Types, Starting
  <1>4. CASE StopServer
    BY <1>4, InboundIsConn DEF StopServer, serverVars, threadVars, connVars,
       poolVars, releaseVars, PoolStep, PoolUntouched, Counted,
       SharedReleased, ServerReleased, UseSharedThreadPool, Types, Starting
  <1>5. CASE StopReleasesPool
    BY <1>5 DEF PoolStep
  <1>6. CASE AcceptFails
    BY <1>6, InboundIsConn DEF AcceptFails, serverVars, threadVars,
       connVars, poolVars, releaseVars, PoolStep, PoolUntouched, Counted,
       SharedReleased, ServerReleased, UseSharedThreadPool, Types, Starting
  <1>7. CASE AcceptStopped
    BY <1>7, InboundIsConn DEF AcceptStopped, serverVars, threadVars,
       connVars, poolVars, releaseVars, PoolStep, PoolUntouched, Counted,
       SharedReleased, ServerReleased, UseSharedThreadPool, Types, Starting
  <1>8. ASSUME NEW c \in Inbound, Accept(c)
        PROVE  PoolStep
    BY <1>8, InboundIsConn DEF Accept, Moves, serverVars, threadVars,
       connVars, poolVars, releaseVars, PoolStep, PoolUntouched, Counted,
       SharedReleased, ServerReleased, UseSharedThreadPool, Types, Starting
  <1>9. ASSUME NEW c \in Inbound, Refuse(c)
        PROVE  PoolStep
    BY <1>9, InboundIsConn DEF Refuse, TurnedAway, Moves, serverVars,
       threadVars, connVars, poolVars, releaseVars, PoolStep, PoolUntouched,
       Counted, SharedReleased, ServerReleased, UseSharedThreadPool, Types,
       Starting
  <1>10. ASSUME NEW c \in Inbound, TakeSlot(c)
        PROVE  PoolStep
    BY <1>10, InboundIsConn DEF TakeSlot, HasRoom, Moves, serverVars,
       threadVars, connVars, poolVars, releaseVars, PoolStep, PoolUntouched,
       Counted, SharedReleased, ServerReleased, UseSharedThreadPool, Types,
       Starting
  <1>11. ASSUME NEW c \in Inbound, ExecuteHandler(c)
        PROVE  PoolStep
    BY <1>11, InboundIsConn DEF ExecuteHandler, Moves, serverVars,
       threadVars, connVars, poolVars, releaseVars, PoolStep, PoolUntouched,
       Counted, SharedReleased, ServerReleased, UseSharedThreadPool, Types,
       Starting
  <1>12. ASSUME NEW c \in Conn, Connect(c)
        PROVE  PoolStep
    BY <1>12, InboundIsConn DEF Connect, Moves, serverVars, threadVars,
       connVars, poolVars, releaseVars, PoolStep, PoolUntouched, Counted,
       SharedReleased, ServerReleased, UseSharedThreadPool, Types, Starting
  <1>13. ASSUME NEW c \in Conn, PeerLeaves(c)
        PROVE  PoolStep
    BY <1>13, InboundIsConn DEF PeerLeaves, serverVars, threadVars,
       connVars, poolVars, releaseVars, PoolStep, PoolUntouched, Counted,
       SharedReleased, ServerReleased, UseSharedThreadPool, Types, Starting
  <1>14. ASSUME NEW c \in Conn, CloseHere(c)
        PROVE  PoolStep
    BY <1>14, InboundIsConn DEF CloseHere, Close, serverVars, threadVars,
       connVars, poolVars, releaseVars, PoolStep, PoolUntouched, Counted,
       SharedReleased, ServerReleased, UseSharedThreadPool, Types, Starting
  <1>15. ASSUME NEW c \in Conn, ConstructorFails(c)
        PROVE  PoolStep
    BY <1>15, InboundIsConn DEF ConstructorFails, Moves, serverVars,
       threadVars, connVars, poolVars, releaseVars, PoolStep, PoolUntouched,
       Counted, SharedReleased, ServerReleased, UseSharedThreadPool, Types,
       Starting
  <1>16. ASSUME NEW c \in Conn, CallbackThrows(c)
        PROVE  PoolStep
    BY <1>16, InboundIsConn DEF CallbackThrows, Moves, serverVars,
       threadVars, connVars, poolVars, releaseVars, PoolStep, PoolUntouched,
       Counted, SharedReleased, ServerReleased, UseSharedThreadPool, Types,
       Starting
  <1>17. ASSUME NEW c \in Conn, StartReader(c)
        PROVE  PoolStep
    BY <1>17, InboundIsConn DEF StartReader, Moves, serverVars, threadVars,
       connVars, poolVars, releaseVars, PoolStep, PoolUntouched, Counted,
       SharedReleased, ServerReleased, UseSharedThreadPool, Types, Starting
  <1>18. ASSUME NEW c \in Conn, AssignExecutor(c)
        PROVE  PoolStep
    BY <1>18, InboundIsConn DEF AssignExecutor, Moves, serverVars,
       threadVars, connVars, poolVars, releaseVars, PoolStep, PoolUntouched,
       Counted, SharedReleased, ServerReleased, UseSharedThreadPool, Types,
       Starting
  <1>19. ASSUME NEW c \in Conn, CountConnection(c)
        PROVE  PoolStep
    BY <1>19 DEF PoolStep
  <1>20. ASSUME NEW c \in Conn, StartManager(c)
        PROVE  PoolStep
    BY <1>20, InboundIsConn DEF StartManager, Moves, serverVars, threadVars,
       connVars, poolVars, releaseVars, PoolStep, PoolUntouched, Counted,
       SharedReleased, ServerReleased, UseSharedThreadPool, Types, Starting
  <1>21. ASSUME NEW c \in Conn, ReaderFails(c)
        PROVE  PoolStep
    BY <1>21, InboundIsConn DEF ReaderFails, Close, serverVars, threadVars,
       connVars, poolVars, releaseVars, PoolStep, PoolUntouched, Counted,
       SharedReleased, ServerReleased, UseSharedThreadPool, Types, Starting
  <1>22. ASSUME NEW c \in Conn, ReaderReleases(c)
        PROVE  PoolStep
    BY <1>22 DEF PoolStep
  <1>23. ASSUME NEW c \in Conn, ReaderThrows(c)
        PROVE  PoolStep
    BY <1>23, InboundIsConn DEF ReaderThrows, serverVars, threadVars,
       connVars, poolVars, releaseVars, PoolStep, PoolUntouched, Counted,
       SharedReleased, ServerReleased, UseSharedThreadPool, Types, Starting
  <1>24. CASE UNCHANGED vars
    BY <1>24, InboundIsConn DEF vars, serverVars, threadVars, connVars,
       poolVars, releaseVars, PoolStep, PoolUntouched, Counted,
       SharedReleased, ServerReleased, UseSharedThreadPool, Types, Starting
  <1> QED
    BY <1>1, <1>2, <1>3, <1>4, <1>5, <1>6, <1>7, <1>8, <1>9, <1>10, <1>11,
       <1>12, <1>13, <1>14, <1>15, <1>16, <1>17, <1>18, <1>19, <1>20, <1>21,
       <1>22, <1>23, <1>24 DEF Next, ServerThreadRuns, HandlerRuns,
       ReaderRuns

LEMMA PoolSetsFinite ==
  ASSUME Types
  PROVE  /\ Counted \subseteq Conn /\ SharedReleased \subseteq Conn
         /\ IsFiniteSet(Counted) /\ Cardinality(Counted) \in Nat
         /\ IsFiniteSet(SharedReleased) /\ Cardinality(SharedReleased) \in Nat
  <1>1. Counted \subseteq Conn /\ SharedReleased \subseteq Conn
    BY DEF Counted, SharedReleased, Types
  <1> QED
    BY <1>1, ConnAssumption, FS_Subset, FS_CardinalityType

(* Two steps count one more, two one less, and each changes one term. *)
LEMMA StepPoolCounted ==
  ASSUME Types, Types', StartedFirst, ServerPhases, ReleasedHasEnded,
         PoolCounted, [Next]_vars
  PROVE  PoolCounted'
  <1>1. PoolStep
    BY StepPool
  <1>2. CASE PoolUntouched
    BY <1>2 DEF PoolUntouched, poolVars, PoolCounted
  <1>3. CASE ServerStarts
    <2>1. Counted' = Counted /\ SharedReleased' = SharedReleased
      BY <1>3 DEF ServerStarts, connVars, releaseVars, Counted, SharedReleased,
         UseSharedThreadPool
    <2>2. ServerReleased' = 0 /\ ServerReleased = 0
      BY <1>3 DEF ServerStarts, ServerReleased
    <2>3. /\ numOpenConnections' = numOpenConnections + 1
          /\ starts' = starts + 1
      BY <1>3 DEF ServerStarts, incremntConnectionsCounter
    <2> QED
      BY <2>1, <2>2, <2>3, PoolSetsFinite DEF PoolCounted, Types
  <1>4. CASE StopReleasesPool
    <2>1. /\ Counted' = Counted /\ SharedReleased' = SharedReleased
          /\ starts' = starts
      BY <1>4 DEF StopReleasesPool, connVars, releaseVars, Counted,
         SharedReleased, UseSharedThreadPool
    <2>2. /\ ServerReleased = 0
          /\ ServerReleased' = IF "server" \in sharing THEN 1 ELSE 0
      BY <1>4 DEF StopReleasesPool, ServerReleased
    <2>3. numOpenConnections' =
            numOpenConnections - (IF "server" \in sharing THEN 1 ELSE 0)
      BY <1>4 DEF StopReleasesPool, decrementConnectionsCounter, poolVars, Types
    <2> QED
      BY <2>1, <2>2, <2>3, PoolSetsFinite DEF PoolCounted, Types
  <1>5. ASSUME NEW c \in Conn, CountConnection(c)
        PROVE  PoolCounted'
    <2>1. c \notin Counted /\ Counted' = Counted \cup {c}
      BY <1>5 DEF CountConnection, Moves, Counted, Types
    <2>2. Cardinality(Counted') = Cardinality(Counted) + 1
      BY <2>1, PoolSetsFinite, FS_AddElement
    <2>3. /\ SharedReleased' = SharedReleased
          /\ ServerReleased' = ServerReleased /\ starts' = starts
          /\ numOpenConnections' = numOpenConnections + 1
      BY <1>5 DEF CountConnection, incremntConnectionsCounter, serverVars,
         releaseVars, SharedReleased, UseSharedThreadPool, ServerReleased
    <2>4. ServerReleased \in {0, 1}
      BY DEF ServerReleased
    <2> QED
      BY <2>2, <2>3, <2>4, PoolSetsFinite DEF PoolCounted, Types
  <1>6. ASSUME NEW c \in Conn, ReaderReleases(c)
        PROVE  PoolCounted'
    <2>1. /\ Counted' = Counted /\ ServerReleased' = ServerReleased
          /\ starts' = starts
      BY <1>6 DEF ReaderReleases, serverVars, Counted, ServerReleased
    <2>2. ServerReleased \in {0, 1}
      BY DEF ServerReleased
    <2>3. CASE UseSharedThreadPool(c)
      <3>1. c \notin released
        BY <1>6 DEF ReaderReleases, ReleasedHasEnded
      <3>2. /\ SharedReleased' = SharedReleased \cup {c}
            /\ c \notin SharedReleased
        BY <1>6, <2>3, <3>1 DEF ReaderReleases, SharedReleased,
           UseSharedThreadPool
      <3>3. Cardinality(SharedReleased') = Cardinality(SharedReleased) + 1
        BY <3>2, PoolSetsFinite, FS_AddElement
      <3>4. numOpenConnections' = numOpenConnections - 1
        BY <1>6, <2>3 DEF ReaderReleases, ReleasePool,
           decrementConnectionsCounter
      <3> QED
        BY <2>1, <2>2, <3>3, <3>4, PoolSetsFinite DEF PoolCounted, Types
    <2>4. CASE ~UseSharedThreadPool(c)
      <3>1. SharedReleased' = SharedReleased
        BY <1>6, <2>4 DEF ReaderReleases, SharedReleased, UseSharedThreadPool
      <3>2. numOpenConnections' = numOpenConnections
        BY <1>6, <2>4 DEF ReaderReleases, ReleasePool, poolVars
      <3> QED
        BY <2>1, <3>1, <3>2 DEF PoolCounted
    <2> QED
      BY <2>3, <2>4
  <1> QED
    BY <1>1, <1>2, <1>3, <1>4, <1>5, <1>6 DEF PoolStep

LEMMA StepReleasedWasCounted ==
  ASSUME Types, ReleasedWasCounted, [Next]_vars
  PROVE  ReleasedWasCounted'
  <1>1. PoolStep
    BY StepPool
  <1>2. CASE PoolUntouched
    BY <1>2 DEF PoolUntouched, releaseVars, ReleasedWasCounted
  <1>3. CASE ServerStarts
    BY <1>3 DEF ServerStarts, connVars, releaseVars, Counted, SharedReleased,
       UseSharedThreadPool, ReleasedWasCounted
  <1>4. CASE StopReleasesPool
    BY <1>4 DEF StopReleasesPool, connVars, releaseVars, Counted,
       SharedReleased, UseSharedThreadPool, ReleasedWasCounted
  <1>5. ASSUME NEW c \in Conn, CountConnection(c)
        PROVE  ReleasedWasCounted'
    <2>1. Counted \subseteq Counted'
      BY <1>5 DEF CountConnection, Moves, Counted, Types
    <2>2. SharedReleased' = SharedReleased /\ early' = early
      BY <1>5 DEF CountConnection, releaseVars, SharedReleased,
         UseSharedThreadPool
    <2> QED
      BY <2>1, <2>2 DEF ReleasedWasCounted
  <1>6. ASSUME NEW c \in Conn, ReaderReleases(c)
        PROVE  ReleasedWasCounted'
    <2> SUFFICES ASSUME early' = {}  PROVE (SharedReleased \subseteq Counted)'
      BY DEF ReleasedWasCounted
    <2>1. early = {} /\ (UseSharedThreadPool(c) => c \in Counted)
      BY <1>6 DEF ReaderReleases
    <2>2. Counted' = Counted
      BY <1>6 DEF ReaderReleases, Counted
    <2>3. SharedReleased' \subseteq SharedReleased
            \cup (IF UseSharedThreadPool(c) THEN {c} ELSE {})
      BY <1>6 DEF ReaderReleases, SharedReleased, UseSharedThreadPool
    <2> QED
      BY <2>1, <2>2, <2>3 DEF ReleasedWasCounted
  <1> QED
    BY <1>1, <1>2, <1>3, <1>4, <1>5, <1>6 DEF PoolStep

(* When the count falls to zero, and no shared connection was released      *)
(* before it was counted, the one who leaves was the last user.             *)
LEMMA ServerLeavesLast ==
  ASSUME Types, ServerPhases, PoolCounted, ReleasedWasCounted, early = {},
         server = "stopping", numOpenConnections = 1
  PROVE  PoolUsers \ {"server"} = {}
  <1>1. starts >= 1 /\ ServerReleased = 0 /\ SharedReleased \subseteq Counted
    BY DEF ServerPhases, ServerReleased, ReleasedWasCounted
  <1>2. Cardinality(Counted) <= Cardinality(SharedReleased)
    BY <1>1, PoolSetsFinite DEF PoolCounted, Types
  <1>3. Counted = SharedReleased
    BY <1>1, <1>2, PoolSetsFinite, FS_Subset
  <1> QED
    BY <1>3 DEF PoolUsers, SharedReleased

LEMMA ReaderLeavesLast ==
  ASSUME Types, ServerPhases, PoolCounted, ReleasedWasCounted, early = {},
         ReleasedHasEnded, numOpenConnections = 1,
         NEW c \in Counted, UseSharedThreadPool(c), reader[c] = "closing"
  PROVE  PoolUsers \ {c} = {}
  <1> DEFINE S == SharedReleased \cup {c}
  <1>1. c \notin SharedReleased /\ S \subseteq Counted
    BY DEF ReleasedHasEnded, SharedReleased, ReleasedWasCounted
  <1>2. IsFiniteSet(S) /\ Cardinality(S) = Cardinality(SharedReleased) + 1
    BY <1>1, PoolSetsFinite, FS_AddElement
  <1>3. Cardinality(S) <= Cardinality(Counted)
    BY <1>1, PoolSetsFinite, FS_Subset
  <1>4. ServerReleased \in {0, 1} /\ (ServerReleased = 1 => server = "stopped")
    BY DEF ServerReleased
  <1>5. Cardinality(S) = starts + Cardinality(Counted) - ServerReleased
    BY <1>2, <1>4, PoolSetsFinite DEF PoolCounted, Types
  <1>6. starts <= ServerReleased
    BY <1>3, <1>4, <1>5, <1>2, PoolSetsFinite DEF Types
  <1>7. starts = ServerReleased /\ server \in {"new", "stopped"}
    BY <1>4, <1>6 DEF ServerPhases, Types
  <1>8. Cardinality(S) = Cardinality(Counted)
    BY <1>4, <1>5, <1>7, PoolSetsFinite
  <1>9. Counted = S
    BY <1>1, <1>8, PoolSetsFinite, FS_Subset
  <1> QED
    BY <1>7, <1>9 DEF PoolUsers, SharedReleased

LEMMA StepNobodyCutOff ==
  ASSUME Types, ServerPhases, PoolCounted, ReleasedWasCounted,
         ReleasedHasEnded, NobodyCutOff, [Next]_vars
  PROVE  NobodyCutOff'
  <1>1. PoolStep
    BY StepPool
  <1>2. CASE PoolUntouched
    BY <1>2 DEF PoolUntouched, poolVars, releaseVars, NobodyCutOff
  <1>3. CASE ServerStarts
    BY <1>3 DEF ServerStarts, incremntConnectionsCounter, releaseVars,
       NobodyCutOff
  <1>4. CASE StopReleasesPool
    <2>1. early' = early /\ server = "stopping"
      BY <1>4 DEF StopReleasesPool, releaseVars
    <2>2. \/ cutOff' = cutOff
          \/ numOpenConnections = 1 /\ cutOff' = PoolUsers \ {"server"}
      BY <1>4 DEF StopReleasesPool, decrementConnectionsCounter, poolVars
    <2> QED
      BY <2>1, <2>2, ServerLeavesLast DEF NobodyCutOff
  <1>5. ASSUME NEW c \in Conn, CountConnection(c)
        PROVE  NobodyCutOff'
    BY <1>5 DEF CountConnection, incremntConnectionsCounter, releaseVars,
       NobodyCutOff
  <1>6. ASSUME NEW c \in Conn, ReaderReleases(c)
        PROVE  NobodyCutOff'
    <2>1. \/ cutOff' = cutOff
          \/ /\ UseSharedThreadPool(c) /\ numOpenConnections = 1
             /\ cutOff' = PoolUsers \ {c}
      BY <1>6 DEF ReaderReleases, ReleasePool, decrementConnectionsCounter,
         poolVars
    <2>2. early' = {} => early = {} /\ (UseSharedThreadPool(c) => c \in Counted)
      BY <1>6 DEF ReaderReleases
    <2>3. reader[c] = "closing"
      BY <1>6 DEF ReaderReleases
    <2> QED
      BY <2>1, <2>2, <2>3, ReaderLeavesLast DEF NobodyCutOff
  <1> QED
    BY <1>1, <1>2, <1>3, <1>4, <1>5, <1>6 DEF PoolStep

(* A thread that accepts was given to the pool when that was not shut down, *)
(* so the server was a user of it when it was, or had been stopped.         *)
Serving ==
  thread # "none" /\ "server" \in sharing /\ poolShut /\ cutOff = {}
    => server = "stopped"

LEMMA StepServing ==
  ASSUME Types, ServerPhases, Serving, [Next]_vars
  PROVE  Serving'
  <1>1. CASE ServerStarts
    BY <1>1, InboundIsConn DEF ServerStarts, incremntConnectionsCounter,
       serverVars, threadVars, connVars, poolVars, releaseVars, Types,
       ServerPhases, Serving, PoolUsers, ServerPoolShut
  <1>2. CASE CreateServerSocketFails
    BY <1>2, InboundIsConn DEF CreateServerSocketFails, serverVars,
       threadVars, connVars, poolVars, releaseVars, Types, ServerPhases,
       Serving, PoolUsers, ServerPoolShut
  <1>3. CASE ServerListens
    BY <1>3, InboundIsConn DEF ServerListens, serverVars, threadVars,
       connVars, poolVars, releaseVars, Types, ServerPhases, Serving,
       PoolUsers, ServerPoolShut
  <1>4. CASE StopServer
    BY <1>4, InboundIsConn DEF StopServer, serverVars, threadVars, connVars,
       poolVars, releaseVars, Types, ServerPhases, Serving, PoolUsers,
       ServerPoolShut
  <1>5. CASE StopReleasesPool
    BY <1>5, InboundIsConn DEF StopReleasesPool,
       decrementConnectionsCounter, serverVars, threadVars, connVars,
       poolVars, releaseVars, Types, ServerPhases, Serving, PoolUsers,
       ServerPoolShut
  <1>6. CASE AcceptFails
    BY <1>6, InboundIsConn DEF AcceptFails, serverVars, threadVars,
       connVars, poolVars, releaseVars, Types, ServerPhases, Serving,
       PoolUsers, ServerPoolShut
  <1>7. CASE AcceptStopped
    BY <1>7, InboundIsConn DEF AcceptStopped, serverVars, threadVars,
       connVars, poolVars, releaseVars, Types, ServerPhases, Serving,
       PoolUsers, ServerPoolShut
  <1>8. ASSUME NEW c \in Inbound, Accept(c)
        PROVE  Serving'
    BY <1>8, InboundIsConn DEF Accept, Moves, serverVars, threadVars,
       connVars, poolVars, releaseVars, Types, ServerPhases, Serving,
       PoolUsers, ServerPoolShut
  <1>9. ASSUME NEW c \in Inbound, Refuse(c)
        PROVE  Serving'
    BY <1>9, InboundIsConn DEF Refuse, TurnedAway, Moves, serverVars,
       threadVars, connVars, poolVars, releaseVars, Types, ServerPhases,
       Serving, PoolUsers, ServerPoolShut
  <1>10. ASSUME NEW c \in Inbound, TakeSlot(c)
        PROVE  Serving'
    BY <1>10, InboundIsConn DEF TakeSlot, HasRoom, Moves, serverVars,
       threadVars, connVars, poolVars, releaseVars, Types, ServerPhases,
       Serving, PoolUsers, ServerPoolShut
  <1>11. ASSUME NEW c \in Inbound, ExecuteHandler(c)
        PROVE  Serving'
    BY <1>11, InboundIsConn DEF ExecuteHandler, Moves, serverVars,
       threadVars, connVars, poolVars, releaseVars, Types, ServerPhases,
       Serving, PoolUsers, ServerPoolShut
  <1>12. ASSUME NEW c \in Conn, Connect(c)
        PROVE  Serving'
    BY <1>12, InboundIsConn DEF Connect, Moves, serverVars, threadVars,
       connVars, poolVars, releaseVars, Types, ServerPhases, Serving,
       PoolUsers, ServerPoolShut
  <1>13. ASSUME NEW c \in Conn, PeerLeaves(c)
        PROVE  Serving'
    BY <1>13, InboundIsConn DEF PeerLeaves, serverVars, threadVars,
       connVars, poolVars, releaseVars, Types, ServerPhases, Serving,
       PoolUsers, ServerPoolShut
  <1>14. ASSUME NEW c \in Conn, CloseHere(c)
        PROVE  Serving'
    BY <1>14, InboundIsConn DEF CloseHere, Close, serverVars, threadVars,
       connVars, poolVars, releaseVars, Types, ServerPhases, Serving,
       PoolUsers, ServerPoolShut
  <1>15. ASSUME NEW c \in Conn, ConstructorFails(c)
        PROVE  Serving'
    BY <1>15, InboundIsConn DEF ConstructorFails, Moves, serverVars,
       threadVars, connVars, poolVars, releaseVars, Types, ServerPhases,
       Serving, PoolUsers, ServerPoolShut
  <1>16. ASSUME NEW c \in Conn, CallbackThrows(c)
        PROVE  Serving'
    BY <1>16, InboundIsConn DEF CallbackThrows, Moves, serverVars,
       threadVars, connVars, poolVars, releaseVars, Types, ServerPhases,
       Serving, PoolUsers, ServerPoolShut
  <1>17. ASSUME NEW c \in Conn, StartReader(c)
        PROVE  Serving'
    BY <1>17, InboundIsConn DEF StartReader, Moves, serverVars, threadVars,
       connVars, poolVars, releaseVars, Types, ServerPhases, Serving,
       PoolUsers, ServerPoolShut
  <1>18. ASSUME NEW c \in Conn, AssignExecutor(c)
        PROVE  Serving'
    BY <1>18, InboundIsConn DEF AssignExecutor, Moves, serverVars,
       threadVars, connVars, poolVars, releaseVars, Types, ServerPhases,
       Serving, PoolUsers, ServerPoolShut
  <1>19. ASSUME NEW c \in Conn, CountConnection(c)
        PROVE  Serving'
    BY <1>19, InboundIsConn DEF CountConnection, incremntConnectionsCounter,
       Moves, serverVars, threadVars, connVars, poolVars, releaseVars,
       Types, ServerPhases, Serving, PoolUsers, ServerPoolShut
  <1>20. ASSUME NEW c \in Conn, StartManager(c)
        PROVE  Serving'
    BY <1>20, InboundIsConn DEF StartManager, Moves, serverVars, threadVars,
       connVars, poolVars, releaseVars, Types, ServerPhases, Serving,
       PoolUsers, ServerPoolShut
  <1>21. ASSUME NEW c \in Conn, ReaderFails(c)
        PROVE  Serving'
    BY <1>21, InboundIsConn DEF ReaderFails, Close, serverVars, threadVars,
       connVars, poolVars, releaseVars, Types, ServerPhases, Serving,
       PoolUsers, ServerPoolShut
  <1>22. ASSUME NEW c \in Conn, ReaderReleases(c)
        PROVE  Serving'
    <2>1. UNCHANGED <<sharing, server, thread>>
      BY <1>22 DEF ReaderReleases, serverVars, threadVars
    <2>2. \/ poolShut' = poolShut /\ cutOff' = cutOff
          \/ /\ poolShut' = (poolShut \/ numOpenConnections = 1)
             /\ cutOff' = IF numOpenConnections = 1 /\ ~poolShut
                          THEN PoolUsers \ {c} ELSE cutOff
      BY <1>22 DEF ReaderReleases, ReleasePool, decrementConnectionsCounter,
         poolVars
    <2>3. \/ poolShut' = poolShut /\ cutOff' = cutOff
          \/ poolShut /\ cutOff' = cutOff
          \/ cutOff' = PoolUsers \ {c}
      <3>1. CASE poolShut
        BY <2>2, <3>1
      <3>2. CASE ~poolShut /\ numOpenConnections = 1
        BY <2>2, <3>2
      <3>3. CASE ~poolShut /\ numOpenConnections # 1
        <4>1. poolShut \in BOOLEAN
          BY DEF Types
        <4> QED
          BY <2>2, <3>3, <4>1
      <3> QED
        BY <3>1, <3>2, <3>3
    <2>4. CASE poolShut' = poolShut /\ cutOff' = cutOff
      BY <2>1, <2>4 DEF Serving
    <2>5. CASE poolShut /\ cutOff' = cutOff
      BY <2>1, <2>5 DEF Serving
    <2>6. CASE cutOff' = PoolUsers \ {c}
      BY <2>1, <2>6, ConnAssumption DEF Serving, ServerPhases, PoolUsers
    <2> QED
      BY <2>3, <2>4, <2>5, <2>6
  <1>23. ASSUME NEW c \in Conn, ReaderThrows(c)
        PROVE  Serving'
    BY <1>23, InboundIsConn DEF ReaderThrows, serverVars, threadVars,
       connVars, poolVars, releaseVars, Types, ServerPhases, Serving,
       PoolUsers, ServerPoolShut
  <1>24. CASE UNCHANGED vars
    BY <1>24, InboundIsConn DEF vars, serverVars, threadVars, connVars,
       poolVars, releaseVars, Types, ServerPhases, Serving, PoolUsers,
       ServerPoolShut
  <1> QED
    BY <1>1, <1>2, <1>3, <1>4, <1>5, <1>6, <1>7, <1>8, <1>9, <1>10, <1>11,
       <1>12, <1>13, <1>14, <1>15, <1>16, <1>17, <1>18, <1>19, <1>20, <1>21,
       <1>22, <1>23, <1>24 DEF Next, ServerThreadRuns, HandlerRuns,
       ReaderRuns

LEMMA StepNoSilentEnd ==
  ASSUME Types, ServerPhases, Serving, NobodyCutOff, NoSilentEnd, [Next]_vars
  PROVE  NoSilentEnd'
  <1>1. CASE ServerStarts
    BY <1>1, InboundIsConn DEF ServerStarts, incremntConnectionsCounter,
       serverVars, threadVars, connVars, poolVars, releaseVars, Types,
       ServerPhases, Serving, NobodyCutOff, NoSilentEnd, ServerPoolShut
  <1>2. CASE CreateServerSocketFails
    BY <1>2, InboundIsConn DEF CreateServerSocketFails, serverVars,
       threadVars, connVars, poolVars, releaseVars, Types, ServerPhases,
       Serving, NobodyCutOff, NoSilentEnd, ServerPoolShut
  <1>3. CASE ServerListens
    BY <1>3, InboundIsConn DEF ServerListens, serverVars, threadVars,
       connVars, poolVars, releaseVars, Types, ServerPhases, Serving,
       NobodyCutOff, NoSilentEnd, ServerPoolShut
  <1>4. CASE StopServer
    BY <1>4, InboundIsConn DEF StopServer, serverVars, threadVars, connVars,
       poolVars, releaseVars, Types, ServerPhases, Serving, NobodyCutOff,
       NoSilentEnd, ServerPoolShut
  <1>5. CASE StopReleasesPool
    BY <1>5, InboundIsConn DEF StopReleasesPool,
       decrementConnectionsCounter, serverVars, threadVars, connVars,
       poolVars, releaseVars, Types, ServerPhases, Serving, NobodyCutOff,
       NoSilentEnd, ServerPoolShut
  <1>6. CASE AcceptFails
    BY <1>6, InboundIsConn DEF AcceptFails, serverVars, threadVars,
       connVars, poolVars, releaseVars, Types, ServerPhases, Serving,
       NobodyCutOff, NoSilentEnd, ServerPoolShut
  <1>7. CASE AcceptStopped
    BY <1>7, InboundIsConn DEF AcceptStopped, serverVars, threadVars,
       connVars, poolVars, releaseVars, Types, ServerPhases, Serving,
       NobodyCutOff, NoSilentEnd, ServerPoolShut
  <1>8. ASSUME NEW c \in Inbound, Accept(c)
        PROVE  NoSilentEnd'
    BY <1>8, InboundIsConn DEF Accept, Moves, serverVars, threadVars,
       connVars, poolVars, releaseVars, Types, ServerPhases, Serving,
       NobodyCutOff, NoSilentEnd, ServerPoolShut
  <1>9. ASSUME NEW c \in Inbound, Refuse(c)
        PROVE  NoSilentEnd'
    BY <1>9, InboundIsConn DEF Refuse, TurnedAway, Moves, serverVars,
       threadVars, connVars, poolVars, releaseVars, Types, ServerPhases,
       Serving, NobodyCutOff, NoSilentEnd, ServerPoolShut
  <1>10. ASSUME NEW c \in Inbound, TakeSlot(c)
        PROVE  NoSilentEnd'
    BY <1>10, InboundIsConn DEF TakeSlot, HasRoom, Moves, serverVars,
       threadVars, connVars, poolVars, releaseVars, Types, ServerPhases,
       Serving, NobodyCutOff, NoSilentEnd, ServerPoolShut
  <1>11. ASSUME NEW c \in Inbound, ExecuteHandler(c)
        PROVE  NoSilentEnd'
    BY <1>11, InboundIsConn DEF ExecuteHandler, Moves, serverVars,
       threadVars, connVars, poolVars, releaseVars, Types, ServerPhases,
       Serving, NobodyCutOff, NoSilentEnd, ServerPoolShut
  <1>12. ASSUME NEW c \in Conn, Connect(c)
        PROVE  NoSilentEnd'
    BY <1>12, InboundIsConn DEF Connect, Moves, serverVars, threadVars,
       connVars, poolVars, releaseVars, Types, ServerPhases, Serving,
       NobodyCutOff, NoSilentEnd, ServerPoolShut
  <1>13. ASSUME NEW c \in Conn, PeerLeaves(c)
        PROVE  NoSilentEnd'
    BY <1>13, InboundIsConn DEF PeerLeaves, serverVars, threadVars,
       connVars, poolVars, releaseVars, Types, ServerPhases, Serving,
       NobodyCutOff, NoSilentEnd, ServerPoolShut
  <1>14. ASSUME NEW c \in Conn, CloseHere(c)
        PROVE  NoSilentEnd'
    BY <1>14, InboundIsConn DEF CloseHere, Close, serverVars, threadVars,
       connVars, poolVars, releaseVars, Types, ServerPhases, Serving,
       NobodyCutOff, NoSilentEnd, ServerPoolShut
  <1>15. ASSUME NEW c \in Conn, ConstructorFails(c)
        PROVE  NoSilentEnd'
    BY <1>15, InboundIsConn DEF ConstructorFails, Moves, serverVars,
       threadVars, connVars, poolVars, releaseVars, Types, ServerPhases,
       Serving, NobodyCutOff, NoSilentEnd, ServerPoolShut
  <1>16. ASSUME NEW c \in Conn, CallbackThrows(c)
        PROVE  NoSilentEnd'
    BY <1>16, InboundIsConn DEF CallbackThrows, Moves, serverVars,
       threadVars, connVars, poolVars, releaseVars, Types, ServerPhases,
       Serving, NobodyCutOff, NoSilentEnd, ServerPoolShut
  <1>17. ASSUME NEW c \in Conn, StartReader(c)
        PROVE  NoSilentEnd'
    BY <1>17, InboundIsConn DEF StartReader, Moves, serverVars, threadVars,
       connVars, poolVars, releaseVars, Types, ServerPhases, Serving,
       NobodyCutOff, NoSilentEnd, ServerPoolShut
  <1>18. ASSUME NEW c \in Conn, AssignExecutor(c)
        PROVE  NoSilentEnd'
    BY <1>18, InboundIsConn DEF AssignExecutor, Moves, serverVars,
       threadVars, connVars, poolVars, releaseVars, Types, ServerPhases,
       Serving, NobodyCutOff, NoSilentEnd, ServerPoolShut
  <1>19. ASSUME NEW c \in Conn, CountConnection(c)
        PROVE  NoSilentEnd'
    BY <1>19, InboundIsConn DEF CountConnection, incremntConnectionsCounter,
       Moves, serverVars, threadVars, connVars, poolVars, releaseVars,
       Types, ServerPhases, Serving, NobodyCutOff, NoSilentEnd,
       ServerPoolShut
  <1>20. ASSUME NEW c \in Conn, StartManager(c)
        PROVE  NoSilentEnd'
    BY <1>20, InboundIsConn DEF StartManager, Moves, serverVars, threadVars,
       connVars, poolVars, releaseVars, Types, ServerPhases, Serving,
       NobodyCutOff, NoSilentEnd, ServerPoolShut
  <1>21. ASSUME NEW c \in Conn, ReaderFails(c)
        PROVE  NoSilentEnd'
    BY <1>21, InboundIsConn DEF ReaderFails, Close, serverVars, threadVars,
       connVars, poolVars, releaseVars, Types, ServerPhases, Serving,
       NobodyCutOff, NoSilentEnd, ServerPoolShut
  <1>22. ASSUME NEW c \in Conn, ReaderReleases(c)
        PROVE  NoSilentEnd'
    BY <1>22, InboundIsConn DEF ReaderReleases, ReleasePool,
       decrementConnectionsCounter, serverVars, threadVars, connVars,
       poolVars, releaseVars, Types, ServerPhases, Serving, NobodyCutOff,
       NoSilentEnd, ServerPoolShut
  <1>23. ASSUME NEW c \in Conn, ReaderThrows(c)
        PROVE  NoSilentEnd'
    BY <1>23, InboundIsConn DEF ReaderThrows, serverVars, threadVars,
       connVars, poolVars, releaseVars, Types, ServerPhases, Serving,
       NobodyCutOff, NoSilentEnd, ServerPoolShut
  <1>24. CASE UNCHANGED vars
    BY <1>24, InboundIsConn DEF vars, serverVars, threadVars, connVars,
       poolVars, releaseVars, Types, ServerPhases, Serving, NobodyCutOff,
       NoSilentEnd, ServerPoolShut
  <1> QED
    BY <1>1, <1>2, <1>3, <1>4, <1>5, <1>6, <1>7, <1>8, <1>9, <1>10, <1>11,
       <1>12, <1>13, <1>14, <1>15, <1>16, <1>17, <1>18, <1>19, <1>20, <1>21,
       <1>22, <1>23, <1>24 DEF Next, ServerThreadRuns, HandlerRuns,
       ReaderRuns

PoolInv ==
  /\ Types /\ StartedFirst /\ ServerPhases
  /\ ReleasedHasEnded /\ PoolCounted /\ ReleasedWasCounted
  /\ NobodyCutOff /\ Serving /\ NoSilentEnd

LEMMA InitPoolInv == Init => PoolInv
  <1> SUFFICES ASSUME Init  PROVE PoolInv
    OBVIOUS
  <1>1. Types /\ StartedFirst
    BY InitSlotInv DEF SlotInv
  <1>2. ServerPhases /\ ReleasedHasEnded /\ NobodyCutOff /\ Serving /\ NoSilentEnd
    BY DEF Init, ServerPhases, ReleasedHasEnded, NobodyCutOff, Serving,
       NoSilentEnd
  <1>3. Counted = {} /\ SharedReleased = {} /\ ServerReleased = 0
    BY DEF Init, Counted, SharedReleased, ServerReleased
  <1>4. PoolCounted /\ ReleasedWasCounted
    BY <1>3, FS_EmptySet DEF Init, PoolCounted, ReleasedWasCounted
  <1> QED
    BY <1>1, <1>2, <1>4 DEF PoolInv

(* The count of the shared pool and what follows from it is invariant. *)
THEOREM PoolInvariant == Spec => []PoolInv
  <1>1. Init => PoolInv
    BY InitPoolInv
  <1>2. PoolInv /\ [Next]_vars => PoolInv'
    <2> SUFFICES ASSUME PoolInv, [Next]_vars  PROVE PoolInv'
      OBVIOUS
    <2> USE DEF PoolInv
    <2>1. Types' /\ StartedFirst'
      BY StepTypes, StepStartedFirst
    <2>2. ServerPhases' /\ ReleasedHasEnded'
      BY StepServerPhases, StepReleasedHasEnded
    <2>3. PoolCounted' /\ ReleasedWasCounted'
      BY <2>1, StepPoolCounted, StepReleasedWasCounted
    <2>4. NobodyCutOff'
      BY StepNobodyCutOff
    <2>5. Serving' /\ NoSilentEnd'
      BY StepServing, StepNoSilentEnd
    <2> QED
      BY <2>1, <2>2, <2>3, <2>4, <2>5
  <1> QED
    BY <1>1, <1>2, PTL DEF Spec

(* The shared pool is not shut down under one who uses it, whatever the     *)
(* number of servers' connections and clients, unless a connection ends     *)
(* before it is counted.                                                    *)
THEOREM PoolOutlivesUsers == Spec => []NobodyCutOff
  <1>1. PoolInv => NobodyCutOff
    BY DEF PoolInv
  <1> QED
    BY <1>1, PoolInvariant, PTL

(* A server thread that has ended was stopped or has told the application   *)
(* (the same proviso).                                                      *)
THEOREM ThreadEndsWithSign == Spec => []NoSilentEnd
  <1>1. PoolInv => NoSilentEnd
    BY DEF PoolInv
  <1> QED
    BY <1>1, PoolInvariant, PTL
=============================================================================

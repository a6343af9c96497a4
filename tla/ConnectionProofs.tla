-------------------------- MODULE ConnectionProofs --------------------------
(***************************************************************************)
(* The proofs about Connection: whatever connections and statements do,    *)
(* short of a move of a native object, every native object has one owner,  *)
(* and nothing is closed, finalized or used after its end.                 *)
(***************************************************************************)
EXTENDS Connection, TLAPS

(* The initial state has no native objects. *)
LEMMA InitIndInv == ASSUME Init PROVE IndInv
<1> USE ConstAssumption DEF Init
<1>1. NativesType /\ ConnectionType /\ StatementType
  BY DEF NativesType, ConnectionType, StatementType
<1>2. lost \subseteq Handles /\ shared = FALSE /\ undefined = FALSE /\ moves \in 0 .. MaxMoves
  OBVIOUS
<1>3. HistoryType
  BY <1>2 DEF HistoryType
<1>4. NativesInv /\ HandlesInv /\ StatementsInv /\ MapsInv
  BY DEF NativesInv, HandlesInv, StatementsInv, MapsInv
<1>5. LeaksAreKnown /\ BelongsOrLost
  BY DEF LeaksAreKnown, BelongsOrLost, IsOpen
<1>6. OnlyMovesHurt
  BY <1>2 DEF OnlyMovesHurt
<1> QED BY <1>1, <1>3, <1>4, <1>5, <1>6 DEF TypeOK, IndInv

(* Opening gives the connection a handle that nobody else has.             *)
LEMMA OpenSucceedsKeeps ==
  ASSUME IndInv, NEW c \in Conns, NEW h \in Handles, OpenSucceeds(c, h) PROVE IndInv'
<1> USE ConstAssumption DEF IndInv, OpenSucceeds, natives, connection, statement, history
<1>1. NativesType'
  BY DEF TypeOK, NativesType
<1>2. ConnectionType'
  BY DEF TypeOK, ConnectionType
<1>3. StatementType'
  BY DEF TypeOK, StatementType
<1>4. HistoryType'
  <2>1. lost' \subseteq Handles
    BY DEF TypeOK, HistoryType, IsOpen
  <2>2. moves' \in 0 .. MaxMoves
    BY DEF TypeOK, HistoryType
  <2>3. shared' \in BOOLEAN /\ undefined' \in BOOLEAN
    BY Zenon DEF TypeOK, HistoryType, IsClosed
  <2> QED BY <2>1, <2>2, <2>3 DEF HistoryType
<1>5. NativesInv'
  BY DEF TypeOK, NativesType, NativesInv, Used, ClosedBy, Busy
<1>6. HandlesInv'
  BY DEF TypeOK, ConnectionType, HandlesInv, NextHandle, ClosedBy
<1>7. StatementsInv'
  BY DEF StatementsInv
<1>8. LeaksAreKnown'
  BY DEF TypeOK, ConnectionType, LeaksAreKnown, Owns, IsOpen, ClosedBy
<1>9. BelongsOrLost'
  <2> SUFFICES ASSUME NEW s \in Stmts, ~shared, slife[s] = "alive", stmt_[s] # None
               PROVE  \/ on[stmt_[s]] = connection_'[owner[s]]
                      \/ on[stmt_[s]] \in lost'
    BY DEF BelongsOrLost
  <2>1. on[stmt_[s]] \in Handles /\ IsOpen(on[stmt_[s]]) /\ Busy(on[stmt_[s]])
    BY DEF TypeOK, StatementType, StatementsInv, NativesInv, IsOpen, Busy
  <2>2. on[stmt_[s]] = connection_[owner[s]] \/ on[stmt_[s]] \in lost
    BY DEF BelongsOrLost
  <2>3. CASE owner[s] = c
    BY <2>1, <2>2, <2>3
  <2>4. CASE owner[s] # c
    BY <2>2, <2>4 DEF TypeOK
  <2> QED BY <2>3, <2>4
<1>10. OnlyMovesHurt'
  BY DEF OnlyMovesHurt, HandlesInv, IsClosed
<1>11. MapsInv'
  BY DEF MapsInv
<1> QED BY <1>1, <1>2, <1>3, <1>4, <1>5, <1>6, <1>7, <1>8, <1>9, <1>10, <1>11 DEF TypeOK

(* A failed open loses its handle and leaves everything else alone.        *)
LEMMA OpenFailsKeeps ==
  ASSUME IndInv, NEW c \in Conns, NEW h \in Handles, OpenFails(c, h) PROVE IndInv'
<1> USE ConstAssumption DEF IndInv, OpenFails, natives, connection, statement, history
<1>1. NativesType'
  BY DEF TypeOK, NativesType
<1>2. ConnectionType'
  BY DEF TypeOK, ConnectionType
<1>3. StatementType'
  BY DEF TypeOK, StatementType
<1>4. HistoryType'
  <2>1. lost' \subseteq Handles
    BY DEF TypeOK, HistoryType
  <2>2. moves' \in 0 .. MaxMoves
    BY DEF TypeOK, HistoryType
  <2>3. shared' \in BOOLEAN /\ undefined' \in BOOLEAN
    BY Zenon DEF TypeOK, HistoryType
  <2> QED BY <2>1, <2>2, <2>3 DEF HistoryType
<1>5. NativesInv'
  BY DEF NativesInv, Used
<1>6. HandlesInv'
  BY DEF HandlesInv
<1>7. StatementsInv'
  BY DEF StatementsInv
<1>8. LeaksAreKnown'
  BY DEF LeaksAreKnown, Owns, IsOpen
<1>9. BelongsOrLost'
  BY DEF BelongsOrLost
<1>10. OnlyMovesHurt'
  BY DEF OnlyMovesHurt
<1>11. MapsInv'
  BY DEF MapsInv
<1> QED BY <1>1, <1>2, <1>3, <1>4, <1>5, <1>6, <1>7, <1>8, <1>9, <1>10, <1>11 DEF TypeOK

(* sqlite3_close in the destructor: no statement is on a closed handle.    *)
LEMMA CloseKeeps ==
  ASSUME IndInv, NEW c \in Conns, Close(c) PROVE IndInv'
<1> USE ConstAssumption DEF IndInv, Close, natives, connection, statement, history
<1>1. NativesType'
  BY DEF TypeOK, NativesType
<1>2. ConnectionType'
  BY DEF TypeOK, ConnectionType, IsOpen
<1>3. StatementType'
  BY DEF TypeOK, StatementType
<1>4. HistoryType'
  <2>1. lost' \subseteq Handles
    BY DEF TypeOK, HistoryType
  <2>2. moves' \in 0 .. MaxMoves
    BY DEF TypeOK, HistoryType
  <2>3. shared' \in BOOLEAN /\ undefined' \in BOOLEAN
    BY Zenon DEF TypeOK, HistoryType, IsClosed
  <2> QED BY <2>1, <2>2, <2>3 DEF HistoryType
<1>5. NativesInv'
  BY DEF TypeOK, NativesType, NativesInv, Used, ClosedBy, Busy
<1>6. HandlesInv'
  BY DEF TypeOK, ConnectionType, HandlesInv, ClosedBy
<1>7. StatementsInv'
  BY DEF StatementsInv
<1>8. LeaksAreKnown'
  BY DEF LeaksAreKnown, Owns, IsOpen, ClosedBy
<1>9. BelongsOrLost'
  BY DEF BelongsOrLost
<1>10. OnlyMovesHurt'
  BY DEF OnlyMovesHurt, HandlesInv, IsClosed
<1>11. MapsInv'
  BY DEF MapsInv
<1> QED BY <1>1, <1>2, <1>3, <1>4, <1>5, <1>6, <1>7, <1>8, <1>9, <1>10, <1>11 DEF TypeOK

(* The destructor gives the handle up.                                     *)
LEMMA GiveUpKeeps ==
  ASSUME IndInv, NEW c \in Conns, GiveUp(c) PROVE IndInv'
<1> USE ConstAssumption DEF IndInv, GiveUp, natives, connection, statement, history
<1>1. NativesType'
  BY DEF TypeOK, NativesType
<1>2. ConnectionType'
  BY DEF TypeOK, ConnectionType
<1>3. StatementType'
  BY DEF TypeOK, StatementType
<1>4. HistoryType'
  <2>1. lost' \subseteq Handles
    BY DEF TypeOK, ConnectionType, HistoryType
  <2>2. moves' \in 0 .. MaxMoves
    BY DEF TypeOK, HistoryType
  <2>3. shared' \in BOOLEAN /\ undefined' \in BOOLEAN
    BY Zenon DEF TypeOK, HistoryType
  <2> QED BY <2>1, <2>2, <2>3 DEF HistoryType
<1>5. NativesInv'
  BY DEF NativesInv, Used
<1>6. HandlesInv'
  BY DEF HandlesInv
<1>7. StatementsInv'
  BY DEF StatementsInv
<1>8. LeaksAreKnown'
  BY DEF LeaksAreKnown, Owns, IsOpen
<1>9. BelongsOrLost'
  BY DEF BelongsOrLost
<1>10. OnlyMovesHurt'
  BY DEF OnlyMovesHurt
<1>11. MapsInv'
  BY DEF MapsInv
<1> QED BY <1>1, <1>2, <1>3, <1>4, <1>5, <1>6, <1>7, <1>8, <1>9, <1>10, <1>11 DEF TypeOK

(* The destructor goes on trying.                                          *)
LEMMA KeepTryingKeeps ==
  ASSUME IndInv, NEW c \in Conns, KeepTrying(c) PROVE IndInv'
<1> USE ConstAssumption DEF IndInv, KeepTrying, natives, connection, statement, history
<1>1. NativesType'
  BY DEF TypeOK, NativesType
<1>2. ConnectionType'
  BY DEF TypeOK, ConnectionType
<1>3. StatementType'
  BY DEF TypeOK, StatementType
<1>4. HistoryType'
  <2>1. lost' \subseteq Handles
    BY DEF TypeOK, HistoryType
  <2>2. moves' \in 0 .. MaxMoves
    BY DEF TypeOK, HistoryType
  <2>3. shared' \in BOOLEAN /\ undefined' \in BOOLEAN
    BY Zenon DEF TypeOK, HistoryType
  <2> QED BY <2>1, <2>2, <2>3 DEF HistoryType
<1>5. NativesInv'
  BY DEF NativesInv, Used
<1>6. HandlesInv'
  BY DEF HandlesInv
<1>7. StatementsInv'
  BY DEF StatementsInv
<1>8. LeaksAreKnown'
  BY DEF LeaksAreKnown, Owns, IsOpen
<1>9. BelongsOrLost'
  BY DEF BelongsOrLost
<1>10. OnlyMovesHurt'
  BY DEF OnlyMovesHurt
<1>11. MapsInv'
  BY DEF MapsInv
<1> QED BY <1>1, <1>2, <1>3, <1>4, <1>5, <1>6, <1>7, <1>8, <1>9, <1>10, <1>11 DEF TypeOK

(* The destructor waits.                                                   *)
LEMMA SleepKeeps ==
  ASSUME IndInv, NEW c \in Conns, Sleep(c) PROVE IndInv'
<1> USE ConstAssumption DEF IndInv, Sleep, natives, connection, statement, history
<1>1. NativesType'
  BY DEF TypeOK, NativesType
<1>2. ConnectionType'
  BY DEF TypeOK, ConnectionType
<1>3. StatementType'
  BY DEF TypeOK, StatementType
<1>4. HistoryType'
  <2>1. lost' \subseteq Handles
    BY DEF TypeOK, HistoryType
  <2>2. moves' \in 0 .. MaxMoves
    BY DEF TypeOK, HistoryType
  <2>3. shared' \in BOOLEAN /\ undefined' \in BOOLEAN
    BY Zenon DEF TypeOK, HistoryType
  <2> QED BY <2>1, <2>2, <2>3 DEF HistoryType
<1>5. NativesInv'
  BY DEF NativesInv, Used
<1>6. HandlesInv'
  BY DEF HandlesInv
<1>7. StatementsInv'
  BY DEF StatementsInv
<1>8. LeaksAreKnown'
  BY DEF LeaksAreKnown, Owns, IsOpen
<1>9. BelongsOrLost'
  BY DEF BelongsOrLost
<1>10. OnlyMovesHurt'
  BY DEF OnlyMovesHurt
<1>11. MapsInv'
  BY DEF MapsInv
<1> QED BY <1>1, <1>2, <1>3, <1>4, <1>5, <1>6, <1>7, <1>8, <1>9, <1>10, <1>11 DEF TypeOK

(* A new connection has no handle.                                         *)
LEMMA ConstructKeeps ==
  ASSUME IndInv, NEW c \in Conns, Construct(c) PROVE IndInv'
<1> USE ConstAssumption DEF IndInv, Construct, natives, connection, statement, history
<1>1. NativesType'
  BY DEF TypeOK, NativesType
<1>2. ConnectionType'
  BY DEF TypeOK, ConnectionType
<1>3. StatementType'
  BY DEF TypeOK, StatementType
<1>4. HistoryType'
  <2>1. lost' \subseteq Handles
    BY DEF TypeOK, HistoryType
  <2>2. moves' \in 0 .. MaxMoves
    BY DEF TypeOK, HistoryType
  <2>3. shared' \in BOOLEAN /\ undefined' \in BOOLEAN
    BY Zenon DEF TypeOK, HistoryType
  <2> QED BY <2>1, <2>2, <2>3 DEF HistoryType
<1>5. NativesInv'
  BY DEF NativesInv, Used
<1>6. HandlesInv'
  BY DEF HandlesInv
<1>7. StatementsInv'
  BY DEF StatementsInv
<1>8. LeaksAreKnown'
  BY DEF LeaksAreKnown, Owns, IsOpen
<1>9. BelongsOrLost'
  BY DEF BelongsOrLost
<1>10. OnlyMovesHurt'
  BY DEF OnlyMovesHurt
<1>11. MapsInv'
  BY DEF MapsInv
<1> QED BY <1>1, <1>2, <1>3, <1>4, <1>5, <1>6, <1>7, <1>8, <1>9, <1>10, <1>11 DEF TypeOK

(* The destructor begins.                                                  *)
LEMMA DestroyKeeps ==
  ASSUME IndInv, NEW c \in Conns, Destroy(c) PROVE IndInv'
<1> USE ConstAssumption DEF IndInv, Destroy, natives, connection, statement, history
<1>1. NativesType'
  BY DEF TypeOK, NativesType
<1>2. ConnectionType'
  BY DEF TypeOK, ConnectionType
<1>3. StatementType'
  BY DEF TypeOK, StatementType
<1>4. HistoryType'
  <2>1. lost' \subseteq Handles
    BY DEF TypeOK, HistoryType
  <2>2. moves' \in 0 .. MaxMoves
    BY DEF TypeOK, HistoryType
  <2>3. shared' \in BOOLEAN /\ undefined' \in BOOLEAN
    BY Zenon DEF TypeOK, HistoryType
  <2> QED BY <2>1, <2>2, <2>3 DEF HistoryType
<1>5. NativesInv'
  BY DEF NativesInv, Used
<1>6. HandlesInv'
  BY DEF HandlesInv
<1>7. StatementsInv'
  BY DEF StatementsInv
<1>8. LeaksAreKnown'
  BY DEF LeaksAreKnown, Owns, IsOpen
<1>9. BelongsOrLost'
  BY DEF BelongsOrLost
<1>10. OnlyMovesHurt'
  BY DEF OnlyMovesHurt
<1>11. MapsInv'
  BY DEF MapsInv
<1> QED BY <1>1, <1>2, <1>3, <1>4, <1>5, <1>6, <1>7, <1>8, <1>9, <1>10, <1>11 DEF TypeOK

(* A moved handle has two owners; the one it replaces is lost.             *)
LEMMA MoveConnectionKeeps ==
  ASSUME IndInv, NEW c \in Conns, NEW d \in Conns, MoveConnection(c, d) PROVE IndInv'
<1> USE ConstAssumption DEF IndInv, MoveConnection, CountMove, natives, connection, statement, history
<1>1. NativesType'
  BY DEF TypeOK, NativesType
<1>2. ConnectionType'
  BY DEF TypeOK, ConnectionType
<1>3. StatementType'
  BY DEF TypeOK, StatementType
<1>4. HistoryType'
  <2>1. lost' \subseteq Handles
    BY DEF TypeOK, ConnectionType, HistoryType
  <2>2. moves' \in 0 .. MaxMoves
    BY DEF TypeOK, HistoryType
  <2>3. shared' \in BOOLEAN /\ undefined' \in BOOLEAN
    BY Zenon DEF TypeOK, HistoryType
  <2> QED BY <2>1, <2>2, <2>3 DEF HistoryType
<1>5. NativesInv'
  BY DEF NativesInv, Used
<1>6. HandlesInv'
  BY DEF TypeOK, ConnectionType, HandlesInv
<1>7. StatementsInv'
  BY DEF StatementsInv
<1>8. LeaksAreKnown'
  BY DEF LeaksAreKnown, Owns, IsOpen
<1>9. BelongsOrLost'
  BY DEF TypeOK, ConnectionType, StatementType, BelongsOrLost
<1>10. OnlyMovesHurt'
  BY DEF OnlyMovesHurt
<1>11. MapsInv'
  BY DEF MapsInv
<1> QED BY <1>1, <1>2, <1>3, <1>4, <1>5, <1>6, <1>7, <1>8, <1>9, <1>10, <1>11 DEF TypeOK

(* A new statement is not compiled.                                        *)
LEMMA ConstructStatementKeeps ==
  ASSUME IndInv, NEW s \in Stmts, NEW c \in Conns, ConstructStatement(s, c) PROVE IndInv'
<1> USE ConstAssumption DEF IndInv, ConstructStatement, natives, connection, statement, history
<1>1. NativesType'
  BY DEF TypeOK, NativesType
<1>2. ConnectionType'
  BY DEF TypeOK, ConnectionType
<1>3. StatementType'
  BY DEF TypeOK, StatementType
<1>4. HistoryType'
  <2>1. lost' \subseteq Handles
    BY DEF TypeOK, HistoryType
  <2>2. moves' \in 0 .. MaxMoves
    BY DEF TypeOK, HistoryType
  <2>3. shared' \in BOOLEAN /\ undefined' \in BOOLEAN
    BY Zenon DEF TypeOK, HistoryType
  <2> QED BY <2>1, <2>2, <2>3 DEF HistoryType
<1>5. NativesInv'
  BY DEF NativesInv, Used
<1>6. HandlesInv'
  BY DEF HandlesInv
<1>7. StatementsInv'
  BY DEF TypeOK, StatementType, StatementsInv
<1>8. LeaksAreKnown'
  BY DEF LeaksAreKnown, Owns, IsOpen
<1>9. BelongsOrLost'
  BY DEF TypeOK, StatementType, BelongsOrLost
<1>10. OnlyMovesHurt'
  BY DEF OnlyMovesHurt
<1>11. MapsInv'
  BY DEF TypeOK, StatementType, MapsInv
<1> QED BY <1>1, <1>2, <1>3, <1>4, <1>5, <1>6, <1>7, <1>8, <1>9, <1>10, <1>11 DEF TypeOK

(* A statement is compiled on the handle its connection has now.           *)
LEMMA PrepareKeeps ==
  ASSUME IndInv, NEW s \in Stmts, NEW n \in Compiled, Prepare(s, n) PROVE IndInv'
<1> USE ConstAssumption DEF IndInv
<1> DEFINE h == connection_[owner[s]]
<1>1. /\ Attached(s) /\ ~Used(n)
      /\ UNCHANGED <<handle, map, life, connection_, elapsed, slife, owner, parameters_,
                     lost, shared, moves>>
  BY DEF Prepare, NextCompiled, connection, history
<1>2. CASE /\ IsClosed(h) /\ undefined' = TRUE
           /\ UNCHANGED <<on, finalized, stmt_>>
  <2>1. shared /\ shared' \in BOOLEAN
    BY <1>1, <1>2 DEF TypeOK, Attached, HandlesInv, IsClosed, StatementType
  <2>2. OnlyMovesHurt'
    BY <1>1, <2>1 DEF OnlyMovesHurt
  <2>3. HistoryType'
    BY <1>1, <1>2 DEF TypeOK, HistoryType
  <2>4. NativesType' /\ ConnectionType' /\ StatementType'
    BY <1>1, <1>2 DEF TypeOK, NativesType, ConnectionType, StatementType
  <2>5. /\ NativesInv' /\ HandlesInv' /\ StatementsInv' /\ MapsInv'
        /\ LeaksAreKnown' /\ BelongsOrLost'
    BY <1>1, <1>2 DEF NativesInv, Used, HandlesInv, StatementsInv, MapsInv,
       LeaksAreKnown, BelongsOrLost, IsOpen, Owns
  <2> QED BY <2>2, <2>3, <2>4, <2>5 DEF TypeOK
<1>3. CASE /\ IsOpen(h)
           /\ on' = [m \in Compiled |-> IF m = n THEN h
                                       ELSE IF m = stmt_[s] THEN None ELSE on[m]]
           /\ Finalize(stmt_[s])
           /\ stmt_' = [stmt_ EXCEPT ![s] = n]
           /\ undefined' = (stmt_[s] \in finalized)
  <2> HIDE DEF h
  <2>1. h \in Handles /\ handle[h] = "open"
    BY <1>3 DEF IsOpen
  <2>2. slife[s] = "alive" /\ owner[s] \in Conns
    BY <1>1 DEF TypeOK, Attached, StatementType
  <2>3. on[n] = None /\ n \notin finalized
    BY <1>1 DEF Used
  <2>4. finalized' = IF stmt_[s] = None THEN finalized ELSE finalized \cup {stmt_[s]}
    BY <1>3 DEF Finalize
  <2>5. NativesType'
    BY <1>1, <1>3, <2>1, <2>4 DEF TypeOK, NativesType, StatementType
  <2>6. ConnectionType'
    BY <1>1 DEF TypeOK, ConnectionType
  <2>7. StatementType'
    BY <1>1, <1>3, <2>2 DEF TypeOK, StatementType
  <2>8. undefined' \in BOOLEAN
    <3>1. CASE stmt_[s] \in finalized
      BY <1>3, <3>1
    <3>2. CASE stmt_[s] \notin finalized
      BY <1>3, <3>2
    <3> QED BY <3>1, <3>2
  <2>9. HistoryType'
    BY <1>1, <2>8 DEF TypeOK, HistoryType
  <2>10. NativesInv'
    BY <1>1, <1>3, <2>1, <2>3, <2>4 DEF TypeOK, StatementType, NativesInv, Used
  <2>11. HandlesInv' /\ LeaksAreKnown'
    BY <1>1 DEF HandlesInv, LeaksAreKnown, IsOpen, Owns
  <2>12. StatementsInv'
    BY <1>1, <1>3, <2>1, <2>2, <2>3 DEF TypeOK, StatementType, StatementsInv
  <2>13. BelongsOrLost'
    <3> SUFFICES ASSUME NEW t \in Stmts, ~shared, slife[t] = "alive", stmt_'[t] # None
                 PROVE  on'[stmt_'[t]] = connection_[owner[t]] \/ on'[stmt_'[t]] \in lost
      BY <1>1 DEF BelongsOrLost
    <3>1. CASE t = s
      BY <1>3, <3>1 DEF TypeOK, h, StatementType
    <3>2. CASE t # s
      <4>1. stmt_'[t] = stmt_[t] /\ stmt_[t] \in Compiled
        BY <1>3, <3>2 DEF TypeOK, StatementType
      <4>2. stmt_[t] # n /\ stmt_[t] # stmt_[s]
        BY <2>2, <2>3, <3>2, <4>1 DEF StatementsInv
      <4>3. on'[stmt_[t]] = on[stmt_[t]]
        BY <1>3, <4>1, <4>2
      <4> QED BY <4>1, <4>3 DEF BelongsOrLost
    <3> QED BY <3>1, <3>2
  <2>14. OnlyMovesHurt'
    <3>1. ASSUME ~shared, stmt_[s] # None PROVE stmt_[s] \notin finalized
      <4>1. on[stmt_[s]] # None
        BY <2>2, <3>1 DEF StatementsInv
      <4>2. stmt_[s] \in Compiled
        BY <3>1 DEF TypeOK, StatementType
      <4> QED BY <4>1, <4>2 DEF NativesInv
    <3>2. None \notin finalized
      BY DEF TypeOK, NativesType
    <3> QED BY <1>1, <1>3, <3>1, <3>2 DEF OnlyMovesHurt
  <2>15. MapsInv'
    BY <1>1 DEF MapsInv
  <2> QED BY <2>5, <2>6, <2>7, <2>9, <2>10, <2>11, <2>12, <2>13, <2>14, <2>15 DEF TypeOK
<1> QED BY <1>2, <1>3 DEF Prepare

(* A new map belongs to the statement that allocates it.                   *)
LEMMA FillMapKeeps ==
  ASSUME IndInv, NEW s \in Stmts, NEW m \in Maps, FillMap(s, m) PROVE IndInv'
<1> USE ConstAssumption DEF IndInv, FillMap, Attached, natives, connection, statement, history
<1>1. NativesType'
  BY DEF TypeOK, NativesType
<1>2. ConnectionType'
  BY DEF TypeOK, ConnectionType
<1>3. StatementType'
  BY DEF TypeOK, StatementType
<1>4. HistoryType'
  <2>1. lost' \subseteq Handles
    BY DEF TypeOK, HistoryType
  <2>2. moves' \in 0 .. MaxMoves
    BY DEF TypeOK, HistoryType
  <2>3. shared' \in BOOLEAN /\ undefined' \in BOOLEAN
    BY Zenon DEF TypeOK, HistoryType
  <2> QED BY <2>1, <2>2, <2>3 DEF HistoryType
<1>5. NativesInv'
  BY DEF NativesInv, Used
<1>6. HandlesInv'
  BY DEF HandlesInv
<1>7. StatementsInv'
  BY DEF StatementsInv
<1>8. LeaksAreKnown'
  BY DEF LeaksAreKnown, Owns, IsOpen
<1>9. BelongsOrLost'
  BY DEF BelongsOrLost
<1>10. OnlyMovesHurt'
  BY DEF OnlyMovesHurt
<1>11. MapsInv'
  BY DEF TypeOK, NativesType, StatementType, MapsInv
<1> QED BY <1>1, <1>2, <1>3, <1>4, <1>5, <1>6, <1>7, <1>8, <1>9, <1>10, <1>11 DEF TypeOK

(* A statement in use is compiled and its handle is open.                  *)
LEMMA UseKeeps ==
  ASSUME IndInv, NEW s \in Stmts, Use(s) PROVE IndInv'
<1> USE ConstAssumption DEF IndInv, Use, Attached, natives, connection, statement, history
<1>1. NativesType'
  BY DEF TypeOK, NativesType
<1>2. ConnectionType'
  BY DEF TypeOK, ConnectionType
<1>3. StatementType'
  BY DEF TypeOK, StatementType
<1>4. HistoryType'
  <2>1. lost' \subseteq Handles
    BY DEF TypeOK, HistoryType
  <2>2. moves' \in 0 .. MaxMoves
    BY DEF TypeOK, HistoryType
  <2>3. shared' \in BOOLEAN /\ undefined' \in BOOLEAN
    BY Zenon DEF TypeOK, HistoryType
  <2> QED BY <2>1, <2>2, <2>3 DEF HistoryType
<1>5. NativesInv'
  BY DEF NativesInv, Used
<1>6. HandlesInv'
  BY DEF HandlesInv
<1>7. StatementsInv'
  BY DEF StatementsInv
<1>8. LeaksAreKnown'
  BY DEF LeaksAreKnown, Owns, IsOpen
<1>9. BelongsOrLost'
  BY DEF BelongsOrLost
<1>10. OnlyMovesHurt'
  <2>1. owner[s] \in Conns
    BY DEF TypeOK, StatementType
  <2>2. CASE stmt_[s] \in finalized
    BY <2>2 DEF TypeOK, NativesType, StatementType, OnlyMovesHurt, NativesInv, StatementsInv
  <2>3. CASE Deleted(parameters_[s])
    BY <2>3 DEF OnlyMovesHurt, MapsInv, Deleted
  <2>4. CASE IsClosed(connection_[owner[s]])
    BY <2>1, <2>4 DEF OnlyMovesHurt, HandlesInv, IsClosed
  <2> QED BY <2>2, <2>3, <2>4
<1>11. MapsInv'
  BY DEF MapsInv
<1> QED BY <1>1, <1>2, <1>3, <1>4, <1>5, <1>6, <1>7, <1>8, <1>9, <1>10, <1>11 DEF TypeOK

(* A statement is finalized by the one object that owns it.                *)
LEMMA DestroyStatementKeeps ==
  ASSUME IndInv, NEW s \in Stmts, DestroyStatement(s) PROVE IndInv'
<1> USE ConstAssumption DEF IndInv, DestroyStatement, Finalize, natives, connection, statement, history
<1>1. NativesType'
  BY DEF TypeOK, NativesType, StatementType
<1>2. ConnectionType'
  BY DEF TypeOK, ConnectionType
<1>3. StatementType'
  BY DEF TypeOK, StatementType
<1>4. HistoryType'
  <2>1. lost' \subseteq Handles
    BY DEF TypeOK, HistoryType
  <2>2. moves' \in 0 .. MaxMoves
    BY DEF TypeOK, HistoryType
  <2>3. shared' \in BOOLEAN /\ undefined' \in BOOLEAN
    <3>1. CASE stmt_[s] \in finalized
      BY <3>1 DEF TypeOK, HistoryType
    <3>2. CASE stmt_[s] \notin finalized
      BY <3>2 DEF TypeOK, HistoryType
    <3> QED BY <3>1, <3>2
  <2> QED BY <2>1, <2>2, <2>3 DEF HistoryType
<1>5. NativesInv'
  BY DEF TypeOK, StatementType, NativesInv, Used
<1>6. HandlesInv'
  BY DEF HandlesInv
<1>7. StatementsInv'
  BY DEF TypeOK, StatementType, StatementsInv
<1>8. LeaksAreKnown'
  BY DEF LeaksAreKnown, Owns, IsOpen
<1>9. BelongsOrLost'
  BY DEF TypeOK, StatementType, BelongsOrLost, StatementsInv
<1>10. OnlyMovesHurt'
  BY DEF TypeOK, NativesType, ConnectionType, HistoryType, OnlyMovesHurt,
     NativesInv, StatementsInv, MapsInv, Deleted
<1>11. MapsInv'
  BY DEF TypeOK, NativesType, StatementType, MapsInv
<1> QED BY <1>1, <1>2, <1>3, <1>4, <1>5, <1>6, <1>7, <1>8, <1>9, <1>10, <1>11 DEF TypeOK

(* A moved statement has two owners.                                       *)
LEMMA MoveStatementKeeps ==
  ASSUME IndInv, NEW s \in Stmts, NEW t \in Stmts, MoveStatement(s, t) PROVE IndInv'
<1> USE ConstAssumption DEF IndInv, MoveStatement, CountMove, natives, connection, statement, history
<1>1. NativesType'
  BY DEF TypeOK, NativesType
<1>2. ConnectionType'
  BY DEF TypeOK, ConnectionType
<1>3. StatementType'
  BY DEF TypeOK, StatementType
<1>4. HistoryType'
  <2>1. lost' \subseteq Handles
    BY DEF TypeOK, HistoryType
  <2>2. moves' \in 0 .. MaxMoves
    BY DEF TypeOK, HistoryType
  <2>3. shared' \in BOOLEAN /\ undefined' \in BOOLEAN
    BY Zenon DEF TypeOK, HistoryType
  <2> QED BY <2>1, <2>2, <2>3 DEF HistoryType
<1>5. NativesInv'
  BY DEF NativesInv, Used
<1>6. HandlesInv'
  BY DEF HandlesInv
<1>7. StatementsInv'
  BY DEF TypeOK, StatementType, StatementsInv
<1>8. LeaksAreKnown'
  BY DEF LeaksAreKnown, Owns, IsOpen
<1>9. BelongsOrLost'
  BY DEF TypeOK, StatementType, BelongsOrLost
<1>10. OnlyMovesHurt'
  BY DEF OnlyMovesHurt
<1>11. MapsInv'
  BY DEF TypeOK, StatementType, MapsInv
<1> QED BY <1>1, <1>2, <1>3, <1>4, <1>5, <1>6, <1>7, <1>8, <1>9, <1>10, <1>11 DEF TypeOK

(* Every step of the program keeps the invariant. *)
LEMMA NextIndInv == IndInv /\ [Next]_vars => IndInv'
<1> SUFFICES ASSUME IndInv, [Next]_vars PROVE IndInv'
  OBVIOUS
<1>1. CASE UNCHANGED vars
  BY <1>1 DEF TypeOK, vars, natives, connection, statement, history, IndInv,
     NativesType, ConnectionType, StatementType, HistoryType, NativesInv, Used,
     HandlesInv, StatementsInv, MapsInv, LeaksAreKnown, BelongsOrLost, OnlyMovesHurt,
     IsOpen, Owns
<1>2. ASSUME NEW c \in Conns, ConnectionStep(c) PROVE IndInv'
  BY <1>2, ConstructKeeps, OpenSucceedsKeeps, OpenFailsKeeps, DestroyKeeps,
     CloseKeeps, GiveUpKeeps, KeepTryingKeeps, SleepKeeps, MoveConnectionKeeps DEF ConnectionStep
<1>3. ASSUME NEW s \in Stmts, StatementStep(s) PROVE IndInv'
  BY <1>3, ConstructStatementKeeps, PrepareKeeps, FillMapKeeps, UseKeeps,
     DestroyStatementKeeps, MoveStatementKeeps DEF StatementStep
<1> QED BY <1>1, <1>2, <1>3 DEF Next

(* What the properties rest on holds in every state of the program, with   *)
(* any number of objects, handles, statements and moves.                   *)
THEOREM Inductive == Spec => []IndInv
<1>1. Init => IndInv
  BY InitIndInv
<1> QED BY <1>1, NextIndInv, PTL DEF Spec

(* As long as no native object is moved, none is closed or finalized twice *)
(* and none is used after its end.                                         *)
THEOREM NothingFreedTwice == Spec => []OnlyMovesHurt
<1>1. IndInv => OnlyMovesHurt
  BY DEF IndInv
<1> QED BY <1>1, Inductive, PTL

(* Every open handle has an owner, or was given up in one of three ways.   *)
THEOREM HandlesAreOwned == Spec => []LeaksAreKnown
<1>1. IndInv => LeaksAreKnown
  BY DEF IndInv
<1> QED BY <1>1, Inductive, PTL

(* A statement is on the handle its connection has, or on a leaked one.    *)
THEOREM StatementsBelong == Spec => []BelongsOrLost
<1>1. IndInv => BelongsOrLost
  BY DEF IndInv
<1> QED BY <1>1, Inductive, PTL
=============================================================================

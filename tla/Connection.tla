----------------------------- MODULE Connection -----------------------------
(***************************************************************************)
(* connection (src/connection.cpp) and the objects on the heap behind it:  *)
(* which object owns which sqlite3 handle, which compiled statement and    *)
(* which map of names, and when they are closed, finalized and deleted.    *)
(* Objects live on several threads: while the destructor of a connection   *)
(* retries sqlite3_close, others may still finalize their statements.      *)
(*                                                                         *)
(* A statement is used and prepared only while the connection object it    *)
(* points to exists; that is the caller's duty.  Its destructor does not   *)
(* touch the connection and may run at any time.  Once the program has     *)
(* closed a handle, finalized a statement or deleted a map twice, or used  *)
(* one afterwards, it is undefined what it does, and the model stops.      *)
(***************************************************************************)
EXTENDS Naturals

CONSTANTS Conns,     \* connection objects
          Stmts,     \* statement objects
          Handles,   \* bound: native sqlite3 handles, numbered as allocated
          Compiled,  \* bound: native sqlite3_stmt objects, likewise
          Maps,      \* bound: parameter_map objects, likewise
          None,      \* nullptr
          Timeout,   \* close_timeout, in units of the clock
          MaxMoves   \* bound: defaulted moves

ASSUME ConstAssumption ==
  /\ Handles \subseteq Nat /\ Compiled \subseteq Nat /\ Maps \subseteq Nat
  /\ None \notin Handles \cup Compiled \cup Maps \cup Conns
  /\ Timeout \in Nat /\ MaxMoves \in Nat

VARIABLES
  handle,       \* of a native handle: fresh, open or closed
  on,           \* of a compiled statement: its handle, or None
  finalized,    \* the compiled statements that were finalized
  map,          \* of a map of names: fresh, allocated or deleted
  life,         \* connection objects: raw, alive, dead, and in the destructor
                \* closing, refused, napping
  connection_,  \* connection_: the native handle
  elapsed,      \* steady_clock::now() - start, in the destructor
  slife,        \* statement objects: raw, alive, dead
  owner,        \* statement::connection_: the connection object
  stmt_,        \* stmt_: the compiled statement
  parameters_,  \* parameters_: the map of its names
  lost,         \* history: handles that were given up while open
  shared,       \* history: a native object was copied by a move
  undefined,    \* the program's behaviour is undefined from here on
  moves         \* the bounded counter

natives    == <<handle, on, finalized, map>>
connection == <<life, connection_, elapsed>>
statement  == <<slife, owner, stmt_, parameters_>>
history    == <<lost, shared>>
vars       == <<natives, connection, statement, history, undefined, moves>>

Init ==
  /\ handle = [h \in Handles |-> "fresh"]
  /\ on = [n \in Compiled |-> None]
  /\ finalized = {}
  /\ map = [m \in Maps |-> "fresh"]
  /\ life = [c \in Conns |-> "raw"]
  /\ connection_ = [c \in Conns |-> None]
  /\ elapsed = [c \in Conns |-> 0]
  /\ slife = [s \in Stmts |-> "raw"]
  /\ owner = [s \in Stmts |-> None]
  /\ stmt_ = [s \in Stmts |-> None]
  /\ parameters_ = [s \in Stmts |-> None]
  /\ lost = {}
  /\ shared = FALSE
  /\ undefined = FALSE
  /\ moves = 0

-----------------------------------------------------------------------------
(* SQLite: sqlite3_close refuses (SQLITE_BUSY) while statements compiled   *)
(* on the handle are not finalized.  On nullptr nothing happens.           *)

Busy(h)     == \E n \in Compiled : on[n] = h
IsOpen(h)   == h \in Handles /\ handle[h] = "open"
IsClosed(h) == h \in Handles /\ handle[h] = "closed"

ClosedBy(h) == IF IsOpen(h) /\ ~Busy(h) THEN {h} ELSE {}

NextHandle(h) ==
  handle[h] = "fresh" /\ \A g \in Handles : g < h => handle[g] # "fresh"
Used(n) == on[n] # None \/ n \in finalized

NextCompiled(n) == ~Used(n) /\ \A m \in Compiled : m < n => Used(m)

-----------------------------------------------------------------------------
(* connection *)

Construct(c) ==
  /\ life[c] = "raw"
  /\ life' = [life EXCEPT ![c] = "alive"]
  /\ UNCHANGED <<natives, connection_, elapsed, statement, history, undefined, moves>>

(* connection::open, SQLite having opened h: the old handle is closed, and *)
(* lost if SQLite refuses, since nobody looks at the answer.               *)
OpenSucceeds(c, h) ==
  LET old == connection_[c]
  IN  /\ life[c] = "alive"
      /\ NextHandle(h)
      /\ handle' = [g \in Handles |-> IF g \in ClosedBy(old) THEN "closed"
                                     ELSE IF g = h THEN "open" ELSE handle[g]]
      /\ connection_' = [connection_ EXCEPT ![c] = h]
      /\ lost' = IF IsOpen(old) /\ Busy(old) THEN lost \cup {old} ELSE lost
      /\ undefined' = IsClosed(old)
      /\ UNCHANGED <<on, finalized, map, life, elapsed, statement, shared, moves>>

(* Bug: the old handle is closed before the new one is opened. *)
OpenFails_ClosedFirst(c, h) ==
  /\ life[c] = "alive"
  /\ NextHandle(h)
  /\ handle' = [g \in Handles |-> IF g \in ClosedBy(connection_[c]) THEN "closed"
                                 ELSE IF g = h THEN "open" ELSE handle[g]]
  /\ lost' = lost \cup {h}
  /\ UNCHANGED <<on, finalized, map, connection, statement, shared, undefined, moves>>

(* Bug: connection_ is assigned although there is an error. *)
OpenFails_Assigned(c, h) ==
  /\ life[c] = "alive"
  /\ NextHandle(h)
  /\ handle' = [handle EXCEPT ![h] = "open"]
  /\ connection_' = [connection_ EXCEPT ![c] = h]
  /\ UNCHANGED <<on, finalized, map, life, elapsed, statement, history, undefined, moves>>

(* connection::open, SQLite having answered an error and, as it does       *)
(* unless it is out of memory, a handle nonetheless: nobody keeps it.      *)
OpenFails(c, h) ==
  /\ life[c] = "alive"
  /\ NextHandle(h)
  /\ handle' = [handle EXCEPT ![h] = "open"]
  /\ lost' = lost \cup {h}
  /\ UNCHANGED <<on, finalized, map, connection, statement, shared, undefined, moves>>

(* connection::~connection: one sqlite3_close at a time, with a look at    *)
(* the clock and a nap in between.                                         *)
Destroy(c) ==
  /\ life[c] = "alive"
  /\ life' = [life EXCEPT ![c] = "closing"]
  /\ UNCHANGED <<natives, connection_, elapsed, statement, history, undefined, moves>>

Close(c) ==
  LET h == connection_[c]
  IN  /\ life[c] = "closing"
      /\ handle' = [g \in Handles |-> IF g \in ClosedBy(h) THEN "closed" ELSE handle[g]]
      /\ life' = [life EXCEPT ![c] = IF IsOpen(h) /\ Busy(h) THEN "refused" ELSE "dead"]
      /\ elapsed' = [elapsed EXCEPT ![c] = IF IsOpen(h) /\ Busy(h) THEN @ ELSE 0]
      /\ undefined' = IsClosed(h)
      /\ UNCHANGED <<on, finalized, map, connection_, statement, history, moves>>

(* The clock is read, and time has passed since sqlite3_close was refused: *)
(* the deadline may be over by now, whatever it was before.                *)
GiveUp(c) ==
  /\ life[c] = "refused"
  /\ life' = [life EXCEPT ![c] = "dead"]
  /\ lost' = lost \cup {connection_[c]}
  /\ elapsed' = [elapsed EXCEPT ![c] = 0]
  /\ UNCHANGED <<natives, connection_, statement, shared, undefined, moves>>

KeepTrying(c) ==
  /\ life[c] = "refused"
  /\ \E t \in elapsed[c] .. Timeout : elapsed' = [elapsed EXCEPT ![c] = t]
  /\ life' = [life EXCEPT ![c] = "napping"]
  /\ UNCHANGED <<natives, connection_, statement, history, undefined, moves>>

(* Bug: the clock is read once. *)
Sleep_NoClock(c) ==
  /\ life[c] = "napping"
  /\ life' = [life EXCEPT ![c] = "closing"]
  /\ UNCHANGED <<natives, connection_, elapsed, statement, history, undefined, moves>>

(* Bug: after the last nap the handle is given up, not closed again. *)
Sleep_NoLastTry(c) ==
  /\ life[c] = "napping"
  /\ \E t \in elapsed[c] + 1 .. Timeout + 1 :
       /\ elapsed' = [elapsed EXCEPT ![c] = t]
       /\ life' = [life EXCEPT ![c] = IF t > Timeout THEN "dead" ELSE "closing"]
  /\ UNCHANGED <<natives, connection_, statement, history, undefined, moves>>

(* sleep_for(50ms), or longer; the clock stops where it does not matter.   *)
Sleep(c) ==
  /\ life[c] = "napping"
  /\ \E t \in elapsed[c] + 1 .. Timeout + 1 : elapsed' = [elapsed EXCEPT ![c] = t]
  /\ life' = [life EXCEPT ![c] = "closing"]
  /\ UNCHANGED <<natives, connection_, statement, history, undefined, moves>>

-----------------------------------------------------------------------------
(* statement: its compiled statement is finalized by a successful prepare  *)
(* and by the destructor.                                                  *)

ConstructStatement(s, c) ==
  /\ slife[s] = "raw"
  /\ life[c] = "alive"
  /\ slife' = [slife EXCEPT ![s] = "alive"]
  /\ owner' = [owner EXCEPT ![s] = c]
  /\ UNCHANGED <<natives, connection, stmt_, parameters_, history, undefined, moves>>

Attached(s) == slife[s] = "alive" /\ life[owner[s]] = "alive"

Finalize(n) == finalized' = IF n = None THEN finalized ELSE finalized \cup {n}

Prepare(s, n) ==
  LET h == connection_[owner[s]]
  IN  /\ Attached(s)
      /\ NextCompiled(n)
      /\ \/ /\ IsOpen(h)
            /\ on' = [m \in Compiled |-> IF m = n THEN h
                                         ELSE IF m = stmt_[s] THEN None ELSE on[m]]
            /\ Finalize(stmt_[s])
            /\ stmt_' = [stmt_ EXCEPT ![s] = n]
            /\ undefined' = (stmt_[s] \in finalized)
         \/ /\ IsClosed(h)
            /\ undefined' = TRUE
            /\ UNCHANGED <<on, finalized, stmt_>>
      /\ UNCHANGED <<handle, map, connection, slife, owner, parameters_, history, moves>>

(* fill_parameters_map: the first bind by name allocates the map, also for *)
(* an object that was never prepared.                                      *)
FillMap(s, m) ==
  /\ Attached(s)
  /\ parameters_[s] = None /\ stmt_[s] \notin finalized
  /\ map[m] = "fresh" /\ \A k \in Maps : k < m => map[k] # "fresh"
  /\ map' = [map EXCEPT ![m] = "allocated"]
  /\ parameters_' = [parameters_ EXCEPT ![s] = m]
  /\ UNCHANGED <<handle, on, finalized, connection, slife, owner, stmt_, history, undefined, moves>>

Deleted(m) == m \in Maps /\ map[m] = "deleted"

(* step, bind, get: they call SQLite with stmt_ and with the handle of the *)
(* connection object, as it is now, and look names up in the map.          *)
Use(s) ==
  /\ Attached(s)
  /\ \/ stmt_[s] \in finalized
     \/ Deleted(parameters_[s])
     \/ IsClosed(connection_[owner[s]])
  /\ undefined' = TRUE
  /\ UNCHANGED <<natives, connection, statement, history, moves>>

(* What a dead statement points to does not matter.                        *)
DestroyStatement(s) ==
  /\ slife[s] = "alive"
  /\ slife' = [slife EXCEPT ![s] = "dead"]
  /\ on' = [m \in Compiled |-> IF m = stmt_[s] THEN None ELSE on[m]]
  /\ Finalize(stmt_[s])
  /\ map' = [m \in Maps |-> IF m = parameters_[s] THEN "deleted" ELSE map[m]]
  /\ undefined' = (stmt_[s] \in finalized \/ Deleted(parameters_[s]))
  /\ owner' = [owner EXCEPT ![s] = None]
  /\ stmt_' = [stmt_ EXCEPT ![s] = None]
  /\ parameters_' = [parameters_ EXCEPT ![s] = None]
  /\ UNCHANGED <<handle, connection, history, moves>>

-----------------------------------------------------------------------------
(* The defaulted moves copy the pointers and leave the source as it is;    *)
(* move assignment forgets what the target had.                            *)

CountMove == moves < MaxMoves /\ moves' = moves + 1

MoveConnection(c, d) ==
  /\ CountMove
  /\ c # d /\ life[c] = "alive" /\ life[d] \in {"raw", "alive"}
  /\ life' = [life EXCEPT ![d] = "alive"]
  /\ connection_' = [connection_ EXCEPT ![d] = connection_[c]]
  /\ lost' = IF connection_[d] = None THEN lost ELSE lost \cup {connection_[d]}
  /\ shared' = (shared \/ connection_[c] # None)
  /\ UNCHANGED <<natives, elapsed, statement, undefined>>

MoveStatement(s, t) ==
  /\ CountMove
  /\ s # t /\ slife[s] = "alive" /\ slife[t] \in {"raw", "alive"}
  /\ slife' = [slife EXCEPT ![t] = "alive"]
  /\ owner' = [owner EXCEPT ![t] = owner[s]]
  /\ stmt_' = [stmt_ EXCEPT ![t] = stmt_[s]]
  /\ parameters_' = [parameters_ EXCEPT ![t] = parameters_[s]]
  /\ shared' = (shared \/ stmt_[s] # None \/ parameters_[s] # None)
  /\ UNCHANGED <<natives, connection, lost, undefined>>

ConnectionStep(c) ==
  \/ Construct(c)
  \/ \E h \in Handles : OpenSucceeds(c, h) \/ OpenFails(c, h)
  \/ Destroy(c)
  \/ Close(c)
  \/ GiveUp(c)
  \/ KeepTrying(c)
  \/ Sleep(c)
  \/ \E d \in Conns : MoveConnection(c, d)

StatementStep(s) ==
  \/ \E c \in Conns : ConstructStatement(s, c)
  \/ \E n \in Compiled : Prepare(s, n)
  \/ \E m \in Maps : FillMap(s, m)
  \/ Use(s)
  \/ DestroyStatement(s)
  \/ \E t \in Stmts : MoveStatement(s, t)

Next ==
  /\ ~undefined
  /\ \/ \E c \in Conns : ConnectionStep(c)
     \/ \E s \in Stmts : StatementStep(s)

Spec == Init /\ [][Next]_vars

(* The thread inside a destructor goes on.  Nobody has to call anything.   *)
InDestructor(c) == Close(c) \/ GiveUp(c) \/ KeepTrying(c) \/ Sleep(c)

Fairness == \A c \in Conns : WF_vars(~undefined /\ InDestructor(c))

FairSpec == Spec /\ Fairness
-----------------------------------------------------------------------------

NativesType ==
  /\ handle \in [Handles -> {"fresh", "open", "closed"}]
  /\ on \in [Compiled -> Handles \cup {None}]
  /\ finalized \subseteq Compiled
  /\ map \in [Maps -> {"fresh", "allocated", "deleted"}]

ConnectionType ==
  /\ life \in [Conns -> {"raw", "alive", "closing", "refused", "napping", "dead"}]
  /\ connection_ \in [Conns -> Handles \cup {None}]
  /\ elapsed \in [Conns -> 0 .. Timeout + 1]
  /\ \A c \in Conns : /\ life[c] = "raw" => connection_[c] = None
                      /\ life[c] = "refused" => connection_[c] \in Handles
                      /\ life[c] = "napping" => elapsed[c] <= Timeout

StatementType ==
  /\ slife \in [Stmts -> {"raw", "alive", "dead"}]
  /\ owner \in [Stmts -> Conns \cup {None}]
  /\ stmt_ \in [Stmts -> Compiled \cup {None}]
  /\ parameters_ \in [Stmts -> Maps \cup {None}]
  /\ \A s \in Stmts : IF slife[s] = "alive" THEN owner[s] \in Conns
                      ELSE stmt_[s] = None /\ parameters_[s] = None

HistoryType ==
  /\ lost \subseteq Handles
  /\ shared \in BOOLEAN /\ undefined \in BOOLEAN
  /\ moves \in 0 .. MaxMoves

(* The types of natives, objects and history. *)
TypeOK == NativesType /\ ConnectionType /\ StatementType /\ HistoryType

Owns(c, h) == life[c] # "dead" /\ connection_[c] = h

(* No handle is closed, no statement finalized and no map deleted twice,   *)
(* and none is used afterwards, however connections are reopened, fail to  *)
(* open and are destroyed before their statements: only a move of an       *)
(* object that has one can make the program's behaviour undefined.         *)
OnlyMovesHurt == undefined => shared

(* A handle that is open belongs to a connection object, or was given up   *)
(* in one of the known ways: its opening failed, sqlite3_close refused to  *)
(* close it, or its owner was assigned over.                               *)
LeaksAreKnown ==
  \A h \in Handles : IsOpen(h) => h \in lost \/ \E c \in Conns : Owns(c, h)

(* statement.h: "Database connection, this statement belongs to".  As long *)
(* as nothing is moved, a statement is compiled on the handle that its     *)
(* connection has now, unless that connection was opened again: then the   *)
(* statement's errors and counts are asked of another handle.              *)
BelongsOrLost ==
  \A s \in Stmts :
    ~shared /\ slife[s] = "alive" /\ stmt_[s] # None =>
      \/ on[stmt_[s]] = connection_[owner[s]]
      \/ on[stmt_[s]] \in lost

(* What the properties rest on.  A handle with statements on it is open; a *)
(* finalized statement is on no handle; as long as nothing is shared, each *)
(* native object belongs to one object, which has it open.                 *)
NativesInv ==
  /\ \A n \in Compiled : on[n] # None => handle[on[n]] = "open" /\ n \notin finalized
  /\ \A s \in Stmts : stmt_[s] # None => Used(stmt_[s])

HandlesInv ==
  \A c \in Conns :
    connection_[c] # None /\ life[c] # "dead" /\ ~shared =>
      /\ handle[connection_[c]] = "open"
      /\ \A d \in Conns : connection_[d] = connection_[c] /\ life[d] # "dead" => c = d

StatementsInv ==
  \A s \in Stmts :
    stmt_[s] # None /\ slife[s] = "alive" /\ ~shared =>
      /\ on[stmt_[s]] \in Handles
      /\ \A t \in Stmts : stmt_[t] = stmt_[s] /\ slife[t] = "alive" => s = t

MapsInv ==
  \A s \in Stmts :
    parameters_[s] # None =>
      /\ map[parameters_[s]] # "fresh"
      /\ slife[s] = "alive" /\ ~shared =>
           /\ map[parameters_[s]] = "allocated"
           /\ \A t \in Stmts : parameters_[t] = parameters_[s] /\ slife[t] = "alive" => s = t

IndInv == /\ TypeOK /\ NativesInv /\ HandlesInv /\ StatementsInv /\ MapsInv
          /\ LeaksAreKnown /\ BelongsOrLost /\ OnlyMovesHurt

(* The destructor of a connection ends, at the latest after its timeout.   *)
DestructorReturns ==
  \A c \in Conns : life[c] = "closing" ~> life[c] = "dead" \/ undefined

(* It closes the handle if the last statement is finalized before the      *)
(* destructor calls sqlite3_close or while it naps, even if the nap ends   *)
(* after the deadline.  Only between a refusal and the look at the clock   *)
(* that gives up is the last statement too late.                           *)
ClosedInTime ==
  \A c \in Conns :
    (/\ IsOpen(connection_[c]) /\ ~Busy(connection_[c])
     /\ life[c] \in {"closing", "napping"})
    ~> IsClosed(connection_[c]) \/ shared
=============================================================================

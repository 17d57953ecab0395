------------------------------ MODULE SyncServer ------------------------------
(***************************************************************************)
(* The synchronization server: the durable operation log and snapshot      *)
(* cache of one document (apps/server/src/operation-store.ts,              *)
(* server-snapshot.ts) and the handlers of its connections                 *)
(* (sync-server.ts).  One Node.js process and synchronous SQLite calls:    *)
(* every handler runs to its end before the next one starts.               *)
(***************************************************************************)
EXTENDS Transport

CONSTANTS
  SnapshotThreshold,  \* SNAPSHOT_OPERATION_THRESHOLD
  Elsewhere           \* rows that other documents may take between two of this one

ASSUME SnapshotAssumption == SnapshotThreshold \in Nat \ {0}
ASSUME ElsewhereAssumption == Elsewhere \subseteq Nat

VARIABLES
  log,          \* the document's rows, by server_seq
  snapshotSeq   \* server_snapshots row of the document, 0 when there is none

serverVars == <<log, snapshotSeq>>

ServerInit ==
  /\ log = <<>>
  /\ snapshotSeq = 0

Rows == Range(log)

\* SELECT MAX(server_seq) of the document
LatestServerSeq == IF log = <<>> THEN 0 ELSE log[Len(log)].serverSeq

\* Mutant: one row per query.
RowsAfterLimitOne(seq) ==
  {row \in Rows : /\ row.serverSeq > seq
                  /\ \A other \in Rows : other.serverSeq > seq =>
                                           row.serverSeq <= other.serverSeq}

\* Mutant: off by one.
RowsAfterNext(seq) == {row \in Rows : row.serverSeq > seq + 1}

RowsAfter(seq) == {row \in Rows : row.serverSeq > seq}

PrefixThrough(seq) ==
  OperationsOf({row \in Rows : row.serverSeq <= seq})

\* The snapshot row after prepareSnapshotBootstrap.  The cache is rebuilt at
\* the barrier when enough operations follow it, unless the prefix has
\* unresolved operations; then the cached one, if any, is used.
PreparedSnapshotSeq ==
  IF /\ Cardinality(RowsAfter(snapshotSeq)) >= SnapshotThreshold
     /\ DependenciesClosed(PrefixThrough(LatestServerSeq))
  THEN LatestServerSeq
  ELSE snapshotSeq

\* joinSocket and buildSyncMessage.  The socket is in the room before the
\* batch is read, and the batch goes out before any later broadcast.
ReceiveJoin(k) ==
  /\ ServerTakes(k)
  /\ Head(up[k]).type = "join"
  /\ LET cursor  == Head(up[k]).lastServerSeq
         capable == Head(up[k]).snapshotCapable /\ cursor = 0
     IN  IF session[k] = "joined" \/ cursor > LatestServerSeq
         THEN /\ ServerSends({k}, ErrorMessage)
              /\ UNCHANGED <<session, snapshotSeq>>
         ELSE /\ session' = [session EXCEPT ![k] = "joined"]
              /\ snapshotSeq' = IF capable THEN PreparedSnapshotSeq
                                           ELSE snapshotSeq
              /\ ServerSends({k},
                   IF capable /\ snapshotSeq' > 0
                   THEN SyncMessage(RowsAfter(snapshotSeq'), LatestServerSeq,
                                    snapshotSeq', PrefixThrough(snapshotSeq'))
                   ELSE SyncMessage(RowsAfter(cursor), LatestServerSeq, 0, {}))
  /\ UNCHANGED <<link, log>>

\* Mutant: no UNIQUE (document_id, op_id).
SameIdentityNever(operation) == {}

SameIdentity(operation) == {row \in Rows : row.operation.id = operation.id}

\* acceptOperation of a new operation: durable first, then the broadcast to
\* the room, the sender included.  server_seq is the AUTOINCREMENT row id that
\* all documents share, so the next row can come after a gap.
AppendSubmitted(k) ==
  /\ ServerTakes(k)
  /\ Head(up[k]).type = "submit-operation"
  /\ session[k] = "joined"
  /\ SameIdentity(Head(up[k]).operation) = {}
  /\ \E elsewhere \in Elsewhere :
       LET row == [serverSeq |-> LatestServerSeq + elsewhere + 1,
                   operation |-> Head(up[k]).operation]
       IN  /\ log' = Append(log, row)
           /\ ServerSends({r \in Connections : session[r] = "joined"},
                          OperationMessage(row))
  /\ UNCHANGED <<link, session, snapshotSeq>>

\* acceptOperation of an operation already in the log: the sender alone is
\* told the sequence number it has, or that its identity is taken.
ReceiveDuplicate(k) ==
  /\ ServerTakes(k)
  /\ Head(up[k]).type = "submit-operation"
  /\ session[k] = "joined"
  /\ \E row \in SameIdentity(Head(up[k]).operation) :
       ServerSends({k}, IF row.operation = Head(up[k]).operation
                        THEN OperationMessage(row)
                        ELSE ErrorMessage)
  /\ UNCHANGED <<link, session, serverVars>>

\* NOT_JOINED
RejectSubmit(k) ==
  /\ ServerTakes(k)
  /\ Head(up[k]).type = "submit-operation"
  /\ session[k] # "joined"
  /\ ServerSends({k}, ErrorMessage)
  /\ UNCHANGED <<link, session, serverVars>>

\* The server learns that the browser's end is gone; what it had not read of
\* the connection is lost.
ServerSocketClosed(k) ==
  /\ session[k] # "none"
  /\ link[k] \in {"closed", "closing"}
  /\ session' = [session EXCEPT ![k] = "none"]
  /\ up' = [up EXCEPT ![k] = <<>>]
  /\ UNCHANGED <<link, down, serverVars>>

\* Mutant: the log lives in memory.
ServerRestartsEmpty ==
  /\ session' = [k \in Connections |-> "none"]
  /\ up' = [k \in Connections |-> <<>>]
  /\ log' = <<>>
  /\ UNCHANGED <<link, down, snapshotSeq>>

\* The process stops and starts again: the tables survive, nothing else does.
ServerRestarts ==
  /\ session' = [k \in Connections |-> "none"]
  /\ up' = [k \in Connections |-> <<>>]
  /\ UNCHANGED <<link, down, serverVars>>
===============================================================================

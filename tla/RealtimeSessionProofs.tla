----------------------- MODULE RealtimeSessionProofs -----------------------
(***************************************************************************)
(* Proofs about RealtimeSession, for every value of its constants.         *)
(***************************************************************************)
EXTENDS RealtimeSession, FiniteSetTheorems, SequenceTheorems, TLAPS

(***************************************************************************)
(* Each part of TypeOK survives a step that leaves its variables alone.    *)
(***************************************************************************)
\* The ids are those of the authored messages and of nothing else.
LEMMA SameIds == issued' = issued => Ids' = Ids
  BY DEF Ids

\* No row, revocation or log entry changed: the database stays typed.
LEMMA DbFrame ==
  ASSUME DbTyped, row' = row, revoked' = revoked, events' = events, Ids \subseteq Ids'
  PROVE  DbTyped'
  BY DEF DbTyped, Rows

\* Neither the snapshot nor the dedup set changed: memory stays typed.
LEMMA MemFrame ==
  ASSUME MemTyped, mem' = mem, processed' = processed, Ids \subseteq Ids'
  PROVE  MemTyped'
  BY DEF MemTyped, Snapshots, Row!SESSION_STATES

\* The loop and the worker thread did not move: both stay typed.
LEMMA LoopFrame ==
  ASSUME LoopTyped, h' = h, rest' = rest, Ids \subseteq Ids',
         \A e \in Ids : issued'[e] = issued[e]
  PROVE  LoopTyped'
<1>1. h \in LoopStates'
  BY DEF LoopTyped, LoopStates, Pcs, Rows
<1> QED
  BY <1>1 DEF LoopTyped

\* A record of the loop that is typed now is typed later.
LEMMA LoopKeeps ==
  ASSUME LoopTyped, h' \in LoopStates, rest' = rest, issued' = issued, Ids' = Ids,
         h'.kind = "event" => h'.ev \in Ids,
         h'.pc \in {"checked", "persisted", "syncing", "apply"} => h'.kind = "event",
         h'.pc \in {"persisted", "syncing"} => issued[h'.ev].type \in Lifecycle
  PROVE  LoopTyped'
<1>1. h' \in LoopStates'
  BY DEF LoopStates, Pcs, Rows
<1> QED
  BY <1>1 DEF LoopTyped

\* The clients' own records, their sockets and their order stay typed.
LEMMA ClientsKeep ==
  ASSUME ClientsTyped, issued' = issued,
         client' \in [Roles -> Clients], wire' \in [Roles -> Seq(Ids)],
         presence' \in [Roles -> Presences], grace' \subseteq Roles
  PROVE  ClientsTyped'
<1>1. Ids' = Ids
  BY SameIds
<1>2. Clients' = Clients
  BY <1>1 DEF Clients
<1> QED
  BY <1>1, <1>2 DEF ClientsTyped, Frames, Presences, Types

\* The clients did not move: they stay typed.
LEMMA ClientsFrame ==
  ASSUME ClientsTyped, issued' = issued, client' = client, wire' = wire,
         presence' = presence, grace' = grace
  PROVE  ClientsTyped'
<1>1. /\ client' \in [Roles -> Clients] /\ wire' \in [Roles -> Seq(Ids)]
      /\ presence' \in [Roles -> Presences] /\ grace' \subseteq Roles
  BY DEF ClientsTyped
<1> QED
  BY <1>1, ClientsKeep

\* The histories and the bounds stay typed while nothing is authored.
LEMMA HistoryKeeps ==
  ASSUME HistoryTyped, issued' = issued,
         acks' \in [{"accepted", "duplicate", "rejected"} -> SUBSET Ids],
         applied' \in Seq(Nat), Len(applied') = Len(applied),
         moves' \in Seq(Nat), Len(moves') = Len(moves), budget' \in Budgets
  PROVE  HistoryTyped'
<1>1. Ids' = Ids
  BY SameIds
<1> QED
  BY <1>1 DEF HistoryTyped, Budgets

\* Only the bounds changed: the histories stay typed.
LEMMA HistoryFrame ==
  ASSUME HistoryTyped, issued' = issued, acks' = acks, applied' = applied,
         moves' = moves, budget' = budget \/ budget' \in Budgets
  PROVE  HistoryTyped'
<1>1. /\ acks' \in [{"accepted", "duplicate", "rejected"} -> SUBSET Ids]
      /\ applied' \in Seq(Nat) /\ moves' \in Seq(Nat) /\ budget' \in Budgets
  BY DEF HistoryTyped
<1> QED
  BY <1>1, HistoryKeeps

(***************************************************************************)
(* The operators the actions share.                                        *)
(***************************************************************************)
\* The loop at rest is a state of the loop.
LEMMA IdleTyped ==
  /\ NoTx \in Rows
  /\ LoopIdle \in LoopStates /\ LoopIdle.kind = "grace" /\ LoopIdle.pc = "idle"
<1>1. NoTx \in Rows
  BY DEF NoTx, Rows
<1> QED
  BY <1>1, ConstantsOK DEF LoopIdle, LoopStates, ConstantsOK, Pcs

\* A step that ends the frame leaves the loop typed.
LEMMA IdleKeeps ==
  ASSUME LoopTyped, h' = LoopIdle, rest' = rest, issued' = issued, Ids' = Ids
  PROVE  LoopTyped'
<1>1. h' \in LoopStates /\ h'.kind = "grace" /\ h'.pc = "idle"
  BY IdleTyped
<1> QED
  BY <1>1, LoopKeeps

\* Moving on to the next step of the same frame keeps the loop typed.
LEMMA GoToKeeps ==
  ASSUME LoopTyped, NEW pc \in Pcs, GoTo(pc), rest' = rest, issued' = issued, Ids' = Ids,
         pc \in {"checked", "persisted", "syncing", "apply"} => h.kind = "event",
         pc \in {"persisted", "syncing"} => issued[h.ev].type \in Lifecycle
  PROVE  LoopTyped'
<1>1. h \in LoopStates /\ (h.kind = "event" => h.ev \in Ids)
  BY DEF LoopTyped
<1>2. h' \in LoopStates /\ h'.kind = h.kind /\ h'.ev = h.ev /\ h'.pc = pc
  BY <1>1, IdleTyped DEF GoTo, LoopStates
<1> QED
  BY <1>1, <1>2, LoopKeeps

\* Reading the row into a transaction keeps the loop typed.
LEMMA ReadKeeps ==
  ASSUME LoopTyped, DbTyped, NEW pc \in Pcs, NEW next \in {"evaluate", "dispatch"},
         ReadRow(pc, next), rest' = rest, issued' = issued, Ids' = Ids,
         pc \in {"checked", "persisted", "syncing", "apply"} => h.kind = "event",
         pc \in {"persisted", "syncing"} => issued[h.ev].type \in Lifecycle
  PROVE  LoopTyped'
<1>1. h \in LoopStates /\ (h.kind = "event" => h.ev \in Ids) /\ row \in Rows
  BY DEF LoopTyped, DbTyped
<1>2. h' \in LoopStates /\ h'.kind = h.kind /\ h'.ev = h.ev /\ h'.pc = pc
  BY <1>1 DEF ReadRow, LoopStates
<1> QED
  BY <1>1, <1>2, LoopKeeps

\* Writing back a row that was read leaves a row.
LEMMA WriteTyped ==
  ASSUME LoopTyped, NEW target \in {"created", "starting", "active", "paused", "ended"},
         WriteRow(target)
  PROVE  row' \in Rows
<1>1. h.tx \in Rows
  BY DEF LoopTyped, LoopStates
<1> QED
  BY <1>1 DEF WriteRow, Rows

\* A failure spends one of the failures that are left.
LEMMA FaultTyped == ASSUME HistoryTyped, Fault PROVE budget' \in Budgets
  BY DEF HistoryTyped, Fault, Budgets

\* A drop spends one of the drops that are left, when they are counted.
LEMMA DropTyped == ASSUME HistoryTyped, SpendDrop PROVE budget' \in Budgets
  BY DEF HistoryTyped, SpendDrop, Budgets

\* A snapshot whose start has come is a snapshot.
LEMMA ActiveTyped == \A m \in Snapshots : Active(m) \in Snapshots
  BY DEF Active, Snapshots, Row!SESSION_STATES

\* Every answer keeps the loop, the clients and the answers typed.
LEMMA ReplyTyped ==
  ASSUME TypeOK, h.kind = "event",
         NEW answer \in {"accepted", "duplicate", "rejected"}, Reply(answer)
  PROVE  /\ LoopTyped' /\ ClientsTyped' /\ Ids' = Ids /\ h.ev \in Ids
         /\ acks' \in [{"accepted", "duplicate", "rejected"} -> SUBSET Ids]
         /\ issued' = issued /\ revoked' = revoked
<1>1. LoopTyped /\ ClientsTyped /\ HistoryTyped
  BY DEF TypeOK
<1>2. h.ev \in Ids /\ h.role \in Roles
  BY <1>1 DEF LoopTyped, LoopStates
<1>3. issued' = issued /\ rest' = rest /\ h' = LoopIdle /\ revoked' = revoked
  BY DEF Reply
<1>4. Ids' = Ids
  BY <1>3, SameIds
<1>5. LoopTyped'
  BY <1>1, <1>3, <1>4, IdleKeeps
<1>6. acks' \in [{"accepted", "duplicate", "rejected"} -> SUBSET Ids]
  BY <1>1, <1>2 DEF Reply, HistoryTyped
<1>7. client' \in [Roles -> Clients]
  <2>1. client \in [Roles -> Clients]
    BY <1>1 DEF ClientsTyped
  <2> DEFINE c == client[h.role]
             n(x) == [c EXCEPT !.pending = @ \ {h.ev}, !.rev = x]
  <2>2. \A x \in Nat : n(x) \in Clients
    BY <2>1, <1>2 DEF Clients
  <2>3. c.rev \in Nat /\ c.rev + 1 \in Nat
    BY <2>1, <1>2 DEF Clients
  <2>4. \/ client' = client
        \/ client' = [client EXCEPT ![h.role] = n(c.rev)]
        \/ client' = [client EXCEPT ![h.role] = n(c.rev + 1)]
    BY <2>1, <1>2 DEF Reply, Clients
  <2> QED
    BY <2>1, <2>2, <2>3, <2>4, <1>2
<1>8. /\ wire' \in [Roles -> Seq(Ids)] /\ presence' \in [Roles -> Presences]
      /\ grace' \subseteq Roles
  BY <1>1 DEF Reply, ClientsTyped
<1>9. ClientsTyped'
  BY <1>1, <1>3, <1>7, <1>8, ClientsKeep
<1> QED
  BY <1>2, <1>3, <1>4, <1>5, <1>6, <1>9

\* A client that is told nothing more keeps its record, less the admission.
LEMMA NotAdmitted ==
  ASSUME ClientsTyped, NEW r \in Roles
  PROVE  /\ [client EXCEPT ![r].admitted = FALSE] \in [Roles -> Clients]
         /\ [client[r] EXCEPT !.admitted = FALSE] \in Clients
         /\ [wire EXCEPT ![r] = <<>>] \in [Roles -> Seq(Ids)]
<1>1. client \in [Roles -> Clients] /\ wire \in [Roles -> Seq(Ids)]
  BY DEF ClientsTyped
<1>2. [client[r] EXCEPT !.admitted = FALSE] \in Clients
  BY <1>1 DEF Clients
<1>3. [client EXCEPT ![r] = [client[r] EXCEPT !.admitted = FALSE]] \in [Roles -> Clients]
  BY <1>1, <1>2
<1>4. <<>> \in Seq(Ids)
  BY EmptySeq
<1> QED
  BY <1>1, <1>2, <1>3, <1>4

\* A socket left without a handler is still a socket of its role.
LEMMA OrphanedTyped ==
  ASSUME ClientsTyped, NEW r \in Roles, Orphaned(r), UNCHANGED <<issued, grace>>
  PROVE  ClientsTyped'
<1>1. presence' \in [Roles -> Presences] /\ grace' \subseteq Roles
  BY DEF ClientsTyped, Orphaned, Presences
<1> QED
  BY <1>1, NotAdmitted, ClientsKeep DEF Orphaned

\* A closed socket leaves its client with record c and its check pending.
LEMMA DropKeeps ==
  ASSUME ClientsTyped, NEW r \in Roles, NEW c \in Clients, Drop(r, c)
  PROVE  ClientsTyped'
<1>1. presence' \in [Roles -> Presences] /\ grace' \subseteq Roles
  BY DEF ClientsTyped, Drop, Presences
<1>2. client' \in [Roles -> Clients]
  BY DEF ClientsTyped, Drop
<1> QED
  BY <1>1, <1>2, NotAdmitted, ClientsKeep DEF Drop

\* A frame that arrives is handled with the row and the clients as they are.
LEMMA InboundKeeps ==
  ASSUME TypeOK, NEW r \in Roles, NEW kind \in {"ping", "hello", "event"},
         NEW e \in Ids \cup {0}, kind = "event" => e \in Ids, Inbound(r, kind, e),
         wire' \in [Roles -> Seq(Ids)]
  PROVE  TypeOK'
<1>0. DbTyped /\ MemTyped /\ LoopTyped /\ ClientsTyped /\ HistoryTyped
  BY DEF TypeOK
<1>1. issued' = issued /\ Ids' = Ids
  BY SameIds DEF Inbound
<1>2. DbTyped'
  BY <1>0, <1>1, DbFrame DEF Inbound, dbVars
<1>3. MemTyped'
  BY <1>0, <1>1, MemFrame DEF Inbound, memVars
<1>4. LoopTyped'
  <2>1. h' = [LoopIdle EXCEPT !.pc = "evaluate", !.kind = kind, !.role = r, !.ev = e]
    BY DEF Inbound
  <2>2. h' \in LoopStates /\ h'.kind = kind /\ h'.ev = e /\ h'.pc = "evaluate"
    BY <2>1, IdleTyped DEF LoopStates, Pcs
  <2>3. rest' = rest
    BY DEF Inbound
  <2> QED
    BY <1>0, <1>1, <2>2, <2>3, LoopKeeps
<1>5. ClientsTyped'
  <2>1. /\ presence' \in [Roles -> Presences] /\ grace' \subseteq Roles
        /\ client' \in [Roles -> Clients]
    BY <1>0 DEF Inbound, ClientsTyped, Presences
  <2> QED
    BY <1>0, <1>1, <2>1, ClientsKeep
<1>6. HistoryTyped'
  BY <1>0, <1>1, HistoryFrame DEF Inbound, histVars
<1> QED
  BY <1>2, <1>3, <1>4, <1>5, <1>6 DEF TypeOK

\* The replay of a client's pending messages is a sequence of ids.
LEMMA InOrderTyped ==
  ASSUME NEW S, S \subseteq Ids, issued \in Seq(Frames), NEW q \in InOrder(S)
  PROVE  q \in Seq(Ids)
<1>1. Len(issued) \in Nat
  BY LenProperties
<1>2. IsFiniteSet(Ids)
  BY <1>1, FS_Interval DEF Ids
<1>3. Cardinality(S) \in Nat
  BY <1>2, FS_Subset, FS_CardinalityType
<1>4. q \in [1 .. Cardinality(S) -> S]
  BY DEF InOrder
<1>5. q \in [1 .. Cardinality(S) -> Ids]
  BY <1>4
<1> QED
  BY <1>3, <1>5, SeqDef

\* What a message makes of the snapshot is a snapshot.
LEMMA UpdatedTyped ==
  ASSUME TypeOK, h.ev \in Ids
  PROVE  Updated(issued[h.ev]) \in Snapshots
<1>1. mem \in Snapshots /\ h.tx.rev \in Nat
  BY DEF TypeOK, MemTyped, LoopTyped, LoopStates, Rows
<1>2. ResolvedInMemory \in Snapshots
  BY <1>1, ActiveTyped DEF ResolvedInMemory
<1> DEFINE f == issued[h.ev]
           m == ResolvedInMemory
           n == IF f.type \in Bumping THEN [m EXCEPT !.rev = @ + 1] ELSE m
<1>3. n \in Snapshots
  BY <1>2 DEF Snapshots
<1>4. CASE f.type \in Lifecycle
  <2>1. Target(f.type) \in Row!SESSION_STATES
    BY <1>4 DEF Lifecycle, Target, Row!SESSION_STATES
  <2>2. Larger(n.rev, h.tx.rev) \in Nat
    BY <1>1, <1>3 DEF Larger, Snapshots
  <2>3. Updated(f) = [n EXCEPT !.state = Target(f.type), !.due = FALSE,
                               !.rev = Larger(n.rev, h.tx.rev)]
    BY <1>3, <1>4 DEF Updated, Snapshots
  <2> QED
    BY <1>3, <2>1, <2>2, <2>3 DEF Snapshots
<1>5. CASE f.type \notin Lifecycle
  BY <1>3, <1>5 DEF Updated
<1> QED
  BY <1>4, <1>5

(***************************************************************************)
(* TypeOK is inductive.                                                    *)
(***************************************************************************)
\* A session that nobody has joined is typed.
LEMMA TypeInit == Init => TypeOK
<1> SUFFICES ASSUME Init PROVE TypeOK
  OBVIOUS
<1>1. Len(issued) = 0 /\ issued \in Seq(Frames)
  BY EmptySeq DEF Init
<1>2. DbTyped
  BY DEF Init, DbTyped, Rows
<1>3. MemTyped
  BY DEF Init, MemTyped, FreshSnapshot, Snapshots, Row!SESSION_STATES
<1>4. LoopTyped
  BY IdleTyped DEF Init, LoopTyped
<1>5. ClientsTyped
  <2>1. NewClient \in Clients
    BY DEF NewClient, Clients
  <2>2. client \in [Roles -> Clients] /\ presence \in [Roles -> Presences]
    BY <2>1 DEF Init, Presences
  <2>3. wire \in [Roles -> Seq(Ids)]
    BY EmptySeq DEF Init
  <2> QED
    BY <1>1, <2>2, <2>3 DEF Init, ClientsTyped
<1>6. HistoryTyped
  <2>1. budget \in Budgets
    BY ConstantsOK DEF Init, ConstantsOK, Budgets
  <2>2. applied \in Seq(Nat) /\ moves \in Seq(Nat) /\ Len(applied) = 0 /\ Len(moves) = 0
    BY EmptySeq DEF Init
  <2> QED
    BY <1>1, <2>1, <2>2 DEF Init, HistoryTyped
<1> QED
  BY <1>2, <1>3, <1>4, <1>5, <1>6 DEF TypeOK

\* Every step of the session, whoever takes it, keeps it typed.
LEMMA TypeStep == TypeOK /\ [Next]_vars => TypeOK'
<1> SUFFICES ASSUME TypeOK, [Next]_vars PROVE TypeOK'
  OBVIOUS
<1>0. DbTyped /\ MemTyped /\ LoopTyped /\ ClientsTyped /\ HistoryTyped
  BY DEF TypeOK
<1>1. CASE ResolveStart
  <2>1. issued' = issued /\ Ids' = Ids
    BY <1>1, SameIds DEF ResolveStart, clientVars
  <2>2. DbTyped'
    BY <1>0, <1>1, <2>1, DbFrame DEF ResolveStart, dbVars
  <2>3. MemTyped'
    <3>1. mem' = Active(mem) /\ processed' = processed
      BY <1>1 DEF ResolveStart
    <3> QED
      BY <1>0, <2>1, <3>1, ActiveTyped DEF MemTyped, Snapshots, Row!SESSION_STATES
  <2>4. LoopTyped'
    <3>1. h.pc \in {"evaluate", "dispatch"} /\ rest' = rest
      BY <1>1 DEF ResolveStart, Resolves, At
    <3>2. ReadRow("resolving", h.pc) \/ h' = h
      BY <1>1 DEF ResolveStart
    <3> QED
      BY <1>0, <2>1, <3>1, <3>2, ReadKeeps, LoopFrame DEF Pcs
  <2>5. ClientsTyped'
    BY <1>0, <1>1, <2>1, ClientsFrame DEF ResolveStart, clientVars
  <2>6. HistoryTyped'
    BY <1>0, <1>1, <2>1, HistoryFrame DEF ResolveStart, histVars
  <2> QED
    BY <2>2, <2>3, <2>4, <2>5, <2>6 DEF TypeOK
<1>2. CASE ResolveCommit
  <2>1. issued' = issued /\ Ids' = Ids
    BY <1>2, SameIds DEF ResolveCommit, clientVars
  <2>2. DbTyped'
    <3>1. WriteRow("active") /\ revoked' = revoked /\ events' = events
      BY <1>2 DEF ResolveCommit
    <3>2. row' \in Rows
      BY <1>0, <3>1, WriteTyped
    <3> QED
      BY <1>0, <2>1, <3>1, <3>2 DEF DbTyped, Rows
  <2>3. MemTyped'
    BY <1>0, <1>2, <2>1, MemFrame DEF ResolveCommit, memVars
  <2>4. LoopTyped'
    <3>1. h.next \in {"evaluate", "dispatch"}
      BY <1>0 DEF LoopTyped, LoopStates
    <3> QED
      BY <1>0, <1>2, <2>1, <3>1, GoToKeeps DEF ResolveCommit, Pcs
  <2>5. ClientsTyped'
    BY <1>0, <1>2, <2>1, ClientsFrame DEF ResolveCommit, clientVars
  <2>6. HistoryTyped'
    BY <1>0, <1>2, <2>1, HistoryFrame DEF ResolveCommit, histVars
  <2> QED
    BY <2>2, <2>3, <2>4, <2>5, <2>6 DEF TypeOK
<1>3. CASE ResolveFail
  <2>1. issued' = issued /\ Ids' = Ids
    BY <1>3, SameIds DEF ResolveFail, clientVars
  <2>2. DbTyped'
    BY <1>0, <1>3, <2>1, DbFrame DEF ResolveFail, dbVars
  <2>3. MemTyped'
    BY <1>0, <1>3, <2>1, MemFrame DEF ResolveFail, memVars
  <2>4. LoopTyped'
    <3>1. h.next \in {"evaluate", "dispatch"}
      BY <1>0 DEF LoopTyped, LoopStates
    <3> QED
      BY <1>0, <1>3, <2>1, <3>1, GoToKeeps DEF ResolveFail, Pcs
  <2>5. ClientsTyped'
    BY <1>0, <1>3, <2>1, ClientsFrame DEF ResolveFail, clientVars
  <2>6. HistoryTyped'
    BY <1>0, <1>3, <2>1, FaultTyped, HistoryFrame DEF histVars, ResolveFail
  <2> QED
    BY <2>2, <2>3, <2>4, <2>5, <2>6 DEF TypeOK
<1>4. CASE NothingToPause
  <2>1. issued' = issued /\ Ids' = Ids
    BY <1>4, SameIds DEF NothingToPause, clientVars
  <2>2. DbTyped'
    BY <1>0, <1>4, <2>1, DbFrame DEF NothingToPause, dbVars
  <2>3. MemTyped'
    BY <1>0, <1>4, <2>1, MemFrame DEF NothingToPause, memVars
  <2>4. LoopTyped'
    BY <1>0, <1>4, <2>1, GoToKeeps DEF Pcs, NothingToPause
  <2>5. ClientsTyped'
    BY <1>0, <1>4, <2>1, ClientsFrame DEF NothingToPause, clientVars
  <2>6. HistoryTyped'
    BY <1>0, <1>4, <2>1, HistoryFrame DEF NothingToPause, histVars
  <2> QED
    BY <2>2, <2>3, <2>4, <2>5, <2>6 DEF TypeOK
<1>5. CASE AutoPauseBegin
  <2>1. issued' = issued /\ Ids' = Ids
    BY <1>5, SameIds DEF AutoPauseBegin, clientVars
  <2>2. DbTyped'
    BY <1>0, <1>5, <2>1, DbFrame DEF AutoPauseBegin, dbVars
  <2>3. MemTyped'
    BY <1>0, <1>5, <2>1, MemFrame DEF AutoPauseBegin, memVars
  <2>4. LoopTyped'
    BY <1>0, <1>5, <2>1, ReadKeeps DEF AutoPauseBegin, Pcs
  <2>5. ClientsTyped'
    BY <1>0, <1>5, <2>1, ClientsFrame DEF AutoPauseBegin, clientVars
  <2>6. HistoryTyped'
    BY <1>0, <1>5, <2>1, HistoryFrame DEF AutoPauseBegin, histVars
  <2> QED
    BY <2>2, <2>3, <2>4, <2>5, <2>6 DEF TypeOK
<1>6. CASE AutoPauseCommit
  <2>1. issued' = issued /\ Ids' = Ids
    BY <1>6, SameIds DEF AutoPauseCommit, clientVars
  <2>2. DbTyped'
    <3>1. WriteRow("paused") /\ revoked' = revoked /\ events' = events
      BY <1>6 DEF AutoPauseCommit
    <3>2. row' \in Rows
      BY <1>0, <3>1, WriteTyped
    <3> QED
      BY <1>0, <2>1, <3>1, <3>2 DEF DbTyped, Rows
  <2>3. MemTyped'
    BY <1>0, <1>6, <2>1, MemFrame DEF AutoPauseCommit, memVars
  <2>4. LoopTyped'
    <3>1. h' = [h EXCEPT !.pc = "pauseEvent"] /\ rest' = rest
      BY <1>6 DEF AutoPauseCommit
    <3>2. h \in LoopStates /\ (h.kind = "event" => h.ev \in Ids)
      BY <1>0 DEF LoopTyped
    <3>3. h' \in LoopStates /\ h'.kind = h.kind /\ h'.ev = h.ev /\ h'.pc = "pauseEvent"
      BY <3>1, <3>2 DEF LoopStates, Pcs
    <3> QED
      BY <1>0, <2>1, <3>1, <3>2, <3>3, LoopKeeps
  <2>5. ClientsTyped'
    BY <1>0, <1>6, <2>1, ClientsFrame DEF AutoPauseCommit, clientVars
  <2>6. HistoryTyped'
    BY <1>0, <1>6, <2>1, HistoryFrame DEF AutoPauseCommit, histVars
  <2> QED
    BY <2>2, <2>3, <2>4, <2>5, <2>6 DEF TypeOK
<1>7. CASE AutoPauseFail
  <2>1. issued' = issued /\ Ids' = Ids
    BY <1>7, SameIds DEF AutoPauseFail, clientVars
  <2>2. DbTyped'
    BY <1>0, <1>7, <2>1, DbFrame DEF AutoPauseFail, dbVars
  <2>3. MemTyped'
    BY <1>0, <1>7, <2>1, MemFrame DEF AutoPauseFail, memVars
  <2>4. LoopTyped'
    BY <1>0, <1>7, <2>1, GoToKeeps DEF Pcs, AutoPauseFail
  <2>5. ClientsTyped'
    BY <1>0, <1>7, <2>1, ClientsFrame DEF AutoPauseFail, clientVars
  <2>6. HistoryTyped'
    BY <1>0, <1>7, <2>1, FaultTyped, HistoryFrame DEF histVars, AutoPauseFail
  <2> QED
    BY <2>2, <2>3, <2>4, <2>5, <2>6 DEF TypeOK
<1>8. CASE HandlerDies
  <2>1. issued' = issued /\ Ids' = Ids
    BY <1>8, SameIds DEF HandlerDies, clientVars
  <2>2. DbTyped'
    BY <1>0, <1>8, <2>1, DbFrame DEF HandlerDies, dbVars
  <2>3. MemTyped'
    BY <1>0, <1>8, <2>1, MemFrame DEF HandlerDies, memVars
  <2>4. LoopTyped'
    BY <1>0, <1>8, <2>1, IdleKeeps DEF HandlerDies
  <2>5. ClientsTyped'
    <3>1. issued' = issued /\ grace' = grace /\ h.role \in Roles
      BY <1>0, <1>8 DEF HandlerDies, LoopTyped, LoopStates
    <3>2. CASE Orphaned(h.role)
      BY <1>0, <3>1, <3>2, OrphanedTyped
    <3>3. CASE UNCHANGED <<presence, client, wire>>
      BY <1>0, <3>1, <3>3, ClientsFrame
    <3> QED
      BY <1>8, <3>2, <3>3 DEF HandlerDies
  <2>6. HistoryTyped'
    BY <1>0, <1>8, <2>1, FaultTyped, HistoryFrame DEF histVars, HandlerDies
  <2> QED
    BY <2>2, <2>3, <2>4, <2>5, <2>6 DEF TypeOK
<1>9. CASE FinishCheck
  <2>1. issued' = issued /\ Ids' = Ids
    BY <1>9, SameIds DEF FinishCheck, clientVars
  <2>2. DbTyped'
    BY <1>0, <1>9, <2>1, DbFrame DEF FinishCheck, dbVars
  <2>3. MemTyped'
    BY <1>0, <1>9, <2>1, MemFrame DEF FinishCheck, memVars
  <2>4. LoopTyped'
    BY <1>0, <1>9, <2>1, IdleKeeps DEF FinishCheck
  <2>5. ClientsTyped'
    BY <1>0, <1>9, <2>1, ClientsFrame DEF FinishCheck, clientVars
  <2>6. HistoryTyped'
    BY <1>0, <1>9, <2>1, HistoryFrame DEF FinishCheck, histVars
  <2> QED
    BY <2>2, <2>3, <2>4, <2>5, <2>6 DEF TypeOK
<1>10. CASE AnswerHello
  <2>1. issued' = issued /\ Ids' = Ids
    BY <1>10, SameIds DEF AnswerHello, clientVars
  <2>2. DbTyped'
    BY <1>0, <1>10, <2>1, DbFrame DEF AnswerHello, dbVars
  <2>3. MemTyped'
    <3>1. (mem' = mem \/ mem' = Active(mem)) /\ processed' = processed
      BY <1>10 DEF AnswerHello
    <3> QED
      BY <1>0, <2>1, <3>1, ActiveTyped DEF MemTyped, Snapshots, Row!SESSION_STATES
  <2>4. LoopTyped'
    BY <1>0, <1>10, <2>1, IdleKeeps DEF AnswerHello
  <2>5. ClientsTyped'
    <3>1. /\ client \in [Roles -> Clients] /\ wire \in [Roles -> Seq(Ids)]
          /\ h.role \in Roles /\ mem.rev \in Nat /\ issued \in Seq(Frames)
      BY <1>0 DEF ClientsTyped, LoopTyped, LoopStates, MemTyped, Snapshots
    <3>2. Replayed(h.role) \subseteq Ids
      BY <3>1 DEF Replayed, Clients
    <3> DEFINE n == [client[h.role] EXCEPT !.rev = mem.rev, !.admitted = TRUE,
                                           !.pending = Replayed(h.role)]
    <3>3. n \in Clients
      BY <3>1, <3>2 DEF Clients
    <3>4. client' = client \/ client' = [client EXCEPT ![h.role] = n]
      BY <1>10, <3>1 DEF AnswerHello, Clients
    <3>5. client' \in [Roles -> Clients]
      BY <3>1, <3>3, <3>4
    <3>6. \A q \in InOrder(Replayed(h.role)) : q \in Seq(Ids)
      BY <3>1, <3>2, InOrderTyped
    <3>7. wire' \in [Roles -> Seq(Ids)]
      BY <1>10, <3>1, <3>6 DEF AnswerHello
    <3>8. presence' \in [Roles -> Presences] /\ grace' \subseteq Roles /\ issued' = issued
      BY <1>0, <1>10 DEF AnswerHello, ClientsTyped
    <3> QED
      BY <1>0, <3>5, <3>7, <3>8, ClientsKeep
  <2>6. HistoryTyped'
    BY <1>0, <1>10, <2>1, HistoryFrame DEF AnswerHello, histVars
  <2> QED
    BY <2>2, <2>3, <2>4, <2>5, <2>6 DEF TypeOK
<1>11. CASE AutoPauseEvent
  <2>1. /\ issued \in Seq(Frames) /\ client \in [Roles -> Clients]
        /\ wire \in [Roles -> Seq(Ids)] /\ presence \in [Roles -> Presences]
        /\ grace \subseteq Roles /\ Len(issued) \in Nat
    BY <1>0, LenProperties DEF ClientsTyped
  <2> DEFINE id == Len(issued) + 1
             f  == [role |-> "server", type |-> "session_paused",
                    seq |-> Cardinality(ServerRows), rev |-> mem.rev]
  <2>2. /\ issued' = Append(issued, f) /\ applied' = Append(applied, 1)
        /\ moves' = Append(moves, 1) /\ mem' = PausedInMemory
        /\ processed' = processed \cup {id}
        /\ GoTo("dispatch")
        /\ (events' = events \cup {id} /\ UNCHANGED budget) \/ (Fault /\ UNCHANGED events)
        /\ UNCHANGED <<row, revoked, rest, client, wire, presence, grace, acks>>
    BY <1>11 DEF AutoPauseEvent
  <2>3. Cardinality(ServerRows) \in Nat /\ mem \in Snapshots /\ mem.rev \in Nat
    <3>1. IsFiniteSet(Ids)
      BY <2>1, FS_Interval DEF Ids
    <3>2. IsFiniteSet(ServerRows)
      BY <1>0, <3>1, FS_Subset DEF ServerRows, DbTyped
    <3> QED
      BY <1>0, <3>2, FS_CardinalityType DEF MemTyped, Snapshots
  <2>4. f \in Frames
    BY <2>3 DEF Frames, Types, Lifecycle
  <2>5. issued' \in Seq(Frames) /\ Len(issued') = id
    BY <2>1, <2>2, <2>4, AppendProperties
  <2>6. Ids \subseteq Ids' /\ id \in Ids'
    BY <2>1, <2>5 DEF Ids
  <2>7. DbTyped'
    BY <1>0, <2>2, <2>6 DEF DbTyped, Rows
  <2>8. MemTyped'
    <3>1. h.tx.rev \in Nat
      BY <1>0 DEF LoopTyped, LoopStates, Rows
    <3>2. Larger(mem.rev + 1, h.tx.rev + 1) \in Nat
      BY <2>3, <3>1 DEF Larger
    <3>3. mem' \in Snapshots
      BY <2>2, <2>3, <3>2 DEF PausedInMemory, Snapshots, Row!SESSION_STATES
    <3> QED
      BY <1>0, <2>2, <2>6, <3>3 DEF MemTyped, Snapshots, Row!SESSION_STATES
  <2>9. LoopTyped'
    <3>1. h \in LoopStates /\ (h.kind = "event" => h.ev \in Ids) /\ rest' = rest
      BY <1>0, <2>2 DEF LoopTyped
    <3>2. h' \in LoopStates /\ h'.kind = h.kind /\ h'.ev = h.ev /\ h'.pc = "dispatch"
      BY <2>2, <3>1, IdleTyped DEF GoTo, LoopStates, Pcs
    <3>3. h' \in LoopStates'
      BY <2>6, <3>2 DEF LoopStates, Pcs, Rows
    <3> QED
      BY <1>0, <2>6, <3>1, <3>2, <3>3 DEF LoopTyped
  <2>10. ClientsTyped'
    <3>1. \A c \in Clients : c \in Clients'
      BY <2>6 DEF Clients
    <3>2. \A s \in Seq(Ids) : s \in Seq(Ids')
      BY <2>6, SeqMonotonic
    <3>3. client' \in [Roles -> Clients']
      BY <2>1, <2>2, <3>1
    <3>4. wire' \in [Roles -> Seq(Ids')]
      BY <2>1, <2>2, <3>2
    <3> QED
      BY <2>1, <2>2, <2>5, <3>3, <3>4 DEF ClientsTyped, Frames, Presences, Types
  <2>11. HistoryTyped'
    <3>1. /\ acks' = acks
          /\ acks \in [{"accepted", "duplicate", "rejected"} -> SUBSET Ids]
      BY <1>0, <2>2 DEF HistoryTyped
    <3>2. budget' \in Budgets
      BY <1>0, <2>2, FaultTyped DEF HistoryTyped
    <3>3. /\ applied' \in Seq(Nat) /\ Len(applied') = id
          /\ moves' \in Seq(Nat) /\ Len(moves') = id
      BY <1>0, <2>2, AppendProperties DEF HistoryTyped
    <3>4. acks \in [{"accepted", "duplicate", "rejected"} -> SUBSET Ids']
      BY <2>6, <3>1
    <3> QED
      BY <2>5, <3>1, <3>2, <3>3, <3>4 DEF HistoryTyped, Budgets
  <2> QED
    BY <2>7, <2>8, <2>9, <2>10, <2>11 DEF TypeOK
<1>12. CASE AckDuplicate
  <2>1. h.kind = "event" /\ Reply("duplicate")
    BY <1>12 DEF AckDuplicate, Handling
  <2>2. /\ LoopTyped' /\ ClientsTyped' /\ Ids' = Ids /\ h.ev \in Ids
        /\ acks' \in [{"accepted", "duplicate", "rejected"} -> SUBSET Ids]
        /\ issued' = issued /\ revoked' = revoked
    BY <2>1, ReplyTyped
  <2>3. DbTyped'
    BY <1>0, <1>12, <2>2, DbFrame DEF AckDuplicate
  <2>4. MemTyped'
    BY <1>0, <1>12, <2>2, MemFrame DEF AckDuplicate, memVars
  <2>5. HistoryTyped'
    <3>1. budget' \in Budgets
      BY <1>0, <1>12 DEF AckDuplicate, HistoryTyped
    <3>2. /\ applied' \in Seq(Nat) /\ Len(applied') = Len(applied)
          /\ moves' \in Seq(Nat) /\ Len(moves') = Len(moves)
      BY <1>0, <1>12 DEF AckDuplicate, HistoryTyped
    <3> QED
      BY <1>0, <2>2, <3>1, <3>2, HistoryKeeps
  <2> QED
    BY <2>2, <2>3, <2>4, <2>5 DEF TypeOK
<1>13. CASE AckRejected
  <2>1. h.kind = "event" /\ Reply("rejected")
    BY <1>13 DEF AckRejected, Handling
  <2>2. /\ LoopTyped' /\ ClientsTyped' /\ Ids' = Ids /\ h.ev \in Ids
        /\ acks' \in [{"accepted", "duplicate", "rejected"} -> SUBSET Ids]
        /\ issued' = issued /\ revoked' = revoked
    BY <2>1, ReplyTyped
  <2>3. DbTyped'
    BY <1>0, <1>13, <2>2, DbFrame DEF AckRejected
  <2>4. MemTyped'
    BY <1>0, <1>13, <2>2, MemFrame DEF AckRejected, memVars
  <2>5. HistoryTyped'
    <3>1. budget' \in Budgets
      BY <1>0, <1>13 DEF AckRejected, HistoryTyped
    <3>2. /\ applied' \in Seq(Nat) /\ Len(applied') = Len(applied)
          /\ moves' \in Seq(Nat) /\ Len(moves') = Len(moves)
      BY <1>0, <1>13 DEF AckRejected, HistoryTyped
    <3> QED
      BY <1>0, <2>2, <3>1, <3>2, HistoryKeeps
  <2> QED
    BY <2>2, <2>3, <2>4, <2>5 DEF TypeOK
<1>14. CASE PreflightFail
  <2>1. h.kind = "event" /\ Reply("rejected")
    BY <1>14 DEF PreflightFail, Handling
  <2>2. /\ LoopTyped' /\ ClientsTyped' /\ Ids' = Ids /\ h.ev \in Ids
        /\ acks' \in [{"accepted", "duplicate", "rejected"} -> SUBSET Ids]
        /\ issued' = issued /\ revoked' = revoked
    BY <2>1, ReplyTyped
  <2>3. DbTyped'
    BY <1>0, <1>14, <2>2, DbFrame DEF PreflightFail
  <2>4. MemTyped'
    BY <1>0, <1>14, <2>2, MemFrame DEF PreflightFail, memVars
  <2>5. HistoryTyped'
    <3>1. budget' \in Budgets
      BY <1>0, <1>14, FaultTyped DEF PreflightFail
    <3>2. /\ applied' \in Seq(Nat) /\ Len(applied') = Len(applied)
          /\ moves' \in Seq(Nat) /\ Len(moves') = Len(moves)
      BY <1>0, <1>14 DEF PreflightFail, HistoryTyped
    <3> QED
      BY <1>0, <2>2, <3>1, <3>2, HistoryKeeps
  <2> QED
    BY <2>2, <2>3, <2>4, <2>5 DEF TypeOK
<1>15. CASE PersistDuplicate
  <2>1. h.kind = "event" /\ Reply("duplicate")
    BY <1>0, <1>15 DEF PersistDuplicate, At, LoopTyped
  <2>2. /\ LoopTyped' /\ ClientsTyped' /\ Ids' = Ids /\ h.ev \in Ids
        /\ acks' \in [{"accepted", "duplicate", "rejected"} -> SUBSET Ids]
        /\ issued' = issued /\ revoked' = revoked
    BY <2>1, ReplyTyped
  <2>3. DbTyped'
    BY <1>0, <1>15, <2>2, DbFrame DEF PersistDuplicate
  <2>4. MemTyped'
    BY <1>0, <1>15, <2>2 DEF PersistDuplicate, MemTyped, Snapshots, Row!SESSION_STATES
  <2>5. HistoryTyped'
    <3>1. budget' \in Budgets
      BY <1>0, <1>15 DEF PersistDuplicate, HistoryTyped
    <3>2. /\ applied' \in Seq(Nat) /\ Len(applied') = Len(applied)
          /\ moves' \in Seq(Nat) /\ Len(moves') = Len(moves)
      BY <1>0, <1>15 DEF PersistDuplicate, HistoryTyped
    <3> QED
      BY <1>0, <2>2, <3>1, <3>2, HistoryKeeps
  <2> QED
    BY <2>2, <2>3, <2>4, <2>5 DEF TypeOK
<1>16. CASE PersistFail
  <2>1. h.kind = "event" /\ Reply("rejected")
    BY <1>0, <1>16 DEF PersistFail, At, LoopTyped
  <2>2. /\ LoopTyped' /\ ClientsTyped' /\ Ids' = Ids /\ h.ev \in Ids
        /\ acks' \in [{"accepted", "duplicate", "rejected"} -> SUBSET Ids]
        /\ issued' = issued /\ revoked' = revoked
    BY <2>1, ReplyTyped
  <2>3. DbTyped'
    BY <1>0, <1>16, <2>2, DbFrame DEF PersistFail
  <2>4. MemTyped'
    BY <1>0, <1>16, <2>2, MemFrame DEF PersistFail, memVars
  <2>5. HistoryTyped'
    <3>1. budget' \in Budgets
      BY <1>0, <1>16, FaultTyped DEF PersistFail
    <3>2. /\ applied' \in Seq(Nat) /\ Len(applied') = Len(applied)
          /\ moves' \in Seq(Nat) /\ Len(moves') = Len(moves)
      BY <1>0, <1>16 DEF PersistFail, HistoryTyped
    <3> QED
      BY <1>0, <2>2, <3>1, <3>2, HistoryKeeps
  <2> QED
    BY <2>2, <2>3, <2>4, <2>5 DEF TypeOK
<1>17. CASE SyncRefused
  <2>1. h.kind = "event" /\ Reply("rejected")
    BY <1>0, <1>17 DEF SyncRefused, At, LoopTyped
  <2>2. /\ LoopTyped' /\ ClientsTyped' /\ Ids' = Ids /\ h.ev \in Ids
        /\ acks' \in [{"accepted", "duplicate", "rejected"} -> SUBSET Ids]
        /\ issued' = issued /\ revoked' = revoked
    BY <2>1, ReplyTyped
  <2>3. DbTyped'
    BY <1>0, <1>17, <2>2, DbFrame DEF SyncRefused
  <2>4. MemTyped'
    BY <1>0, <1>17, <2>2, MemFrame DEF SyncRefused, memVars
  <2>5. HistoryTyped'
    <3>1. budget' \in Budgets
      BY <1>0, <1>17 DEF SyncRefused, HistoryTyped
    <3>2. /\ applied' \in Seq(Nat) /\ Len(applied') = Len(applied)
          /\ moves' \in Seq(Nat) /\ Len(moves') = Len(moves)
      BY <1>0, <1>17 DEF SyncRefused, HistoryTyped
    <3> QED
      BY <1>0, <2>2, <3>1, <3>2, HistoryKeeps
  <2> QED
    BY <2>2, <2>3, <2>4, <2>5 DEF TypeOK
<1>18. CASE SyncFail
  <2>1. h.kind = "event" /\ Reply("rejected")
    BY <1>0, <1>18 DEF SyncFail, At, LoopTyped
  <2>2. /\ LoopTyped' /\ ClientsTyped' /\ Ids' = Ids /\ h.ev \in Ids
        /\ acks' \in [{"accepted", "duplicate", "rejected"} -> SUBSET Ids]
        /\ issued' = issued /\ revoked' = revoked
    BY <2>1, ReplyTyped
  <2>3. DbTyped'
    BY <1>0, <1>18, <2>2, DbFrame DEF SyncFail
  <2>4. MemTyped'
    BY <1>0, <1>18, <2>2, MemFrame DEF SyncFail, memVars
  <2>5. HistoryTyped'
    <3>1. budget' \in Budgets
      BY <1>0, <1>18, FaultTyped DEF SyncFail
    <3>2. /\ applied' \in Seq(Nat) /\ Len(applied') = Len(applied)
          /\ moves' \in Seq(Nat) /\ Len(moves') = Len(moves)
      BY <1>0, <1>18 DEF SyncFail, HistoryTyped
    <3> QED
      BY <1>0, <2>2, <3>1, <3>2, HistoryKeeps
  <2> QED
    BY <2>2, <2>3, <2>4, <2>5 DEF TypeOK
<1>19. CASE Apply
  <2>1. h.kind = "event" /\ Reply("accepted")
    BY <1>0, <1>19 DEF Apply, At, LoopTyped
  <2>2. /\ LoopTyped' /\ ClientsTyped' /\ Ids' = Ids /\ h.ev \in Ids
        /\ acks' \in [{"accepted", "duplicate", "rejected"} -> SUBSET Ids]
        /\ issued' = issued /\ revoked' = revoked
    BY <2>1, ReplyTyped
  <2>3. DbTyped'
    BY <1>0, <1>19, <2>2, DbFrame DEF Apply
  <2>4. MemTyped'
    <3>1. mem' = Updated(issued[h.ev]) /\ processed' = processed \cup {h.ev}
      BY <1>19 DEF Apply
    <3>2. mem' \in Snapshots
      BY <1>0, <3>1, UpdatedTyped, <2>2
    <3> QED
      BY <1>0, <2>2, <3>1, <3>2 DEF MemTyped, Snapshots, Row!SESSION_STATES
  <2>5. HistoryTyped'
    <3>1. h.ev \in 1 .. Len(applied) /\ applied[h.ev] + 1 \in Nat
      BY <1>0, <2>2, ElementOfSeq DEF HistoryTyped, Ids
    <3>2. applied' = [applied EXCEPT ![h.ev] = applied[h.ev] + 1] /\ moves' = moves /\ budget' = budget
      BY <1>19 DEF Apply
    <3>3. applied' \in Seq(Nat) /\ Len(applied') = Len(applied)
      BY <1>0, <3>1, <3>2, ExceptSeq DEF HistoryTyped
    <3>4. moves' \in Seq(Nat) /\ Len(moves') = Len(moves) /\ budget' \in Budgets
      BY <1>0, <3>2 DEF HistoryTyped
    <3> QED
      BY <1>0, <2>2, <3>3, <3>4, HistoryKeeps
  <2> QED
    BY <2>2, <2>3, <2>4, <2>5 DEF TypeOK
<1>20. CASE Preflight
  <2>1. issued' = issued /\ Ids' = Ids
    BY <1>20, SameIds DEF Preflight, clientVars
  <2>2. DbTyped'
    BY <1>0, <1>20, <2>1, DbFrame DEF Preflight, dbVars
  <2>3. MemTyped'
    BY <1>0, <1>20, <2>1, MemFrame DEF Preflight, memVars
  <2>4. LoopTyped'
    <3>1. h.kind = "event"
      BY <1>20 DEF Preflight, Handling
    <3> QED
      BY <1>0, <1>20, <2>1, <3>1, GoToKeeps DEF Preflight, Pcs
  <2>5. ClientsTyped'
    BY <1>0, <1>20, <2>1, ClientsFrame DEF Preflight, clientVars
  <2>6. HistoryTyped'
    BY <1>0, <1>20, <2>1, HistoryFrame DEF Preflight, histVars
  <2> QED
    BY <2>2, <2>3, <2>4, <2>5, <2>6 DEF TypeOK
<1>21. CASE Persist
  <2>1. issued' = issued /\ Ids' = Ids
    BY <1>21, SameIds DEF Persist, clientVars
  <2>2. DbTyped'
    <3>1. h.ev \in Ids
      BY <1>0, <1>21 DEF Persist, At, LoopTyped
    <3> QED
      BY <1>0, <1>21, <2>1, <3>1 DEF Persist, DbTyped, Rows
  <2>3. MemTyped'
    BY <1>0, <1>21, <2>1, MemFrame DEF Persist, memVars
  <2>4. LoopTyped'
    <3>1. h.kind = "event" /\ rest' = rest
      BY <1>0, <1>21 DEF Persist, At, LoopTyped
    <3>2. \/ GoTo("persisted") /\ issued[h.ev].type \in Lifecycle
          \/ GoTo("apply")
      BY <1>21 DEF Persist
    <3> QED
      BY <1>0, <2>1, <3>1, <3>2, GoToKeeps DEF Pcs
  <2>5. ClientsTyped'
    BY <1>0, <1>21, <2>1, ClientsFrame DEF Persist, clientVars
  <2>6. HistoryTyped'
    BY <1>0, <1>21, <2>1, HistoryFrame DEF Persist, histVars
  <2> QED
    BY <2>2, <2>3, <2>4, <2>5, <2>6 DEF TypeOK
<1>22. CASE SyncBegin
  <2>1. issued' = issued /\ Ids' = Ids
    BY <1>22, SameIds DEF SyncBegin, clientVars
  <2>2. DbTyped'
    BY <1>0, <1>22, <2>1, DbFrame DEF SyncBegin, dbVars
  <2>3. MemTyped'
    BY <1>0, <1>22, <2>1, MemFrame DEF SyncBegin, memVars
  <2>4. LoopTyped'
    <3>1. h.kind = "event" /\ rest' = rest /\ issued[h.ev].type \in Lifecycle
      BY <1>0, <1>22 DEF SyncBegin, At, LoopTyped
    <3> QED
      BY <1>0, <1>22, <2>1, <3>1, ReadKeeps DEF SyncBegin, Pcs
  <2>5. ClientsTyped'
    BY <1>0, <1>22, <2>1, ClientsFrame DEF SyncBegin, clientVars
  <2>6. HistoryTyped'
    BY <1>0, <1>22, <2>1, HistoryFrame DEF SyncBegin, histVars
  <2> QED
    BY <2>2, <2>3, <2>4, <2>5, <2>6 DEF TypeOK
<1>23. CASE SyncCommit
  <2>1. issued' = issued /\ Ids' = Ids
    BY <1>23, SameIds DEF SyncCommit, clientVars
  <2>2. /\ h.kind = "event" /\ h.ev \in Ids /\ h.ev \in 1 .. Len(moves)
        /\ h \in LoopStates /\ h.tx \in Rows /\ h.tx.rev \in Nat
    BY <1>0, <1>23 DEF SyncCommit, At, LoopTyped, HistoryTyped, Ids, LoopStates, Rows
  <2>3. row' \in Rows
    <3>1. row \in Rows
      BY <1>0 DEF DbTyped
    <3>2. CASE row' = row
      BY <3>1, <3>2
    <3>3. CASE WriteRow(Target(issued[h.ev].type))
      <4>1. Target(issued[h.ev].type) \in {"created", "starting", "active", "paused", "ended"}
        BY <1>0, <1>23 DEF SyncCommit, At, LoopTyped, Lifecycle, Target
      <4> QED
        BY <1>0, <3>3, <4>1, WriteTyped
    <3> QED
      BY <1>23, <3>2, <3>3 DEF SyncCommit
  <2>4. DbTyped'
    BY <1>0, <1>23, <2>1, <2>3 DEF SyncCommit, DbTyped, Rows
  <2>5. MemTyped'
    BY <1>0, <1>23, <2>1, MemFrame DEF SyncCommit, memVars
  <2>6. LoopTyped'
    <3>1. rest' = rest
      BY <1>23 DEF SyncCommit
    <3>2. h' = [h EXCEPT !.pc = "apply"] \/ h' = [h EXCEPT !.pc = "apply", !.tx.rev = h.tx.rev + 1]
      BY <1>23, <2>2 DEF SyncCommit, LoopStates, Rows
    <3>3. [h.tx EXCEPT !.rev = h.tx.rev + 1] \in Rows
      BY <2>2 DEF Rows
    <3>4. h' \in LoopStates /\ h'.kind = h.kind /\ h'.ev = h.ev /\ h'.pc = "apply"
      BY <2>2, <3>2, <3>3 DEF LoopStates, Pcs
    <3> QED
      BY <1>0, <2>1, <2>2, <3>1, <3>4, LoopKeeps
  <2>7. ClientsTyped'
    BY <1>0, <1>23, ClientsFrame DEF SyncCommit, clientVars
  <2>8. HistoryTyped'
    <3>1. moves' = [moves EXCEPT ![h.ev] = moves[h.ev] + 1] /\ moves[h.ev] + 1 \in Nat
      BY <1>0, <1>23, <2>2, ElementOfSeq DEF SyncCommit, HistoryTyped
    <3>2. moves' \in Seq(Nat) /\ Len(moves') = Len(moves)
      BY <1>0, <2>2, <3>1, ExceptSeq DEF HistoryTyped
    <3>3. /\ acks' \in [{"accepted", "duplicate", "rejected"} -> SUBSET Ids]
          /\ applied' \in Seq(Nat) /\ Len(applied') = Len(applied) /\ budget' \in Budgets
      BY <1>0, <1>23 DEF SyncCommit, HistoryTyped
    <3> QED
      BY <1>0, <2>1, <3>2, <3>3, HistoryKeeps
  <2> QED
    BY <2>4, <2>5, <2>6, <2>7, <2>8 DEF TypeOK
<1>24. CASE RestEndBegin
  <2>1. issued' = issued /\ Ids' = Ids
    BY <1>24, SameIds DEF RestEndBegin, clientVars
  <2>2. DbTyped'
    BY <1>0, <1>24, <2>1, DbFrame DEF RestEndBegin, dbVars
  <2>3. MemTyped'
    BY <1>0, <1>24, <2>1, MemFrame DEF RestEndBegin, memVars
  <2>4. LoopTyped'
    <3>1. h' = h /\ rest' = [pc |-> "ending", rev |-> row.rev]
      BY <1>24 DEF RestEndBegin
    <3>2. row.rev \in Nat
      BY <1>0 DEF DbTyped, Rows
    <3>3. h' \in LoopStates'
      BY <1>0, <2>1, <3>1 DEF LoopTyped, LoopStates, Pcs, Rows
    <3> QED
      BY <1>0, <2>1, <3>1, <3>2, <3>3 DEF LoopTyped
  <2>5. ClientsTyped'
    BY <1>0, <1>24, <2>1, ClientsFrame DEF RestEndBegin, clientVars
  <2>6. HistoryTyped'
    BY <1>0, <1>24, <2>1, HistoryFrame DEF RestEndBegin, histVars
  <2> QED
    BY <2>2, <2>3, <2>4, <2>5, <2>6 DEF TypeOK
<1>25. CASE RestEndCommit
  <2>1. issued' = issued /\ Ids' = Ids
    BY <1>25, SameIds DEF RestEndCommit, clientVars
  <2>2. DbTyped'
    <3>1. rest.rev \in Nat
      BY <1>0 DEF LoopTyped
    <3> QED
      BY <1>0, <1>25, <2>1, <3>1 DEF RestEndCommit, DbTyped, Rows
  <2>3. MemTyped'
    BY <1>0, <1>25, <2>1, MemFrame DEF RestEndCommit, memVars
  <2>4. LoopTyped'
    <3>1. h' = h /\ rest' = [pc |-> "idle", rev |-> 0]
      BY <1>25 DEF RestEndCommit
    <3>2. h' \in LoopStates'
      BY <1>0, <2>1, <3>1 DEF LoopTyped, LoopStates, Pcs, Rows
    <3> QED
      BY <1>0, <2>1, <3>1, <3>2 DEF LoopTyped
  <2>5. ClientsTyped'
    BY <1>0, <1>25, <2>1, ClientsFrame DEF RestEndCommit, clientVars
  <2>6. HistoryTyped'
    BY <1>0, <1>25, <2>1, HistoryFrame DEF RestEndCommit, histVars
  <2> QED
    BY <2>2, <2>3, <2>4, <2>5, <2>6 DEF TypeOK
<1>26. CASE StartComesDue
  <2>1. issued' = issued /\ Ids' = Ids
    BY <1>26, SameIds DEF StartComesDue, clientVars
  <2>2. DbTyped'
    BY <1>0, <1>26, <2>1, DbFrame DEF StartComesDue, dbVars
  <2>3. MemTyped'
    BY <1>0, <1>26, <2>1 DEF StartComesDue, MemTyped, Snapshots, Row!SESSION_STATES
  <2>4. LoopTyped'
    BY <1>0, <1>26, <2>1, LoopFrame DEF StartComesDue
  <2>5. ClientsTyped'
    BY <1>0, <1>26, <2>1, ClientsFrame DEF StartComesDue, clientVars
  <2>6. HistoryTyped'
    BY <1>0, <1>26, <2>1, HistoryFrame DEF StartComesDue, histVars
  <2> QED
    BY <2>2, <2>3, <2>4, <2>5, <2>6 DEF TypeOK
<1>27. CASE Restart
  <2>1. issued' = issued /\ Ids' = Ids
    BY <1>27, SameIds DEF Restart, clientVars
  <2>2. DbTyped'
    BY <1>0, <1>27, <2>1, DbFrame DEF Restart, dbVars
  <2>3. MemTyped'
    BY <1>0, <1>27, <2>1 DEF Restart, MemTyped, FreshSnapshot, Snapshots, Row!SESSION_STATES
  <2>4. LoopTyped'
    <3>1. h' = LoopIdle /\ rest' = [pc |-> "idle", rev |-> 0]
      BY <1>27 DEF Restart
    <3>2. LoopIdle \in LoopStates'
      BY <2>1, IdleTyped DEF LoopStates, Pcs, Rows
    <3> QED
      BY <2>1, <3>1, <3>2, IdleTyped DEF LoopTyped
  <2>5. ClientsTyped'
    <3>1. \A r \in Roles : [client[r] EXCEPT !.admitted = FALSE] \in Clients
      BY <1>0, NotAdmitted
    <3>2. client' \in [Roles -> Clients]
      BY <1>27, <3>1 DEF Restart
    <3>3. wire' \in [Roles -> Seq(Ids)]
      BY <1>27, EmptySeq DEF Restart
    <3>4. presence' \in [Roles -> Presences] /\ grace' \subseteq Roles /\ issued' = issued
      BY <1>27 DEF Restart, Presences
    <3> QED
      BY <1>0, <3>2, <3>3, <3>4, ClientsKeep
  <2>6. HistoryTyped'
    <3>1. budget' \in Budgets
      <4>1. budget' = [budget EXCEPT !.restarts = budget.restarts - 1] /\ budget.restarts > 0
        BY <1>27 DEF Restart
      <4>2. budget \in Budgets
        BY <1>0 DEF HistoryTyped
      <4> QED
        BY <4>1, <4>2 DEF Budgets
    <3> QED
      BY <1>0, <1>27, <3>1, HistoryFrame DEF Restart
  <2> QED
    BY <2>2, <2>3, <2>4, <2>5, <2>6 DEF TypeOK
<1>28. ASSUME NEW r \in Roles, Receive(r) PROVE TypeOK'
  <2>1. wire \in [Roles -> Seq(Ids)] /\ wire[r] \in Seq(Ids) /\ wire[r] # <<>>
    BY <1>0, <1>28 DEF ClientsTyped, Receive
  <2>2. Head(wire[r]) \in Ids /\ Tail(wire[r]) \in Seq(Ids)
    BY <2>1, HeadTailProperties
  <2>3. wire' \in [Roles -> Seq(Ids)]
    BY <1>28, <2>1, <2>2 DEF Receive
  <2> QED
    BY <1>28, <2>2, <2>3, InboundKeeps DEF Receive
<1>29. ASSUME NEW r \in Roles, Hello(r) PROVE TypeOK'
  <2>1. wire' \in [Roles -> Seq(Ids)]
    BY <1>0, <1>29 DEF ClientsTyped, Hello
  <2> QED
    BY <1>29, <2>1, InboundKeeps DEF Hello
<1>30. ASSUME NEW r \in Roles, Ping(r) PROVE TypeOK'
  <2>1. wire' \in [Roles -> Seq(Ids)]
    BY <1>0, <1>30 DEF ClientsTyped, Ping
  <2> QED
    BY <1>30, <2>1, InboundKeeps DEF Ping
<1>31. ASSUME NEW r \in Roles, RefuseFrame(r) PROVE TypeOK'
  <2>1. issued' = issued /\ Ids' = Ids
    BY <1>31, SameIds DEF RefuseFrame, clientVars
  <2>2. DbTyped'
    BY <1>0, <1>31, <2>1, DbFrame DEF RefuseFrame, dbVars
  <2>3. MemTyped'
    BY <1>0, <1>31, <2>1, MemFrame DEF RefuseFrame, memVars
  <2>4. LoopTyped'
    BY <1>0, <1>31, <2>1, LoopFrame DEF RefuseFrame
  <2>5. ClientsTyped'
    <3>1. presence' \in [Roles -> Presences] /\ grace' \subseteq Roles /\ issued' = issued
      BY <1>0, <1>31 DEF ClientsTyped, Presences, RefuseFrame
    <3> QED
      BY <1>0, <1>31, <3>1, NotAdmitted, ClientsKeep DEF RefuseFrame
  <2>6. HistoryTyped'
    BY <1>0, <1>31, <2>1, HistoryFrame DEF RefuseFrame, histVars
  <2> QED
    BY <2>2, <2>3, <2>4, <2>5, <2>6 DEF TypeOK
<1>32. ASSUME NEW r \in Roles, GraceCheck(r) PROVE TypeOK'
  <2>1. issued' = issued /\ Ids' = Ids
    BY <1>32, SameIds DEF GraceCheck, clientVars
  <2>2. DbTyped'
    BY <1>0, <1>32, <2>1, DbFrame DEF GraceCheck, dbVars
  <2>3. MemTyped'
    BY <1>0, <1>32, <2>1, MemFrame DEF GraceCheck, memVars
  <2>4. LoopTyped'
    <3>1. h' = [LoopIdle EXCEPT !.pc = "evaluate", !.role = r] /\ rest' = rest
      BY <1>32 DEF GraceCheck
    <3>2. h' \in LoopStates /\ h'.kind = "grace" /\ h'.pc = "evaluate"
      BY <1>32, <3>1, IdleTyped DEF LoopStates, Pcs
    <3> QED
      BY <1>0, <2>1, <3>1, <3>2, LoopKeeps
  <2>5. ClientsTyped'
    <3>1. presence' \in [Roles -> Presences] /\ grace' \subseteq Roles
      BY <1>0, <1>32 DEF ClientsTyped, Presences, GraceCheck
    <3>2. /\ client' \in [Roles -> Clients] /\ wire' \in [Roles -> Seq(Ids)]
          /\ issued' = issued
      BY <1>0, <1>32 DEF ClientsTyped, GraceCheck
    <3> QED
      BY <1>0, <3>1, <3>2, ClientsKeep
  <2>6. HistoryTyped'
    BY <1>0, <1>32, <2>1, HistoryFrame DEF GraceCheck, histVars
  <2> QED
    BY <2>2, <2>3, <2>4, <2>5, <2>6 DEF TypeOK
<1>33. ASSUME NEW r \in Roles, Connect(r) PROVE TypeOK'
  <2>1. issued' = issued /\ Ids' = Ids
    BY <1>33, SameIds DEF Connect, clientVars
  <2>2. DbTyped'
    BY <1>0, <1>33, <2>1, DbFrame DEF Connect, dbVars
  <2>3. MemTyped'
    BY <1>0, <1>33, <2>1, MemFrame DEF Connect, memVars
  <2>4. LoopTyped'
    BY <1>0, <1>33, <2>1, LoopFrame DEF Connect
  <2>5. ClientsTyped'
    <3>1. presence' \in [Roles -> Presences] /\ grace' \subseteq Roles /\ issued' = issued
      BY <1>0, <1>33 DEF ClientsTyped, Presences, Connect
    <3> QED
      BY <1>0, <1>33, <3>1, NotAdmitted, ClientsKeep DEF Connect
  <2>6. HistoryTyped'
    BY <1>0, <1>33, <2>1, HistoryFrame DEF Connect, histVars
  <2> QED
    BY <2>2, <2>3, <2>4, <2>5, <2>6 DEF TypeOK
<1>34. ASSUME NEW r \in Roles, Disconnect(r) PROVE TypeOK'
  <2>1. issued' = issued /\ Ids' = Ids
    BY <1>34, SameIds DEF Disconnect, clientVars, Drop
  <2>2. DbTyped'
    BY <1>0, <1>34, <2>1, DbFrame DEF Disconnect, Drop, dbVars
  <2>3. MemTyped'
    BY <1>0, <1>34, <2>1, MemFrame DEF Disconnect, Drop, memVars
  <2>4. LoopTyped'
    BY <1>0, <1>34, <2>1, LoopFrame DEF Disconnect, Drop
  <2>5. ClientsTyped'
    BY <1>0, <1>34, NotAdmitted, DropKeeps DEF Disconnect
  <2>6. HistoryTyped'
    BY <1>0, <1>34, <2>1, DropTyped, HistoryFrame DEF Disconnect, Drop, histVars
  <2> QED
    BY <2>2, <2>3, <2>4, <2>5, <2>6 DEF TypeOK
<1>35. ASSUME NEW r \in Roles, Reload(r) PROVE TypeOK'
  <2>1. issued' = issued /\ Ids' = Ids
    BY <1>35, SameIds DEF Reload, clientVars, Drop
  <2>2. DbTyped'
    BY <1>0, <1>35, <2>1, DbFrame DEF Reload, Drop, dbVars
  <2>3. MemTyped'
    BY <1>0, <1>35, <2>1, MemFrame DEF Reload, Drop, memVars
  <2>4. LoopTyped'
    BY <1>0, <1>35, <2>1, LoopFrame DEF Reload, Drop
  <2>5. ClientsTyped'
    <3>1. NewClient \in Clients
      BY DEF NewClient, Clients
    <3> QED
      BY <1>0, <1>35, <3>1, DropKeeps DEF Reload
  <2>6. HistoryTyped'
    <3>1. budget' \in Budgets
      BY <1>0, <1>35 DEF Reload, HistoryTyped, Budgets
    <3> QED
      BY <1>0, <1>35, <3>1, HistoryFrame DEF Reload, Drop, histVars
  <2> QED
    BY <2>2, <2>3, <2>4, <2>5, <2>6 DEF TypeOK
<1>36. ASSUME NEW r \in Roles, Silence(r) PROVE TypeOK'
  <2>1. issued' = issued /\ Ids' = Ids
    BY <1>36, SameIds DEF Silence, clientVars
  <2>2. DbTyped'
    BY <1>0, <1>36, <2>1, DbFrame DEF Silence, dbVars
  <2>3. MemTyped'
    BY <1>0, <1>36, <2>1, MemFrame DEF Silence, memVars
  <2>4. LoopTyped'
    BY <1>0, <1>36, <2>1, LoopFrame DEF Silence
  <2>5. ClientsTyped'
    <3>1. presence' \in [Roles -> Presences]
      BY <1>0, <1>36 DEF ClientsTyped, Presences, Silence
    <3>2. /\ client' \in [Roles -> Clients] /\ wire' \in [Roles -> Seq(Ids)]
          /\ grace' \subseteq Roles /\ issued' = issued
      BY <1>0, <1>36 DEF ClientsTyped, Silence
    <3> QED
      BY <1>0, <3>1, <3>2, ClientsKeep
  <2>6. HistoryTyped'
    BY <1>0, <1>36, <2>1, DropTyped, HistoryFrame DEF Silence, histVars
  <2> QED
    BY <2>2, <2>3, <2>4, <2>5, <2>6 DEF TypeOK
<1>37. ASSUME NEW r \in Roles, SendRaises(r) PROVE TypeOK'
  <2>1. issued' = issued /\ Ids' = Ids
    BY <1>37, SameIds DEF SendRaises, clientVars
  <2>2. DbTyped'
    BY <1>0, <1>37, <2>1, DbFrame DEF SendRaises, dbVars
  <2>3. MemTyped'
    BY <1>0, <1>37, <2>1, MemFrame DEF SendRaises, memVars
  <2>4. LoopTyped'
    BY <1>0, <1>37, <2>1, LoopFrame DEF SendRaises
  <2>5. ClientsTyped'
    BY <1>0, <1>37, OrphanedTyped DEF SendRaises
  <2>6. HistoryTyped'
    BY <1>0, <1>37, <2>1, FaultTyped, HistoryFrame DEF histVars, SendRaises
  <2> QED
    BY <2>2, <2>3, <2>4, <2>5, <2>6 DEF TypeOK
<1>38. ASSUME NEW r \in Roles, NEW type \in Types, Send(r, type) PROVE TypeOK'
  <2>1. /\ issued \in Seq(Frames) /\ client \in [Roles -> Clients]
        /\ wire \in [Roles -> Seq(Ids)] /\ presence \in [Roles -> Presences]
        /\ grace \subseteq Roles /\ Len(issued) \in Nat
    BY <1>0, LenProperties DEF ClientsTyped
  <2> DEFINE id == Len(issued) + 1
             f  == [role |-> r, type |-> type, seq |-> client[r].seq, rev |-> client[r].rev]
             n  == [client[r] EXCEPT !.seq = @ + 1, !.pending = @ \cup {id}]
  <2>2. /\ issued' = Append(issued, f) /\ wire' = [wire EXCEPT ![r] = Append(@, id)]
        /\ applied' = Append(applied, 0) /\ moves' = Append(moves, 0)
        /\ presence' = presence /\ grace' = grace
    BY <1>38 DEF Send
  <2>3. f \in Frames
    BY <1>38, <2>1 DEF Frames, Clients
  <2>4. issued' \in Seq(Frames) /\ Len(issued') = id
    BY <2>1, <2>2, <2>3, AppendProperties
  <2>5. Ids \subseteq Ids' /\ id \in Ids'
    BY <2>1, <2>4 DEF Ids
  <2>6. DbTyped'
    BY <1>0, <1>38, <2>5, DbFrame DEF Send, dbVars
  <2>7. MemTyped'
    BY <1>0, <1>38, <2>5, MemFrame DEF Send, memVars
  <2>8. LoopTyped'
    <3>1. \A e \in Ids : issued'[e] = issued[e]
      BY <2>1, <2>2, <2>3, AppendProperties DEF Ids
    <3> QED
      BY <1>0, <1>38, <2>5, <3>1, LoopFrame DEF Send
  <2>9. ClientsTyped'
    <3>1. \A c \in Clients : c \in Clients'
      BY <2>5 DEF Clients
    <3>2. client[r] \in Clients' /\ client[r].pending \subseteq Ids' /\ client[r].seq + 1 \in Nat
      BY <1>38, <2>1, <2>5, <3>1 DEF Clients
    <3>3. n \in Clients'
      BY <2>5, <3>2 DEF Clients
    <3>4. client' = [client EXCEPT ![r] = n]
      BY <1>38, <2>1 DEF Send, Clients
    <3>5. client' \in [Roles -> Clients']
      BY <1>38, <2>1, <3>1, <3>3, <3>4
    <3>6. \A s \in Seq(Ids) : s \in Seq(Ids')
      BY <2>5, SeqMonotonic
    <3>7. Append(wire[r], id) \in Seq(Ids')
      BY <1>38, <2>1, <2>5, <3>6, AppendProperties
    <3>8. wire' \in [Roles -> Seq(Ids')]
      BY <1>38, <2>1, <2>2, <3>6, <3>7
    <3> QED
      BY <2>1, <2>2, <2>4, <3>5, <3>8 DEF ClientsTyped, Frames, Presences, Types
  <2>10. HistoryTyped'
    <3>1. /\ acks' = acks /\ budget' = budget
          /\ acks \in [{"accepted", "duplicate", "rejected"} -> SUBSET Ids]
          /\ budget \in Budgets
      BY <1>0, <1>38 DEF Send, HistoryTyped
    <3>2. /\ applied' \in Seq(Nat) /\ Len(applied') = id
          /\ moves' \in Seq(Nat) /\ Len(moves') = id
      BY <1>0, <2>2, AppendProperties DEF HistoryTyped
    <3>3. acks \in [{"accepted", "duplicate", "rejected"} -> SUBSET Ids']
      BY <2>5, <3>1
    <3> QED
      BY <2>4, <3>1, <3>2, <3>3 DEF HistoryTyped, Budgets
  <2> QED
    BY <2>6, <2>7, <2>8, <2>9, <2>10 DEF TypeOK
<1>39. CASE UNCHANGED vars
  <2>1. /\ row' = row /\ revoked' = revoked /\ events' = events /\ mem' = mem
        /\ processed' = processed /\ h' = h /\ rest' = rest /\ issued' = issued
        /\ client' = client /\ wire' = wire /\ presence' = presence /\ grace' = grace
        /\ acks' = acks /\ applied' = applied /\ moves' = moves /\ budget' = budget
    BY <1>39 DEF vars, dbVars, memVars, clientVars, histVars
  <2>2. Ids' = Ids
    BY <2>1, SameIds
  <2>3. DbTyped' /\ MemTyped' /\ LoopTyped'
    BY <1>0, <2>1, <2>2, DbFrame, MemFrame, LoopFrame
  <2>4. ClientsTyped' /\ HistoryTyped'
    BY <1>0, <2>1, ClientsFrame, HistoryFrame
  <2> QED
    BY <2>3, <2>4 DEF TypeOK
<1> QED
  BY <1>1, <1>2, <1>3, <1>4, <1>5, <1>6, <1>7, <1>8, <1>9, <1>10, <1>11, <1>12, <1>13, <1>14, <1>15, <1>16, <1>17, <1>18, <1>19, <1>20, <1>21, <1>22, <1>23, <1>24, <1>25, <1>26, <1>27, <1>28, <1>29, <1>30, <1>31, <1>32, <1>33, <1>34, <1>35, <1>36, <1>37, <1>38, <1>39 DEF Next, LoopStep

\* Every state the session reaches is typed.
THEOREM TypeCorrect == Spec => []TypeOK
  BY TypeInit, TypeStep, PTL DEF Spec

(***************************************************************************)
(* No accepted event is lost and none is applied twice.                    *)
(***************************************************************************)
\* A step that touches neither the log nor the effects of any message keeps
\* the books, if the frame in hand stays where it is or goes back to rest.
LEMMA BooksKeep ==
  ASSUME TypeOK, Bookkeeping, UNCHANGED <<issued, events, applied, moves>>,
         acks'["accepted"] = acks["accepted"],
         \A r \in Roles : client'[r].pending \subseteq client[r].pending,
         \A r \in Roles : \A i \in 1 .. Len(wire'[r]) : issued[wire'[r][i]].role = r,
         h'.kind = "event" => issued[h'.ev].role = h'.role,
         h'.pc \in {"persisted", "syncing", "apply"} =>
           /\ h'.ev = h.ev
           /\ h'.pc = h.pc \/ (h.pc = "persisted" /\ h'.pc = "syncing")
  PROVE  Bookkeeping'
<1>1. Ids' = Ids
  BY SameIds
<1>2. Owned'
  BY DEF Bookkeeping, Owned
<1>3. InFlight'
  BY DEF Bookkeeping, InFlight
<1>4. Untouched'
  BY <1>1 DEF Bookkeeping, Untouched
<1>5. AcceptedIsDone'
  BY DEF Bookkeeping, AcceptedIsDone
<1>6. AppliedOnce'
  BY <1>1 DEF Bookkeeping, AppliedOnce
<1> QED
  BY <1>2, <1>3, <1>4, <1>5, <1>6 DEF Bookkeeping

\* The same for a step of the frame in hand.
LEMMA FrameKeeps ==
  ASSUME TypeOK, Bookkeeping,
         UNCHANGED <<issued, events, acks, applied, moves, client, wire>>,
         h'.kind = h.kind, h'.role = h.role, h'.ev = h.ev,
         h'.pc \notin {"persisted", "syncing", "apply"} \/ h'.pc = h.pc
           \/ (h.pc = "persisted" /\ h'.pc = "syncing")
  PROVE  Bookkeeping'
<1>1. h'.kind = "event" => issued[h'.ev].role = h'.role
  BY DEF Bookkeeping, Owned
<1>2. \A r \in Roles : \A i \in 1 .. Len(wire'[r]) : issued[wire'[r][i]].role = r
  BY DEF Bookkeeping, Owned
<1> QED
  BY <1>1, <1>2, BooksKeep

\* The same for a step that ends the frame in hand and authors nothing.
LEMMA RestKeeps ==
  ASSUME TypeOK, Bookkeeping, UNCHANGED <<issued, events, applied, moves>>,
         acks'["accepted"] = acks["accepted"],
         \A r \in Roles : client'[r].pending \subseteq client[r].pending,
         \A r \in Roles : wire'[r] = wire[r] \/ wire'[r] = <<>>,
         h' = LoopIdle \/ h' = h
  PROVE  Bookkeeping'
<1>1. \A r \in Roles : \A i \in 1 .. Len(wire'[r]) : issued[wire'[r][i]].role = r
  <2>1. Len(<<>>) = 0
    OBVIOUS
  <2> QED
    BY <2>1 DEF Bookkeeping, Owned
<1>2. LoopIdle.kind = "grace" /\ LoopIdle.pc = "idle"
  BY IdleTyped
<1>3. h'.kind = "event" => issued[h'.ev].role = h'.role
  BY <1>2 DEF Bookkeeping, Owned
<1> QED
  BY <1>1, <1>2, <1>3, BooksKeep

\* An answer takes the message off the client's list and accepts no other.
LEMMA ReplyBooks ==
  ASSUME TypeOK, h.kind = "event", NEW answer \in {"accepted", "duplicate", "rejected"},
         Reply(answer)
  PROVE  /\ issued' = issued /\ wire' = wire /\ h' = LoopIdle
         /\ \A r \in Roles : client'[r].pending \subseteq client[r].pending
         /\ acks'["accepted"] = IF answer = "accepted" THEN acks["accepted"] \cup {h.ev}
                                                       ELSE acks["accepted"]
<1>1. h.role \in Roles /\ client \in [Roles -> Clients]
  BY DEF TypeOK, LoopTyped, LoopStates, ClientsTyped
<1>2. \A r \in Roles : client'[r].pending \subseteq client[r].pending
  BY <1>1 DEF Reply, Clients
<1>3. acks'["accepted"] = IF answer = "accepted" THEN acks["accepted"] \cup {h.ev}
                                                 ELSE acks["accepted"]
  BY DEF Reply, TypeOK, HistoryTyped
<1> QED
  BY <1>2, <1>3 DEF Reply

\* A socket that closes or loses its handler takes nothing with it but frames
\* in flight.
LEMMA CloseKeeps ==
  ASSUME TypeOK, Bookkeeping, NEW r \in Roles, NEW c, c.pending \subseteq client[r].pending,
         UNCHANGED <<issued, events, acks, applied, moves>>, h' = h \/ h' = LoopIdle,
         client' = [client EXCEPT ![r] = c], wire' = [wire EXCEPT ![r] = <<>>]
  PROVE  Bookkeeping'
<1>1. client \in [Roles -> Clients] /\ wire \in [Roles -> Seq(Ids)]
  BY DEF TypeOK, ClientsTyped
<1>2. \A q \in Roles : client'[q].pending \subseteq client[q].pending
  BY <1>1
<1>3. \A q \in Roles : wire'[q] = wire[q] \/ wire'[q] = <<>>
  BY <1>1
<1> QED
  BY <1>2, <1>3, RestKeeps

\* A session that nobody has joined has clean books.
LEMMA BooksInit == Init => Bookkeeping
<1> SUFFICES ASSUME Init PROVE Bookkeeping
  OBVIOUS
<1>1. Len(<<>>) = 0 /\ Ids = {} /\ LoopIdle.kind = "grace" /\ LoopIdle.pc = "idle"
  BY IdleTyped DEF Init, Ids
<1>2. Owned
  BY <1>1 DEF Init, Owned, NewClient
<1>3. InFlight
  BY <1>1 DEF Init, InFlight
<1>4. Untouched /\ AppliedOnce /\ AcceptedIsDone
  BY <1>1 DEF Init, Untouched, AppliedOnce, AcceptedIsDone
<1> QED
  BY <1>2, <1>3, <1>4 DEF Bookkeeping

\* Every step keeps the books.
LEMMA BooksStep == TypeOK /\ Bookkeeping /\ [Next]_vars => Bookkeeping'
<1> SUFFICES ASSUME TypeOK, Bookkeeping, [Next]_vars PROVE Bookkeeping'
  OBVIOUS
<1>0. /\ h \in LoopStates /\ (h.kind = "event" => h.ev \in Ids)
      /\ h.pc \in {"checked", "persisted", "syncing", "apply"} => h.kind = "event"
      /\ issued \in Seq(Frames) /\ client \in [Roles -> Clients]
      /\ wire \in [Roles -> Seq(Ids)] /\ events \subseteq Ids
      /\ applied \in Seq(Nat) /\ Len(applied) = Len(issued)
      /\ moves \in Seq(Nat) /\ Len(moves) = Len(issued)
      /\ acks \in [{"accepted", "duplicate", "rejected"} -> SUBSET Ids]
      /\ h.role \in Roles
  BY DEF TypeOK, LoopTyped, LoopStates, ClientsTyped, DbTyped, HistoryTyped
<1>00. Owned /\ InFlight /\ Untouched /\ AcceptedIsDone /\ AppliedOnce
  BY DEF Bookkeeping
<1>1. CASE ResolveStart
  <2>1. UNCHANGED <<issued, events, acks, applied, moves, client, wire>>
    BY <1>1 DEF ResolveStart, dbVars, clientVars, histVars
  <2>2. h' = h \/ (h'.kind = h.kind /\ h'.role = h.role /\ h'.ev = h.ev /\ h'.pc = "resolving")
    BY <1>1, <1>0 DEF ResolveStart, ReadRow, LoopStates
  <2> QED
    BY <2>1, <2>2, FrameKeeps
<1>2. CASE ResolveCommit
  <2>1. UNCHANGED <<issued, events, acks, applied, moves, client, wire>>
    BY <1>2 DEF ResolveCommit, dbVars, clientVars, histVars
  <2>2. /\ h'.kind = h.kind /\ h'.role = h.role /\ h'.ev = h.ev
        /\ h'.pc \in {"evaluate", "dispatch"}
    BY <1>2, <1>0 DEF ResolveCommit, GoTo, LoopStates
  <2> QED
    BY <2>1, <2>2, FrameKeeps
<1>3. CASE ResolveFail
  <2>1. UNCHANGED <<issued, events, acks, applied, moves, client, wire>>
    BY <1>3 DEF ResolveFail, dbVars, clientVars, histVars
  <2>2. /\ h'.kind = h.kind /\ h'.role = h.role /\ h'.ev = h.ev
        /\ h'.pc \in {"evaluate", "dispatch"}
    BY <1>3, <1>0 DEF ResolveFail, GoTo, LoopStates
  <2> QED
    BY <2>1, <2>2, FrameKeeps
<1>4. CASE NothingToPause
  <2>1. UNCHANGED <<issued, events, acks, applied, moves, client, wire>>
    BY <1>4 DEF NothingToPause, dbVars, clientVars, histVars
  <2>2. /\ h'.kind = h.kind /\ h'.role = h.role /\ h'.ev = h.ev
        /\ h'.pc = "dispatch"
    BY <1>4, <1>0 DEF NothingToPause, GoTo, LoopStates
  <2> QED
    BY <2>1, <2>2, FrameKeeps
<1>5. CASE AutoPauseBegin
  <2>1. UNCHANGED <<issued, events, acks, applied, moves, client, wire>>
    BY <1>5 DEF AutoPauseBegin, dbVars, clientVars, histVars
  <2>2. /\ h'.kind = h.kind /\ h'.role = h.role /\ h'.ev = h.ev
        /\ h'.pc = "pausing"
    BY <1>5, <1>0 DEF AutoPauseBegin, ReadRow, LoopStates
  <2> QED
    BY <2>1, <2>2, FrameKeeps
<1>6. CASE AutoPauseCommit
  <2>1. UNCHANGED <<issued, events, acks, applied, moves, client, wire>>
    BY <1>6 DEF AutoPauseCommit, dbVars, clientVars, histVars
  <2>2. /\ h'.kind = h.kind /\ h'.role = h.role /\ h'.ev = h.ev
        /\ h'.pc = "pauseEvent"
    BY <1>6, <1>0 DEF AutoPauseCommit, LoopStates
  <2> QED
    BY <2>1, <2>2, FrameKeeps
<1>7. CASE AutoPauseFail
  <2>1. UNCHANGED <<issued, events, acks, applied, moves, client, wire>>
    BY <1>7 DEF AutoPauseFail, dbVars, clientVars, histVars
  <2>2. /\ h'.kind = h.kind /\ h'.role = h.role /\ h'.ev = h.ev
        /\ h'.pc = "dispatch"
    BY <1>7, <1>0 DEF AutoPauseFail, GoTo, LoopStates
  <2> QED
    BY <2>1, <2>2, FrameKeeps
<1>8. CASE AutoPauseEvent
  <2> DEFINE id == Len(issued) + 1
             f  == [role |-> "server", type |-> "session_paused",
                    seq |-> Cardinality(ServerRows), rev |-> mem.rev]
  <2>1. /\ issued' = Append(issued, f) /\ f.role = "server" /\ acks' = acks
        /\ applied' = Append(applied, 1) /\ moves' = Append(moves, 1)
    BY <1>8 DEF AutoPauseEvent
  <2>2. f \in Frames /\ Len(issued) \in Nat
    <3>1. IsFiniteSet(Ids)
      BY <1>0, LenProperties, FS_Interval DEF Ids
    <3>2. IsFiniteSet(ServerRows)
      BY <1>0, <3>1, FS_Subset DEF ServerRows
    <3>3. Cardinality(ServerRows) \in Nat /\ mem.rev \in Nat
      BY <3>2, FS_CardinalityType DEF TypeOK, MemTyped, Snapshots
    <3> QED
      BY <1>0, <3>3, LenProperties DEF Frames, Types, Lifecycle
  <2>3. /\ Len(issued') = id /\ issued'[id].role = "server"
        /\ \A e \in Ids : issued'[e] = issued[e]
    BY <1>0, <2>1, <2>2, AppendProperties DEF Ids
  <2>4. /\ applied'[id] = 1 /\ moves'[id] = 1
        /\ \A e \in Ids : applied'[e] = applied[e] /\ moves'[e] = moves[e]
    BY <1>0, <2>1, <2>2, AppendProperties DEF Ids
  <2>5. Ids' = Ids \cup {id} /\ id \notin Ids
    BY <2>2, <2>3 DEF Ids
  <2>6. /\ events \subseteq events' /\ events' \subseteq events \cup {id}
        /\ client' = client /\ wire' = wire
        /\ h'.kind = h.kind /\ h'.role = h.role /\ h'.ev = h.ev /\ h'.pc = "dispatch"
    BY <1>8, <1>0 DEF AutoPauseEvent, GoTo, LoopStates
  <2>7. Owned'
    <3>1. \A q \in Roles : client[q].pending \subseteq Ids
      BY <1>0 DEF Clients
    <3>2. \A q \in Roles : \A i \in 1 .. Len(wire[q]) : wire[q][i] \in Ids
      BY <1>0, ElementOfSeq
    <3>3. \A q \in Roles : \A e \in client'[q].pending : issued'[e].role = q
      BY <1>00, <2>3, <2>6, <3>1 DEF Owned
    <3>4. \A q \in Roles : \A i \in 1 .. Len(wire'[q]) : issued'[wire'[q][i]].role = q
      BY <1>00, <2>3, <2>6, <3>2 DEF Owned
    <3>5. h'.kind = "event" => issued'[h'.ev].role = h'.role
      BY <1>0, <1>00, <2>3, <2>6 DEF Owned
    <3> QED
      BY <3>3, <3>4, <3>5 DEF Owned
  <2>8. InFlight'
    BY <2>6 DEF InFlight
  <2>9. Untouched' /\ AppliedOnce'
    BY <1>00, <2>3, <2>4, <2>5, <2>6 DEF Untouched, AppliedOnce
  <2>10. AcceptedIsDone'
    <3>1. acks'["accepted"] = acks["accepted"] /\ acks["accepted"] \subseteq Ids
      BY <1>0, <2>1
    <3> QED
      BY <1>00, <2>3, <2>4, <2>6, <3>1 DEF AcceptedIsDone
  <2> QED
    BY <2>7, <2>8, <2>9, <2>10 DEF Bookkeeping
<1>9. CASE HandlerDies
  <2>1. UNCHANGED <<issued, events, acks, applied, moves>> /\ h' = LoopIdle
    BY <1>9 DEF HandlerDies, dbVars, clientVars, histVars
  <2>2. CASE Orphaned(h.role)
    <3>1. /\ client' = [client EXCEPT ![h.role] = [client[h.role] EXCEPT !.admitted = FALSE]]
          /\ wire' = [wire EXCEPT ![h.role] = <<>>]
      BY <1>0, <2>2 DEF Orphaned
    <3>2. [client[h.role] EXCEPT !.admitted = FALSE].pending \subseteq client[h.role].pending
      BY <1>0 DEF Clients
    <3> QED
      BY <1>0, <2>1, <3>1, <3>2, CloseKeeps
  <2>3. CASE UNCHANGED <<presence, client, wire>>
    BY <2>1, <2>3, RestKeeps
  <2> QED
    BY <1>9, <2>2, <2>3 DEF HandlerDies
<1>10. CASE FinishCheck
  <2>1. /\ UNCHANGED <<issued, events, acks, applied, moves, client, wire>>
        /\ h' = h \/ h' = LoopIdle
    BY <1>10 DEF FinishCheck, dbVars, clientVars, histVars
  <2> QED
    BY <2>1, RestKeeps
<1>11. CASE AnswerHello
  <2>1. UNCHANGED <<issued, events, acks, applied, moves>> /\ h' = LoopIdle
    BY <1>11 DEF AnswerHello, dbVars, clientVars, histVars
  <2>2. CASE UNCHANGED <<client, wire>>
    BY <2>1, <2>2, RestKeeps
  <2>3. ASSUME NEW q, wire' = [wire EXCEPT ![h.role] = q],
               q = wire[h.role] \/ q \in InOrder(Replayed(h.role)),
               client' = [client EXCEPT ![h.role].rev = mem.rev, ![h.role].admitted = TRUE,
                                        ![h.role].pending = Replayed(h.role)]
        PROVE  Bookkeeping'
    <3>1. Replayed(h.role) \subseteq client[h.role].pending
      BY DEF Replayed
    <3>2. \A p \in Roles : client'[p].pending \subseteq client[p].pending
      BY <1>0, <2>3, <3>1 DEF Clients
    <3>3. \A i \in 1 .. Len(q) : issued[q[i]].role = h.role
      <4>1. CASE q = wire[h.role]
        BY <1>0, <1>00, <4>1 DEF Owned
      <4>2. CASE q \in InOrder(Replayed(h.role))
        <5>1. Replayed(h.role) \subseteq Ids
          BY <1>0, <3>1 DEF Clients
        <5>2. q \in Seq(Ids)
          BY <1>0, <4>2, <5>1, InOrderTyped
        <5>3. q \in [1 .. Cardinality(Replayed(h.role)) -> Replayed(h.role)]
          BY <4>2 DEF InOrder
        <5>4. \A i \in 1 .. Len(q) : q[i] \in Replayed(h.role)
          BY <5>2, <5>3, LenProperties
        <5> QED
          BY <1>0, <1>00, <3>1, <5>4 DEF Owned
      <4> QED
        BY <2>3, <4>1, <4>2
    <3>4. \A p \in Roles : \A i \in 1 .. Len(wire'[p]) : issued[wire'[p][i]].role = p
      BY <1>0, <1>00, <2>3, <3>3 DEF Owned
    <3>5. LoopIdle.kind = "grace" /\ LoopIdle.pc = "idle"
      BY IdleTyped
    <3> QED
      BY <2>1, <3>2, <3>4, <3>5, BooksKeep
  <2> QED
    BY <1>11, <2>2, <2>3 DEF AnswerHello
<1>12. CASE AckDuplicate
  <2>1. h.kind = "event" /\ Reply("duplicate")
    BY <1>12 DEF AckDuplicate, Handling
  <2>2. UNCHANGED <<events, applied, moves>>
    BY <1>12 DEF AckDuplicate
  <2> QED
    BY <2>1, <2>2, ReplyBooks, RestKeeps
<1>13. CASE AckRejected
  <2>1. h.kind = "event" /\ Reply("rejected")
    BY <1>13 DEF AckRejected, Handling
  <2>2. UNCHANGED <<events, applied, moves>>
    BY <1>13 DEF AckRejected
  <2> QED
    BY <2>1, <2>2, ReplyBooks, RestKeeps
<1>14. CASE PreflightFail
  <2>1. h.kind = "event" /\ Reply("rejected")
    BY <1>14 DEF PreflightFail, Handling
  <2>2. UNCHANGED <<events, applied, moves>>
    BY <1>14 DEF PreflightFail
  <2> QED
    BY <2>1, <2>2, ReplyBooks, RestKeeps
<1>15. CASE Preflight
  <2>1. UNCHANGED <<issued, events, acks, applied, moves, client, wire>>
    BY <1>15 DEF Preflight, dbVars, clientVars, histVars
  <2>2. /\ h'.kind = h.kind /\ h'.role = h.role /\ h'.ev = h.ev
        /\ h'.pc = "checked"
    BY <1>15, <1>0 DEF Preflight, GoTo, LoopStates
  <2> QED
    BY <2>1, <2>2, FrameKeeps
<1>16. CASE PersistDuplicate
  <2>1. h.kind = "event" /\ Reply("duplicate")
    BY <1>0, <1>16 DEF PersistDuplicate, At
  <2>2. UNCHANGED <<events, applied, moves>>
    BY <1>16 DEF PersistDuplicate
  <2> QED
    BY <2>1, <2>2, ReplyBooks, RestKeeps
<1>17. CASE Persist
  <2>1. /\ h.kind = "event" /\ h.ev \in Ids /\ h.ev \notin events
        /\ UNCHANGED <<issued, acks, applied, moves, client, wire>>
        /\ events' = events \cup {h.ev}
    BY <1>0, <1>17 DEF Persist, At, Taken, dbVars, clientVars, histVars
  <2>2. /\ h'.kind = h.kind /\ h'.role = h.role /\ h'.ev = h.ev
        /\ \/ h'.pc = "persisted"
           \/ h'.pc = "apply" /\ issued[h.ev].type \notin Lifecycle
    BY <1>0, <1>17 DEF Persist, GoTo, LoopStates
  <2>3. Ids' = Ids
    BY <2>1, SameIds
  <2>4. applied[h.ev] = 0 /\ moves[h.ev] = 0
    <3>1. issued[h.ev].role # "server"
      BY <1>0, <1>00, <2>1, ConstantsOK DEF Owned, ConstantsOK
    <3> QED
      BY <1>00, <2>1, <3>1 DEF Untouched
  <2>5. InFlight'
    BY <2>1, <2>2, <2>4 DEF InFlight
  <2>6. Owned'
    BY <1>00, <2>1, <2>2 DEF Owned
  <2>7. Untouched' /\ AcceptedIsDone' /\ AppliedOnce'
    BY <1>00, <2>1, <2>3 DEF Untouched, AcceptedIsDone, AppliedOnce
  <2> QED
    BY <2>5, <2>6, <2>7 DEF Bookkeeping
<1>18. CASE PersistFail
  <2>1. h.kind = "event" /\ Reply("rejected")
    BY <1>0, <1>18 DEF PersistFail, At
  <2>2. UNCHANGED <<events, applied, moves>>
    BY <1>18 DEF PersistFail
  <2> QED
    BY <2>1, <2>2, ReplyBooks, RestKeeps
<1>19. CASE SyncBegin
  <2>1. UNCHANGED <<issued, events, acks, applied, moves, client, wire>>
    BY <1>19 DEF SyncBegin, dbVars, clientVars, histVars
  <2>2. /\ h'.kind = h.kind /\ h'.role = h.role /\ h'.ev = h.ev
        /\ h.pc = "persisted" /\ h'.pc = "syncing"
    BY <1>19, <1>0 DEF SyncBegin, ReadRow, At, LoopStates
  <2> QED
    BY <2>1, <2>2, FrameKeeps
<1>20. CASE SyncRefused
  <2>1. h.kind = "event" /\ Reply("rejected")
    BY <1>0, <1>20 DEF SyncRefused, At
  <2>2. UNCHANGED <<events, applied, moves>>
    BY <1>20 DEF SyncRefused
  <2> QED
    BY <2>1, <2>2, ReplyBooks, RestKeeps
<1>21. CASE SyncCommit
  <2>1. /\ h.kind = "event" /\ h.ev \in Ids /\ h.ev \in events
        /\ applied[h.ev] = 0 /\ moves[h.ev] = 0
        /\ UNCHANGED <<issued, events, acks, applied, client, wire>>
        /\ moves' = [moves EXCEPT ![h.ev] = @ + 1]
    BY <1>0, <1>00, <1>21 DEF SyncCommit, At, InFlight, dbVars, clientVars, histVars
  <2>2. h'.kind = h.kind /\ h'.role = h.role /\ h'.ev = h.ev /\ h'.pc = "apply"
    BY <1>0, <1>21 DEF SyncCommit, LoopStates
  <2>3. Ids' = Ids
    BY <2>1, SameIds
  <2>4. /\ moves'[h.ev] = 1
        /\ \A e \in Ids : e # h.ev => moves'[e] = moves[e]
    BY <1>0, <2>1, LenProperties DEF Ids
  <2>5. InFlight'
    BY <2>1, <2>2, <2>4 DEF InFlight
  <2>6. Owned'
    BY <1>00, <2>1, <2>2 DEF Owned
  <2>7. Untouched' /\ AppliedOnce'
    BY <1>00, <2>1, <2>3, <2>4 DEF Untouched, AppliedOnce
  <2>8. AcceptedIsDone'
    <3>1. h.ev \notin acks["accepted"] /\ acks["accepted"] \subseteq Ids
      BY <1>0, <1>00, <2>1 DEF AcceptedIsDone
    <3> QED
      BY <1>00, <2>1, <2>4, <3>1 DEF AcceptedIsDone
  <2> QED
    BY <2>5, <2>6, <2>7, <2>8 DEF Bookkeeping
<1>22. CASE SyncFail
  <2>1. h.kind = "event" /\ Reply("rejected")
    BY <1>0, <1>22 DEF SyncFail, At
  <2>2. UNCHANGED <<events, applied, moves>>
    BY <1>22 DEF SyncFail
  <2> QED
    BY <2>1, <2>2, ReplyBooks, RestKeeps
<1>23. CASE Apply
  <2>1. /\ h.kind = "event" /\ h.ev \in Ids /\ h.ev \in events /\ applied[h.ev] = 0
        /\ issued[h.ev].type \in Lifecycle => moves[h.ev] = 1
        /\ UNCHANGED <<events, moves>> /\ Reply("accepted")
        /\ applied' = [applied EXCEPT ![h.ev] = @ + 1]
    BY <1>0, <1>00, <1>23 DEF Apply, At, InFlight
  <2>2. /\ issued' = issued /\ wire' = wire /\ h' = LoopIdle
        /\ \A r \in Roles : client'[r].pending \subseteq client[r].pending
        /\ acks'["accepted"] = acks["accepted"] \cup {h.ev}
    BY <2>1, ReplyBooks
  <2>3. Ids' = Ids /\ LoopIdle.kind = "grace" /\ LoopIdle.pc = "idle"
    BY <2>2, SameIds, IdleTyped
  <2>4. /\ applied'[h.ev] = 1
        /\ \A e \in Ids : e # h.ev => applied'[e] = applied[e]
    BY <1>0, <2>1, LenProperties DEF Ids
  <2>5. InFlight'
    BY <2>2, <2>3 DEF InFlight
  <2>6. Owned'
    BY <1>00, <2>2, <2>3 DEF Owned
  <2>7. Untouched' /\ AppliedOnce'
    BY <1>00, <2>1, <2>2, <2>3, <2>4 DEF Untouched, AppliedOnce
  <2>8. AcceptedIsDone'
    <3>1. acks["accepted"] \subseteq Ids
      BY <1>0
    <3>2. ASSUME NEW e \in acks'["accepted"]
          PROVE  /\ e \in events' /\ applied'[e] = 1
                 /\ issued'[e].type \in Lifecycle => moves'[e] = 1
      <4>1. CASE e = h.ev
        BY <2>1, <2>2, <2>4, <4>1
      <4>2. CASE e # h.ev
        <5>1. e \in acks["accepted"] /\ e \in Ids
          BY <2>2, <3>1, <3>2, <4>2
        <5> QED
          BY <1>00, <2>1, <2>2, <2>4, <4>2, <5>1 DEF AcceptedIsDone
      <4> QED
        BY <4>1, <4>2
    <3> QED
      BY <3>2 DEF AcceptedIsDone
  <2> QED
    BY <2>5, <2>6, <2>7, <2>8 DEF Bookkeeping
<1>24. CASE RestEndBegin
  <2>1. /\ UNCHANGED <<issued, events, acks, applied, moves, client, wire>>
        /\ h' = h \/ h' = LoopIdle
    BY <1>24 DEF RestEndBegin, dbVars, clientVars, histVars
  <2> QED
    BY <2>1, RestKeeps
<1>25. CASE RestEndCommit
  <2>1. /\ UNCHANGED <<issued, events, acks, applied, moves, client, wire>>
        /\ h' = h \/ h' = LoopIdle
    BY <1>25 DEF RestEndCommit, dbVars, clientVars, histVars
  <2> QED
    BY <2>1, RestKeeps
<1>26. CASE StartComesDue
  <2>1. /\ UNCHANGED <<issued, events, acks, applied, moves, client, wire>>
        /\ h' = h \/ h' = LoopIdle
    BY <1>26 DEF StartComesDue, dbVars, clientVars, histVars
  <2> QED
    BY <2>1, RestKeeps
<1>27. CASE Restart
  <2>1. UNCHANGED <<issued, events, acks, applied, moves>> /\ h' = LoopIdle
    BY <1>27 DEF Restart, dbVars
  <2>2. \A r \in Roles : client'[r].pending \subseteq client[r].pending
    BY <1>27, <1>0 DEF Restart, Clients
  <2>3. \A r \in Roles : wire'[r] = <<>>
    BY <1>27 DEF Restart
  <2> QED
    BY <2>1, <2>2, <2>3, RestKeeps
<1>28. ASSUME NEW r \in Roles, Receive(r) PROVE Bookkeeping'
  <2>1. UNCHANGED <<issued, events, acks, applied, moves, client>>
    BY <1>28 DEF Receive, Inbound, dbVars, clientVars, histVars
  <2>2. /\ wire[r] \in Seq(Ids) /\ wire[r] # <<>>
        /\ wire' = [wire EXCEPT ![r] = Tail(wire[r])]
    BY <1>28, <1>0 DEF Receive
  <2>3. /\ Tail(wire[r]) \in Seq(Ids) /\ Len(wire[r]) \in Nat /\ Len(Tail(wire[r])) = Len(wire[r]) - 1
        /\ \A i \in 1 .. Len(Tail(wire[r])) : Tail(wire[r])[i] = wire[r][i + 1]
        /\ Head(wire[r]) = wire[r][1] /\ 1 \in 1 .. Len(wire[r])
    BY <2>2, HeadTailProperties, LenProperties, EmptySeq
  <2>4. \A i \in 1 .. Len(Tail(wire[r])) : issued[Tail(wire[r])[i]].role = r
    <3>1. \A i \in 1 .. Len(Tail(wire[r])) : i + 1 \in 1 .. Len(wire[r])
      BY <2>3
    <3> QED
      BY <1>28, <1>00, <2>3, <3>1 DEF Owned
  <2>5. \A q \in Roles : \A i \in 1 .. Len(wire'[q]) : issued[wire'[q][i]].role = q
    BY <1>0, <1>00, <2>2, <2>4 DEF Owned
  <2>6. h'.ev = wire[r][1] /\ h'.role = r /\ h'.pc = "evaluate"
    <3>1. h' = [LoopIdle EXCEPT !.pc = "evaluate", !.kind = "event", !.role = r,
                                !.ev = Head(wire[r])]
      BY <1>28 DEF Receive, Inbound
    <3> QED
      BY <2>3, <3>1, IdleTyped DEF LoopStates
  <2>7. issued[h'.ev].role = h'.role
    BY <1>28, <1>00, <2>3, <2>6 DEF Owned
  <2> QED
    BY <2>1, <2>5, <2>6, <2>7, BooksKeep
<1>29. ASSUME NEW r \in Roles, Hello(r) PROVE Bookkeeping'
  <2>1. UNCHANGED <<issued, events, acks, applied, moves, client, wire>>
    BY <1>29 DEF Hello, Inbound, dbVars, clientVars, histVars
  <2>2. h'.kind # "event" /\ h'.pc = "evaluate"
    BY <1>29, IdleTyped DEF Hello, Inbound, LoopStates
  <2>3. \A q \in Roles : \A i \in 1 .. Len(wire'[q]) : issued[wire'[q][i]].role = q
    BY <1>00, <2>1 DEF Owned
  <2> QED
    BY <2>1, <2>2, <2>3, BooksKeep
<1>30. ASSUME NEW r \in Roles, Ping(r) PROVE Bookkeeping'
  <2>1. UNCHANGED <<issued, events, acks, applied, moves, client, wire>>
    BY <1>30 DEF Ping, Inbound, dbVars, clientVars, histVars
  <2>2. h'.kind # "event" /\ h'.pc = "evaluate"
    BY <1>30, IdleTyped DEF Ping, Inbound, LoopStates
  <2>3. \A q \in Roles : \A i \in 1 .. Len(wire'[q]) : issued[wire'[q][i]].role = q
    BY <1>00, <2>1 DEF Owned
  <2> QED
    BY <2>1, <2>2, <2>3, BooksKeep
<1>31. ASSUME NEW r \in Roles, RefuseFrame(r) PROVE Bookkeeping'
  <2>1. /\ UNCHANGED <<issued, events, acks, applied, moves, h>>
        /\ client' = [client EXCEPT ![r] = [client[r] EXCEPT !.admitted = FALSE]] /\ wire' = [wire EXCEPT ![r] = <<>>]
    BY <1>31, <1>0 DEF RefuseFrame, dbVars, clientVars, histVars
  <2>2. [client[r] EXCEPT !.admitted = FALSE].pending \subseteq client[r].pending
    BY <1>0 DEF Clients
  <2> QED
    BY <1>31, <2>1, <2>2, CloseKeeps
<1>32. ASSUME NEW r \in Roles, GraceCheck(r) PROVE Bookkeeping'
  <2>1. UNCHANGED <<issued, events, acks, applied, moves, client, wire>>
    BY <1>32 DEF GraceCheck, dbVars, clientVars, histVars
  <2>2. h'.kind = "grace" /\ h'.pc = "evaluate"
    BY <1>32, IdleTyped DEF GraceCheck, LoopStates
  <2>3. \A q \in Roles : \A i \in 1 .. Len(wire'[q]) : issued[wire'[q][i]].role = q
    BY <1>00, <2>1 DEF Owned
  <2> QED
    BY <2>1, <2>2, <2>3, BooksKeep
<1>33. ASSUME NEW r \in Roles, Connect(r) PROVE Bookkeeping'
  <2>1. /\ UNCHANGED <<issued, events, acks, applied, moves, h>>
        /\ client' = [client EXCEPT ![r] = [client[r] EXCEPT !.admitted = FALSE]] /\ wire' = [wire EXCEPT ![r] = <<>>]
    BY <1>33, <1>0 DEF Connect, dbVars, clientVars, histVars
  <2>2. [client[r] EXCEPT !.admitted = FALSE].pending \subseteq client[r].pending
    BY <1>0 DEF Clients
  <2> QED
    BY <1>33, <2>1, <2>2, CloseKeeps
<1>34. ASSUME NEW r \in Roles, Disconnect(r) PROVE Bookkeeping'
  <2>1. /\ UNCHANGED <<issued, events, acks, applied, moves, h>>
        /\ client' = [client EXCEPT ![r] = [client[r] EXCEPT !.admitted = FALSE]] /\ wire' = [wire EXCEPT ![r] = <<>>]
    BY <1>34, <1>0 DEF Disconnect, Drop, dbVars, clientVars, histVars
  <2>2. [client[r] EXCEPT !.admitted = FALSE].pending \subseteq client[r].pending
    BY <1>0 DEF Clients
  <2> QED
    BY <1>34, <2>1, <2>2, CloseKeeps
<1>35. ASSUME NEW r \in Roles, Reload(r) PROVE Bookkeeping'
  <2>1. /\ UNCHANGED <<issued, events, acks, applied, moves, h>>
        /\ client' = [client EXCEPT ![r] = NewClient] /\ wire' = [wire EXCEPT ![r] = <<>>]
    BY <1>35, <1>0 DEF Reload, Drop, dbVars, clientVars, histVars
  <2>2. NewClient.pending \subseteq client[r].pending
    BY DEF NewClient
  <2> QED
    BY <1>35, <2>1, <2>2, CloseKeeps
<1>36. ASSUME NEW r \in Roles, Silence(r) PROVE Bookkeeping'
  <2>1. UNCHANGED <<issued, events, acks, applied, moves, client, wire, h>>
    BY <1>36 DEF Silence, dbVars, clientVars, histVars
  <2> QED
    BY <2>1, RestKeeps
<1>37. ASSUME NEW r \in Roles, SendRaises(r) PROVE Bookkeeping'
  <2>1. /\ UNCHANGED <<issued, events, acks, applied, moves, h>>
        /\ client' = [client EXCEPT ![r] = [client[r] EXCEPT !.admitted = FALSE]] /\ wire' = [wire EXCEPT ![r] = <<>>]
    BY <1>37, <1>0 DEF SendRaises, Orphaned, dbVars, clientVars, histVars
  <2>2. [client[r] EXCEPT !.admitted = FALSE].pending \subseteq client[r].pending
    BY <1>0 DEF Clients
  <2> QED
    BY <1>37, <2>1, <2>2, CloseKeeps
<1>38. ASSUME NEW r \in Roles, NEW type \in Types, Send(r, type) PROVE Bookkeeping'
  <2> DEFINE id == Len(issued) + 1
             f  == [role |-> r, type |-> type, seq |-> client[r].seq, rev |-> client[r].rev]
  <2>1. /\ issued' = Append(issued, f) /\ f.role = r /\ acks' = acks
        /\ applied' = Append(applied, 0) /\ moves' = Append(moves, 0)
    BY <1>38 DEF Send
  <2>2. f \in Frames /\ Len(issued) \in Nat
    BY <1>38, <1>0, LenProperties DEF Frames, Clients
  <2>3. /\ Len(issued') = id /\ issued'[id].role = r
        /\ \A e \in Ids : issued'[e] = issued[e]
    BY <1>0, <2>1, <2>2, AppendProperties DEF Ids
  <2>4. /\ applied'[id] = 0 /\ moves'[id] = 0
        /\ \A e \in Ids : applied'[e] = applied[e] /\ moves'[e] = moves[e]
    BY <1>0, <2>1, <2>2, AppendProperties DEF Ids
  <2>5. Ids' = Ids \cup {id} /\ id \notin Ids
    BY <2>2, <2>3 DEF Ids
  <2>6. events' = events /\ h' = h
    BY <1>38 DEF Send, dbVars
  <2>7. Owned'
    <3> DEFINE c == [client[r] EXCEPT !.seq = @ + 1, !.pending = @ \cup {id}]
    <3>1. /\ client' = [client EXCEPT ![r] = c] /\ c.pending = client[r].pending \cup {id}
          /\ wire' = [wire EXCEPT ![r] = Append(wire[r], id)]
      BY <1>38, <1>0 DEF Send, Clients
    <3>2. \A q \in Roles : \A e \in client'[q].pending : issued'[e].role = q
      <4>1. \A q \in Roles : client[q].pending \subseteq Ids
        BY <1>0 DEF Clients
      <4> QED
        BY <1>38, <1>0, <1>00, <2>3, <3>1, <4>1 DEF Owned
    <3>3. \A i \in 1 .. Len(wire'[r]) : issued'[wire'[r][i]].role = r
      <4>1. wire[r] \in Seq(Nat) /\ id \in Nat /\ wire'[r] = Append(wire[r], id)
        <5>1. Ids \subseteq Nat
          BY DEF Ids
        <5> QED
          BY <1>38, <1>0, <2>2, <3>1, <5>1, SeqMonotonic
      <4>2. /\ Len(wire'[r]) = Len(wire[r]) + 1 /\ wire'[r][Len(wire[r]) + 1] = id
            /\ \A i \in 1 .. Len(wire[r]) : wire'[r][i] = wire[r][i]
            /\ Len(wire[r]) \in Nat
        BY <4>1, AppendProperties, LenProperties
      <4>3. \A i \in 1 .. Len(wire[r]) : wire[r][i] \in Ids
        BY <1>38, <1>0, ElementOfSeq
      <4>4. \A i \in 1 .. Len(wire[r]) : issued'[wire'[r][i]].role = r
        BY <1>38, <1>00, <2>3, <4>2, <4>3 DEF Owned
      <4>5. issued'[wire'[r][Len(wire[r]) + 1]].role = r
        BY <2>3, <4>2
      <4>6. \A i \in 1 .. Len(wire'[r]) : i \in 1 .. Len(wire[r]) \/ i = Len(wire[r]) + 1
        BY <4>2
      <4> QED
        BY <4>4, <4>5, <4>6
    <3>4. \A q \in Roles : q # r => \A i \in 1 .. Len(wire'[q]) : issued'[wire'[q][i]].role = q
      <4>1. \A q \in Roles : q # r => wire'[q] = wire[q]
        BY <1>0, <3>1
      <4>2. \A q \in Roles : \A i \in 1 .. Len(wire[q]) : wire[q][i] \in Ids
        BY <1>0, ElementOfSeq
      <4> QED
        BY <1>00, <2>3, <4>1, <4>2 DEF Owned
    <3>5. h'.kind = "event" => issued'[h'.ev].role = h'.role
      BY <1>0, <1>00, <2>3, <2>6 DEF Owned
    <3> QED
      BY <3>2, <3>3, <3>4, <3>5 DEF Owned
  <2>8. InFlight'
    BY <1>0, <1>00, <2>3, <2>4, <2>6 DEF InFlight
  <2>9. Untouched' /\ AppliedOnce'
    BY <1>00, <2>3, <2>4, <2>5, <2>6 DEF Untouched, AppliedOnce
  <2>10. AcceptedIsDone'
    <3>1. acks'["accepted"] = acks["accepted"] /\ acks["accepted"] \subseteq Ids
      BY <1>0, <2>1
    <3> QED
      BY <1>00, <2>3, <2>4, <2>6, <3>1 DEF AcceptedIsDone
  <2> QED
    BY <2>7, <2>8, <2>9, <2>10 DEF Bookkeeping
<1>39. CASE UNCHANGED vars
  <2>1. UNCHANGED <<issued, events, acks, applied, moves, client, wire, h>>
    BY <1>39 DEF vars, dbVars, clientVars, histVars
  <2> QED
    BY <2>1, RestKeeps
<1> QED
  BY <1>1, <1>2, <1>3, <1>4, <1>5, <1>6, <1>7, <1>8, <1>9, <1>10, <1>11, <1>12, <1>13, <1>14, <1>15, <1>16, <1>17, <1>18, <1>19, <1>20, <1>21, <1>22, <1>23, <1>24, <1>25, <1>26, <1>27, <1>28, <1>29, <1>30, <1>31, <1>32, <1>33, <1>34, <1>35, <1>36, <1>37, <1>38, <1>39 DEF Next, LoopStep

\* Typing and the books together are the inductive invariant.
THEOREM BooksCorrect == Spec => []Bookkeeping
<1>1. Init => TypeOK /\ Bookkeeping
  BY TypeInit, BooksInit
<1>2. TypeOK /\ Bookkeeping /\ [Next]_vars => (TypeOK /\ Bookkeeping)'
  BY TypeStep, BooksStep
<1> QED
  BY <1>1, <1>2, PTL DEF Spec

\* An event told "accepted" is durable, has moved the row if it is a lifecycle
\* event, and has changed the snapshot, for any number of clients' messages,
\* failures, drops, reloads and restarts.
THEOREM AcceptedCorrect == Spec => []AcceptedIsDone
<1>1. Bookkeeping => AcceptedIsDone
  BY DEF Bookkeeping
<1> QED
  BY <1>1, BooksCorrect, PTL

\* No replay applies an event a second time.
THEOREM AppliedOnceCorrect == Spec => []AppliedOnce
<1>1. Bookkeeping => AppliedOnce
  BY DEF Bookkeeping
<1> QED
  BY <1>1, BooksCorrect, PTL

(***************************************************************************)
(* The dedup set, the snapshot and the revisions the clients hold.         *)
(***************************************************************************)
\* A message whose key or slot is stored stays so while the log grows.
LEMMA TakenStays ==
  ASSUME TypeOK, ProcessedIsTaken, events \subseteq events', processed' \subseteq processed,
         \A e \in Ids : issued'[e] = issued[e]
  PROVE  ProcessedIsTaken'
<1> SUFFICES ASSUME NEW e \in processed' PROVE Taken(e)' \/ issued'[e].role = "server"
  BY DEF ProcessedIsTaken
<1>1. e \in Ids /\ events \subseteq Ids
  BY DEF TypeOK, MemTyped, DbTyped
<1>2. Taken(e) \/ issued[e].role = "server"
  BY DEF ProcessedIsTaken
<1>3. CASE Taken(e)
  <2>1. PICK d \in events : \/ d = e
                            \/ /\ issued[d].role = issued[e].role
                               /\ issued[d].seq  = issued[e].seq
    BY <1>3 DEF Taken
  <2>2. d \in events' /\ issued'[d] = issued[d] /\ issued'[e] = issued[e]
    BY <1>1, <2>1
  <2> QED
    BY <2>1, <2>2 DEF Taken
<1>4. CASE issued[e].role = "server"
  BY <1>1, <1>4
<1> QED
  BY <1>2, <1>3, <1>4

\* The dedup set gains a message only with its row, or a server pause.
LEMMA ProcessedStep ==
  TypeOK /\ Bookkeeping /\ ProcessedIsTaken /\ [Next]_vars => ProcessedIsTaken'
<1> SUFFICES ASSUME TypeOK, Bookkeeping, ProcessedIsTaken, [Next]_vars
             PROVE  ProcessedIsTaken'
  OBVIOUS
<1>1. CASE ResolveStart
  <2>1. UNCHANGED <<issued, events, processed>>
    BY <1>1 DEF ResolveStart, dbVars, memVars, clientVars, histVars
  <2> QED
    BY <2>1, TakenStays
<1>2. CASE ResolveCommit
  <2>1. UNCHANGED <<issued, events, processed>>
    BY <1>2 DEF ResolveCommit, dbVars, memVars, clientVars, histVars
  <2> QED
    BY <2>1, TakenStays
<1>3. CASE ResolveFail
  <2>1. UNCHANGED <<issued, events, processed>>
    BY <1>3 DEF ResolveFail, dbVars, memVars, clientVars, histVars
  <2> QED
    BY <2>1, TakenStays
<1>4. CASE NothingToPause
  <2>1. UNCHANGED <<issued, events, processed>>
    BY <1>4 DEF NothingToPause, dbVars, memVars, clientVars, histVars
  <2> QED
    BY <2>1, TakenStays
<1>5. CASE AutoPauseBegin
  <2>1. UNCHANGED <<issued, events, processed>>
    BY <1>5 DEF AutoPauseBegin, dbVars, memVars, clientVars, histVars
  <2> QED
    BY <2>1, TakenStays
<1>6. CASE AutoPauseCommit
  <2>1. UNCHANGED <<issued, events, processed>>
    BY <1>6 DEF AutoPauseCommit, dbVars, memVars, clientVars, histVars
  <2> QED
    BY <2>1, TakenStays
<1>7. CASE AutoPauseFail
  <2>1. UNCHANGED <<issued, events, processed>>
    BY <1>7 DEF AutoPauseFail, dbVars, memVars, clientVars, histVars
  <2> QED
    BY <2>1, TakenStays
<1>8. CASE AutoPauseEvent
  <2> DEFINE id == Len(issued) + 1
             f  == [role |-> "server", type |-> "session_paused",
                    seq |-> Cardinality(ServerRows), rev |-> mem.rev]
  <2>1. /\ events \subseteq events' /\ processed' = processed \cup {id}
        /\ issued' = Append(issued, f)
    BY <1>8 DEF AutoPauseEvent
  <2>2. issued \in Seq(Frames) /\ Len(issued) \in Nat
    BY LenProperties DEF TypeOK, ClientsTyped
  <2>3. f \in Frames
    <3>1. IsFiniteSet(Ids)
      BY <2>2, FS_Interval DEF Ids
    <3>2. IsFiniteSet(ServerRows)
      BY <3>1, FS_Subset DEF ServerRows, TypeOK, DbTyped
    <3>3. Cardinality(ServerRows) \in Nat /\ mem.rev \in Nat
      BY <3>2, FS_CardinalityType DEF TypeOK, MemTyped, Snapshots
    <3> QED
      BY <3>3 DEF Frames, Types, Lifecycle
  <2>4. /\ issued'[id].role = "server"
        /\ \A e \in Ids : issued'[e] = issued[e]
    BY <2>1, <2>2, <2>3, AppendProperties DEF Ids
  <2>5. \A e \in processed : Taken(e)' \/ issued'[e].role = "server"
    <3> SUFFICES ASSUME NEW e \in processed PROVE Taken(e)' \/ issued'[e].role = "server"
      OBVIOUS
    <3>1. e \in Ids /\ events \subseteq Ids
      BY DEF TypeOK, MemTyped, DbTyped
    <3>2. CASE issued[e].role = "server"
      BY <2>4, <3>1, <3>2
    <3>3. CASE Taken(e)
      <4>1. PICK d \in events : \/ d = e
                                \/ /\ issued[d].role = issued[e].role
                                   /\ issued[d].seq  = issued[e].seq
        BY <3>3 DEF Taken
      <4>2. d \in events' /\ issued'[d] = issued[d] /\ issued'[e] = issued[e]
        BY <2>1, <2>4, <3>1, <4>1
      <4> QED
        BY <4>1, <4>2 DEF Taken
    <3> QED
      BY <3>2, <3>3 DEF ProcessedIsTaken
  <2> QED
    BY <2>1, <2>4, <2>5 DEF ProcessedIsTaken
<1>9. CASE HandlerDies
  <2>1. UNCHANGED <<issued, events, processed>>
    BY <1>9 DEF HandlerDies, dbVars, memVars, clientVars, histVars
  <2> QED
    BY <2>1, TakenStays
<1>10. CASE FinishCheck
  <2>1. UNCHANGED <<issued, events, processed>>
    BY <1>10 DEF FinishCheck, dbVars, memVars, clientVars, histVars
  <2> QED
    BY <2>1, TakenStays
<1>11. CASE AnswerHello
  <2>1. UNCHANGED <<issued, events, processed>>
    BY <1>11 DEF AnswerHello, dbVars, memVars, clientVars, histVars
  <2> QED
    BY <2>1, TakenStays
<1>12. CASE AckDuplicate
  <2>1. UNCHANGED <<issued, events, processed>>
    BY <1>12 DEF AckDuplicate, Reply, memVars
  <2> QED
    BY <2>1, TakenStays
<1>13. CASE AckRejected
  <2>1. UNCHANGED <<issued, events, processed>>
    BY <1>13 DEF AckRejected, Reply, memVars
  <2> QED
    BY <2>1, TakenStays
<1>14. CASE PreflightFail
  <2>1. UNCHANGED <<issued, events, processed>>
    BY <1>14 DEF PreflightFail, Reply, memVars
  <2> QED
    BY <2>1, TakenStays
<1>15. CASE Preflight
  <2>1. UNCHANGED <<issued, events, processed>>
    BY <1>15 DEF Preflight, dbVars, memVars, clientVars, histVars
  <2> QED
    BY <2>1, TakenStays
<1>16. CASE PersistDuplicate
  <2>1. /\ UNCHANGED <<issued, events>> /\ processed' = processed \cup {h.ev}
    BY <1>16 DEF PersistDuplicate, Reply
  <2>2. Taken(h.ev)
    BY <1>16 DEF PersistDuplicate
  <2>3. \A e : e = h.ev => Taken(e)'
    BY <2>1, <2>2 DEF Taken
  <2>4. \A e \in processed : Taken(e)' \/ issued'[e].role = "server"
    BY <2>1 DEF ProcessedIsTaken, Taken
  <2> QED
    BY <2>1, <2>3, <2>4 DEF ProcessedIsTaken
<1>17. CASE Persist
  <2>1. issued' = issued /\ processed' = processed /\ events \subseteq events'
    BY <1>17 DEF Persist, memVars, clientVars
  <2> QED
    BY <2>1, TakenStays
<1>18. CASE PersistFail
  <2>1. UNCHANGED <<issued, events, processed>>
    BY <1>18 DEF PersistFail, Reply, memVars
  <2> QED
    BY <2>1, TakenStays
<1>19. CASE SyncBegin
  <2>1. UNCHANGED <<issued, events, processed>>
    BY <1>19 DEF SyncBegin, dbVars, memVars, clientVars, histVars
  <2> QED
    BY <2>1, TakenStays
<1>20. CASE SyncRefused
  <2>1. UNCHANGED <<issued, events, processed>>
    BY <1>20 DEF SyncRefused, Reply, memVars
  <2> QED
    BY <2>1, TakenStays
<1>21. CASE SyncCommit
  <2>1. UNCHANGED <<issued, events, processed>>
    BY <1>21 DEF SyncCommit, dbVars, memVars, clientVars, histVars
  <2> QED
    BY <2>1, TakenStays
<1>22. CASE SyncFail
  <2>1. UNCHANGED <<issued, events, processed>>
    BY <1>22 DEF SyncFail, Reply, memVars
  <2> QED
    BY <2>1, TakenStays
<1>23. CASE Apply
  <2>1. /\ UNCHANGED <<issued, events>> /\ processed' = processed \cup {h.ev}
    BY <1>23 DEF Apply, Reply
  <2>2. Taken(h.ev)
    BY <1>23 DEF Apply, At, Bookkeeping, InFlight, Taken
  <2>3. \A e : e = h.ev => Taken(e)'
    BY <2>1, <2>2 DEF Taken
  <2>4. \A e \in processed : Taken(e)' \/ issued'[e].role = "server"
    BY <2>1 DEF ProcessedIsTaken, Taken
  <2> QED
    BY <2>1, <2>3, <2>4 DEF ProcessedIsTaken
<1>24. CASE RestEndBegin
  <2>1. UNCHANGED <<issued, events, processed>>
    BY <1>24 DEF RestEndBegin, dbVars, memVars, clientVars, histVars
  <2> QED
    BY <2>1, TakenStays
<1>25. CASE RestEndCommit
  <2>1. UNCHANGED <<issued, events, processed>>
    BY <1>25 DEF RestEndCommit, dbVars, memVars, clientVars, histVars
  <2> QED
    BY <2>1, TakenStays
<1>26. CASE StartComesDue
  <2>1. UNCHANGED <<issued, events, processed>>
    BY <1>26 DEF StartComesDue, dbVars, memVars, clientVars, histVars
  <2> QED
    BY <2>1, TakenStays
<1>27. CASE Restart
  BY <1>27 DEF Restart, ProcessedIsTaken
<1>28. ASSUME NEW r \in Roles, Receive(r) PROVE ProcessedIsTaken'
  <2>1. UNCHANGED <<issued, events, processed>>
    BY <1>28 DEF Receive, Inbound, dbVars, memVars, clientVars, histVars
  <2> QED
    BY <2>1, TakenStays
<1>29. ASSUME NEW r \in Roles, Hello(r) PROVE ProcessedIsTaken'
  <2>1. UNCHANGED <<issued, events, processed>>
    BY <1>29 DEF Hello, Inbound, dbVars, memVars, clientVars, histVars
  <2> QED
    BY <2>1, TakenStays
<1>30. ASSUME NEW r \in Roles, Ping(r) PROVE ProcessedIsTaken'
  <2>1. UNCHANGED <<issued, events, processed>>
    BY <1>30 DEF Ping, Inbound, dbVars, memVars, clientVars, histVars
  <2> QED
    BY <2>1, TakenStays
<1>31. ASSUME NEW r \in Roles, RefuseFrame(r) PROVE ProcessedIsTaken'
  <2>1. UNCHANGED <<issued, events, processed>>
    BY <1>31 DEF RefuseFrame, dbVars, memVars, clientVars, histVars
  <2> QED
    BY <2>1, TakenStays
<1>32. ASSUME NEW r \in Roles, GraceCheck(r) PROVE ProcessedIsTaken'
  <2>1. UNCHANGED <<issued, events, processed>>
    BY <1>32 DEF GraceCheck, dbVars, memVars, clientVars, histVars
  <2> QED
    BY <2>1, TakenStays
<1>33. ASSUME NEW r \in Roles, Connect(r) PROVE ProcessedIsTaken'
  <2>1. UNCHANGED <<issued, events, processed>>
    BY <1>33 DEF Connect, dbVars, memVars, clientVars, histVars
  <2> QED
    BY <2>1, TakenStays
<1>34. ASSUME NEW r \in Roles, Disconnect(r) PROVE ProcessedIsTaken'
  <2>1. UNCHANGED <<issued, events, processed>>
    BY <1>34 DEF Disconnect, Drop, dbVars, memVars, clientVars, histVars
  <2> QED
    BY <2>1, TakenStays
<1>35. ASSUME NEW r \in Roles, Reload(r) PROVE ProcessedIsTaken'
  <2>1. UNCHANGED <<issued, events, processed>>
    BY <1>35 DEF Reload, Drop, dbVars, memVars, clientVars, histVars
  <2> QED
    BY <2>1, TakenStays
<1>36. ASSUME NEW r \in Roles, Silence(r) PROVE ProcessedIsTaken'
  <2>1. UNCHANGED <<issued, events, processed>>
    BY <1>36 DEF Silence, dbVars, memVars, clientVars, histVars
  <2> QED
    BY <2>1, TakenStays
<1>37. ASSUME NEW r \in Roles, SendRaises(r) PROVE ProcessedIsTaken'
  <2>1. UNCHANGED <<issued, events, processed>>
    BY <1>37 DEF SendRaises, dbVars, memVars, clientVars, histVars
  <2> QED
    BY <2>1, TakenStays
<1>38. ASSUME NEW r \in Roles, NEW type \in Types, Send(r, type) PROVE ProcessedIsTaken'
  <2>1. events' = events /\ processed' = processed
    BY <1>38 DEF Send, dbVars, memVars
  <2>2. client[r].seq \in Nat /\ client[r].rev \in Nat /\ issued \in Seq(Frames)
    BY <1>38 DEF TypeOK, ClientsTyped, Clients
  <2>3. [role |-> r, type |-> type, seq |-> client[r].seq, rev |-> client[r].rev] \in Frames
    BY <1>38, <2>2 DEF Frames
  <2>4. \A e \in Ids : issued'[e] = issued[e]
    BY <1>38, <2>2, <2>3, AppendProperties DEF Send, Ids
  <2> QED
    BY <2>1, <2>4, TakenStays
<1>39. CASE UNCHANGED vars
  <2>1. UNCHANGED <<issued, events, processed>>
    BY <1>39 DEF vars, dbVars, memVars, clientVars, histVars
  <2> QED
    BY <2>1, TakenStays
<1> QED
  BY <1>1, <1>2, <1>3, <1>4, <1>5, <1>6, <1>7, <1>8, <1>9, <1>10, <1>11, <1>12, <1>13, <1>14, <1>15, <1>16, <1>17, <1>18, <1>19, <1>20, <1>21, <1>22, <1>23, <1>24, <1>25, <1>26, <1>27, <1>28, <1>29, <1>30, <1>31, <1>32, <1>33, <1>34, <1>35, <1>36, <1>37, <1>38, <1>39 DEF Next, LoopStep

\* The dedup set never hides an event that the log does not hold.
THEOREM ProcessedCorrect == Spec => []ProcessedIsTaken
<1>1. Init => TypeOK /\ Bookkeeping /\ ProcessedIsTaken
  BY TypeInit, BooksInit DEF Init, ProcessedIsTaken
<1>2. TypeOK /\ Bookkeeping /\ ProcessedIsTaken /\ [Next]_vars
        => (TypeOK /\ Bookkeeping /\ ProcessedIsTaken)'
  BY TypeStep, BooksStep, ProcessedStep
<1> QED
  BY <1>1, <1>2, PTL DEF Spec

\* A message raises the revision if its type bumps it, and changes the state
\* only then, but for a start that comes due meanwhile.
LEMMA UpdatedRises ==
  ASSUME TypeOK, h.ev \in Ids
  PROVE  LET m == Updated(issued[h.ev])
         IN /\ m.rev \in Nat /\ m.rev >= mem.rev
            /\ issued[h.ev].type \in Bumping => m.rev > mem.rev
            /\ m.state # mem.state /\ ~(mem.state = "starting" /\ m.state = "active")
                 => m.rev > mem.rev
<1>1. mem \in Snapshots /\ h.tx.rev \in Nat
  BY DEF TypeOK, MemTyped, LoopTyped, LoopStates, Rows
<1>2. /\ ResolvedInMemory \in Snapshots /\ ResolvedInMemory.rev = mem.rev
      /\ \/ ResolvedInMemory = mem
         \/ mem.state = "starting" /\ ResolvedInMemory.state = "active"
  BY <1>1, ActiveTyped DEF ResolvedInMemory, Active, Snapshots
<1> DEFINE f == issued[h.ev]
           n == IF f.type \in Bumping
                  THEN [ResolvedInMemory EXCEPT !.rev = ResolvedInMemory.rev + 1]
                  ELSE ResolvedInMemory
<1>3. /\ n \in Snapshots /\ n.state = ResolvedInMemory.state
      /\ n.rev = IF f.type \in Bumping THEN mem.rev + 1 ELSE mem.rev
  BY <1>1, <1>2 DEF Snapshots
<1>4. mem.rev \in Nat /\ n.rev \in Nat /\ n.rev >= mem.rev
  BY <1>1, <1>3 DEF Snapshots
<1>5. CASE f.type \in Lifecycle
  <2>1. Updated(f).rev = Larger(n.rev, h.tx.rev)
    BY <1>3, <1>5 DEF Updated, Snapshots
  <2>2. f.type \in Bumping
    BY <1>5 DEF Bumping, Types, Lifecycle
  <2>3. Updated(f).rev \in Nat /\ Updated(f).rev > mem.rev
    BY <1>1, <1>3, <1>4, <2>1, <2>2 DEF Larger
  <2> QED
    BY <1>4, <2>3
<1>6. CASE f.type \notin Lifecycle
  <2>1. Updated(f) = n
    BY <1>6 DEF Updated
  <2> QED
    BY <1>2, <1>3, <1>4, <2>1
<1> QED
  BY <1>5, <1>6

\* What no step but a restart does to the snapshot.
Rises ==
  budget'.restarts = budget.restarts =>
    /\ mem'.rev \in Nat /\ mem'.rev >= mem.rev
    /\ mem'.state # mem.state /\ ~(mem.state = "starting" /\ mem'.state = "active")
         => mem'.rev > mem.rev

\* Every step of one process keeps the revision or raises it.
LEMMA RisesStep == TypeOK /\ [Next]_vars => Rises
<1> SUFFICES ASSUME TypeOK, [Next]_vars PROVE Rises
  OBVIOUS
<1>0. mem \in Snapshots /\ mem.rev \in Nat /\ budget \in Budgets /\ h.tx.rev \in Nat
  BY DEF TypeOK, MemTyped, Snapshots, HistoryTyped, LoopTyped, LoopStates, Rows
<1>1. CASE ResolveStart
  <2>1. mem' = mem \/ (mem.state = "starting" /\ mem' = Active(mem))
    BY <1>1 DEF ResolveStart, Resolves
  <2>2. CASE mem' = mem
    BY <1>0, <2>2 DEF Rises
  <2>3. CASE mem.state = "starting" /\ mem' = Active(mem)
    <3>1. mem'.rev = mem.rev /\ mem'.state = "active"
      BY <1>0, <2>3 DEF Active, Snapshots
    <3> QED
      BY <1>0, <2>3, <3>1 DEF Rises
  <2> QED
    BY <2>1, <2>2, <2>3
<1>2. CASE ResolveCommit
  <2>1. mem' = mem
    BY <1>2 DEF ResolveCommit, memVars
  <2> QED
    BY <1>0, <2>1 DEF Rises
<1>3. CASE ResolveFail
  <2>1. mem' = mem
    BY <1>3 DEF ResolveFail, memVars
  <2> QED
    BY <1>0, <2>1 DEF Rises
<1>4. CASE NothingToPause
  <2>1. mem' = mem
    BY <1>4 DEF NothingToPause, memVars
  <2> QED
    BY <1>0, <2>1 DEF Rises
<1>5. CASE AutoPauseBegin
  <2>1. mem' = mem
    BY <1>5 DEF AutoPauseBegin, memVars
  <2> QED
    BY <1>0, <2>1 DEF Rises
<1>6. CASE AutoPauseCommit
  <2>1. mem' = mem
    BY <1>6 DEF AutoPauseCommit, memVars
  <2> QED
    BY <1>0, <2>1 DEF Rises
<1>7. CASE AutoPauseFail
  <2>1. mem' = mem
    BY <1>7 DEF AutoPauseFail, memVars
  <2> QED
    BY <1>0, <2>1 DEF Rises
<1>8. CASE AutoPauseEvent
  <2>1. mem' = PausedInMemory
    BY <1>8 DEF AutoPauseEvent
  <2>2. mem'.rev = Larger(mem.rev + 1, h.tx.rev + 1)
    BY <1>0, <2>1 DEF PausedInMemory, Snapshots
  <2>3. mem'.rev \in Nat /\ mem'.rev > mem.rev
    BY <1>0, <2>2 DEF Larger
  <2> QED
    BY <1>0, <2>3 DEF Rises
<1>9. CASE HandlerDies
  <2>1. mem' = mem
    BY <1>9 DEF HandlerDies, memVars
  <2> QED
    BY <1>0, <2>1 DEF Rises
<1>10. CASE FinishCheck
  <2>1. mem' = mem
    BY <1>10 DEF FinishCheck, memVars
  <2> QED
    BY <1>0, <2>1 DEF Rises
<1>11. CASE AnswerHello
  <2>1. mem' = mem \/ (mem.state = "starting" /\ mem' = Active(mem))
    BY <1>11 DEF AnswerHello, Resolves
  <2>2. CASE mem' = mem
    BY <1>0, <2>2 DEF Rises
  <2>3. CASE mem.state = "starting" /\ mem' = Active(mem)
    <3>1. mem'.rev = mem.rev /\ mem'.state = "active"
      BY <1>0, <2>3 DEF Active, Snapshots
    <3> QED
      BY <1>0, <2>3, <3>1 DEF Rises
  <2> QED
    BY <2>1, <2>2, <2>3
<1>12. CASE AckDuplicate
  <2>1. mem' = mem
    BY <1>12 DEF AckDuplicate, memVars
  <2> QED
    BY <1>0, <2>1 DEF Rises
<1>13. CASE AckRejected
  <2>1. mem' = mem
    BY <1>13 DEF AckRejected, memVars
  <2> QED
    BY <1>0, <2>1 DEF Rises
<1>14. CASE PreflightFail
  <2>1. mem' = mem
    BY <1>14 DEF PreflightFail, memVars
  <2> QED
    BY <1>0, <2>1 DEF Rises
<1>15. CASE Preflight
  <2>1. mem' = mem
    BY <1>15 DEF Preflight, memVars
  <2> QED
    BY <1>0, <2>1 DEF Rises
<1>16. CASE PersistDuplicate
  <2>1. mem' = mem
    BY <1>16 DEF PersistDuplicate, memVars
  <2> QED
    BY <1>0, <2>1 DEF Rises
<1>17. CASE Persist
  <2>1. mem' = mem
    BY <1>17 DEF Persist, memVars
  <2> QED
    BY <1>0, <2>1 DEF Rises
<1>18. CASE PersistFail
  <2>1. mem' = mem
    BY <1>18 DEF PersistFail, memVars
  <2> QED
    BY <1>0, <2>1 DEF Rises
<1>19. CASE SyncBegin
  <2>1. mem' = mem
    BY <1>19 DEF SyncBegin, memVars
  <2> QED
    BY <1>0, <2>1 DEF Rises
<1>20. CASE SyncRefused
  <2>1. mem' = mem
    BY <1>20 DEF SyncRefused, memVars
  <2> QED
    BY <1>0, <2>1 DEF Rises
<1>21. CASE SyncCommit
  <2>1. mem' = mem
    BY <1>21 DEF SyncCommit, memVars
  <2> QED
    BY <1>0, <2>1 DEF Rises
<1>22. CASE SyncFail
  <2>1. mem' = mem
    BY <1>22 DEF SyncFail, memVars
  <2> QED
    BY <1>0, <2>1 DEF Rises
<1>23. CASE Apply
  <2>1. mem' = Updated(issued[h.ev])
    BY <1>23 DEF Apply
  <2>2. h.ev \in Ids
    BY <1>23 DEF Apply, At, TypeOK, LoopTyped
  <2> QED
    BY <2>1, <2>2, UpdatedRises DEF Rises
<1>24. CASE RestEndBegin
  <2>1. mem' = mem
    BY <1>24 DEF RestEndBegin, memVars
  <2> QED
    BY <1>0, <2>1 DEF Rises
<1>25. CASE RestEndCommit
  <2>1. mem' = mem
    BY <1>25 DEF RestEndCommit, memVars
  <2> QED
    BY <1>0, <2>1 DEF Rises
<1>26. CASE StartComesDue
  BY <1>0, <1>26 DEF StartComesDue, Rises, Snapshots
<1>27. CASE Restart
  <2>1. budget'.restarts = budget.restarts - 1
    BY <1>0, <1>27 DEF Restart, Budgets
  <2> QED
    BY <1>0, <2>1 DEF Rises, Budgets
<1>28. ASSUME NEW r \in Roles, Receive(r) PROVE Rises
  <2>1. mem' = mem
    BY <1>28 DEF Receive, Inbound, memVars
  <2> QED
    BY <1>0, <2>1 DEF Rises
<1>29. ASSUME NEW r \in Roles, Hello(r) PROVE Rises
  <2>1. mem' = mem
    BY <1>29 DEF Hello, Inbound, memVars
  <2> QED
    BY <1>0, <2>1 DEF Rises
<1>30. ASSUME NEW r \in Roles, Ping(r) PROVE Rises
  <2>1. mem' = mem
    BY <1>30 DEF Ping, Inbound, memVars
  <2> QED
    BY <1>0, <2>1 DEF Rises
<1>31. ASSUME NEW r \in Roles, RefuseFrame(r) PROVE Rises
  <2>1. mem' = mem
    BY <1>31 DEF RefuseFrame, memVars
  <2> QED
    BY <1>0, <2>1 DEF Rises
<1>32. ASSUME NEW r \in Roles, GraceCheck(r) PROVE Rises
  <2>1. mem' = mem
    BY <1>32 DEF GraceCheck, memVars
  <2> QED
    BY <1>0, <2>1 DEF Rises
<1>33. ASSUME NEW r \in Roles, Connect(r) PROVE Rises
  <2>1. mem' = mem
    BY <1>33 DEF Connect, memVars
  <2> QED
    BY <1>0, <2>1 DEF Rises
<1>34. ASSUME NEW r \in Roles, Disconnect(r) PROVE Rises
  <2>1. mem' = mem
    BY <1>34 DEF Disconnect, Drop, memVars
  <2> QED
    BY <1>0, <2>1 DEF Rises
<1>35. ASSUME NEW r \in Roles, Reload(r) PROVE Rises
  <2>1. mem' = mem
    BY <1>35 DEF Reload, Drop, memVars
  <2> QED
    BY <1>0, <2>1 DEF Rises
<1>36. ASSUME NEW r \in Roles, Silence(r) PROVE Rises
  <2>1. mem' = mem
    BY <1>36 DEF Silence, memVars
  <2> QED
    BY <1>0, <2>1 DEF Rises
<1>37. ASSUME NEW r \in Roles, SendRaises(r) PROVE Rises
  <2>1. mem' = mem
    BY <1>37 DEF SendRaises, memVars
  <2> QED
    BY <1>0, <2>1 DEF Rises
<1>38. ASSUME NEW r \in Roles, NEW type \in Types, Send(r, type) PROVE Rises
  <2>1. mem' = mem
    BY <1>38 DEF Send, memVars
  <2> QED
    BY <1>0, <2>1 DEF Rises
<1>39. CASE UNCHANGED vars
  <2>1. mem' = mem
    BY <1>39 DEF vars, memVars
  <2> QED
    BY <1>0, <2>1 DEF Rises
<1> QED
  BY <1>1, <1>2, <1>3, <1>4, <1>5, <1>6, <1>7, <1>8, <1>9, <1>10, <1>11, <1>12, <1>13, <1>14, <1>15, <1>16, <1>17, <1>18, <1>19, <1>20, <1>21, <1>22, <1>23, <1>24, <1>25, <1>26, <1>27, <1>28, <1>29, <1>30, <1>31, <1>32, <1>33, <1>34, <1>35, <1>36, <1>37, <1>38, <1>39 DEF Next, LoopStep

\* Within a process the revision never falls, and no change of state but the
\* announced start goes without a new one.
THEOREM RevisionCorrect == Spec => RevisionTracksState
<1>1. TypeOK /\ [Next]_vars =>
        [budget'.restarts = budget.restarts =>
           /\ mem'.rev >= mem.rev
           /\ mem'.state # mem.state /\ ~(mem.state = "starting" /\ mem'.state = "active")
                => mem'.rev > mem.rev]_<<mem, budget>>
  BY RisesStep DEF Rises
<1> QED
  BY <1>1, TypeCorrect, PTL DEF Spec, RevisionTracksState

\* A client that is not told a new revision stays where it was.
LEMMA AheadKeeps ==
  ASSUME TypeOK, ClientNeverAhead, mem'.rev \in Nat, mem'.rev >= mem.rev,
         \A q \in Roles : client'[q].admitted =>
           client[q].admitted /\ client'[q].rev = client[q].rev
  PROVE  ClientNeverAhead'
<1>1. mem.rev \in Nat /\ \A q \in Roles : client[q].rev \in Nat
  BY DEF TypeOK, MemTyped, Snapshots, ClientsTyped, Clients
<1> QED
  BY <1>1 DEF ClientNeverAhead

\* Every step keeps the clients behind the server.
LEMMA AheadStep == TypeOK /\ ClientNeverAhead /\ [Next]_vars => ClientNeverAhead'
<1> SUFFICES ASSUME TypeOK, ClientNeverAhead, [Next]_vars PROVE ClientNeverAhead'
  OBVIOUS
<1>0. /\ client \in [Roles -> Clients] /\ mem.rev \in Nat /\ h.role \in Roles
      /\ budget \in Budgets /\ Rises
      /\ \A q \in Roles : client[q].rev \in Nat
  BY RisesStep DEF TypeOK, ClientsTyped, Clients, MemTyped, Snapshots, LoopTyped, LoopStates,
                   HistoryTyped
<1>1. CASE ResolveStart
  <2>1. client' = client /\ budget'.restarts = budget.restarts
    BY <1>0, <1>1 DEF ResolveStart, memVars, clientVars, Fault, Budgets
  <2> QED
    BY <1>0, <2>1, AheadKeeps DEF Rises
<1>2. CASE ResolveCommit
  <2>1. client' = client /\ mem' = mem
    BY <1>2 DEF ResolveCommit, memVars, clientVars
  <2> QED
    BY <1>0, <2>1, AheadKeeps
<1>3. CASE ResolveFail
  <2>1. client' = client /\ mem' = mem
    BY <1>3 DEF ResolveFail, memVars, clientVars
  <2> QED
    BY <1>0, <2>1, AheadKeeps
<1>4. CASE NothingToPause
  <2>1. client' = client /\ mem' = mem
    BY <1>4 DEF NothingToPause, memVars, clientVars
  <2> QED
    BY <1>0, <2>1, AheadKeeps
<1>5. CASE AutoPauseBegin
  <2>1. client' = client /\ mem' = mem
    BY <1>5 DEF AutoPauseBegin, memVars, clientVars
  <2> QED
    BY <1>0, <2>1, AheadKeeps
<1>6. CASE AutoPauseCommit
  <2>1. client' = client /\ mem' = mem
    BY <1>6 DEF AutoPauseCommit, memVars, clientVars
  <2> QED
    BY <1>0, <2>1, AheadKeeps
<1>7. CASE AutoPauseFail
  <2>1. client' = client /\ mem' = mem
    BY <1>7 DEF AutoPauseFail, memVars, clientVars
  <2> QED
    BY <1>0, <2>1, AheadKeeps
<1>8. CASE AutoPauseEvent
  <2>1. client' = client /\ budget'.restarts = budget.restarts
    BY <1>0, <1>8 DEF AutoPauseEvent, memVars, clientVars, Fault, Budgets
  <2> QED
    BY <1>0, <2>1, AheadKeeps DEF Rises
<1>9. CASE HandlerDies
  <2>1. mem' = mem
    BY <1>9 DEF HandlerDies, memVars
  <2>2. \A q \in Roles : client'[q].admitted => client[q].admitted /\ client'[q].rev = client[q].rev
    BY <1>0, <1>9 DEF HandlerDies, Orphaned, Clients
  <2> QED
    BY <1>0, <2>1, <2>2, AheadKeeps
<1>10. CASE FinishCheck
  <2>1. client' = client /\ mem' = mem
    BY <1>10 DEF FinishCheck, memVars, clientVars
  <2> QED
    BY <1>0, <2>1, AheadKeeps
<1>11. CASE AnswerHello
  <2>1. mem'.rev = mem.rev
    BY <1>0, <1>11 DEF AnswerHello, Active, TypeOK, MemTyped, Snapshots
  <2>2. \A q \in Roles : client'[q] = client[q] \/ client'[q].rev = mem.rev
    BY <1>0, <1>11 DEF AnswerHello, Clients
  <2> QED
    BY <1>0, <2>1, <2>2 DEF ClientNeverAhead
<1>12. CASE AckDuplicate
  <2>1. Reply("duplicate") /\ mem' = mem
    BY <1>12 DEF AckDuplicate, memVars
  <2>2. \A q \in Roles : client'[q].admitted = client[q].admitted /\ client'[q].rev = client[q].rev
    BY <1>0, <2>1 DEF Reply, Clients
  <2> QED
    BY <1>0, <2>1, <2>2, AheadKeeps
<1>13. CASE AckRejected
  <2>1. Reply("rejected") /\ mem' = mem
    BY <1>13 DEF AckRejected, memVars
  <2>2. \A q \in Roles : client'[q].admitted = client[q].admitted /\ client'[q].rev = client[q].rev
    BY <1>0, <2>1 DEF Reply, Clients
  <2> QED
    BY <1>0, <2>1, <2>2, AheadKeeps
<1>14. CASE PreflightFail
  <2>1. Reply("rejected") /\ mem' = mem
    BY <1>14 DEF PreflightFail, memVars
  <2>2. \A q \in Roles : client'[q].admitted = client[q].admitted /\ client'[q].rev = client[q].rev
    BY <1>0, <2>1 DEF Reply, Clients
  <2> QED
    BY <1>0, <2>1, <2>2, AheadKeeps
<1>15. CASE Preflight
  <2>1. client' = client /\ mem' = mem
    BY <1>15 DEF Preflight, memVars, clientVars
  <2> QED
    BY <1>0, <2>1, AheadKeeps
<1>16. CASE PersistDuplicate
  <2>1. Reply("duplicate") /\ mem' = mem
    BY <1>16 DEF PersistDuplicate, memVars
  <2>2. \A q \in Roles : client'[q].admitted = client[q].admitted /\ client'[q].rev = client[q].rev
    BY <1>0, <2>1 DEF Reply, Clients
  <2> QED
    BY <1>0, <2>1, <2>2, AheadKeeps
<1>17. CASE Persist
  <2>1. client' = client /\ mem' = mem
    BY <1>17 DEF Persist, memVars, clientVars
  <2> QED
    BY <1>0, <2>1, AheadKeeps
<1>18. CASE PersistFail
  <2>1. Reply("rejected") /\ mem' = mem
    BY <1>18 DEF PersistFail, memVars
  <2>2. \A q \in Roles : client'[q].admitted = client[q].admitted /\ client'[q].rev = client[q].rev
    BY <1>0, <2>1 DEF Reply, Clients
  <2> QED
    BY <1>0, <2>1, <2>2, AheadKeeps
<1>19. CASE SyncBegin
  <2>1. client' = client /\ mem' = mem
    BY <1>19 DEF SyncBegin, memVars, clientVars
  <2> QED
    BY <1>0, <2>1, AheadKeeps
<1>20. CASE SyncRefused
  <2>1. Reply("rejected") /\ mem' = mem
    BY <1>20 DEF SyncRefused, memVars
  <2>2. \A q \in Roles : client'[q].admitted = client[q].admitted /\ client'[q].rev = client[q].rev
    BY <1>0, <2>1 DEF Reply, Clients
  <2> QED
    BY <1>0, <2>1, <2>2, AheadKeeps
<1>21. CASE SyncCommit
  <2>1. client' = client /\ mem' = mem
    BY <1>21 DEF SyncCommit, memVars, clientVars
  <2> QED
    BY <1>0, <2>1, AheadKeeps
<1>22. CASE SyncFail
  <2>1. Reply("rejected") /\ mem' = mem
    BY <1>22 DEF SyncFail, memVars
  <2>2. \A q \in Roles : client'[q].admitted = client[q].admitted /\ client'[q].rev = client[q].rev
    BY <1>0, <2>1 DEF Reply, Clients
  <2> QED
    BY <1>0, <2>1, <2>2, AheadKeeps
<1>23. CASE Apply
  <2>1. Reply("accepted") /\ mem' = Updated(issued[h.ev]) /\ h.ev \in Ids
    BY <1>23 DEF Apply, At, TypeOK, LoopTyped
  <2>2. /\ mem'.rev \in Nat /\ mem'.rev >= mem.rev
        /\ issued[h.ev].type \in Bumping => mem'.rev > mem.rev
    BY <2>1, UpdatedRises
  <2>3. \A q \in Roles : /\ client'[q].admitted = client[q].admitted
                         /\ \/ client'[q].rev = client[q].rev
                            \/ /\ client'[q].rev = client[q].rev + 1
                               /\ issued[h.ev].type \in Bumping
    BY <1>0, <2>1 DEF Reply, Clients
  <2> QED
    BY <1>0, <2>2, <2>3 DEF ClientNeverAhead
<1>24. CASE RestEndBegin
  <2>1. client' = client /\ mem' = mem
    BY <1>24 DEF RestEndBegin, memVars, clientVars
  <2> QED
    BY <1>0, <2>1, AheadKeeps
<1>25. CASE RestEndCommit
  <2>1. client' = client /\ mem' = mem
    BY <1>25 DEF RestEndCommit, memVars, clientVars
  <2> QED
    BY <1>0, <2>1, AheadKeeps
<1>26. CASE StartComesDue
  <2>1. client' = client /\ budget'.restarts = budget.restarts
    BY <1>0, <1>26 DEF StartComesDue, memVars, clientVars, Fault, Budgets
  <2> QED
    BY <1>0, <2>1, AheadKeeps DEF Rises
<1>27. CASE Restart
  <2>1. \A q \in Roles : ~client'[q].admitted
    BY <1>0, <1>27 DEF Restart, Clients
  <2> QED
    BY <2>1 DEF ClientNeverAhead
<1>28. ASSUME NEW r \in Roles, Receive(r) PROVE ClientNeverAhead'
  <2>1. client' = client /\ mem' = mem
    BY <1>28 DEF Receive, Inbound, memVars, clientVars
  <2> QED
    BY <1>0, <2>1, AheadKeeps
<1>29. ASSUME NEW r \in Roles, Hello(r) PROVE ClientNeverAhead'
  <2>1. client' = client /\ mem' = mem
    BY <1>29 DEF Hello, Inbound, memVars, clientVars
  <2> QED
    BY <1>0, <2>1, AheadKeeps
<1>30. ASSUME NEW r \in Roles, Ping(r) PROVE ClientNeverAhead'
  <2>1. client' = client /\ mem' = mem
    BY <1>30 DEF Ping, Inbound, memVars, clientVars
  <2> QED
    BY <1>0, <2>1, AheadKeeps
<1>31. ASSUME NEW r \in Roles, RefuseFrame(r) PROVE ClientNeverAhead'
  <2>1. mem' = mem
    BY <1>31 DEF RefuseFrame, memVars
  <2>2. \A q \in Roles : client'[q].admitted => client[q].admitted /\ client'[q].rev = client[q].rev
    BY <1>0, <1>31 DEF RefuseFrame, Clients
  <2> QED
    BY <1>0, <2>1, <2>2, AheadKeeps
<1>32. ASSUME NEW r \in Roles, GraceCheck(r) PROVE ClientNeverAhead'
  <2>1. client' = client /\ mem' = mem
    BY <1>32 DEF GraceCheck, memVars, clientVars
  <2> QED
    BY <1>0, <2>1, AheadKeeps
<1>33. ASSUME NEW r \in Roles, Connect(r) PROVE ClientNeverAhead'
  <2>1. mem' = mem
    BY <1>33 DEF Connect, memVars
  <2>2. \A q \in Roles : client'[q].admitted => client[q].admitted /\ client'[q].rev = client[q].rev
    BY <1>0, <1>33 DEF Connect, Clients
  <2> QED
    BY <1>0, <2>1, <2>2, AheadKeeps
<1>34. ASSUME NEW r \in Roles, Disconnect(r) PROVE ClientNeverAhead'
  <2>1. mem' = mem
    BY <1>34 DEF Disconnect, Drop, memVars
  <2>2. \A q \in Roles : client'[q].admitted => client[q].admitted /\ client'[q].rev = client[q].rev
    BY <1>0, <1>34 DEF Disconnect, Drop, Clients
  <2> QED
    BY <1>0, <2>1, <2>2, AheadKeeps
<1>35. ASSUME NEW r \in Roles, Reload(r) PROVE ClientNeverAhead'
  <2>1. mem' = mem
    BY <1>35 DEF Reload, Drop, memVars
  <2>2. \A q \in Roles : client'[q].admitted => client[q].admitted /\ client'[q].rev = client[q].rev
    BY <1>0, <1>35 DEF Reload, Drop, NewClient, Clients
  <2> QED
    BY <1>0, <2>1, <2>2, AheadKeeps
<1>36. ASSUME NEW r \in Roles, Silence(r) PROVE ClientNeverAhead'
  <2>1. client' = client /\ mem' = mem
    BY <1>36 DEF Silence, memVars, clientVars
  <2> QED
    BY <1>0, <2>1, AheadKeeps
<1>37. ASSUME NEW r \in Roles, SendRaises(r) PROVE ClientNeverAhead'
  <2>1. mem' = mem
    BY <1>37 DEF SendRaises, memVars
  <2>2. \A q \in Roles : client'[q].admitted => client[q].admitted /\ client'[q].rev = client[q].rev
    BY <1>0, <1>37 DEF SendRaises, Orphaned, Clients
  <2> QED
    BY <1>0, <2>1, <2>2, AheadKeeps
<1>38. ASSUME NEW r \in Roles, NEW type \in Types, Send(r, type) PROVE ClientNeverAhead'
  <2>1. mem' = mem
    BY <1>38 DEF Send, memVars
  <2>2. \A q \in Roles : client'[q].admitted => client[q].admitted /\ client'[q].rev = client[q].rev
    BY <1>0, <1>38 DEF Send, Clients
  <2> QED
    BY <1>0, <2>1, <2>2, AheadKeeps
<1>39. CASE UNCHANGED vars
  <2>1. client' = client /\ mem' = mem
    BY <1>39 DEF vars, memVars, clientVars
  <2> QED
    BY <1>0, <2>1, AheadKeeps
<1> QED
  BY <1>1, <1>2, <1>3, <1>4, <1>5, <1>6, <1>7, <1>8, <1>9, <1>10, <1>11, <1>12, <1>13, <1>14, <1>15, <1>16, <1>17, <1>18, <1>19, <1>20, <1>21, <1>22, <1>23, <1>24, <1>25, <1>26, <1>27, <1>28, <1>29, <1>30, <1>31, <1>32, <1>33, <1>34, <1>35, <1>36, <1>37, <1>38, <1>39 DEF Next, LoopStep

\* No admitted client holds a revision that the server has not reached.
THEOREM ClientCorrect == Spec => []ClientNeverAhead
<1>1. Init => TypeOK /\ ClientNeverAhead
  BY TypeInit DEF Init, NewClient, ClientNeverAhead
<1>2. TypeOK /\ ClientNeverAhead /\ [Next]_vars => (TypeOK /\ ClientNeverAhead)'
  BY TypeStep, AheadStep
<1> QED
  BY <1>1, <1>2, PTL DEF Spec

(***************************************************************************)
(* RowFollowsContract: what a transaction has read is the row until POST   *)
(* /end commits, and what POST /end has read is until the event loop does; *)
(* so a write is a transition of models.py, or overlaps with POST /end.    *)
(***************************************************************************)
\* What each transaction knows of the row between its read and its write.
Fresh ==
  /\ InTx => h.tx = row \/ revoked
  /\ h.pc = "resolving" => h.tx.status \in {"created", "starting"}
  /\ h.pc = "pausing" => h.tx.status = "active"
  /\ h.pc = "syncing" => Legal(h.tx.status, issued[h.ev].type)
  /\ rest.pc = "ending" =>
       ~revoked /\ rest.rev <= row.rev /\ (row.status = "ended" => rest.rev < row.rev)

RowStep == [Row!Next \/ OverlapsEnd]_(Row!rowVars)

\* A step outside the transactions that leaves the row and POST /end alone.
LEMMA FreshOutside ==
  ASSUME Fresh, row' = row, rest' = rest, revoked' = revoked,
         h'.pc \notin {"resolving", "pausing", "syncing"}
  PROVE  Fresh' /\ RowStep
  BY DEF Fresh, InTx, RowStep, Row!rowVars

\* A step of somebody else that leaves the row and POST /end alone.
LEMMA FreshElsewhere ==
  ASSUME TypeOK, Fresh, row' = row, rest' = rest, revoked' = revoked, h' = h,
         issued' = issued \/ (\E f : issued' = Append(issued, f))
  PROVE  Fresh' /\ RowStep
<1>1. h.pc = "syncing" => h.ev \in 1 .. Len(issued) /\ issued \in Seq(Frames)
  BY DEF TypeOK, LoopTyped, ClientsTyped, Ids
<1>2. h.pc = "syncing" => issued'[h.ev] = issued[h.ev]
  BY <1>1, AppendProperties
<1> QED
  BY <1>2 DEF Fresh, InTx, RowStep, Row!rowVars, Legal, Target, Row!ALLOWED_TRANSITIONS, Row!SESSION_STATES

\* A write that the row it was read from allows is a transition of that row.
LEMMA ContractWrite ==
  ASSUME TypeOK, Fresh, InTx, NEW target, WriteRow(target), rest' = rest, revoked' = revoked,
         h'.pc \notin {"resolving", "pausing", "syncing"},
         target \in Row!ALLOWED_TRANSITIONS[h.tx.status],
         h.tx.status = "paused" => target # "starting"
  PROVE  Fresh' /\ RowStep
<1>0. /\ h.tx \in Rows /\ row \in Rows /\ rest \in [pc : {"idle", "ending"}, rev : Nat]
      /\ row'.status = target /\ row'.rev = h.tx.rev + 1
  BY DEF WriteRow, TypeOK, LoopTyped, LoopStates, DbTyped
<1>1. CASE h.tx = row
  <2>1. row.status \in Row!SESSION_STATES
    BY <1>0 DEF Rows, Row!SESSION_STATES
  <2>2. Row!Transition(target)
    BY <1>0, <1>1 DEF Row!Transition
  <2>3. target \in {"starting", "active", "paused", "ended"}
    BY <1>1, <2>1 DEF Row!ALLOWED_TRANSITIONS, Row!SESSION_STATES
  <2>4. Row!Next
    BY <1>1, <2>2, <2>3 DEF Row!Next, Row!Schedule, Row!Start, Row!Pause, Row!Resume, Row!End
  <2>5. rest.pc = "ending" => rest.rev < row'.rev
    BY <1>0, <1>1 DEF Fresh, Rows
  <2>6. Fresh'
    BY <1>0, <2>5 DEF Fresh, InTx, Rows
  <2> QED BY <2>4, <2>6 DEF RowStep
<1>2. CASE h.tx # row
  <2>1. revoked /\ rest.pc # "ending"
    BY <1>2 DEF Fresh
  <2>2. OverlapsEnd
    BY <1>0, <1>2, <2>1 DEF OverlapsEnd, WriteFrom
  <2> QED BY <2>1, <2>2 DEF Fresh, InTx, RowStep
<1> QED BY <1>1, <1>2

\* Nobody has read the row of a session that nobody has joined.
LEMMA FreshInit == Init => Fresh
  BY DEF Init, LoopIdle, Fresh, InTx

\* Every step keeps what the transactions know, and moves the row along the
\* contract, or not at all, or is a write that overlaps with POST /end.
LEMMA FreshStep ==
  ASSUME TypeOK, Fresh, [Next]_vars
  PROVE  Fresh' /\ RowStep
<1> DEFINE Contract == Fresh' /\ RowStep
<1>0. /\ h \in LoopStates /\ row \in Rows /\ LoopIdle.pc = "idle"
      /\ h.pc \in {"persisted", "syncing"} => h.ev \in Ids /\ issued[h.ev].type \in Lifecycle
  BY IdleTyped DEF TypeOK, LoopTyped, DbTyped
<1>1. CASE ResolveStart
  <2>1. row' = row /\ rest' = rest /\ revoked' = revoked
    BY <1>1 DEF ResolveStart, dbVars
  <2>2. CASE h' = h
    BY <1>1, <2>1, <2>2, FreshOutside DEF ResolveStart, Resolves, At
  <2>3. CASE row.status \in {"created", "starting"} /\ ReadRow("resolving", h.pc)
    <3>1. h'.pc = "resolving" /\ h'.tx = row
      BY <1>0, <2>3 DEF ReadRow, LoopStates
    <3> QED
      BY <2>1, <2>3, <3>1 DEF Fresh, InTx, RowStep, Row!rowVars
  <2> QED
    BY <1>1, <2>2, <2>3 DEF ResolveStart
<1>2. CASE ResolveCommit
  <2>1. /\ WriteRow("active") /\ InTx /\ h.tx.status \in {"created", "starting"}
        /\ rest' = rest /\ revoked' = revoked
    BY <1>2 DEF ResolveCommit, At, InTx, Fresh
  <2>2. "active" \in Row!ALLOWED_TRANSITIONS[h.tx.status]
    BY <2>1 DEF Row!ALLOWED_TRANSITIONS, Row!SESSION_STATES
  <2>3. h'.pc \in {"evaluate", "dispatch"}
    BY <1>0, <1>2 DEF ResolveCommit, GoTo, LoopStates
  <2> QED
    BY <2>1, <2>2, <2>3, ContractWrite
<1>3. CASE ResolveFail \/ NothingToPause \/ AutoPauseFail \/ AutoPauseEvent
  <2>1. row' = row /\ rest' = rest /\ revoked' = revoked
    BY <1>3 DEF ResolveFail, NothingToPause, AutoPauseFail, AutoPauseEvent, dbVars
  <2>2. GoTo(h.next) \/ GoTo("dispatch")
    BY <1>3 DEF ResolveFail, NothingToPause, AutoPauseFail, AutoPauseEvent
  <2>3. h'.pc \in {"evaluate", "dispatch"}
    BY <1>0, <2>2 DEF GoTo, LoopStates
  <2> QED
    BY <2>1, <2>3, FreshOutside
<1>4. CASE AutoPauseBegin
  <2>1. /\ row' = row /\ rest' = rest /\ revoked' = revoked /\ row.status = "active"
        /\ h'.pc = "pausing" /\ h'.tx = row
    BY <1>0, <1>4 DEF AutoPauseBegin, ReadRow, LoopStates, dbVars
  <2> QED
    BY <2>1 DEF Fresh, InTx, RowStep, Row!rowVars
<1>5. CASE AutoPauseCommit
  <2>1. /\ WriteRow("paused") /\ InTx /\ h.tx.status = "active"
        /\ rest' = rest /\ revoked' = revoked
    BY <1>5 DEF AutoPauseCommit, At, InTx, Fresh
  <2>2. "paused" \in Row!ALLOWED_TRANSITIONS[h.tx.status]
    BY <2>1 DEF Row!ALLOWED_TRANSITIONS, Row!SESSION_STATES
  <2>3. h'.pc = "pauseEvent"
    BY <1>0, <1>5 DEF AutoPauseCommit, LoopStates
  <2> QED
    BY <2>1, <2>2, <2>3, ContractWrite
<1>6. CASE HandlerDies \/ FinishCheck \/ AnswerHello
  <2>1. row' = row /\ rest' = rest /\ revoked' = revoked /\ h' = LoopIdle
    BY <1>6 DEF HandlerDies, FinishCheck, AnswerHello, dbVars
  <2> QED
    BY <1>0, <2>1, FreshOutside
<1>7. CASE AckDuplicate \/ AckRejected \/ PreflightFail \/ PersistDuplicate \/ PersistFail
             \/ SyncRefused \/ SyncFail \/ Apply
  <2>1. row' = row /\ \E answer \in {"accepted", "duplicate", "rejected"} : Reply(answer)
    BY <1>7 DEF AckDuplicate, AckRejected, PreflightFail, PersistDuplicate, PersistFail,
                SyncRefused, SyncFail, Apply
  <2>2. rest' = rest /\ revoked' = revoked /\ h' = LoopIdle
    BY <2>1 DEF Reply
  <2> QED
    BY <1>0, <2>1, <2>2, FreshOutside
<1>8. CASE Preflight \/ Persist
  <2>1. row' = row /\ rest' = rest /\ revoked' = revoked
    BY <1>8 DEF Preflight, Persist, dbVars
  <2>2. GoTo("checked") \/ GoTo("persisted") \/ GoTo("apply")
    BY <1>8 DEF Preflight, Persist
  <2>3. h'.pc \in {"checked", "persisted", "apply"}
    BY <1>0, <2>2 DEF GoTo, LoopStates
  <2> QED
    BY <2>1, <2>3, FreshOutside
<1>9. CASE SyncBegin
  <2>1. /\ row' = row /\ rest' = rest /\ revoked' = revoked /\ issued' = issued
        /\ Legal(row.status, issued[h.ev].type)
        /\ h'.pc = "syncing" /\ h'.tx = row /\ h'.ev = h.ev
    BY <1>0, <1>9 DEF SyncBegin, ReadRow, LoopStates, dbVars, clientVars
  <2>2. Legal(h.tx.status, issued[h.ev].type)'
    BY <2>1 DEF Legal, Target, Row!ALLOWED_TRANSITIONS, Row!SESSION_STATES
  <2> QED
    BY <2>1, <2>2 DEF Fresh, InTx, RowStep, Row!rowVars
<1>10. CASE SyncCommit
  <2> DEFINE type == issued[h.ev].type
  <2>1. /\ InTx /\ rest' = rest /\ revoked' = revoked
        /\ Legal(h.tx.status, type) /\ type \in Lifecycle /\ h'.pc = "apply"
    BY <1>0, <1>10 DEF SyncCommit, At, InTx, Fresh, LoopStates
  <2>2. CASE h.tx.status = "ended"
    BY <1>10, <2>1, <2>2, FreshOutside DEF SyncCommit
  <2>3. CASE h.tx.status # "ended"
    <3>1. WriteRow(Target(type))
      BY <1>10, <2>3 DEF SyncCommit
    <3>2. /\ Target(type) \in Row!ALLOWED_TRANSITIONS[h.tx.status]
          /\ h.tx.status = "paused" => Target(type) # "starting"
      BY <2>1, <2>3 DEF Legal, Target, Lifecycle, Row!ALLOWED_TRANSITIONS, Row!SESSION_STATES
    <3> QED
      BY <2>1, <3>1, <3>2, ContractWrite
  <2> QED
    BY <2>2, <2>3
<1>11. CASE RestEndBegin
  <2>1. /\ row' = row /\ row.status # "ended" /\ h' = h /\ ~revoked /\ revoked' = revoked
        /\ rest'.rev = row.rev /\ row.rev \in Nat /\ issued' = issued
    BY <1>0, <1>11 DEF RestEndBegin, dbVars, clientVars, Rows
  <2> QED
    BY <2>1 DEF Fresh, InTx, RowStep, Row!rowVars
<1>12. CASE RestEndCommit
  <2>1. /\ rest.pc = "ending" /\ h' = h /\ issued' = issued /\ rest'.pc = "idle" /\ revoked'
        /\ row' = [status |-> "ended", rev |-> rest.rev + 1]
    BY <1>12 DEF RestEndCommit, clientVars
  <2>2. RowStep
    <3>1. CASE rest.rev = row.rev
      <4>1. Row!Transition("ended")
        BY <1>0, <2>1, <3>1
           DEF Fresh, Row!Transition, Rows, Row!ALLOWED_TRANSITIONS, Row!SESSION_STATES
      <4> QED
        BY <4>1 DEF RowStep, Row!Next, Row!End
    <3> QED
      BY <2>1, <3>1 DEF RowStep, OverlapsEnd
  <2>3. Fresh'
    BY <2>1 DEF Fresh, InTx
  <2> QED
    BY <2>2, <2>3
<1>13. CASE Restart
  <2>1. row' = row /\ revoked' = revoked /\ h' = LoopIdle /\ rest'.pc = "idle"
    BY <1>13 DEF Restart, dbVars
  <2> QED
    BY <1>0, <2>1 DEF Fresh, InTx, RowStep, Row!rowVars
<1>14. ASSUME NEW r \in Roles, Receive(r) \/ Hello(r) \/ Ping(r) \/ GraceCheck(r)
       PROVE  Contract
  <2>1. row' = row /\ rest' = rest /\ revoked' = revoked /\ h'.pc = "evaluate"
    BY <1>14, IdleTyped DEF Receive, Hello, Ping, Inbound, GraceCheck, dbVars, LoopStates
  <2> QED
    BY <2>1, FreshOutside
<1>15. ASSUME NEW r \in Roles,
              RefuseFrame(r) \/ Connect(r) \/ Disconnect(r) \/ Reload(r) \/ Silence(r)
                \/ SendRaises(r)
       PROVE  Contract
  <2>1. row' = row /\ rest' = rest /\ revoked' = revoked /\ h' = h /\ issued' = issued
    BY <1>15 DEF RefuseFrame, Connect, Disconnect, Reload, Drop, Silence, SendRaises, dbVars
  <2> QED
    BY <2>1, FreshElsewhere
<1>16. ASSUME NEW r \in Roles, NEW type \in Types, Send(r, type) PROVE Contract
  <2>1. /\ row' = row /\ rest' = rest /\ revoked' = revoked /\ h' = h
        /\ \E f : issued' = Append(issued, f)
    BY <1>16 DEF Send, dbVars
  <2> QED
    BY <2>1, FreshElsewhere
<1>17. CASE StartComesDue \/ UNCHANGED vars
  <2>1. row' = row /\ rest' = rest /\ revoked' = revoked /\ h' = h /\ issued' = issued
    BY <1>17 DEF StartComesDue, vars, dbVars, clientVars
  <2> QED
    BY <2>1, FreshElsewhere
<1> QED
  BY <1>1, <1>2, <1>3, <1>4, <1>5, <1>6, <1>7, <1>8, <1>9, <1>10, <1>11, <1>12, <1>13, <1>14,
     <1>15, <1>16, <1>17 DEF Next, LoopStep

\* Every write of the row is one of the transitions of models.py, or one that
\* overlaps with POST /end and is a transition of the row it has read.
THEOREM ContractCorrect == Spec => RowFollowsContract
<1>1. Init => Row!Init
  BY DEF Init, Row!Init
<1>2. TypeOK /\ Fresh /\ [Next]_vars => Fresh' /\ [Row!Next \/ OverlapsEnd]_(Row!rowVars)
  BY FreshStep DEF RowStep
<1> QED
  BY <1>1, <1>2, FreshInit, TypeCorrect, PTL DEF Spec, RowFollowsContract

(***************************************************************************)
(* MemoryFollowsRow: what the row and the snapshot are to each other at    *)
(* each step of a frame, while nothing has failed in this process.         *)
(***************************************************************************)
Matched == \/ row.status = "ended" \/ mem.state = row.status
           \/ mem.state = "active" /\ row.status = "starting"

\* The steps at which neither side is ahead of the other.
Even == {"idle", "evaluate", "dispatch", "checked", "persisted"}

\* How the two differ where one is ahead: a start is resolved in memory
\* first, every other transition reaches the row first.
InStep ==
  /\ h.pc \in Even => Matched
  /\ h.pc = "resolving" => mem.state = "active"
  /\ h.pc = "pauseEvent" => row.status \in {"paused", "ended"}
  /\ h.pc = "syncing" /\ h.tx.status = "ended" => row.status = "ended"
  /\ h.pc = "apply" => IF issued[h.ev].type \in Lifecycle
                         THEN row.status \in {Target(issued[h.ev].type), "ended"}
                         ELSE Matched

Follows ==
  /\ budget.faults <= MaxFaults /\ budget.restarts <= MaxRestarts
  /\ Undisturbed => InStep

\* A failure or a crash is never taken back.
LEMMA SpentKeeps ==
  ASSUME TypeOK, Follows, Fault \/ (\E r \in Roles : SendRaises(r)) \/ Restart
  PROVE  Follows'
<1>1. /\ budget \in Budgets /\ MaxFaults \in Nat /\ MaxRestarts \in Nat
      /\ \/ /\ budget'.faults = budget.faults - 1 /\ budget'.restarts = budget.restarts
         \/ /\ budget'.restarts = budget.restarts - 1 /\ budget'.faults = budget.faults
  BY ConstantsOK DEF TypeOK, HistoryTyped, ConstantsOK, Fault, SendRaises, Restart, Budgets
<1> QED
  BY <1>1 DEF Follows, Undisturbed, Budgets

\* A step that spends neither is judged by what it does to the two.
LEMMA InStepKeeps ==
  ASSUME Follows, budget'.faults = budget.faults, budget'.restarts = budget.restarts,
         InStep => InStep'
  PROVE  Follows'
  BY DEF Follows, Undisturbed

\* A step of somebody else that leaves the row and the state alone.
LEMMA InStepElsewhere ==
  ASSUME TypeOK, InStep, row' = row, mem'.state = mem.state, h' = h,
         issued' = issued \/ (\E f : issued' = Append(issued, f))
  PROVE  InStep'
<1>1. h.pc = "apply" => h.ev \in 1 .. Len(issued) /\ issued \in Seq(Frames)
  BY DEF TypeOK, LoopTyped, ClientsTyped, Ids
<1>2. h.pc = "apply" => issued'[h.ev] = issued[h.ev]
  BY <1>1, AppendProperties
<1> QED
  BY <1>2 DEF InStep, Even, Matched, Target

\* What a message that is no transition makes of a snapshot that matches.
LEMMA UpdatedState ==
  ASSUME TypeOK, h.ev \in Ids
  PROVE  Updated(issued[h.ev]).state =
           IF issued[h.ev].type \in Lifecycle THEN Target(issued[h.ev].type)
           ELSE IF mem.state = "starting" /\ mem.due THEN "active" ELSE mem.state
<1>1. mem \in Snapshots
  BY DEF TypeOK, MemTyped
<1>2. ResolvedInMemory \in Snapshots
  BY <1>1, ActiveTyped DEF ResolvedInMemory
<1>3. ResolvedInMemory.state = IF mem.state = "starting" /\ mem.due THEN "active" ELSE mem.state
  BY <1>1 DEF ResolvedInMemory, Active, Snapshots
<1> DEFINE f == issued[h.ev]
           m == ResolvedInMemory
           n == IF f.type \in Bumping THEN [m EXCEPT !.rev = @ + 1] ELSE m
<1>4. n \in Snapshots /\ n.state = m.state
  BY <1>2 DEF Snapshots
<1>5. CASE f.type \in Lifecycle
  <2>1. Updated(f) = [n EXCEPT !.state = Target(f.type), !.due = FALSE,
                               !.rev = Larger(n.rev, h.tx.rev)]
    BY <1>4, <1>5 DEF Updated, Snapshots
  <2> QED
    BY <1>4, <1>5, <2>1 DEF Snapshots
<1>6. CASE f.type \notin Lifecycle
  <2>1. Updated(f) = n
    BY <1>6 DEF Updated
  <2> QED
    BY <1>3, <1>4, <1>6, <2>1
<1> QED
  BY <1>5, <1>6

\* A session that nobody has joined is created in both places.
LEMMA FollowsInit == Init => Follows
<1> SUFFICES ASSUME Init PROVE Follows
  OBVIOUS
<1>1. budget.faults <= MaxFaults /\ budget.restarts <= MaxRestarts
  BY ConstantsOK DEF Init, ConstantsOK
<1>2. row.status = "created" /\ mem.state = "created" /\ h.pc = "idle"
  BY DEF Init, FreshSnapshot, LoopIdle
<1> QED
  BY <1>1, <1>2 DEF Follows, InStep, Matched

\* Every step keeps the row and the snapshot in step.
LEMMA FollowsStep == TypeOK /\ Follows /\ [Next]_vars => Follows'
<1> SUFFICES ASSUME TypeOK, Follows, [Next]_vars PROVE Follows'
  OBVIOUS
<1>0. /\ h \in LoopStates /\ row \in Rows /\ mem \in Snapshots
      /\ LoopIdle.pc = "idle" /\ LoopIdle \in LoopStates
      /\ h.pc \in {"persisted", "syncing"} => h.ev \in Ids /\ issued[h.ev].type \in Lifecycle
      /\ h.pc = "apply" => h.ev \in Ids
  BY IdleTyped DEF TypeOK, LoopTyped, DbTyped, MemTyped
<1> DEFINE Kept == budget'.faults = budget.faults /\ budget'.restarts = budget.restarts
<1>1. CASE ResolveStart
  <2>1. Kept /\ row' = row /\ mem'.state = "active" /\ mem.state = "starting"
        /\ h.pc \in Even
    BY <1>0, <1>1 DEF ResolveStart, Resolves, Active, At, Even, dbVars, Snapshots
  <2>2. h'.pc = "resolving" \/ (h' = h /\ row.status \notin {"created", "starting"})
    BY <1>0, <1>1 DEF ResolveStart, ReadRow, LoopStates
  <2> QED
    BY <2>1, <2>2, InStepKeeps DEF InStep, Even, Matched
<1>2. CASE ResolveCommit
  <2>1. Kept /\ h.pc = "resolving" /\ row'.status = "active" /\ mem' = mem
        /\ h'.pc \in {"evaluate", "dispatch"}
    BY <1>0, <1>2 DEF ResolveCommit, At, WriteRow, GoTo, memVars, LoopStates
  <2> QED
    BY <2>1, InStepKeeps DEF InStep, Even, Matched
<1>3. CASE ResolveFail \/ AutoPauseFail \/ HandlerDies \/ PreflightFail \/ PersistFail \/ SyncFail
             \/ Restart \/ \E r \in Roles : SendRaises(r)
  BY <1>3, SpentKeeps DEF ResolveFail, AutoPauseFail, HandlerDies, PreflightFail, PersistFail,
                          SyncFail
<1>4. CASE NothingToPause \/ Preflight
  <2>1. Kept /\ row' = row /\ mem' = mem /\ h.pc \in Even /\ (GoTo("dispatch") \/ GoTo("checked"))
    BY <1>4 DEF NothingToPause, Preflight, Handling, At, Even, dbVars, memVars
  <2>2. h'.pc \in {"dispatch", "checked"}
    BY <1>0, <2>1 DEF GoTo, LoopStates
  <2> QED
    BY <2>1, <2>2, InStepKeeps DEF InStep, Even, Matched
<1>5. CASE AutoPauseBegin
  <2>1. Kept /\ h'.pc = "pausing"
    BY <1>0, <1>5 DEF AutoPauseBegin, ReadRow, LoopStates
  <2> QED
    BY <2>1, InStepKeeps DEF InStep, Even
<1>6. CASE AutoPauseCommit
  <2>1. Kept /\ h'.pc = "pauseEvent" /\ row'.status = "paused"
    BY <1>0, <1>6 DEF AutoPauseCommit, WriteRow, LoopStates
  <2> QED
    BY <2>1, InStepKeeps DEF InStep, Even
<1>7. CASE AutoPauseEvent
  <2>1. /\ h.pc = "pauseEvent" /\ row' = row /\ mem'.state = "paused" /\ h'.pc = "dispatch"
        /\ Fault \/ budget' = budget
    BY <1>0, <1>7 DEF AutoPauseEvent, At, PausedInMemory, GoTo, LoopStates, Snapshots
  <2>2. InStep => InStep'
    BY <2>1 DEF InStep, Even, Matched
  <2> QED
    BY <2>1, <2>2, InStepKeeps, SpentKeeps
<1>8. CASE FinishCheck
  <2>1. Kept /\ row' = row /\ mem' = mem /\ h.pc = "dispatch" /\ h'.pc = "idle"
    BY <1>0, <1>8 DEF FinishCheck, At, dbVars, memVars
  <2> QED
    BY <2>1, InStepKeeps DEF InStep, Even, Matched
<1>9. CASE AnswerHello
  <2>1. /\ Kept /\ row' = row /\ h.pc = "dispatch" /\ h'.pc = "idle"
        /\ mem' = mem \/ (mem.state = "starting" /\ mem'.state = "active")
    BY <1>0, <1>9 DEF AnswerHello, At, Active, dbVars, Snapshots
  <2> QED
    BY <2>1, InStepKeeps DEF InStep, Even, Matched
<1>10. CASE AckDuplicate \/ AckRejected \/ PersistDuplicate \/ SyncRefused
  <2>1. /\ Kept /\ row' = row /\ mem' = mem /\ h.pc \in Even
        /\ \E answer \in {"duplicate", "rejected"} : Reply(answer)
    BY <1>10 DEF AckDuplicate, AckRejected, PersistDuplicate, SyncRefused, Handling, At, Even,
                 memVars
  <2>2. h'.pc = "idle"
    BY <1>0, <2>1 DEF Reply
  <2> QED
    BY <2>1, <2>2, InStepKeeps DEF InStep, Even, Matched
<1>11. CASE Persist
  <2>1. /\ Kept /\ row' = row /\ mem' = mem /\ issued' = issued /\ h.pc = "checked" /\ h'.ev = h.ev
        /\ h'.pc = IF issued[h.ev].type \in Lifecycle THEN "persisted" ELSE "apply"
    BY <1>0, <1>11 DEF Persist, At, GoTo, memVars, clientVars, LoopStates
  <2> QED
    BY <2>1, InStepKeeps DEF InStep, Even, Matched
<1>12. CASE SyncBegin
  <2>1. Kept /\ row' = row /\ h'.pc = "syncing" /\ h'.tx = row
    BY <1>0, <1>12 DEF SyncBegin, ReadRow, dbVars, LoopStates
  <2> QED
    BY <2>1, InStepKeeps DEF InStep, Even
<1>13. CASE SyncCommit
  <2>1. /\ Kept /\ issued' = issued /\ h.pc = "syncing" /\ h'.ev = h.ev /\ h'.pc = "apply"
        /\ issued[h.ev].type \in Lifecycle
        /\ \/ h.tx.status = "ended" /\ row' = row
           \/ row'.status = Target(issued[h.ev].type)
    BY <1>0, <1>13 DEF SyncCommit, WriteRow, At, clientVars, LoopStates
  <2>2. Target(issued'[h'.ev].type) = Target(issued[h.ev].type)
    BY <2>1
  <2> QED
    BY <2>1, <2>2, InStepKeeps DEF InStep, Even
<1>14. CASE Apply
  <2>1. /\ Kept /\ row' = row /\ h.pc = "apply" /\ h.ev \in Ids /\ h' = LoopIdle
        /\ mem'.state = Updated(issued[h.ev]).state
    BY <1>0, <1>14 DEF Apply, At, Reply
  <2> QED
    BY <1>0, <2>1, UpdatedState, InStepKeeps DEF InStep, Even, Matched
<1>15. CASE RestEndBegin
  <2>1. Kept /\ row' = row /\ mem' = mem /\ h' = h /\ issued' = issued
    BY <1>15 DEF RestEndBegin, dbVars, memVars, clientVars
  <2> QED
    BY <2>1, InStepElsewhere, InStepKeeps
<1>16. CASE RestEndCommit
  <2>1. Kept /\ row'.status = "ended" /\ mem' = mem /\ h' = h /\ issued' = issued
    BY <1>16 DEF RestEndCommit, memVars, clientVars
  <2> QED
    BY <2>1, InStepKeeps DEF InStep, Even, Matched
<1>17. CASE StartComesDue \/ UNCHANGED vars
  <2>1. Kept /\ row' = row /\ mem'.state = mem.state /\ h' = h /\ issued' = issued
    BY <1>0, <1>17 DEF StartComesDue, vars, dbVars, memVars, clientVars, Snapshots
  <2> QED
    BY <2>1, InStepElsewhere, InStepKeeps
<1>18. ASSUME NEW r \in Roles, Receive(r) \/ Hello(r) \/ Ping(r) \/ GraceCheck(r)
       PROVE  Follows'
  <2>1. Kept /\ row' = row /\ mem' = mem /\ h.pc = "idle" /\ h'.pc = "evaluate"
    BY <1>0, <1>18 DEF Receive, Hello, Ping, Inbound, GraceCheck, At, dbVars, memVars, LoopStates
  <2> QED
    BY <2>1, InStepKeeps DEF InStep, Even, Matched
<1>19. ASSUME NEW r \in Roles,
              RefuseFrame(r) \/ Connect(r) \/ Disconnect(r) \/ Reload(r) \/ Silence(r)
       PROVE  Follows'
  <2>1. row' = row /\ mem' = mem /\ h' = h /\ issued' = issued
    BY <1>19 DEF RefuseFrame, Connect, Disconnect, Reload, Drop, Silence, dbVars, memVars
  <2>2. Kept
    BY <1>19 DEF RefuseFrame, Connect, Disconnect, Reload, Drop, SpendDrop, Silence, TypeOK,
                 HistoryTyped, Budgets
  <2> QED
    BY <2>1, <2>2, InStepElsewhere, InStepKeeps
<1>20. ASSUME NEW r \in Roles, NEW type \in Types, Send(r, type) PROVE Follows'
  <2>1. Kept /\ row' = row /\ mem' = mem /\ h' = h /\ \E f : issued' = Append(issued, f)
    BY <1>20 DEF Send, dbVars, memVars
  <2> QED
    BY <2>1, InStepElsewhere, InStepKeeps
<1> QED
  BY <1>1, <1>2, <1>3, <1>4, <1>5, <1>6, <1>7, <1>8, <1>9, <1>10, <1>11, <1>12, <1>13, <1>14,
     <1>15, <1>16, <1>17, <1>18, <1>19, <1>20 DEF Next, LoopStep

\* While no call has failed and no crash has come, the state served to the
\* clients is that of the row, or an announced start that has come due.
THEOREM MemoryCorrect == Spec => []MemoryFollowsRow
<1>1. TypeOK /\ Follows => MemoryFollowsRow
  BY DEF Follows, InStep, Even, Matched, MemoryFollowsRow, At
<1> QED
  BY <1>1, FollowsInit, FollowsStep, TypeCorrect, PTL DEF Spec

(***************************************************************************)
(* AppliedInOrder: what a client can still deliver is in the order it was  *)
(* authored, and nothing younger than any of it has been applied.          *)
(***************************************************************************)
Ascending(q) == \A i, j \in 1 .. Len(q) : i < j => q[i] < q[j]
Elements(q)  == {q[i] : i \in 1 .. Len(q)}

\* The message of role r that is in the handler's hands, if there is one.
Held(r) == IF h.kind = "event" /\ h.role = r THEN {h.ev} ELSE {}

Deliverable(r) == client[r].pending \cup Elements(wire[r]) \cup Held(r)

Queued(r) ==
  /\ Ascending(wire[r])
  /\ wire[r] # <<>> => client[r].admitted
  /\ client[r].admitted => /\ presence[r] \in {"up", "stale"}
                           /\ client[r].pending \subseteq Elements(wire[r]) \cup Held(r)
  /\ \A e \in Held(r) : /\ presence[r] # "stale"
                        /\ \A d \in client[r].pending : d >= e
                        /\ \A d \in Elements(wire[r]) : d > e

Unspent(r) ==
  \A e \in Deliverable(r) : \A d \in Ids : d > e /\ issued[d].role = r => applied[d] = 0

InTurn ==
  /\ h.pc = "idle" => h.kind = "grace"
  /\ \A r \in Roles : Queued(r) /\ Unspent(r)

\* The rest of an ascending sequence lies above its head.
LEMMA TailAscends ==
  ASSUME NEW S, S \subseteq Nat, NEW q \in Seq(S), q # <<>>, Ascending(q)
  PROVE  /\ Ascending(Tail(q)) /\ Elements(q) = {Head(q)} \cup Elements(Tail(q))
         /\ \A d \in Elements(Tail(q)) : d > Head(q)
<1>1. /\ Len(q) \in Nat \ {0} /\ Head(q) = q[1] /\ Len(Tail(q)) = Len(q) - 1
      /\ \A i \in 1 .. Len(Tail(q)) : Tail(q)[i] = q[i + 1]
      /\ \A i \in 1 .. Len(q) : q[i] \in Nat
  <2>1. Len(q) \in Nat \ {0} /\ Head(q) = q[1]
    BY EmptySeq
  <2>2. /\ Len(Tail(q)) = Len(q) - 1
        /\ \A i \in 1 .. Len(Tail(q)) : Tail(q)[i] = q[i + 1]
    BY HeadTailProperties
  <2>3. \A i \in 1 .. Len(q) : q[i] \in Nat
    BY ElementOfSeq
  <2> QED
    BY <2>1, <2>2, <2>3
<1>2. Ascending(Tail(q)) /\ \A d \in Elements(Tail(q)) : d > Head(q)
  BY <1>1 DEF Ascending, Elements
<1>3. \A i \in 1 .. Len(q) : q[i] \in {Head(q)} \cup Elements(Tail(q))
  <2>1. \A i \in 1 .. Len(q) : i = 1 \/ (i - 1 \in 1 .. Len(Tail(q)) /\ q[i] = Tail(q)[i - 1])
    BY <1>1
  <2> QED
    BY <1>1, <2>1 DEF Elements
<1>4. Head(q) \in Elements(q) /\ Elements(Tail(q)) \subseteq Elements(q)
  BY <1>1 DEF Elements
<1> QED
  BY <1>2, <1>3, <1>4 DEF Elements

\* A younger message at the end leaves the sequence ascending.
LEMMA AppendAscends ==
  ASSUME NEW S, S \subseteq Nat, NEW q \in Seq(S), Ascending(q), NEW e \in Nat,
         \A d \in S : d < e
  PROVE  Ascending(Append(q, e)) /\ Elements(Append(q, e)) = Elements(q) \cup {e}
<1>1. /\ Len(q) \in Nat /\ \A i \in 1 .. Len(q) : q[i] \in Nat /\ q[i] < e
      /\ q \in Seq(Nat)
  BY LenProperties, ElementOfSeq, SeqMonotonic
<1>2. /\ Len(Append(q, e)) = Len(q) + 1 /\ Append(q, e)[Len(q) + 1] = e
      /\ \A i \in 1 .. Len(q) : Append(q, e)[i] = q[i]
  BY <1>1, AppendProperties
<1>3. Ascending(Append(q, e))
  BY <1>1, <1>2 DEF Ascending
<1>4. Elements(Append(q, e)) \subseteq Elements(q) \cup {e}
  BY <1>1, <1>2 DEF Elements
<1>5. Elements(q) \cup {e} \subseteq Elements(Append(q, e))
  <2>1. e \in Elements(Append(q, e))
    BY <1>1, <1>2 DEF Elements
  <2>2. Elements(q) \subseteq Elements(Append(q, e))
    BY <1>1, <1>2 DEF Elements
  <2> QED
    BY <2>1, <2>2
<1> QED
  BY <1>3, <1>4, <1>5

\* The replay of a set of messages is ascending and leaves none of them out.
LEMMA ReplayAscends ==
  ASSUME NEW S, S \subseteq Ids, issued \in Seq(Frames), NEW q \in InOrder(S)
  PROVE  Ascending(q) /\ Elements(q) = S
<1>1. Len(issued) \in Nat
  BY LenProperties
<1>2. IsFiniteSet(Ids)
  BY <1>1, FS_Interval DEF Ids
<1>3. IsFiniteSet(S) /\ Cardinality(S) \in Nat
  BY <1>2, FS_Subset, FS_CardinalityType
<1> DEFINE n == Cardinality(S)
<1>4. q \in [1 .. n -> S] /\ \A i, j \in 1 .. n : i < j => q[i] < q[j]
  BY DEF InOrder
<1>5. q \in Seq(S) /\ Len(q) = n
  <2>1. q \in Seq(S)
    BY <1>3, <1>4, SeqDef
  <2> QED
    BY <1>3, <1>4, <2>1, LenProperties
<1>6. q \in Injection(1 .. n, S)
  <2>1. S \subseteq Nat
    BY <1>1 DEF Ids
  <2>2. ASSUME NEW i \in 1 .. n, NEW j \in 1 .. n, q[i] = q[j] PROVE i = j
    <3>1. q[i] \in S
      BY <1>4
    <3>2. q[i] \in Nat
      BY <2>1, <3>1
    <3>3. /\ i < j => q[i] < q[j]
          /\ j < i => q[j] < q[i]
      BY <1>4
    <3>4. ~(i < j) /\ ~(j < i)
      BY <2>2, <3>2, <3>3
    <3> QED
      BY <1>3, <3>4
  <2> QED
    BY <1>4, <2>2 DEF Injection, IsInjective
<1>7. Cardinality(1 .. n) = n
  BY <1>3, FS_Interval
<1>8. q \in Surjection(1 .. n, S)
  BY <1>3, <1>6, <1>7, FS_Injection
<1>9. Elements(q) = S
  BY <1>4, <1>5, <1>8 DEF Elements, Surjection
<1> QED
  BY <1>4, <1>5, <1>9 DEF Ascending

\* Nothing becomes deliverable and nothing is applied: what could not have
\* been overtaken still has not been.
LEMMA UnspentKeeps ==
  ASSUME NEW r \in Roles, Unspent(r), UNCHANGED <<issued, applied>>,
         Deliverable(r)' \subseteq Deliverable(r)
  PROVE  Unspent(r)'
  BY SameIds DEF Unspent

\* The queue of a role that a step does not touch.
LEMMA QueueStays ==
  ASSUME NEW r \in Roles, Queued(r), Unspent(r), UNCHANGED <<issued, applied>>,
         wire'[r] = wire[r], Held(r)' = Held(r),
         client'[r].pending = client[r].pending, client'[r].admitted = client[r].admitted,
         client[r].admitted => presence'[r] \in {"up", "stale"},
         Held(r) # {} => presence'[r] # "stale"
  PROVE  Queued(r)' /\ Unspent(r)'
<1>1. Deliverable(r)' = Deliverable(r)
  BY DEF Deliverable, Elements
<1>2. Queued(r)'
  BY DEF Queued, Ascending, Elements
<1> QED
  BY <1>1, <1>2, UnspentKeeps

\* The queue of a role whose socket is gone, or was never there.
LEMMA QueueCloses ==
  ASSUME NEW r \in Roles, Queued(r), Unspent(r), UNCHANGED <<issued, applied>>,
         wire'[r] = <<>>, ~client'[r].admitted, client'[r].pending \subseteq client[r].pending,
         Held(r)' = {} \/ (Held(r)' = Held(r) /\ presence'[r] # "stale")
  PROVE  Queued(r)' /\ Unspent(r)'
<1>1. Len(<<>>) = 0 /\ Elements(<<>>) = {} /\ Ascending(<<>>)
  BY EmptySeq DEF Elements, Ascending
<1>2. Deliverable(r)' \subseteq Deliverable(r)
  BY <1>1 DEF Deliverable, Elements
<1>3. Queued(r)'
  BY <1>1 DEF Queued, Ascending, Elements
<1> QED
  BY <1>2, <1>3, UnspentKeeps

\* A role without a live socket loses the message in hand: nothing is left.
LEMMA QueueDrains ==
  ASSUME NEW r \in Roles, Queued(r), Unspent(r), UNCHANGED <<issued, applied>>,
         wire'[r] = wire[r], client'[r] = client[r], presence'[r] = presence[r],
         Held(r)' = {}, Held(r) = {} \/ ~client[r].admitted
  PROVE  Queued(r)' /\ Unspent(r)'
<1>1. Deliverable(r)' \subseteq Deliverable(r)
  BY DEF Deliverable, Elements
<1>2. Queued(r)'
  BY DEF Queued, Ascending, Elements
<1> QED
  BY <1>1, <1>2, UnspentKeeps

\* An answer ends the frame in hand and overtakes nothing.
LEMMA ReplyInTurn ==
  ASSUME TypeOK, InTurn, h.kind = "event", issued[h.ev].role = h.role,
         NEW answer \in {"accepted", "duplicate", "rejected"}, Reply(answer),
         applied' = applied \/ applied' = [applied EXCEPT ![h.ev] = @ + 1]
  PROVE  InTurn'
<1>1. /\ h.ev \in Ids /\ h.role \in Roles /\ client \in [Roles -> Clients]
      /\ applied \in Seq(Nat) /\ Len(applied) = Len(issued) /\ Len(issued) \in Nat
      /\ wire \in [Roles -> Seq(Ids)] /\ Ids \subseteq Nat
  BY LenProperties DEF TypeOK, LoopTyped, LoopStates, ClientsTyped, HistoryTyped, Ids
<1>2. /\ issued' = issued /\ wire' = wire /\ presence' = presence /\ h' = LoopIdle
      /\ Ids' = Ids
  BY SameIds DEF Reply
<1>3. \A r \in Roles : Held(r)' = {}
  BY <1>2, IdleTyped DEF Held
<1>4. ASSUME NEW r \in Roles PROVE Queued(r)' /\ Unspent(r)'
  <2>0. Queued(r) /\ Unspent(r)
    BY DEF InTurn
  <2>1. CASE r # h.role
    <3>1. client'[r] = client[r] /\ Held(r) = {}
      BY <1>1, <2>1 DEF Reply, Held
    <3>2. Queued(r)'
      BY <1>2, <1>3, <2>0, <3>1 DEF Queued, Ascending, Elements
    <3>3. \A d \in Ids : issued[d].role = r => applied'[d] = applied[d]
      BY <1>1, <2>1 DEF Ids
    <3>4. Deliverable(r)' \subseteq Deliverable(r)
      BY <1>2, <1>3, <3>1 DEF Deliverable, Elements
    <3> QED
      BY <1>2, <2>0, <3>2, <3>3, <3>4 DEF Unspent
  <2>2. CASE r = h.role
    <3>1. Held(r) = {h.ev}
      BY <2>2 DEF Held
    <3>2. /\ client'[r].admitted = client[r].admitted
          /\ client'[r].pending = IF client[r].admitted THEN client[r].pending \ {h.ev}
                                                        ELSE client[r].pending
      <4>1. client[r].admitted => presence[r] = "up"
        BY <2>0, <3>1 DEF Queued
      <4> QED
        BY <1>1, <2>2, <4>1 DEF Reply, Clients
    <3>3. Queued(r)'
      BY <1>2, <1>3, <2>0, <3>1, <3>2 DEF Queued, Ascending, Elements
    <3>4. Deliverable(r)' \subseteq Deliverable(r)
      BY <1>2, <1>3, <3>2 DEF Deliverable, Elements
    <3>5. \A e \in Deliverable(r)' : e >= h.ev
      <4>1. \A e \in client[r].pending \cup Elements(wire[r]) : e >= h.ev
        <5>1. Elements(wire[r]) \subseteq Nat
          BY <1>1, ElementOfSeq DEF Elements
        <5>2. client[r].pending \subseteq Nat
          BY <1>1 DEF Clients
        <5>3. /\ \A e \in client[r].pending : e >= h.ev
              /\ \A e \in Elements(wire[r]) : e > h.ev
          BY <2>0, <3>1 DEF Queued
        <5>4. h.ev \in Nat
          BY <1>1
        <5>5. \A e \in client[r].pending : e >= h.ev
          BY <5>3
        <5>6. \A e \in Elements(wire[r]) : e >= h.ev
          BY <5>1, <5>3, <5>4
        <5> QED
          BY <5>5, <5>6
      <4>2. Deliverable(r)' \subseteq client[r].pending \cup Elements(wire[r])
        BY <1>2, <1>3, <3>2 DEF Deliverable, Elements
      <4> QED
        BY <4>1, <4>2
    <3>6. Deliverable(r)' \subseteq Nat
      <4>1. client[r].pending \subseteq Ids /\ Elements(wire[r]) \subseteq Ids
        BY <1>1, ElementOfSeq DEF Clients, Elements
      <4> QED
        BY <1>1, <3>1, <3>4, <4>1 DEF Deliverable
    <3>7. \A d \in Ids : d # h.ev => applied'[d] = applied[d]
      BY <1>1 DEF Ids
    <3> QED
      BY <1>1, <1>2, <2>0, <3>3, <3>4, <3>5, <3>6, <3>7 DEF Unspent
  <2> QED
    BY <2>1, <2>2
<1>5. h'.kind = "grace"
  BY <1>2, IdleTyped
<1> QED
  BY <1>4, <1>5 DEF InTurn

\* A step of the frame in hand that leaves the clients and the effects alone.
LEMMA FrameInTurn ==
  ASSUME InTurn, UNCHANGED <<issued, applied, wire, client, presence>>,
         h'.kind = h.kind, h'.role = h.role, h'.ev = h.ev, h'.pc = "idle" => h.pc = "idle"
  PROVE  InTurn'
<1>1. \A r \in Roles : Held(r)' = Held(r)
  BY DEF Held
<1>2. ASSUME NEW r \in Roles PROVE Queued(r)' /\ Unspent(r)'
  <2>1. /\ client[r].admitted => presence'[r] \in {"up", "stale"}
        /\ Held(r) # {} => presence'[r] # "stale"
    BY DEF InTurn, Queued, Held
  <2> QED
    BY <1>1, <2>1, QueueStays DEF InTurn
<1> QED
  BY <1>2 DEF InTurn

\* A socket that closes or loses its handler, whatever frame is in hand.
LEMMA CloseInTurn ==
  ASSUME TypeOK, InTurn, UNCHANGED <<issued, applied>>, NEW r \in Roles,
         h' = h \/ h' = LoopIdle,
         wire' = [wire EXCEPT ![r] = <<>>],
         NEW c, client' = [client EXCEPT ![r] = c], ~c.admitted,
         c.pending \subseteq client[r].pending,
         NEW p, presence' = [presence EXCEPT ![r] = p], h' = h => p # "stale",
         h' = h \/ h.kind # "event" \/ h.role = r
  PROVE  InTurn'
<1>1. /\ wire \in [Roles -> Seq(Ids)] /\ client \in [Roles -> Clients]
      /\ presence \in [Roles -> Presences]
  BY DEF TypeOK, ClientsTyped
<1>2. ASSUME NEW q \in Roles PROVE Queued(q)' /\ Unspent(q)'
  <2>0. Queued(q) /\ Unspent(q)
    BY DEF InTurn
  <2>1. CASE q = r
    <3>1. /\ wire'[q] = <<>> /\ ~client'[q].admitted /\ presence'[q] = p
          /\ client'[q].pending \subseteq client[q].pending
      BY <1>1, <2>1
    <3>2. Held(q)' = {} \/ (Held(q)' = Held(q) /\ presence'[q] # "stale")
      BY <3>1, IdleTyped DEF Held
    <3> QED
      BY <2>0, <3>1, <3>2, QueueCloses
  <2>2. CASE q # r
    <3>1. wire'[q] = wire[q] /\ client'[q] = client[q] /\ presence'[q] = presence[q]
      BY <1>1, <2>2
    <3>2. Held(q)' = Held(q)
      BY <2>2, IdleTyped DEF Held
    <3>3. /\ client[q].admitted => presence'[q] \in {"up", "stale"}
          /\ Held(q) # {} => presence'[q] # "stale"
      BY <2>0, <3>1 DEF Queued, Held
    <3> QED
      BY <2>0, <3>1, <3>2, <3>3, QueueStays
  <2> QED
    BY <2>1, <2>2
<1>3. h'.pc = "idle" => h'.kind = "grace"
  BY IdleTyped DEF InTurn
<1> QED
  BY <1>2, <1>3 DEF InTurn

\* A frame that carries no message, and a check, hold none.
LEMMA InboundInTurn ==
  ASSUME TypeOK, InTurn, h.pc = "idle", UNCHANGED <<issued, applied, wire, client>>,
         h'.pc = "evaluate", h'.kind # "event",
         \A q \in Roles : client[q].admitted => presence'[q] \in {"up", "stale"}
  PROVE  InTurn'
<1>1. \A r \in Roles : Held(r) = {} /\ Held(r)' = {}
  BY DEF Held, InTurn
<1>2. ASSUME NEW r \in Roles PROVE Queued(r)' /\ Unspent(r)'
  BY <1>1, QueueStays DEF InTurn
<1> QED
  BY <1>2 DEF InTurn

\* A session that nobody has joined has nothing to deliver.
LEMMA InTurnInit == Init => InTurn
<1> SUFFICES ASSUME Init PROVE InTurn
  OBVIOUS
<1>1. /\ Len(<<>>) = 0 /\ Ids = {} /\ Elements(<<>>) = {} /\ Ascending(<<>>)
      /\ h.kind = "grace"
  BY IdleTyped, EmptySeq DEF Init, Ids, Elements, Ascending
<1>2. \A r \in Roles : wire[r] = <<>> /\ ~client[r].admitted /\ Held(r) = {}
  BY <1>1 DEF Init, NewClient, Held
<1> QED
  BY <1>1, <1>2 DEF InTurn, Queued, Unspent

\* The next message of a socket is taken into the handler's hands.
LEMMA ReceiveInTurn ==
  ASSUME TypeOK, InTurn, NEW r \in Roles, Receive(r)
  PROVE  InTurn'
<1>1. /\ wire \in [Roles -> Seq(Ids)] /\ client \in [Roles -> Clients]
      /\ presence \in [Roles -> Presences] /\ Ids \subseteq Nat
  BY DEF TypeOK, ClientsTyped, Ids
<1> DEFINE e == Head(wire[r])
<1>2. /\ wire[r] # <<>> /\ h.pc = "idle" /\ issued' = issued /\ applied' = applied
      /\ client' = client /\ wire' = [wire EXCEPT ![r] = Tail(@)]
      /\ presence' = [presence EXCEPT ![r] = "up"]
      /\ h'.pc = "evaluate" /\ h'.kind = "event" /\ h'.role = r /\ h'.ev = e
  BY IdleTyped DEF Receive, Inbound, At, histVars, LoopStates
<1>3. \A q \in Roles : Held(q) = {} /\ Held(q)' = IF q = r THEN {e} ELSE {}
  BY <1>2 DEF Held, InTurn
<1>4. ASSUME NEW q \in Roles PROVE Queued(q)' /\ Unspent(q)'
  <2>0. Queued(q) /\ Unspent(q)
    BY DEF InTurn
  <2>1. CASE q # r
    <3>1. wire'[q] = wire[q] /\ client'[q] = client[q] /\ presence'[q] = presence[q]
      BY <1>1, <1>2, <2>1
    <3> QED
      BY <1>2, <1>3, <2>0, <2>1, <3>1, QueueStays DEF Queued
  <2>2. CASE q = r
    <3>1. wire'[q] = Tail(wire[q]) /\ presence'[q] = "up" /\ wire[q] \in Seq(Ids)
      BY <1>1, <1>2, <2>2
    <3>2. /\ Ascending(Tail(wire[q])) /\ Elements(wire[q]) = {e} \cup Elements(Tail(wire[q]))
          /\ \A d \in Elements(Tail(wire[q])) : d > e
      BY <1>1, <1>2, <2>0, <2>2, <3>1, TailAscends DEF Queued
    <3>3. client[q].admitted /\ client[q].pending \subseteq Elements(wire[q])
      BY <1>2, <1>3, <2>0, <2>2 DEF Queued
    <3>4. e \in Nat
      BY <1>1, <1>2, <2>2, <3>1, HeadTailProperties
    <3>5. \A d \in client[q].pending : d >= e
      <4>1. \A d \in Elements(Tail(wire[q])) : d \in Nat
        BY <1>1, <3>1, <1>2, <2>2, HeadTailProperties, ElementOfSeq DEF Elements
      <4> QED
        BY <3>2, <3>3, <3>4, <4>1
    <3>6. Queued(q)'
      <4>1. Held(q)' = {e}
        BY <1>3, <2>2
      <4>2. Elements(wire'[q]) = Elements(Tail(wire[q])) /\ Ascending(wire'[q])
        BY <3>1, <3>2
      <4> QED
        BY <1>2, <3>1, <3>2, <3>3, <3>5, <4>1, <4>2 DEF Queued, Ascending, Elements
    <3>7. Deliverable(q)' \subseteq Deliverable(q)
      BY <1>2, <1>3, <2>2, <3>1, <3>2 DEF Deliverable, Elements
    <3> QED
      BY <1>2, <2>0, <3>6, <3>7, UnspentKeeps
  <2> QED
    BY <2>1, <2>2
<1> QED
  BY <1>2, <1>4 DEF InTurn

\* A hello is answered with a replay in the order of authorship.
LEMMA HelloInTurn ==
  ASSUME TypeOK, InTurn, AnswerHello
  PROVE  InTurn'
<1>1. /\ wire \in [Roles -> Seq(Ids)] /\ client \in [Roles -> Clients]
      /\ issued \in Seq(Frames) /\ h.role \in Roles
  BY DEF TypeOK, ClientsTyped, LoopTyped, LoopStates
<1>2. /\ issued' = issued /\ applied' = applied /\ presence' = presence /\ h' = LoopIdle
      /\ h.kind = "hello"
  BY DEF AnswerHello, histVars
<1>3. \A q \in Roles : Held(q) = {} /\ Held(q)' = {}
  BY <1>2, IdleTyped DEF Held
<1>4. ASSUME NEW q \in Roles PROVE Queued(q)' /\ Unspent(q)'
  <2>0. Queued(q) /\ Unspent(q)
    BY DEF InTurn
  <2>1. CASE q # h.role \/ presence[q] # "up"
    <3>1. wire'[q] = wire[q] /\ client'[q] = client[q]
      BY <1>1, <2>1 DEF AnswerHello
    <3> QED
      BY <1>2, <1>3, <2>0, <3>1, QueueStays DEF Queued
  <2>2. CASE q = h.role /\ presence[q] = "up"
    <3>1. /\ client'[q].admitted /\ client'[q].pending = Replayed(q)
          /\ wire'[q] \in IF client[q].admitted THEN {wire[q]} ELSE InOrder(Replayed(q))
      BY <1>1, <2>2 DEF AnswerHello, Clients
    <3>2. Replayed(q) \subseteq client[q].pending /\ Replayed(q) \subseteq Ids
      BY <1>1 DEF Replayed, Clients
    <3>3. /\ Ascending(wire'[q]) /\ Replayed(q) \subseteq Elements(wire'[q])
          /\ Elements(wire'[q]) \subseteq client[q].pending \cup Elements(wire[q])
      <4>1. CASE client[q].admitted
        BY <1>3, <2>0, <3>1, <3>2, <4>1 DEF Queued
      <4>2. CASE ~client[q].admitted
        BY <1>1, <3>1, <3>2, <4>2, ReplayAscends
      <4> QED
        BY <4>1, <4>2
    <3>4. Queued(q)'
      BY <1>2, <1>3, <2>2, <3>1, <3>3 DEF Queued, Ascending, Elements
    <3>5. Deliverable(q)' \subseteq Deliverable(q)
      BY <1>3, <3>1, <3>2, <3>3 DEF Deliverable, Elements
    <3> QED
      BY <1>2, <2>0, <3>4, <3>5, UnspentKeeps
  <2> QED
    BY <2>1, <2>2
<1>5. h'.kind = "grace"
  BY <1>2, IdleTyped
<1> QED
  BY <1>4, <1>5 DEF InTurn

\* A new message is younger than all the others and has had no effect.
LEMMA SendInTurn ==
  ASSUME TypeOK, InTurn, NEW r \in Roles, NEW type \in Types, Send(r, type)
  PROVE  InTurn'
<1> DEFINE id == Len(issued) + 1
<1>1. /\ wire \in [Roles -> Seq(Ids)] /\ client \in [Roles -> Clients]
      /\ issued \in Seq(Frames) /\ Len(issued) \in Nat /\ Ids = 1 .. Len(issued)
      /\ applied \in Seq(Nat) /\ Len(applied) = Len(issued)
      /\ h.kind = "event" => h.ev \in Ids
  BY LenProperties DEF TypeOK, ClientsTyped, HistoryTyped, LoopTyped, Ids
<1>2. /\ client[r].admitted /\ h' = h /\ presence' = presence
      /\ wire' = [wire EXCEPT ![r] = Append(@, id)]
      /\ applied' = Append(applied, 0)
      /\ \E f \in Frames : issued' = Append(issued, f)
  <2>1. [role |-> r, type |-> type, seq |-> client[r].seq, rev |-> client[r].rev] \in Frames
    BY <1>1 DEF Frames, Clients
  <2> QED
    BY <2>1 DEF Send
<1>3. /\ Len(issued') = id /\ Ids' = Ids \cup {id}
      /\ \A d \in Ids : issued'[d] = issued[d] /\ applied'[d] = applied[d]
      /\ applied'[id] = 0
  <2>1. PICK f \in Frames : issued' = Append(issued, f)
    BY <1>2
  <2>2. Len(issued') = id /\ \A d \in Ids : issued'[d] = issued[d]
    BY <1>1, <2>1, AppendProperties
  <2>3. applied'[id] = 0 /\ \A d \in Ids : applied'[d] = applied[d]
    BY <1>1, <1>2, AppendProperties
  <2> QED
    BY <1>1, <2>2, <2>3 DEF Ids
<1>4. ASSUME NEW q \in Roles PROVE Queued(q)' /\ Unspent(q)'
  <2>0. Queued(q) /\ Unspent(q) /\ Held(q)' = Held(q)
    BY <1>2 DEF InTurn, Held
  <2>1. CASE q # r
    <3>1. wire'[q] = wire[q] /\ client'[q] = client[q]
      BY <1>1, <1>2, <2>1 DEF Send
    <3>2. Deliverable(q)' = Deliverable(q)
      BY <2>0, <3>1 DEF Deliverable, Elements
    <3>3. Queued(q)'
      BY <1>2, <2>0, <3>1 DEF Queued, Ascending, Elements
    <3>4. Unspent(q)'
      BY <1>1, <1>3, <2>0, <3>2 DEF Unspent
    <3> QED
      BY <3>3, <3>4
  <2>2. CASE q = r
    <3>1. /\ wire'[q] = Append(wire[q], id) /\ wire[q] \in Seq(Ids)
          /\ client'[q].admitted /\ client'[q].pending = client[q].pending \cup {id}
      BY <1>1, <1>2, <2>2 DEF Send, Clients
    <3>2. /\ Ascending(wire'[q]) /\ Elements(wire'[q]) = Elements(wire[q]) \cup {id}
          /\ wire'[q] # <<>>
      <4>1. Ids \subseteq Nat /\ id \in Nat /\ \A d \in Ids : d < id
        BY <1>1
      <4>2. wire[q] \in Seq(Nat)
        BY <3>1, <4>1, SeqMonotonic
      <4>3. wire'[q] # <<>>
        BY <3>1, <4>1, <4>2, AppendProperties
      <4>4. Ascending(wire[q])
        BY <2>0 DEF Queued
      <4>5. /\ Ascending(Append(wire[q], id))
            /\ Elements(Append(wire[q], id)) = Elements(wire[q]) \cup {id}
        <5>1. \A s \in Seq(Ids) : \A x \in Nat : Ascending(s) /\ (\A d \in Ids : d < x)
                => /\ Ascending(Append(s, x))
                   /\ Elements(Append(s, x)) = Elements(s) \cup {x}
          BY <4>1, AppendAscends
        <5> QED
          BY <3>1, <4>1, <4>4, <5>1
      <4> QED
        BY <3>1, <4>3, <4>5
    <3>3. \A e \in Held(q) : e < id
      BY <1>1 DEF Held
    <3>4. Queued(q)'
      <4>1. /\ presence'[q] \in {"up", "stale"}
            /\ client'[q].pending \subseteq Elements(wire'[q]) \cup Held(q)'
        BY <1>2, <2>0, <2>2, <3>1, <3>2 DEF Queued
      <4>2. \A e \in Held(q) : /\ presence'[q] # "stale"
                               /\ \A d \in client'[q].pending : d >= e
                               /\ \A d \in Elements(wire'[q]) : d > e
        <5>1. \A e \in Held(q) : e \in Nat /\ id > e /\ id >= e
          BY <1>1, <3>3 DEF Held
        <5> QED
          BY <1>2, <2>0, <3>1, <3>2, <5>1 DEF Queued
      <4> QED
        BY <2>0, <3>1, <3>2, <4>1, <4>2 DEF Queued, Ascending, Elements
    <3>5. Deliverable(q)' = Deliverable(q) \cup {id}
      BY <2>0, <3>1, <3>2 DEF Deliverable, Elements
    <3>6. Unspent(q)'
      BY <1>1, <1>3, <2>0, <3>5 DEF Unspent
    <3> QED
      BY <3>4, <3>6
  <2> QED
    BY <2>1, <2>2
<1> QED
  BY <1>2, <1>4 DEF InTurn

\* The server's own pause is of no client's role.
LEMMA PauseInTurn ==
  ASSUME TypeOK, InTurn, AutoPauseEvent
  PROVE  InTurn'
<1> DEFINE id == Len(issued) + 1
<1>1. /\ issued \in Seq(Frames) /\ Len(issued) \in Nat /\ Ids = 1 .. Len(issued)
      /\ applied \in Seq(Nat) /\ Len(applied) = Len(issued)
      /\ h \in LoopStates /\ mem.rev \in Nat /\ events \subseteq Ids
  BY LenProperties DEF TypeOK, DbTyped, MemTyped, Snapshots, ClientsTyped, HistoryTyped,
                       LoopTyped, Ids
<1>2. /\ UNCHANGED <<client, wire, presence>> /\ applied' = Append(applied, 1)
      /\ \E f \in Frames : f.role = "server" /\ issued' = Append(issued, f)
  <2>1. Cardinality(ServerRows) \in Nat
    <3>1. IsFiniteSet(Ids)
      BY <1>1, FS_Interval
    <3>2. ServerRows \in SUBSET Ids
      BY <1>1 DEF ServerRows
    <3> QED
      BY <3>1, <3>2, FS_Subset, FS_CardinalityType
  <2> DEFINE f == [role |-> "server", type |-> "session_paused",
                   seq |-> Cardinality(ServerRows), rev |-> mem.rev]
  <2>2. f \in Frames /\ f.role = "server"
    BY <1>1, <2>1 DEF Frames, Types, Lifecycle
  <2> QED
    BY <2>2 DEF AutoPauseEvent
<1>3. /\ Ids' = Ids \cup {id} /\ issued'[id].role = "server"
      /\ \A d \in Ids : issued'[d] = issued[d] /\ applied'[d] = applied[d]
  <2>1. PICK f \in Frames : f.role = "server" /\ issued' = Append(issued, f)
    BY <1>2
  <2>2. /\ Len(issued') = id /\ issued'[id] = f /\ \A d \in Ids : issued'[d] = issued[d]
    BY <1>1, <2>1, AppendProperties
  <2>3. \A d \in Ids : applied'[d] = applied[d]
    BY <1>1, <1>2, AppendProperties
  <2> QED
    BY <1>1, <2>1, <2>2, <2>3 DEF Ids
<1>4. ASSUME NEW q \in Roles PROVE Queued(q)' /\ Unspent(q)'
  <2>1. Held(q)' = Held(q)
    BY <1>1 DEF AutoPauseEvent, GoTo, Held, LoopStates
  <2>2. Deliverable(q)' = Deliverable(q)
    BY <1>2, <2>1 DEF Deliverable, Elements
  <2>3. Queued(q)'
    BY <1>2, <2>1 DEF InTurn, Queued, Ascending, Elements
  <2>4. q # "server"
    BY ConstantsOK DEF ConstantsOK
  <2>5. Unspent(q)'
    BY <1>3, <2>2, <2>4 DEF InTurn, Unspent
  <2> QED
    BY <2>3, <2>5
<1>5. h'.pc = "dispatch"
  BY <1>1 DEF AutoPauseEvent, GoTo, LoopStates
<1> QED
  BY <1>4, <1>5 DEF InTurn

\* Every step keeps what can be delivered in order.
LEMMA InTurnStep == TypeOK /\ Bookkeeping /\ InTurn /\ [Next]_vars => InTurn'
<1> SUFFICES ASSUME TypeOK, Bookkeeping, InTurn, [Next]_vars PROVE InTurn'
  OBVIOUS
<1>0. /\ h \in LoopStates /\ client \in [Roles -> Clients] /\ wire \in [Roles -> Seq(Ids)]
      /\ presence \in [Roles -> Presences] /\ h.role \in Roles
      /\ h.pc \in {"checked", "persisted", "syncing", "apply"} => h.kind = "event"
      /\ h.kind = "event" => issued[h.ev].role = h.role
      /\ h.pc = "idle" => h.kind = "grace"
  BY DEF TypeOK, LoopTyped, LoopStates, ClientsTyped, Bookkeeping, Owned, InTurn
<1>1. CASE ResolveStart \/ AutoPauseBegin \/ SyncBegin
  <2>1. UNCHANGED <<issued, applied, wire, client, presence>>
    BY <1>1 DEF ResolveStart, AutoPauseBegin, SyncBegin, clientVars, histVars
  <2>2. h' = h \/ ReadRow("resolving", h.pc) \/ ReadRow("pausing", "evaluate")
          \/ ReadRow("syncing", "evaluate")
    BY <1>1 DEF ResolveStart, AutoPauseBegin, SyncBegin
  <2>3. h'.kind = h.kind /\ h'.role = h.role /\ h'.ev = h.ev /\ (h'.pc = "idle" => h.pc = "idle")
    BY <1>0, <2>2 DEF ReadRow, LoopStates
  <2> QED
    BY <2>1, <2>3, FrameInTurn
<1>2. CASE \/ ResolveCommit \/ ResolveFail \/ NothingToPause \/ AutoPauseFail \/ Preflight
           \/ Persist
  <2>1. UNCHANGED <<issued, applied, wire, client, presence>>
    BY <1>2 DEF ResolveCommit, ResolveFail, NothingToPause, AutoPauseFail, Preflight, Persist,
                clientVars, histVars
  <2>2. \E pc \in {"evaluate", "dispatch", "checked", "persisted", "apply"} : GoTo(pc)
    BY <1>0, <1>2 DEF ResolveCommit, ResolveFail, NothingToPause, AutoPauseFail, Preflight,
                      Persist, LoopStates
  <2>3. h'.kind = h.kind /\ h'.role = h.role /\ h'.ev = h.ev /\ h'.pc # "idle"
    BY <1>0, <2>2 DEF GoTo, LoopStates
  <2> QED
    BY <2>1, <2>3, FrameInTurn
<1>3. CASE AutoPauseCommit \/ SyncCommit
  <2>1. UNCHANGED <<issued, applied, wire, client, presence>>
    BY <1>3 DEF AutoPauseCommit, SyncCommit, clientVars, histVars
  <2>2. h'.kind = h.kind /\ h'.role = h.role /\ h'.ev = h.ev /\ h'.pc # "idle"
    BY <1>0, <1>3 DEF AutoPauseCommit, SyncCommit, LoopStates
  <2> QED
    BY <2>1, <2>2, FrameInTurn
<1>4. CASE AutoPauseEvent
  BY <1>4, PauseInTurn
<1>5. CASE HandlerDies
  <2>1. UNCHANGED <<issued, applied>> /\ h' = LoopIdle
    BY <1>5 DEF HandlerDies, histVars
  <2>2. CASE Orphaned(h.role)
    <3>1. \E p : presence' = [presence EXCEPT ![h.role] = p]
      BY <2>2 DEF Orphaned
    <3>2. client' = [client EXCEPT ![h.role] = [client[h.role] EXCEPT !.admitted = FALSE]]
      BY <1>0, <2>2 DEF Orphaned
    <3>3. /\ ~[client[h.role] EXCEPT !.admitted = FALSE].admitted
          /\ [client[h.role] EXCEPT !.admitted = FALSE].pending = client[h.role].pending
      BY <1>0 DEF Clients
    <3>4. h' # h
      BY <1>0, <1>5, <2>1, IdleTyped DEF HandlerDies, At
    <3> QED
      BY <1>0, <2>1, <2>2, <3>1, <3>2, <3>3, <3>4, CloseInTurn DEF Orphaned
  <2>3. CASE /\ UNCHANGED <<presence, client, wire>>
             /\ h.kind = "grace" \/ presence[h.role] \notin {"up", "stale"}
    <3>1. \A q \in Roles : Held(q)' = {}
      BY <2>1, IdleTyped DEF Held
    <3>2. ASSUME NEW q \in Roles PROVE Held(q) = {} \/ ~client[q].admitted
      BY <2>3 DEF Held, InTurn, Queued
    <3>3. \A q \in Roles : Queued(q)' /\ Unspent(q)'
      BY <2>1, <2>3, <3>1, <3>2, QueueDrains DEF InTurn
    <3> QED
      BY <2>1, <3>3, IdleTyped DEF InTurn
  <2> QED
    BY <1>5, <2>2, <2>3 DEF HandlerDies
<1>6. CASE FinishCheck
  <2>1. /\ UNCHANGED <<issued, applied, wire, client, presence>> /\ h' = LoopIdle
        /\ h.kind # "event"
    BY <1>6 DEF FinishCheck, clientVars, histVars
  <2>2. \A q \in Roles : Held(q)' = {} /\ Held(q) = {}
    BY <2>1, IdleTyped DEF Held
  <2>3. \A q \in Roles : Queued(q)' /\ Unspent(q)'
    BY <2>1, <2>2, QueueDrains DEF InTurn
  <2> QED
    BY <2>1, <2>3, IdleTyped DEF InTurn
<1>7. CASE AnswerHello
  BY <1>7, HelloInTurn
<1>8. CASE \/ AckDuplicate \/ AckRejected \/ PreflightFail \/ PersistDuplicate \/ PersistFail
           \/ SyncRefused \/ SyncFail \/ Apply
  <2>1. /\ \E answer \in {"accepted", "duplicate", "rejected"} : Reply(answer)
        /\ applied' = applied \/ applied' = [applied EXCEPT ![h.ev] = @ + 1]
    BY <1>8 DEF AckDuplicate, AckRejected, PreflightFail, PersistDuplicate, PersistFail,
                SyncRefused, SyncFail, Apply
  <2>2. h.kind = "event"
    BY <1>0, <1>8 DEF AckDuplicate, AckRejected, PreflightFail, PersistDuplicate, PersistFail,
                      SyncRefused, SyncFail, Apply, Handling, At
  <2> QED
    BY <1>0, <2>1, <2>2, ReplyInTurn
<1>9. CASE RestEndBegin \/ RestEndCommit \/ StartComesDue \/ UNCHANGED vars
  <2>1. UNCHANGED <<issued, applied, wire, client, presence, h>>
    BY <1>9 DEF RestEndBegin, RestEndCommit, StartComesDue, vars, clientVars, histVars
  <2> QED
    BY <2>1, FrameInTurn
<1>10. CASE Restart
  <2>1. /\ UNCHANGED <<issued, applied>> /\ h' = LoopIdle
        /\ \A q \in Roles : /\ wire'[q] = <<>> /\ ~client'[q].admitted
                             /\ client'[q].pending = client[q].pending
    BY <1>0, <1>10 DEF Restart, Clients
  <2>2. \A q \in Roles : Held(q)' = {}
    BY <2>1, IdleTyped DEF Held
  <2>3. \A q \in Roles : Queued(q)' /\ Unspent(q)'
    BY <2>1, <2>2, QueueCloses DEF InTurn
  <2> QED
    BY <2>1, <2>3, IdleTyped DEF InTurn
<1>11. ASSUME NEW r \in Roles, Receive(r) PROVE InTurn'
  BY <1>11, ReceiveInTurn
<1>12. ASSUME NEW r \in Roles, Hello(r) \/ Ping(r) \/ GraceCheck(r) PROVE InTurn'
  <2>1. /\ h.pc = "idle" /\ UNCHANGED <<issued, applied, wire, client>>
        /\ h'.pc = "evaluate" /\ h'.kind # "event"
    BY <1>12, IdleTyped DEF Hello, Ping, Inbound, GraceCheck, At, histVars, LoopStates
  <2>2. \A q \in Roles : presence[q] \in {"up", "stale"} => presence'[q] \in {"up", "stale"}
    BY <1>0, <1>12 DEF Hello, Ping, Inbound, GraceCheck
  <2> QED
    BY <2>1, <2>2, InboundInTurn DEF InTurn, Queued
<1>13. ASSUME NEW r \in Roles, RefuseFrame(r) \/ Connect(r) \/ SendRaises(r)
       PROVE  InTurn'
  <2>1. /\ UNCHANGED <<issued, applied>> /\ h' = h /\ h.pc = "idle"
        /\ wire' = [wire EXCEPT ![r] = <<>>]
        /\ client' = [client EXCEPT ![r] = [client[r] EXCEPT !.admitted = FALSE]]
    BY <1>0, <1>13 DEF RefuseFrame, Connect, SendRaises, Orphaned, At, histVars
  <2>2. \E p : presence' = [presence EXCEPT ![r] = p] /\ p # "stale"
    BY <1>0, <1>13 DEF RefuseFrame, Connect, SendRaises, Orphaned
  <2>3. /\ ~[client[r] EXCEPT !.admitted = FALSE].admitted
        /\ [client[r] EXCEPT !.admitted = FALSE].pending = client[r].pending
    BY <1>0 DEF Clients
  <2> QED
    BY <2>1, <2>2, <2>3, CloseInTurn
<1>14. ASSUME NEW r \in Roles, Disconnect(r) \/ Reload(r) PROVE InTurn'
  <2>1. PICK c : /\ Drop(r, c) /\ ~c.admitted /\ c.pending \subseteq client[r].pending
    BY <1>0, <1>14 DEF Disconnect, Reload, NewClient, Clients
  <2>2. UNCHANGED <<issued, applied>> /\ h' = h
    BY <2>1 DEF Drop, histVars
  <2> QED
    BY <2>1, <2>2, CloseInTurn DEF Drop
<1>15. ASSUME NEW r \in Roles, Silence(r) PROVE InTurn'
  <2>1. h.pc = "idle" /\ UNCHANGED <<issued, applied, wire, client, h>>
    BY <1>15 DEF Silence, At, histVars
  <2>2. \A q \in Roles : presence[q] \in {"up", "stale"} => presence'[q] \in {"up", "stale"}
    BY <1>0, <1>15 DEF Silence
  <2>3. \A q \in Roles : Held(q) = {} /\ Held(q)' = {}
    BY <1>0, <2>1 DEF Held
  <2>4. \A q \in Roles : Queued(q)' /\ Unspent(q)'
    BY <2>1, <2>2, <2>3, QueueStays DEF InTurn, Queued
  <2> QED
    BY <1>0, <2>1, <2>4 DEF InTurn
<1>16. ASSUME NEW r \in Roles, NEW type \in Types, Send(r, type) PROVE InTurn'
  BY <1>16, SendInTurn
<1> QED
  BY <1>1, <1>2, <1>3, <1>4, <1>5, <1>6, <1>7, <1>8, <1>9, <1>10, <1>11, <1>12, <1>13, <1>14,
     <1>15, <1>16 DEF Next, LoopStep

\* What is applied now, no younger message of its role has overtaken.
LEMMA InTurnApplies ==
  ASSUME TypeOK, Bookkeeping, InTurn, [Next]_vars
  PROVE  \A e \in Ids : applied'[e] > applied[e]
           => \A d \in e + 1 .. Len(issued) :
                issued[d].role = issued[e].role => applied[d] = 0
<1>0. /\ applied \in Seq(Nat) /\ Len(applied) = Len(issued) /\ Len(issued) \in Nat
      /\ Ids = 1 .. Len(issued) /\ \A e \in Ids : applied[e] \in Nat
  BY LenProperties, ElementOfSeq DEF TypeOK, ClientsTyped, HistoryTyped, Ids
<1>1. CASE Apply
  <2>1. /\ h.kind = "event" /\ h.ev \in Ids /\ h.role \in Roles
        /\ issued[h.ev].role = h.role /\ applied' = [applied EXCEPT ![h.ev] = @ + 1]
    BY <1>1 DEF Apply, At, TypeOK, LoopTyped, LoopStates, Bookkeeping, Owned
  <2>2. \A d \in Ids : d > h.ev /\ issued[d].role = h.role => applied[d] = 0
    BY <2>1 DEF InTurn, Unspent, Deliverable, Held
  <2>3. ASSUME NEW e \in Ids, applied'[e] > applied[e] PROVE e = h.ev
    BY <1>0, <2>1, <2>3
  <2>4. \A d \in h.ev + 1 .. Len(issued) : issued[d].role = h.role => applied[d] = 0
    <3>1. \A d \in h.ev + 1 .. Len(issued) : d \in Ids /\ d > h.ev
      BY <1>0, <2>1
    <3> QED
      BY <2>2, <3>1
  <2> QED
    BY <2>1, <2>3, <2>4
<1>2. CASE applied' = applied
  BY <1>0, <1>2
<1>3. CASE \E n \in Nat : applied' = Append(applied, n)
  <2>1. \A e \in Ids : applied'[e] = applied[e]
    BY <1>0, <1>3, AppendProperties
  <2> QED
    BY <1>0, <2>1
<1>4. Apply \/ applied' = applied \/ \E n \in Nat : applied' = Append(applied, n)
  <2>1. ASSUME LoopStep, ~Apply
        PROVE  applied' = applied \/ applied' = Append(applied, 1)
    BY <2>1 DEF LoopStep, ResolveStart, ResolveCommit, ResolveFail, NothingToPause,
         AutoPauseBegin, AutoPauseCommit, AutoPauseFail, AutoPauseEvent, HandlerDies,
         FinishCheck, AnswerHello, AckDuplicate, AckRejected, PreflightFail, Preflight,
         PersistDuplicate, Persist, PersistFail, SyncBegin, SyncRefused, SyncCommit, SyncFail,
         histVars
  <2>2. ASSUME NEW r \in Roles,
               \/ Receive(r) \/ Hello(r) \/ Ping(r) \/ RefuseFrame(r) \/ GraceCheck(r)
               \/ Connect(r) \/ Disconnect(r) \/ Reload(r) \/ Silence(r) \/ SendRaises(r)
               \/ \E type \in Types : Send(r, type)
        PROVE  applied' = applied \/ applied' = Append(applied, 0)
    BY <2>2 DEF Receive, Hello, Ping, Inbound, RefuseFrame, GraceCheck, Connect, Disconnect,
         Reload, Drop, Silence, SendRaises, Send, histVars
  <2>3. ASSUME RestEndBegin \/ RestEndCommit \/ StartComesDue \/ Restart \/ UNCHANGED vars
        PROVE  applied' = applied
    BY <2>3 DEF RestEndBegin, RestEndCommit, StartComesDue, Restart, vars, histVars
  <2> QED
    BY <2>1, <2>2, <2>3 DEF Next
<1> QED
  BY <1>1, <1>2, <1>3, <1>4

\* Whatever is lost, replayed or restarted, no event of a client is applied
\* after a later one of the same client.
THEOREM OrderCorrect == Spec => AppliedInOrder
<1>1. Init => InTurn
  BY InTurnInit
<1>2. TypeOK /\ Bookkeeping /\ InTurn /\ [Next]_vars
        => /\ InTurn'
           /\ [\A e \in Ids : applied'[e] > applied[e]
                 => \A d \in e + 1 .. Len(issued) :
                      issued[d].role = issued[e].role => applied[d] = 0]_applied
  BY InTurnStep, InTurnApplies
<1> QED
  BY <1>1, <1>2, TypeCorrect, BooksCorrect, PTL DEF Spec, AppliedInOrder
=============================================================================

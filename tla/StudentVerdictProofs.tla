------------------------ MODULE StudentVerdictProofs ------------------------
(***************************************************************************)
(* Proofs that a declaration covers every slice until a slip happens       *)
(* (DeclaredIsOver of StudentRecording) and that a verdict the row has     *)
(* learnt stands, and is the server's (VerdictHolds), for any number of    *)
(* tabs, slices, loads and faults.                                         *)
(***************************************************************************)
EXTENDS StudentRecordingProofs

(* A declaration covers the slices stored, unless it is held for the flush *)
(* of a recorder or the take is settled and nothing goes out any more.     *)
Whole(m) ==
  /\ m.rec = "recording" => ~m.pending /\ m.payload = NoPayload
  /\ m.flush => m.rec = "lost"
  /\ m.rec # "recording" => \/ m.payload.final = m.next - 1
                            \/ m.flush /\ ~Settled(m)
                            \/ Settled(m) /\ ~m.pending

(* The row of a take that is being recorded: it cannot go out.             *)
Holding(m) == m # NoMeta /\ ~Settled(m) /\ (m.rec = "recording" \/ (m.rec = "lost" /\ m.flush))

(* The row of a take whose recorder has not started.                       *)
Fresh(m) == m.rec = "recording" /\ m.next = 0

(* From the row that is written before recorder.start() to the commit.     *)
Works(T)  == T # Closed /\ (T.start = "armed" \/ T.rec # "none" \/ T.commit)
Undecided(q) == q.fin = "none" \/ q.phase = "over"
Quiescent(T) == T = Closed \/ (T.fin.pc = "off" /\ T.bind.pc \in {"off", "due"})

(* Where a tab is in its start and its stop.                               *)
Orderly(T, take, held) ==
  T # Closed =>
    /\ T.commit \in BOOLEAN
    /\ T.buf > 0 => T.rec # "none" \/ T.commit
    /\ T.commit => T.rec = "none" /\ take = "gone"
    /\ T.start = "armed" => T.rec = "none" /\ ~T.commit
    /\ T.start = "abandon" => held = NoTab

(* The tab that works holds the lock; no other has read the row, and none  *)
(* of the server's verdicts is on its way.                                 *)
ReadsHere(T) == T.fin.pc = "off" /\ T.bind.here /\ T.bind.pc \in {"none", "failed"}
Alone(t) ==
  /\ lock = t /\ Holding(row) /\ Undecided(srv)
  /\ \A u \in Tabs : Quiescent(tab[u]) \/ (u = t /\ ReadsHere(tab[u]))

(* Until the take is forgotten by its tab, there is no row but that tab's. *)
Unused ==
  /\ Undecided(srv) /\ \A u \in Tabs : Quiescent(tab[u])
  /\ row # NoMeta => /\ srv.take # NoTab /\ tab[srv.take] # Closed /\ Fresh(row)
                     /\ tab[srv.take].start \in {"armed", "abandon"}

DInv ==
  /\ IInv
  /\ row # NoMeta => Whole(row)
  /\ \A t \in Tabs : Orderly(tab[t], srv.take, lock)
  /\ \A t \in Tabs : Works(tab[t]) => Alone(t)
  /\ srv.take # "gone" => Unused

-----------------------------------------------------------------------------
(***************************************************************************)
(* The decisions of the queue keep a declaration whole.                    *)
(***************************************************************************)
LEMMA LostFields ==
  ASSUME NEW m \in Meta
  PROVE  LET n == persistRecorderLost(m) IN
         /\ n \in Meta /\ n.rec = "lost" /\ n.payload.final = n.next - 1
         /\ n.pending /\ ~n.confirmed /\ n.flush = m.flush /\ n.next = m.next
         /\ n.server = IfNone(m.server)
BY DeclareFacts DEF persistRecorderLost, Declaration, Meta

LEMMA LostWhole == \A m \in Meta : Whole(persistRecorderLost(m))
BY LostFields DEF Whole

LEMMA StopWhole == ASSUME NEW m \in Meta, Whole(m), m.rec = "recording" PROVE Whole(persistStop(m))
<1>1. /\ persistStop(m).rec = "stopped" /\ persistStop(m).flush = m.flush
      /\ persistStop(m).next = m.next /\ persistStop(m).payload.final = m.next - 1
  BY DEF persistStop, Declaration, Meta
<1> QED
  BY <1>1 DEF Whole

LEMMA FlagWhole ==
  ASSUME NEW m \in Meta, Whole(m), NEW v
  PROVE  /\ Whole([m EXCEPT !.operator = v]) /\ Whole([m EXCEPT !.stamp = @ + 1])
         /\ Holding(m) => Holding([m EXCEPT !.operator = v])
BY MetaPresent DEF Whole, Holding, Settled, Meta, NoMeta

LEMMA FailureWhole ==
  ASSUME NEW m \in Meta, Whole(m), NEW block \in Blocks
  PROVE  /\ Whole(notePermanentFailure(m, block))
         /\ Holding(m) => Holding(notePermanentFailure(m, block))
<1> DEFINE n == notePermanentFailure(m, block)
           p == m.pending /\ block \notin stopsFinalize
<1>1. n = [m EXCEPT !.operator = TRUE, !.block = block, !.pending = p] /\ n \in Meta
  BY FailureFacts DEF notePermanentFailure, Meta
<1>2. p => m.pending
  OBVIOUS
<1> HIDE DEF n, p
<1>3. /\ n.rec = m.rec /\ n.flush = m.flush /\ n.payload = m.payload
      /\ n.next = m.next /\ n.server = m.server /\ n.confirmed = m.confirmed /\ n.pending = p
  BY <1>1 DEF Meta
<1> QED
  BY <1>1, <1>2, <1>3, MetaPresent DEF Whole, Holding, Settled, n

LEMMA ReblockedWhole ==
  ASSUME NEW m \in Meta, Whole(m)
  PROVE  /\ Whole(Reblocked(m)) /\ Reblocked(m).rec = m.rec /\ Reblocked(m).flush = m.flush
         /\ Settled(Reblocked(m)) = Settled(m)
<1>1. CASE m.block = "none"
  BY <1>1 DEF Reblocked
<1>2. CASE m.block # "none"
  <2>1. m.block \in Blocks
    BY <1>2 DEF Meta
  <2>2. Reblocked(m) = notePermanentFailure(m, m.block)
    BY <1>2 DEF Reblocked
  <2>3. /\ notePermanentFailure(m, m.block).rec = m.rec
        /\ notePermanentFailure(m, m.block).flush = m.flush
        /\ notePermanentFailure(m, m.block).server = m.server
        /\ notePermanentFailure(m, m.block).confirmed = m.confirmed
    BY DEF notePermanentFailure, Meta
  <2> QED
    BY <2>1, <2>2, <2>3, FailureWhole DEF Settled
<1> QED
  BY <1>1, <1>2

\* A row that was being recorded or held is lost, or stays as it is, and is held.
LEMMA DeclaredWhole ==
  ASSUME NEW m \in Meta, Whole(m), NEW why
  PROVE  /\ Whole(Declared(why, m))
         /\ Holding(m) => Declared(why, m).rec = "lost" /\ ~Settled(Declared(why, m))
<1> DEFINE lost == persistRecorderLost(m)
           op   == [lost EXCEPT !.operator = TRUE]
<1>1. /\ lost \in Meta /\ Whole(lost) /\ lost.rec = "lost"
      /\ ~lost.confirmed /\ lost.server = IfNone(m.server)
  BY LostFields, LostWhole
<1> HIDE DEF lost
<1>2. ~Settled(m) => ~Settled(lost)
  BY <1>1 DEF Settled, IfNone, Terminal
<1>3. /\ op \in Meta /\ Whole(op) /\ op.rec = "lost"
      /\ Settled(op) = Settled(lost)
  BY <1>1, FlagFacts, FlagWhole DEF Meta, Settled
<1> HIDE DEF op
<1>4. /\ Whole(Reblocked(op)) /\ Reblocked(op).rec = "lost" /\ Settled(Reblocked(op)) = Settled(lost)
  BY <1>3, ReblockedWhole
<1>5. Declared(why, m) \in {m, Reblocked(op), lost}
  BY DEF Declared, persistInterrupted, persistReplaced, op, lost
<1>6. Declared(why, m) = m => m.rec = "stopped" \/ Settled(m) \/ Covered(m) \/ m \in {Reblocked(op), lost}
  BY DEF Declared, persistInterrupted, persistReplaced, op, lost
<1>7. Holding(m) /\ Declared(why, m) = m => m.rec = "lost"
  BY <1>1, <1>4, <1>6 DEF Holding, Covered
<1>8. Holding(m) => ~Settled(m)
  BY DEF Holding
<1>9. CASE Declared(why, m) = m
  BY <1>7, <1>8, <1>9
<1>10. CASE Declared(why, m) = lost
  BY <1>1, <1>2, <1>8, <1>10
<1>11. CASE Declared(why, m) = Reblocked(op)
  BY <1>2, <1>4, <1>8, <1>11
<1> QED
  BY <1>5, <1>9, <1>10, <1>11

LEMMA HoldWhole ==
  ASSUME NEW m \in Meta, Whole(m)
  PROVE  /\ Whole(holdForRecorderFlush(m))
         /\ m.rec = "lost" /\ ~Settled(m) => Holding(holdForRecorderFlush(m))
         /\ Holding(m) => Holding(holdForRecorderFlush(m))
<1>1. CASE m.rec # "lost" \/ Settled(m)
  BY <1>1 DEF holdForRecorderFlush
<1>2. CASE m.rec = "lost" /\ ~Settled(m)
  <2> DEFINE n == [m EXCEPT !.flush = TRUE]
  <2>1. holdForRecorderFlush(m) = n
    BY <1>2 DEF holdForRecorderFlush
  <2>2. /\ n \in Meta /\ n.rec = m.rec /\ n.flush /\ n.payload = m.payload
        /\ n.next = m.next /\ n.server = m.server /\ n.confirmed = m.confirmed /\ n.pending = m.pending
    BY DEF Meta
  <2> HIDE DEF n
  <2> QED
    BY <1>2, <2>1, <2>2, MetaPresent DEF Whole, Holding, Settled
<1> QED
  BY <1>1, <1>2

LEMMA InterruptedWhole ==
  ASSUME NEW m \in Meta, Whole(m), NEW t, NEW why
  PROVE  /\ Whole(Interrupted(t, why, m))
         /\ Holding(m) => Holding(Interrupted(t, why, m))
<1> DEFINE d == Declared(why, m)
<1>1. d \in Meta /\ Whole(d) /\ (Holding(m) => d.rec = "lost" /\ ~Settled(d))
  BY DeclaredFacts, DeclaredWhole
<1>2. Interrupted(t, why, m) \in {m, holdForRecorderFlush(d)}
  BY DEF Interrupted
<1> HIDE DEF d
<1> QED
  BY <1>1, <1>2, HoldWhole

LEMMA ReleaseWhole ==
  ASSUME NEW m \in Meta, Whole(m) PROVE Whole(releaseRecorderFlush(m))
<1> DEFINE free == [m EXCEPT !.flush = FALSE]
           lost == persistRecorderLost(free)
           anew == [lost EXCEPT !.stamp = @ + 1]
<1>1. /\ free \in Meta /\ free.rec = m.rec /\ free.payload = m.payload /\ ~free.flush
      /\ free.next = m.next /\ free.server = m.server /\ free.confirmed = m.confirmed
      /\ free.pending = m.pending
  BY DEF Meta
<1>2. CASE ~m.flush \/ m.rec # "lost" \/ Settled(m)
  <2>1. releaseRecorderFlush(m) = free
    BY <1>2 DEF releaseRecorderFlush
  <2> HIDE DEF free
  <2> QED
    BY <1>1, <1>2, <2>1 DEF Whole, Settled
<1>3. CASE ~(~m.flush \/ m.rec # "lost" \/ Settled(m))
  <2>1. releaseRecorderFlush(m) = Reblocked(anew)
    BY <1>3 DEF releaseRecorderFlush
  <2> HIDE DEF free
  <2>2. lost \in Meta /\ Whole(lost)
    BY <1>1, LostFields, LostWhole
  <2> HIDE DEF lost
  <2>3. anew \in Meta /\ Whole(anew)
    BY <2>2, FlagFacts, FlagWhole
  <2> HIDE DEF anew
  <2> QED
    BY <2>1, <2>3, ReblockedWhole
<1> QED
  BY <1>2, <1>3

LEMMA StatusWhole ==
  ASSUME NEW m \in Meta, Whole(m), NEW state \in Servers
  PROVE  /\ Whole(applyServerStatus(m, state))
         /\ Holding(m) /\ state \notin Terminal => Holding(applyServerStatus(m, state))
<1> DEFINE held == IF m.server \in Terminal /\ state \notin Terminal THEN m.server ELSE state
           n == applyServerStatus(m, state)
<1>1. n = CASE held = "complete"   -> [m EXCEPT !.server = held, !.confirmed = TRUE, !.pending = FALSE]
            [] held = "incomplete" -> [m EXCEPT !.server = held, !.confirmed = FALSE, !.pending = FALSE]
            [] OTHER               -> [m EXCEPT !.server = held]
  BY DEF applyServerStatus
<1>2. n \in Meta
  BY StatusFacts
<1>3. held \notin Terminal => m.server \notin Terminal
  OBVIOUS
<1>4. state \notin Terminal /\ m.server \notin Terminal => held \notin Terminal
  OBVIOUS
<1> HIDE DEF held
<1>5. /\ n.rec = m.rec /\ n.payload = m.payload /\ n.next = m.next /\ n.flush = m.flush
      /\ n.server = held /\ (held \in Terminal => ~n.pending)
      /\ held \notin Terminal => n.pending = m.pending /\ n.confirmed = m.confirmed
      /\ n.pending => m.pending
  BY <1>1 DEF Terminal, Meta
<1> HIDE DEF n
<1>6. Whole(n)
  BY <1>3, <1>5 DEF Whole, Settled
<1>7. Holding(m) /\ state \notin Terminal => Holding(n)
  BY <1>2, <1>4, <1>5, MetaPresent DEF Holding, Settled
<1> QED
  BY <1>6, <1>7 DEF n

LEMMA UnblockWhole ==
  ASSUME NEW m \in Meta, Whole(m), NEW remaining \in SUBSET Blocks,
         NEW n \in clearUnauthorizedUploadBlock(m, remaining)
  PROVE  Whole(n) /\ (Holding(m) => Holding(n)) /\ (Fresh(m) => Fresh(n))
<1>1. CASE m.block # "unauthorized"
  <2>1. n = m
    BY <1>1 DEF clearUnauthorizedUploadBlock
  <2> QED
    BY <2>1
<1>2. CASE m.block = "unauthorized"
  <2> DEFINE resumed == m.payload # NoPayload /\ ~Settled(m) /\ remaining \cap stopsFinalize = {}
             o == remaining # {} \/ (m.rec = "lost" /\ m.operator)
             p == m.pending \/ resumed
  <2>1. PICK b \in IF remaining = {} THEN {"none"} ELSE remaining :
          n = [m EXCEPT !.block = b, !.operator = o, !.pending = p]
    BY <1>2 DEF clearUnauthorizedUploadBlock
  <2>2. n \in Meta
    BY UnblockFacts
  <2>3. /\ n.rec = m.rec /\ n.payload = m.payload /\ n.next = m.next /\ n.flush = m.flush
        /\ n.server = m.server /\ n.confirmed = m.confirmed /\ n.pending = p
    BY <2>1 DEF Meta
  <2>4. p => m.pending \/ (m.payload # NoPayload /\ ~Settled(m))
    OBVIOUS
  <2> HIDE DEF p, o
  <2> QED
    BY <2>2, <2>3, <2>4, MetaPresent DEF Whole, Holding, Fresh, Settled
<1> QED
  BY <1>1, <1>2

LEMMA NextWhole ==
  ASSUME NEW m \in Meta, Whole(m), Holding(m)
  PROVE  Whole([m EXCEPT !.next = @ + 1]) /\ Holding([m EXCEPT !.next = @ + 1])
<1> DEFINE n == [m EXCEPT !.next = @ + 1]
<1>1. /\ n \in Meta /\ n.rec = m.rec /\ n.payload = m.payload /\ n.flush = m.flush
      /\ n.server = m.server /\ n.confirmed = m.confirmed /\ n.pending = m.pending
  BY DEF Meta
<1> HIDE DEF n
<1> QED
  BY <1>1, MetaPresent DEF Whole, Holding, Settled, n

-----------------------------------------------------------------------------
(***************************************************************************)
(* A step of tab t that begins no work, reads no row and ends no work.     *)
(***************************************************************************)
RowKept ==
  \/ row' = row
  \/ /\ row # NoMeta /\ row' # NoMeta /\ Whole(row')
     /\ Holding(row) /\ (\E u \in Tabs : Works(tab[u])) => Holding(row')
     /\ Fresh(row) /\ srv'.take # "gone" => Fresh(row')

SrvKept(t) == /\ Undecided(srv) => Undecided(srv')
              /\ srv'.take \in {srv.take, Forgotten(t)}

TabKept(t) ==
  /\ \A u \in Tabs \ {t} : tab'[u] = tab[u]
  /\ Orderly(tab'[t], srv'.take, lock) /\ (Works(tab'[t]) => Works(tab[t]))
  /\ Quiescent(tab[t]) => Quiescent(tab'[t])
  /\ tab[t] # Closed /\ ReadsHere(tab[t]) => Quiescent(tab'[t]) \/ ReadsHere(tab'[t])
  /\ srv'.take = t /\ tab[t] # Closed /\ tab[t].start \in {"armed", "abandon"} =>
       tab'[t] # Closed /\ tab'[t].start \in {"armed", "abandon"}

Tame(t) == lock' = lock /\ RowKept /\ SrvKept(t) /\ TabKept(t)

LEMMA Forgets ==
  ASSUME DInv, NEW t \in Tabs, SrvKept(t)
  PROVE  /\ srv.take = "gone" => srv'.take = "gone"
         /\ srv'.take # "gone" => srv'.take = srv.take
BY Names DEF SrvKept, Forgotten

LEMMA TameOK == ASSUME DInv, IInv', NEW t \in Tabs, Tame(t) PROVE DInv'
<1>1. row' # NoMeta => Whole(row')
  BY DEF Tame, RowKept, DInv
<1>2. ASSUME NEW u \in Tabs PROVE Orderly(tab'[u], srv'.take, lock')
  <2>1. CASE u = t
    BY <2>1 DEF Tame, TabKept
  <2>2. CASE u # t
    <3>1. tab'[u] = tab[u] /\ lock' = lock /\ Orderly(tab[u], srv.take, lock)
      BY <2>2 DEF Tame, TabKept, DInv
    <3> QED
      BY <3>1, Forgets DEF Tame, Orderly
  <2> QED
    BY <2>1, <2>2
<1>3. ASSUME NEW u \in Tabs, Works(tab'[u]) PROVE Alone(u)'
  <2>1. Works(tab[u])
    BY <1>3 DEF Tame, TabKept
  <2>2. Alone(u)
    BY <2>1 DEF DInv
  <2>3. lock' = u /\ Holding(row') /\ Undecided(srv')
    BY <2>1, <2>2 DEF Alone, Tame, RowKept, SrvKept
  <2>4. ASSUME NEW v \in Tabs PROVE Quiescent(tab'[v]) \/ (v = u /\ ReadsHere(tab'[v]))
    <3>1. CASE v # t
      BY <2>2, <3>1 DEF Alone, Tame, TabKept
    <3>2. CASE v = t
      BY <2>2, <3>2 DEF Alone, Tame, TabKept, Quiescent
    <3> QED
      BY <3>1, <3>2
  <2> QED
    BY <2>3, <2>4 DEF Alone
<1>4. ASSUME srv'.take # "gone" PROVE Unused'
  <2>1. srv'.take = srv.take /\ Unused
    BY <1>4, Forgets DEF Tame, DInv
  <2>2. Undecided(srv')
    BY <2>1 DEF Unused, Tame, SrvKept
  <2>3. \A u \in Tabs : Quiescent(tab'[u])
    BY <2>1 DEF Unused, Tame, TabKept
  <2>4. ASSUME row' # NoMeta
        PROVE  /\ srv'.take # NoTab /\ tab'[srv'.take] # Closed /\ Fresh(row')
               /\ tab'[srv'.take].start \in {"armed", "abandon"}
    <3>1. row # NoMeta /\ Fresh(row')
      BY <1>4, <2>1, <2>4 DEF Tame, RowKept, Unused
    <3>2. /\ srv.take # NoTab /\ tab[srv.take] # Closed
          /\ tab[srv.take].start \in {"armed", "abandon"}
      BY <2>1, <3>1 DEF Unused
    <3>3. srv.take \in Tabs
      BY <1>4, <2>1, <3>2 DEF DInv, IInv, TypeOK
    <3> QED
      BY <2>1, <3>1, <3>2, <3>3 DEF Tame, TabKept
  <2> QED
    BY <2>2, <2>3, <2>4 DEF Unused
<1> QED
  BY <1>1, <1>2, <1>3, <1>4 DEF DInv

LEMMA DOpen ==
  ASSUME DInv, NEW t \in Tabs, Open(t)
  PROVE  /\ TabOK(tab[t]) /\ Sound(t, tab[t], srv.take, row) /\ tab[t] # Closed
         /\ Orderly(tab[t], srv.take, lock)
BY OpenFacts DEF DInv, Open, Is, Closed

LEMMA DRow == ASSUME DInv, row # NoMeta PROVE row \in Meta /\ Whole(row)
BY RowType DEF DInv

LEMMA TabKeeps ==
  ASSUME DInv, NEW t \in Tabs, Open(t), NEW X, tab' = [tab EXCEPT ![t] = X],
         X.page = tab[t].page,
         X.fin = tab[t].fin \/ X.fin.pc = "off",
         X.bind = tab[t].bind \/ X.bind.pc \in {"off", "due"},
         Orderly(X, srv'.take, lock), Works(X) => Works(tab[t]),
         X.start = tab[t].start \/ tab[t].start \notin {"armed", "abandon"} \/ srv'.take # t
  PROVE  TabKept(t)
<1>1. X # Closed
  BY DEF Open, Is, Closed
<1>2. tab'[t] = X /\ \A u \in Tabs \ {t} : tab'[u] = tab[u]
  BY DEF DInv, IInv, TypeOK
<1>3. Quiescent(tab[t]) => Quiescent(X)
  BY <1>1, DOpen DEF Quiescent
<1>4. ReadsHere(tab[t]) => Quiescent(X) \/ ReadsHere(X)
  BY DEF Quiescent, ReadsHere
<1> QED
  BY <1>1, <1>2, <1>3, <1>4 DEF TabKept

LEMMA InterruptStopsTame == ASSUME DInv, NEW t \in Tabs, InterruptStops(t) PROVE Tame(t)
<1>1. Open(t) /\ row' = row /\ lock' = lock /\ srv' = srv
  BY DEF InterruptStops, At, Is, Open, disk
<1> DEFINE X == [tab[t] EXCEPT !.stop = FALSE, !.rec = IF @ = "running" THEN "inactive" ELSE @]
<1>2. tab' = [tab EXCEPT ![t] = X]
  BY DEF InterruptStops, Set
<1>3. /\ X.page = tab[t].page /\ X.fin = tab[t].fin
      /\ X.bind = tab[t].bind \/ X.bind.pc \in {"off", "due"}
      /\ Orderly(X, srv'.take, lock) /\ (Works(X) => Works(tab[t]))
      /\ X.start = tab[t].start \/ tab[t].start \notin {"armed", "abandon"}
  BY <1>1, DOpen DEF InterruptStops, At, TabOK, Loaded, Orderly, Works
<1> HIDE DEF X
<1> QED
  BY <1>1, <1>2, <1>3, TabKeeps DEF Tame, RowKept, SrvKept

LEMMA StartTame == ASSUME DInv, NEW t \in Tabs, Start(t) PROVE Tame(t)
<1>1. Open(t) /\ row' = row /\ lock' = lock /\ srv' = srv
  BY DEF Start, At, Is, Open, disk
<1> DEFINE X == [tab[t] EXCEPT !.start = "prompt", !.bind = Rebound(t)]
<1>2. tab' = [tab EXCEPT ![t] = X]
  BY DEF Start, Set
<1>3. /\ X.page = tab[t].page /\ X.fin = tab[t].fin
      /\ X.bind = tab[t].bind \/ X.bind.pc \in {"off", "due"}
      /\ Orderly(X, srv'.take, lock) /\ (Works(X) => Works(tab[t]))
      /\ X.start = tab[t].start \/ tab[t].start \notin {"armed", "abandon"}
  BY <1>1, DOpen DEF Start, At, TabOK, Loaded, Orderly, Works, Rebound
<1> HIDE DEF X
<1> QED
  BY <1>1, <1>2, <1>3, TabKeeps DEF Tame, RowKept, SrvKept

LEMMA PromptFailsTame == ASSUME DInv, NEW t \in Tabs, PromptFails(t) PROVE Tame(t)
<1>1. Open(t) /\ row' = row /\ lock' = lock /\ srv' = srv
  BY DEF PromptFails, At, Is, Open, disk
<1> DEFINE X == [tab[t] EXCEPT !.start = "idle"]
<1>2. tab' = [tab EXCEPT ![t] = X]
  BY DEF PromptFails, Set
<1>3. /\ X.page = tab[t].page /\ X.fin = tab[t].fin
      /\ X.bind = tab[t].bind \/ X.bind.pc \in {"off", "due"}
      /\ Orderly(X, srv'.take, lock) /\ (Works(X) => Works(tab[t]))
      /\ X.start = tab[t].start \/ tab[t].start \notin {"armed", "abandon"}
  BY <1>1, DOpen DEF PromptFails, At, TabOK, Loaded, Orderly, Works
<1> HIDE DEF X
<1> QED
  BY <1>1, <1>2, <1>3, TabKeeps DEF Tame, RowKept, SrvKept

LEMMA StartRefusedTame == ASSUME DInv, NEW t \in Tabs, StartRefused(t) PROVE Tame(t)
<1>1. Open(t) /\ row' = row /\ lock' = lock /\ srv' = srv
  BY DEF StartRefused, At, Is, Open, disk
<1> DEFINE X == [tab[t] EXCEPT !.start = "idle"]
<1>2. tab' = [tab EXCEPT ![t] = X]
  BY DEF StartRefused, Set
<1>3. /\ X.page = tab[t].page /\ X.fin = tab[t].fin
      /\ X.bind = tab[t].bind \/ X.bind.pc \in {"off", "due"}
      /\ Orderly(X, srv'.take, lock) /\ (Works(X) => Works(tab[t]))
      /\ X.start = tab[t].start \/ tab[t].start \notin {"armed", "abandon"}
  BY <1>1, DOpen DEF StartRefused, At, TabOK, Loaded, Orderly, Works
<1> HIDE DEF X
<1> QED
  BY <1>1, <1>2, <1>3, TabKeeps DEF Tame, RowKept, SrvKept

LEMMA SliceTame == ASSUME DInv, NEW t \in Tabs, Slice(t) PROVE Tame(t)
<1>1. Open(t) /\ row' = row /\ lock' = lock /\ srv' = srv
  BY DEF Slice, At, Is, Open, disk
<1> DEFINE X == [tab[t] EXCEPT !.buf = @ + 1]
<1>2. tab' = [tab EXCEPT ![t] = X]
  BY DEF Slice, Set
<1>3. /\ X.page = tab[t].page /\ X.fin = tab[t].fin
      /\ X.bind = tab[t].bind \/ X.bind.pc \in {"off", "due"}
      /\ Orderly(X, srv'.take, lock) /\ (Works(X) => Works(tab[t]))
      /\ X.start = tab[t].start \/ tab[t].start \notin {"armed", "abandon"}
  BY <1>1, DOpen DEF Slice, At, TabOK, Loaded, Orderly, Works
<1> HIDE DEF X
<1> QED
  BY <1>1, <1>2, <1>3, TabKeeps DEF Tame, RowKept, SrvKept

LEMMA stopRecordingTame == ASSUME DInv, NEW t \in Tabs, stopRecording(t) PROVE Tame(t)
<1>1. Open(t) /\ row' = row /\ lock' = lock /\ srv' = srv
  BY DEF stopRecording, At, Is, Open, disk
<1> DEFINE X == [tab[t] EXCEPT !.rec = "inactive"]
<1>2. tab' = [tab EXCEPT ![t] = X]
  BY DEF stopRecording, Set
<1>3. /\ X.page = tab[t].page /\ X.fin = tab[t].fin
      /\ X.bind = tab[t].bind \/ X.bind.pc \in {"off", "due"}
      /\ Orderly(X, srv'.take, lock) /\ (Works(X) => Works(tab[t]))
      /\ X.start = tab[t].start \/ tab[t].start \notin {"armed", "abandon"}
  BY <1>1, DOpen DEF stopRecording, At, TabOK, Loaded, Orderly, Works
<1> HIDE DEF X
<1> QED
  BY <1>1, <1>2, <1>3, TabKeeps DEF Tame, RowKept, SrvKept

LEMMA notePageHideTame == ASSUME DInv, NEW t \in Tabs, notePageHide(t) PROVE Tame(t)
<1>1. Open(t) /\ row' = row /\ lock' = lock /\ srv' = srv
  BY DEF notePageHide, At, Is, Open, disk
<1> DEFINE X == [tab[t] EXCEPT !.rec = "inactive", !.asLost = TRUE]
<1>2. tab' = [tab EXCEPT ![t] = X]
  BY DEF notePageHide, Set
<1>3. /\ X.page = tab[t].page /\ X.fin = tab[t].fin
      /\ X.bind = tab[t].bind \/ X.bind.pc \in {"off", "due"}
      /\ Orderly(X, srv'.take, lock) /\ (Works(X) => Works(tab[t]))
      /\ X.start = tab[t].start \/ tab[t].start \notin {"armed", "abandon"}
  BY <1>1, DOpen DEF notePageHide, At, TabOK, Loaded, Orderly, Works
<1> HIDE DEF X
<1> QED
  BY <1>1, <1>2, <1>3, TabKeeps DEF Tame, RowKept, SrvKept

LEMMA ReconcileIdleTame == ASSUME DInv, NEW t \in Tabs, ReconcileIdle(t) PROVE Tame(t)
<1>1. Open(t) /\ row' = row /\ lock' = lock /\ srv' = srv
  BY DEF ReconcileIdle, At, Is, Open, disk
<1> DEFINE X == [tab[t] EXCEPT !.bind = Off]
<1>2. tab' = [tab EXCEPT ![t] = X]
  BY DEF ReconcileIdle, Set
<1>3. /\ X.page = tab[t].page /\ X.fin = tab[t].fin
      /\ X.bind = tab[t].bind \/ X.bind.pc \in {"off", "due"}
      /\ Orderly(X, srv'.take, lock) /\ (Works(X) => Works(tab[t]))
      /\ X.start = tab[t].start \/ tab[t].start \notin {"armed", "abandon"}
  BY <1>1, DOpen DEF ReconcileIdle, At, TabOK, Loaded, Orderly, Works, Off
<1> HIDE DEF X
<1> QED
  BY <1>1, <1>2, <1>3, TabKeeps DEF Tame, RowKept, SrvKept

LEMMA handleRecorderStopTame == ASSUME DInv, NEW t \in Tabs, handleRecorderStop(t) PROVE Tame(t)
<1>1. Open(t) /\ row' = row /\ lock' = lock /\ srv' = srv /\ tab[t].rec = "inactive"
  BY DEF handleRecorderStop, disk
<1>2. PICK n \in 0 .. 1 :
        tab' = [tab EXCEPT ![t].rec = "none", ![t].commit = TRUE, ![t].buf = @ + n]
  BY DEF handleRecorderStop
<1> DEFINE X == [tab[t] EXCEPT !.rec = "none", !.commit = TRUE, !.buf = @ + n]
<1>3. tab' = [tab EXCEPT ![t] = X]
  BY <1>2
<1>4. srv.take = "gone"
  BY <1>1, DOpen DEF Sound
<1>5. /\ X.page = tab[t].page /\ X.fin = tab[t].fin /\ X.bind = tab[t].bind /\ X.start = tab[t].start
      /\ X.commit = TRUE /\ X.rec = "none"
  BY <1>1, DOpen DEF TabOK, Loaded
<1>6. Orderly(X, srv'.take, lock) /\ (Works(X) => Works(tab[t]))
  BY <1>1, <1>4, <1>5, DOpen DEF Orderly, Works
<1> HIDE DEF X
<1> QED
  BY <1>1, <1>3, <1>5, <1>6, TabKeeps DEF Tame, RowKept, SrvKept

LEMMA ClaimRefusedTame == ASSUME DInv, NEW t \in Tabs, ClaimRefused(t) PROVE Tame(t)
<1>1. Open(t) /\ row' = row /\ lock' = lock /\ tab[t].start = "prompt"
  BY DEF ClaimRefused, Prompted, At, Is, Open, disk
<1>2. SrvKept(t)
  BY DEF ClaimRefused, SrvKept, Undecided, DInv, IInv, TypeOK
<1> DEFINE kept == ClaimVerdict(t) = "not_admitted"
           o == IF ClaimVerdict(t) = "revoked" THEN Out(t, "revoked") ELSE tab[t].out
           X == [tab[t] EXCEPT !.start = "idle", !.pending = kept, !.out = o]
<1>3. tab' = [tab EXCEPT ![t] = X]
  BY DEF ClaimRefused
<1> HIDE DEF kept, o
<1>4. /\ X.page = tab[t].page /\ X.fin = tab[t].fin /\ X.bind = tab[t].bind /\ X.start = "idle"
      /\ X.commit = tab[t].commit /\ X.rec = tab[t].rec /\ X.buf = tab[t].buf
  BY <1>1, DOpen DEF TabOK, Loaded
<1> HIDE DEF X
<1>5. Orderly(X, srv'.take, lock) /\ (Works(X) => Works(tab[t]))
  BY <1>1, <1>2, <1>4, DOpen, Forgets DEF Orderly, Works
<1> QED
  BY <1>1, <1>2, <1>3, <1>4, <1>5, TabKeeps DEF Tame, RowKept

LEMMA AdmitTame == ASSUME DInv, NEW t \in Tabs, Admit(t) \/ Drop(t) PROVE Tame(t)
<1>1. Open(t) /\ row' = row /\ lock' = lock
  BY DEF Admit, Drop, Is, Open, disk
<1>2. SrvKept(t) /\ srv'.take = srv.take
  BY DEF Admit, Drop, SrvKept, Undecided, DInv, IInv, TypeOK
<1>3. PICK a \in BOOLEAN : tab' = [tab EXCEPT ![t].admitted = a]
  BY DEF Admit, Drop, Set
<1> DEFINE X == [tab[t] EXCEPT !.admitted = a]
<1>4. tab' = [tab EXCEPT ![t] = X]
  BY <1>3
<1>5. /\ X.page = tab[t].page /\ X.fin = tab[t].fin /\ X.bind = tab[t].bind /\ X.start = tab[t].start
      /\ X.commit = tab[t].commit /\ X.rec = tab[t].rec /\ X.buf = tab[t].buf
  BY <1>1, DOpen DEF TabOK, Loaded
<1> HIDE DEF X
<1>6. Orderly(X, srv'.take, lock) /\ (Works(X) => Works(tab[t]))
  BY <1>1, <1>2, <1>5, DOpen DEF Orderly, Works
<1> QED
  BY <1>1, <1>2, <1>4, <1>5, <1>6, TabKeeps DEF Tame, RowKept

LEMMA LoadKeeps ==
  ASSUME DInv, NEW t \in Tabs, NEW page \in {"live", "restored", "upload"},
         tab[t] = Closed, tab' = [tab EXCEPT ![t] = Loaded(page)]
  PROVE  TabKept(t)
<1>1. tab'[t] = Loaded(page) /\ \A u \in Tabs \ {t} : tab'[u] = tab[u]
  BY DEF DInv, IInv, TypeOK
<1>2. Orderly(Loaded(page), srv'.take, lock) /\ ~Works(Loaded(page)) /\ Quiescent(Loaded(page))
  BY DEF Orderly, Works, Quiescent, Loaded, Off
<1> QED
  BY <1>1, <1>2 DEF TabKept

LEMMA OpenTame == ASSUME DInv, NEW t \in Tabs, OpenLive(t) \/ OpenRestored(t) PROVE Tame(t)
<1>1. row' = row /\ lock' = lock /\ srv' = srv /\ tab[t] = Closed
  BY DEF OpenLive, OpenRestored, Load, disk
<1>2. PICK page \in {"live", "restored"} : tab' = [tab EXCEPT ![t] = Loaded(page)]
  BY DEF OpenLive, OpenRestored, Load
<1> QED
  BY <1>1, <1>2, LoadKeeps DEF Tame, RowKept, SrvKept

LEMMA OpenUploadTame == ASSUME DInv, NEW t \in Tabs, OpenUpload(t) PROVE Tame(t)
<1>1. /\ row # NoMeta /\ lock' = lock /\ srv' = srv /\ tab[t] = Closed
      /\ tab' = [tab EXCEPT ![t] = Loaded("upload")]
  BY DEF OpenUpload, Load, offersUploadCode, findUnfinishedUploadSessions, showUploadCodeEntry
<1> DEFINE left == {chunks'[s] : s \in DOMAIN chunks} \ {"waiting"}
<1>2. chunks' = clearUnauthorizedChunks(chunks) /\ row' \in clearUnauthorizedUploadBlock(row, left)
  BY DEF OpenUpload, resumeUnauthorizedUploads
<1>3. \A s \in DOMAIN chunks : chunks'[s] \in Blocks \cup {"waiting"}
  BY <1>2 DEF clearUnauthorizedChunks, DInv, IInv, TypeOK
<1>4. left \in SUBSET Blocks
  BY <1>3
<1> HIDE DEF left
<1>5. row \in Meta /\ Whole(row)
  BY <1>1, DRow
<1>6. row' \in Meta /\ Whole(row') /\ (Holding(row) => Holding(row')) /\ (Fresh(row) => Fresh(row'))
  BY <1>2, <1>4, <1>5, UnblockFacts, UnblockWhole
<1>7. RowKept
  BY <1>1, <1>6, MetaPresent DEF RowKept
<1> QED
  BY <1>1, <1>7, LoadKeeps DEF Tame, SrvKept

-----------------------------------------------------------------------------
(***************************************************************************)
(* Interruption, the start of the recorder and the slices.                 *)
(***************************************************************************)
LEMMA InterruptKeeps ==
  ASSUME DInv, NEW t \in Tabs, Open(t), NEW why, SrvKept(t),
         NEW X \in {Interrupt(t, why), [Interrupt(t, why) EXCEPT !.admitted = FALSE]},
         tab' = [tab EXCEPT ![t] = X]
  PROVE  TabKept(t)
<1> DEFINE stops == tab[t].stop \/ tab[t].rec = "running"
           keeps == tab[t].pending /\ why # "replaced"
           Y == [tab[t] EXCEPT !.out = @ \cup {why}, !.stop = stops, !.pending = keeps]
<1>1. X = Y \/ X = [Y EXCEPT !.admitted = FALSE]
  BY DEF Interrupt
<1> HIDE DEF stops, keeps
<1>2. /\ Y.page = tab[t].page /\ Y.fin = tab[t].fin /\ Y.bind = tab[t].bind /\ Y.start = tab[t].start
      /\ Y.commit = tab[t].commit /\ Y.rec = tab[t].rec /\ Y.buf = tab[t].buf /\ DOMAIN Y = DOMAIN tab[t]
  BY DOpen DEF TabOK, Loaded
<1> HIDE DEF Y
<1>3. /\ X.page = tab[t].page /\ X.fin = tab[t].fin /\ X.bind = tab[t].bind /\ X.start = tab[t].start
      /\ X.commit = tab[t].commit /\ X.rec = tab[t].rec /\ X.buf = tab[t].buf
  BY <1>1, <1>2, DOpen DEF TabOK, Loaded
<1>4. Orderly(X, srv'.take, lock) /\ (Works(X) => Works(tab[t]))
  BY <1>3, DOpen, Forgets DEF Orderly, Works
<1> QED
  BY <1>3, <1>4, TabKeeps

LEMMA InterruptedKept ==
  ASSUME DInv, NEW t \in Tabs, Open(t), NEW why, SrvKept(t), row' = Interrupted(t, why, row)
  PROVE  RowKept
<1>1. CASE row = NoMeta \/ tab[t].rec # "running"
  BY <1>1 DEF Interrupted, RowKept
<1>2. CASE row # NoMeta /\ tab[t].rec = "running"
  <2>1. srv'.take = "gone"
    BY <1>2, DOpen, Forgets DEF Sound
  <2>2. Whole(row') /\ (Holding(row) => Holding(row')) /\ row' # NoMeta
    BY <1>2, DRow, InterruptedWhole, DeclaredFacts, FlushFacts, MetaPresent DEF Interrupted
  <2> QED
    BY <1>2, <2>1, <2>2 DEF RowKept
<1> QED
  BY <1>1, <1>2

\* The declaration of the interruption was refused.
LEMMA UnheededKeeps ==
  ASSUME DInv, NEW t \in Tabs, Open(t), NEW why, SrvKept(t),
         NEW X \in {Unheeded(t, why), [Unheeded(t, why) EXCEPT !.admitted = FALSE]},
         tab' = [tab EXCEPT ![t] = X]
  PROVE  TabKept(t)
<1> DEFINE keeps == tab[t].pending /\ why # "replaced"
           Y == [tab[t] EXCEPT !.out = @ \cup {why}, !.unheeded = TRUE, !.pending = keeps]
<1>1. X = Y \/ X = [Y EXCEPT !.admitted = FALSE]
  BY DEF Unheeded
<1> HIDE DEF keeps
<1>2. /\ Y.page = tab[t].page /\ Y.fin = tab[t].fin /\ Y.bind = tab[t].bind /\ Y.start = tab[t].start
      /\ Y.commit = tab[t].commit /\ Y.rec = tab[t].rec /\ Y.buf = tab[t].buf /\ DOMAIN Y = DOMAIN tab[t]
  BY DOpen DEF TabOK, Loaded
<1> HIDE DEF Y
<1>3. /\ X.page = tab[t].page /\ X.fin = tab[t].fin /\ X.bind = tab[t].bind /\ X.start = tab[t].start
      /\ X.commit = tab[t].commit /\ X.rec = tab[t].rec /\ X.buf = tab[t].buf
  BY <1>1, <1>2, DOpen DEF TabOK, Loaded
<1>4. Orderly(X, srv'.take, lock) /\ (Works(X) => Works(tab[t]))
  BY <1>3, DOpen, Forgets DEF Orderly, Works
<1> QED
  BY <1>3, <1>4, TabKeeps

LEMMA HearUnheededTame == ASSUME DInv, NEW t \in Tabs, HearUnheeded(t) PROVE Tame(t)
<1>1. Open(t) /\ lock' = lock /\ row' = row
  BY DEF HearUnheeded, disk
<1>2. SrvKept(t)
  BY DEF HearUnheeded, SrvKept, Undecided, DInv, IInv, TypeOK
<1>3. PICK why : tab' = [tab EXCEPT ![t] = [Unheeded(t, why) EXCEPT !.admitted = FALSE]]
  BY DEF HearUnheeded
<1> QED
  BY <1>1, <1>2, <1>3, UnheededKeeps DEF Tame, RowKept

LEMMA UploadUnheededTame == ASSUME DInv, NEW t \in Tabs, UploadUnheeded(t) PROVE Tame(t)
<1>1. Open(t) /\ lock' = lock /\ srv' = srv /\ tab' = [tab EXCEPT ![t] = Unheeded(t, "revoked")]
  BY DEF UploadUnheeded
<1>2. row' = IF row = NoMeta THEN row ELSE notePermanentFailure(row, "unauthorized")
  BY DEF UploadUnheeded
<1>3. SrvKept(t)
  BY <1>1 DEF SrvKept
<1>4. TabKept(t)
  BY <1>1, <1>3, UnheededKeeps
<1>5. RowKept
  <2>1. CASE row = NoMeta
    BY <1>2, <2>1 DEF RowKept
  <2>2. CASE row # NoMeta
    <3>1. "unauthorized" \in Blocks
      BY DEF Blocks
    <3>2. row' \in Meta /\ Whole(row') /\ (Holding(row) => Holding(row'))
      BY <1>2, <2>2, <3>1, DRow, FailureFacts, FailureWhole
    <3>3. Fresh(row) => Fresh(row')
      BY <1>2, <2>2, DRow DEF Fresh, notePermanentFailure, Meta
    <3> QED
      BY <2>2, <3>2, <3>3, MetaPresent DEF RowKept
  <2> QED
    BY <2>1, <2>2
<1> QED
  BY <1>1, <1>3, <1>4, <1>5 DEF Tame

LEMMA HearTame == ASSUME DInv, NEW t \in Tabs, HearRevoked(t) \/ HearReplaced(t) PROVE Tame(t)
<1>1. Open(t) /\ lock' = lock
  BY DEF HearRevoked, HearReplaced, ToldRevoked, ToldReplaced, Is, Open
<1>2. SrvKept(t)
  BY DEF HearRevoked, HearReplaced, SrvKept, Undecided, DInv, IInv, TypeOK
<1>3. PICK why : /\ row' = Interrupted(t, why, row)
                 /\ tab' = [tab EXCEPT ![t] = [Interrupt(t, why) EXCEPT !.admitted = FALSE]]
  BY DEF HearRevoked, HearReplaced
<1> QED
  BY <1>1, <1>2, <1>3, InterruptKeeps, InterruptedKept DEF Tame

LEMMA UploadRefusedTame == ASSUME DInv, NEW t \in Tabs, UploadRefused(t) PROVE Tame(t)
<1>1. Open(t) /\ lock' = lock /\ srv' = srv
  BY DEF UploadRefused
<1>2. PICK s \in DOMAIN chunks :
       /\ UploadVerdict(t, s) # "stored"
       /\ LET block   == permanentUploadBlock(UploadVerdict(t, s))
              noted   == IF row = NoMeta THEN row ELSE notePermanentFailure(row, block)
              revoked == isRevokedCredential(t, UploadVerdict(t, s))
          IN /\ row' = (IF revoked THEN Interrupted(t, "revoked", noted) ELSE noted)
             /\ tab' = [tab EXCEPT ![t] = IF revoked THEN Interrupt(t, "revoked") ELSE @]
  BY DEF UploadRefused
<1> DEFINE block   == permanentUploadBlock(UploadVerdict(t, s))
           noted   == IF row = NoMeta THEN row ELSE notePermanentFailure(row, block)
           revoked == isRevokedCredential(t, UploadVerdict(t, s))
           X       == IF revoked THEN Interrupt(t, "revoked") ELSE tab[t]
<1>3. block \in Blocks
  BY <1>2, BlockFacts
<1>4. row' = (IF revoked THEN Interrupted(t, "revoked", noted) ELSE noted)
  BY <1>2
<1>5. tab' = [tab EXCEPT ![t] = X]
  BY <1>2
<1>6. revoked => tab[t].rec # "none"
  BY DEF isRevokedCredential
<1> HIDE DEF block, revoked
<1>7. SrvKept(t)
  BY <1>1 DEF SrvKept
<1>8. TabKept(t)
  <2>1. CASE revoked
    BY <1>1, <1>5, <1>7, <2>1, InterruptKeeps
  <2>2. CASE ~revoked
    BY <1>1, <1>5, <2>2, DOpen, TabKeeps
  <2> QED
    BY <2>1, <2>2
<1>9. RowKept
  <2>1. CASE row = NoMeta
    BY <1>4, <2>1 DEF RowKept, Interrupted
  <2>2. CASE row # NoMeta
    <3>1. noted \in Meta /\ Whole(noted) /\ (Holding(row) => Holding(noted))
      BY <1>3, <2>2, DRow, FailureFacts, FailureWhole
    <3>2. Fresh(row) => Fresh(noted)
      BY <2>2, DRow DEF Fresh, notePermanentFailure, Meta
    <3> HIDE DEF noted
    <3>3. /\ Whole(row') /\ (Holding(row) => Holding(row')) /\ row' # NoMeta
      BY <1>4, <3>1, MetaPresent, InterruptedWhole, DeclaredFacts, FlushFacts DEF Interrupted
    <3>4. Fresh(row) /\ srv.take # "gone" => Fresh(row')
      BY <1>1, <1>4, <1>6, <3>2, DOpen DEF Sound
    <3> QED
      BY <1>1, <2>2, <3>3, <3>4 DEF RowKept
  <2> QED
    BY <2>1, <2>2
<1> QED
  BY <1>1, <1>7, <1>8, <1>9 DEF Tame

LEMMA BeginTame == ASSUME DInv, NEW t \in Tabs, Begin(t) PROVE Tame(t)
<1>1. Open(t) /\ tab[t].start = "armed" /\ lock' = lock
  BY DEF Begin, At, Is, Open
<1>2. SrvKept(t) /\ srv'.take = Forgotten(t)
  BY DEF Begin, SrvKept, Undecided, DInv, IInv, TypeOK
<1>3. srv'.take = "gone"
  BY <1>1, <1>2, DOpen DEF Sound, Forgotten
<1> DEFINE d == Declared(IF "revoked" \in tab[t].out THEN "revoked" ELSE "replaced", row)
<1>4. row' = IF tab[t].out = {} \/ row = NoMeta THEN row ELSE holdForRecorderFlush(d)
  BY DEF Begin
<1>5. RowKept
  <2>1. CASE row' = row
    BY <2>1 DEF RowKept
  <2>2. CASE row # NoMeta /\ tab[t].out # {}
    <3>1. row' = holdForRecorderFlush(d)
      BY <1>4, <2>2
    <3>2. d \in Meta /\ Whole(d) /\ (Holding(row) => d.rec = "lost" /\ ~Settled(d))
      BY <2>2, DRow, DeclaredFacts, DeclaredWhole
    <3> HIDE DEF d
    <3>3. Whole(row') /\ (Holding(row) => Holding(row')) /\ row' # NoMeta
      BY <3>1, <3>2, HoldWhole, FlushFacts, MetaPresent
    <3> QED
      BY <1>3, <2>2, <3>3 DEF RowKept
  <2> QED
    BY <1>4, <2>1, <2>2
<1> DEFINE stops == tab[t].out # {}
           X == [tab[t] EXCEPT !.start = "idle", !.pending = FALSE, !.rec = "running", !.stop = stops]
<1>6. tab' = [tab EXCEPT ![t] = X]
  BY DEF Begin
<1> HIDE DEF stops
<1>7. /\ X.page = tab[t].page /\ X.fin = tab[t].fin /\ X.bind = tab[t].bind /\ X.start = "idle"
      /\ X.commit = tab[t].commit /\ X.rec = "running" /\ X.buf = tab[t].buf
  BY <1>1, DOpen DEF TabOK, Loaded
<1> HIDE DEF X
<1>8. Orderly(X, srv'.take, lock) /\ (Works(X) => Works(tab[t]))
  BY <1>1, <1>3, <1>7, DOpen DEF Orderly, Works
<1>9. srv'.take # t
  BY <1>3, Names
<1> QED
  BY <1>1, <1>2, <1>5, <1>6, <1>7, <1>8, <1>9, TabKeeps DEF Tame

LEMMA BeginUnheededTame == ASSUME DInv, NEW t \in Tabs, BeginUnheeded(t) PROVE Tame(t)
<1>1. Open(t) /\ tab[t].start = "armed" /\ lock' = lock /\ row' = row
  BY DEF BeginUnheeded, At, Is, Open, disk
<1>2. SrvKept(t) /\ srv'.take = Forgotten(t)
  BY DEF BeginUnheeded, SrvKept, Undecided, DInv, IInv, TypeOK
<1>3. srv'.take = "gone"
  BY <1>1, <1>2, DOpen DEF Sound, Forgotten
<1> DEFINE X == [tab[t] EXCEPT !.start = "idle", !.pending = FALSE, !.rec = "running",
                               !.unheeded = TRUE]
<1>4. tab' = [tab EXCEPT ![t] = X]
  BY DEF BeginUnheeded
<1>5. /\ X.page = tab[t].page /\ X.fin = tab[t].fin /\ X.bind = tab[t].bind /\ X.start = "idle"
      /\ X.commit = tab[t].commit /\ X.rec = "running" /\ X.buf = tab[t].buf
  BY <1>1, DOpen DEF TabOK, Loaded
<1> HIDE DEF X
<1>6. Orderly(X, srv'.take, lock) /\ (Works(X) => Works(tab[t]))
  BY <1>1, <1>3, <1>5, DOpen DEF Orderly, Works
<1>7. srv'.take # t
  BY <1>3, Names
<1> QED
  BY <1>1, <1>2, <1>4, <1>5, <1>6, <1>7, TabKeeps DEF Tame, RowKept

LEMMA Working ==
  ASSUME DInv, NEW t \in Tabs, Works(tab[t])
  PROVE  /\ Alone(t) /\ lock = t /\ Holding(row) /\ row \in Meta /\ Whole(row) /\ Undecided(srv)
         /\ \A u \in Tabs : Works(tab[u]) => u = t
<1>1. Alone(t) /\ row # NoMeta
  BY DEF DInv, Alone, Holding
<1> QED
  BY <1>1, DRow DEF DInv, Alone

\* A slice that IndexedDB refuses while the recorder runs, or a loss it refuses too.
LEMMA PersistFailsTame ==
  ASSUME DInv, NEW t \in Tabs, PersistFails(t), slips' = {} PROVE Tame(t)
<1>1. Open(t) /\ lock' = lock /\ srv' = srv /\ tab[t].buf > 0
  BY DEF PersistFails
<1> DEFINE l == persistRecorderLost(row)
           o == [l EXCEPT !.operator = TRUE]
<1>2. row' = row \/ (row # NoMeta /\ tab[t].rec = "running" /\ row' = holdForRecorderFlush(o))
  <2>1. row' = row \/ slips' = slips \cup {w \in {"late_loss"} : tab[t].rec # "running"}
    BY DEF PersistFails
  <2>2. row' = row \/ tab[t].rec = "running"
    BY <2>1
  <2>3. row' = row \/ row' = IF row = NoMeta THEN row
                             ELSE IF tab[t].rec = "running" THEN holdForRecorderFlush(o) ELSE o
    BY DEF PersistFails
  <2> QED
    BY <2>2, <2>3
<1>3. srv'.take = "gone"
  BY <1>1, DOpen DEF Sound, TabOK
<1>4. RowKept
  <2>1. CASE row' = row
    BY <2>1 DEF RowKept
  <2>2. CASE row # NoMeta /\ row' = holdForRecorderFlush(o)
    <3>1. /\ l \in Meta /\ Whole(l) /\ l.rec = "lost" /\ ~l.confirmed
          /\ l.server = IfNone(row.server)
      BY <2>2, DRow, LostFields, LostWhole
    <3> HIDE DEF l
    <3>2. /\ o \in Meta /\ Whole(o) /\ o.rec = "lost" /\ ~o.confirmed /\ o.server = IfNone(row.server)
      BY <3>1, FlagFacts, FlagWhole DEF Meta
    <3>3. Holding(row) => ~Settled(o)
      BY <3>2 DEF Holding, Settled, IfNone, Terminal
    <3> HIDE DEF o
    <3>4. row' = holdForRecorderFlush(o)
      BY <2>2
    <3>5. /\ Whole(row') /\ row' # NoMeta /\ (Holding(row) => Holding(row'))
      BY <3>2, <3>3, <3>4, HoldWhole, FlushFacts, MetaPresent
    <3> QED
      BY <1>3, <2>2, <3>5 DEF RowKept
  <2> QED
    BY <1>2, <2>1, <2>2
<1> DEFINE X == [tab[t] EXCEPT !.buf = @ - 1, !.gap = TRUE]
<1>5. tab' = [tab EXCEPT ![t] = X]
  BY DEF PersistFails
<1>6. /\ X.page = tab[t].page /\ X.fin = tab[t].fin /\ X.bind = tab[t].bind /\ X.start = tab[t].start
      /\ X.commit = tab[t].commit /\ X.rec = tab[t].rec /\ X.buf = tab[t].buf - 1
  BY <1>1, DOpen DEF TabOK, Loaded
<1> HIDE DEF X
<1>7. Orderly(X, srv'.take, lock) /\ (Works(X) => Works(tab[t]))
  BY <1>1, <1>6, DOpen DEF Orderly, Works
<1> QED
  BY <1>1, <1>4, <1>5, <1>6, <1>7, TabKeeps DEF Tame, SrvKept

\* A slice that is stored lands on a row that cannot go out yet.
LEMMA persistBlobTame == ASSUME DInv, NEW t \in Tabs, persistBlob(t) PROVE Tame(t)
<1>1. Open(t) /\ lock' = lock /\ srv' = srv /\ tab[t].buf > 0
  BY DEF persistBlob
<1>2. Works(tab[t])
  BY <1>1, DOpen DEF Orderly, Works
<1>3. row \in Meta /\ row # NoMeta /\ Whole(row) /\ Holding(row)
  BY <1>2, Working, MetaPresent
<1>4. srv'.take = "gone"
  BY <1>1, DOpen DEF Sound, TabOK
<1>5. row' = [row EXCEPT !.next = @ + 1]
  BY <1>3 DEF persistBlob, storeChunkAndBumpSequence, buildStoredChunk
<1>6. RowKept
  BY <1>3, <1>4, <1>5, NextWhole DEF RowKept, Holding
<1> DEFINE X == [tab[t] EXCEPT !.buf = tab[t].buf - 1]
<1>7. tab' = [tab EXCEPT ![t] = X]
  BY DEF persistBlob, Set
<1>8. /\ X.page = tab[t].page /\ X.fin = tab[t].fin /\ X.bind = tab[t].bind /\ X.start = tab[t].start
      /\ X.commit = tab[t].commit /\ X.rec = tab[t].rec
  BY <1>1, DOpen DEF TabOK, Loaded
<1> HIDE DEF X
<1>9. Orderly(X, srv'.take, lock) /\ (Works(X) => Works(tab[t]))
  BY <1>1, <1>8, DOpen DEF Orderly, Works
<1> QED
  BY <1>1, <1>6, <1>7, <1>8, <1>9, TabKeeps DEF Tame, SrvKept

-----------------------------------------------------------------------------
(***************************************************************************)
(* What the server answers.                                                *)
(***************************************************************************)
LEMMA StatusFresh ==
  ASSUME NEW m \in Meta, NEW state \in Servers, Fresh(m) PROVE Fresh(applyServerStatus(m, state))
<1>1. applyServerStatus(m, state).rec = m.rec /\ applyServerStatus(m, state).next = m.next
  BY StatusFacts DEF applyServerStatus, Meta
<1> QED
  BY <1>1 DEF Fresh

LEMMA uploadNextChunkTame == ASSUME DInv, NEW t \in Tabs, uploadNextChunk(t) PROVE Tame(t)
<1>1. Open(t) /\ lock' = lock /\ tab' = tab
  BY DEF uploadNextChunk
<1>2. PICK s \in DOMAIN chunks :
        /\ UploadVerdict(t, s) = "stored" /\ srv' = Stored(s)
        /\ row' = row \/ row' \in Told(row)
  BY DEF uploadNextChunk
<1>3. srv.phase # "over"
  BY <1>2 DEF UploadVerdict, Auth
<1>4. /\ srv'.take = srv.take /\ srv'.phase = srv.phase /\ (srv.fin = "none" => srv'.fin = "none")
      /\ srv'.fin \in Servers
  BY <1>2 DEF Stored, Judged, DInv, IInv, TypeOK, Servers, Terminal
<1>5. SrvKept(t)
  BY <1>4 DEF SrvKept, Undecided
<1>6. RowKept
  <2>1. CASE row' = row
    BY <2>1 DEF RowKept
  <2>2. CASE row # NoMeta /\ row' = applyServerStatus(row, srv'.fin)
    <3>1. row \in Meta /\ Whole(row)
      BY <2>2, DRow
    <3>2. row' \in Meta /\ Whole(row') /\ (Fresh(row) => Fresh(row'))
      BY <1>4, <2>2, <3>1, StatusFacts, StatusWhole, StatusFresh
    <3>3. ASSUME NEW u \in Tabs, Works(tab[u]), Holding(row) PROVE Holding(row')
      <4>1. srv.fin = "none"
        BY <1>3, <3>3, Working DEF Undecided
      <4> QED
        BY <1>4, <2>2, <3>1, <3>3, <4>1, StatusWhole DEF Terminal
    <3> QED
      BY <2>2, <3>2, <3>3, MetaPresent DEF RowKept
  <2> QED
    BY <1>2, <2>1, <2>2 DEF Told
<1>7. TabKept(t)
  BY <1>1, <1>5, DOpen, Forgets DEF TabKept, Orderly
<1> QED
  BY <1>1, <1>5, <1>6, <1>7 DEF Tame

\* While an answer is on its way nobody records.
LEMMA Awaiting ==
  ASSUME DInv, NEW t \in Tabs, Open(t), ~Quiescent(tab[t]), ~ReadsHere(tab[t])
  PROVE  srv.take = "gone" /\ \A u \in Tabs : ~Works(tab[u])
BY DEF DInv, Alone, Unused

LEMMA FinalizeAnsweredTame == ASSUME DInv, NEW t \in Tabs, FinalizeAnswered(t) PROVE Tame(t)
<1>1. Open(t) /\ lock' = lock /\ srv' = srv /\ tab[t].fin.pc \in Answered \cup Blocks \cup {"failed"}
  BY DEF FinalizeAnswered
<1>2. tab[t].fin.pc # "off"
  BY <1>1 DEF Answered, Blocks, Terminal
<1>3. srv.take = "gone" /\ \A u \in Tabs : ~Works(tab[u])
  BY <1>1, <1>2, DOpen, Awaiting DEF Quiescent, ReadsHere
<1> DEFINE f == tab[t].fin
<1>4. row' \in {row} \/ (row # NoMeta /\ f.pc \in Blocks /\ row' = notePermanentFailure(row, f.pc))
      \/ (row # NoMeta /\ f.pc \in Answered /\ row' = applyServerStatus(row, f.pc))
  BY <1>1 DEF FinalizeAnswered
<1>5. RowKept
  <2>1. CASE row' = row
    BY <2>1 DEF RowKept
  <2>2. CASE row # NoMeta /\ row' # row
    <3>1. row \in Meta /\ Whole(row)
      BY <2>2, DRow
    <3>2. row' \in Meta /\ Whole(row')
      BY <1>4, <2>2, <3>1, FailureFacts, FailureWhole, StatusFacts, StatusWhole DEF Answered, Servers
    <3> QED
      BY <1>1, <1>3, <2>2, <3>2, MetaPresent DEF RowKept
  <2> QED
    BY <1>4, <2>1, <2>2
<1> DEFINE X == [tab[t] EXCEPT !.fin = Off]
<1>6. tab' = [tab EXCEPT ![t] = X]
  BY DEF FinalizeAnswered, Set
<1>7. /\ X.page = tab[t].page /\ X.fin.pc = "off" /\ X.bind = tab[t].bind /\ X.start = tab[t].start
      /\ X.commit = tab[t].commit /\ X.rec = tab[t].rec /\ X.buf = tab[t].buf
  BY <1>1, DOpen DEF TabOK, Loaded, Off
<1> HIDE DEF X
<1>8. Orderly(X, srv'.take, lock) /\ (Works(X) => Works(tab[t]))
  BY <1>1, <1>7, DOpen DEF Orderly, Works
<1> QED
  BY <1>1, <1>5, <1>6, <1>7, <1>8, TabKeeps DEF Tame, SrvKept

LEMMA MergeWhole ==
  ASSUME NEW m \in Meta, Whole(m), NEW pc \in Servers \cup {"failed"}, NEW here
  PROVE  /\ mergeReload(m, pc, here) \in Meta /\ Whole(mergeReload(m, pc, here))
         /\ Holding(m) /\ here /\ pc \in {"none", "failed"} => Holding(mergeReload(m, pc, here))
<1> DEFINE n == IF pc = "failed" THEN m ELSE applyServerStatus(m, pc)
           l == IF planReload(n) = "recorder_lost" /\ ~here THEN persistRecorderLost(n) ELSE n
<1>1. /\ n \in Meta /\ Whole(n)
      /\ Holding(m) /\ pc \in {"none", "failed"} => Holding(n)
  BY StatusFacts, StatusWhole DEF Terminal
<1>2. mergeReload(m, pc, here) = IF here THEN l ELSE releaseRecorderFlush(l)
  BY DEF mergeReload
<1> HIDE DEF n
<1>3. l \in Meta /\ Whole(l)
  BY <1>1, DeclareFacts, LostWhole
<1>4. here => l = n
  OBVIOUS
<1> HIDE DEF l
<1> QED
  BY <1>1, <1>2, <1>3, <1>4, FlushFacts, ReleaseWhole

LEMMA ReconcileMergesTame == ASSUME DInv, NEW t \in Tabs, ReconcileMerges(t) PROVE Tame(t)
<1>1. /\ Open(t) /\ lock' = lock /\ srv' = srv /\ tab[t].bind.pc \in Servers \cup {"failed"}
      /\ row' = IF row = NoMeta THEN row ELSE mergeReload(row, tab[t].bind.pc, tab[t].bind.here)
  BY DEF ReconcileMerges
<1>2. ~Quiescent(tab[t])
  BY <1>1, DOpen DEF Quiescent, Servers, Terminal
<1>3. srv.take = "gone"
  BY <1>2 DEF DInv, Unused
<1>4. ASSUME NEW u \in Tabs, Works(tab[u]) PROVE ReadsHere(tab[t])
  BY <1>2, <1>4 DEF DInv, Alone
<1>5. RowKept
  <2>1. CASE row = NoMeta
    BY <1>1, <2>1 DEF RowKept
  <2>2. CASE row # NoMeta
    <3>1. row \in Meta /\ Whole(row) /\ row' = mergeReload(row, tab[t].bind.pc, tab[t].bind.here)
      BY <1>1, <2>2, DRow
    <3>2. row' \in Meta /\ Whole(row')
      BY <1>1, <3>1, MergeWhole
    <3>3. ASSUME NEW u \in Tabs, Works(tab[u]), Holding(row) PROVE Holding(row')
      BY <1>1, <1>4, <3>1, <3>3, MergeWhole DEF ReadsHere
    <3> QED
      BY <1>1, <1>3, <2>2, <3>2, <3>3, MetaPresent DEF RowKept
  <2> QED
    BY <2>1, <2>2
<1> DEFINE X == [tab[t] EXCEPT !.bind = Off]
<1>6. tab' = [tab EXCEPT ![t] = X]
  BY DEF ReconcileMerges, Set
<1>7. /\ X.page = tab[t].page /\ X.fin = tab[t].fin /\ X.bind.pc = "off" /\ X.start = tab[t].start
      /\ X.commit = tab[t].commit /\ X.rec = tab[t].rec /\ X.buf = tab[t].buf
  BY <1>1, DOpen DEF TabOK, Loaded, Off
<1> HIDE DEF X
<1>8. Orderly(X, srv'.take, lock) /\ (Works(X) => Works(tab[t]))
  BY <1>1, <1>7, DOpen DEF Orderly, Works
<1> QED
  BY <1>1, <1>5, <1>6, <1>7, <1>8, TabKeeps DEF Tame, SrvKept

-----------------------------------------------------------------------------
(***************************************************************************)
(* Steps that begin or end the work of a tab, or read the row.             *)
(***************************************************************************)
LEMMA Compose ==
  ASSUME DInv, IInv', NEW t \in Tabs, NEW X, tab' = [tab EXCEPT ![t] = X],
         row' # NoMeta => Whole(row'),
         Orderly(X, srv'.take, lock'),
         \A u \in Tabs \ {t} : Orderly(tab[u], srv'.take, lock'),
         Works(X) => Alone(t)',
         \A u \in Tabs \ {t} : Works(tab[u]) => Alone(u)',
         srv'.take # "gone" => Unused'
  PROVE  DInv'
<1>1. tab'[t] = X /\ \A u \in Tabs \ {t} : tab'[u] = tab[u]
  BY DEF DInv, IInv, TypeOK
<1>2. \A u \in Tabs : Orderly(tab'[u], srv'.take, lock')
  BY <1>1
<1>3. \A u \in Tabs : Works(tab'[u]) => Alone(u)'
  BY <1>1
<1> QED
  BY <1>2, <1>3 DEF DInv

\* The claim: nobody has the take, and there is no row.
LEMMA ClaimKeeps ==
  ASSUME DInv, IInv', NEW t \in Tabs, ClaimGranted(t) \/ claimWithRetry(t) PROVE DInv'
<1>1. /\ Open(t) /\ row = NoMeta /\ row' = row /\ lock' = lock /\ tab[t].start = "prompt"
      /\ ClaimVerdict(t) = "claimed"
  BY DEF ClaimGranted, claimWithRetry, Prompted, At, Is, Open, disk
<1>2. srv.take # "gone"
  BY <1>1, Names DEF ClaimVerdict, Auth, Claimed
<1>3. Unused /\ \A u \in Tabs : ~Works(tab[u])
  BY <1>1, <1>2 DEF DInv, Alone, Holding
<1>4. /\ srv'.fin = srv.fin /\ srv'.phase = srv.phase /\ srv'.take \in {srv.take, t}
  BY DEF ClaimGranted, claimWithRetry, DInv, IInv, TypeOK
<1>5. PICK step \in {"granted", "idle"} :
        tab' = [tab EXCEPT ![t].start = step, ![t].pending = TRUE]
  BY DEF ClaimGranted, claimWithRetry
<1> DEFINE X == [tab[t] EXCEPT !.start = step, !.pending = TRUE]
<1>6. tab' = [tab EXCEPT ![t] = X]
  BY <1>5
<1>7. /\ X.page = tab[t].page /\ X.fin = tab[t].fin /\ X.bind = tab[t].bind /\ X.start = step
      /\ X.commit = tab[t].commit /\ X.rec = tab[t].rec /\ X.buf = tab[t].buf
  BY <1>1, DOpen DEF TabOK, Loaded
<1> HIDE DEF X
<1>8. Orderly(X, srv'.take, lock') /\ ~Works(X) /\ Quiescent(X)
  BY <1>1, <1>2, <1>3, <1>7, DOpen DEF Orderly, Works, Quiescent, Unused
<1>9. \A u \in Tabs : Orderly(tab[u], srv'.take, lock')
  BY <1>1, <1>2 DEF Orderly, DInv
<1>10. Unused'
  <2>1. \A u \in Tabs : Quiescent(tab'[u])
    BY <1>3, <1>6, <1>8 DEF Unused, DInv, IInv, TypeOK
  <2> QED
    BY <1>1, <1>3, <1>4, <2>1 DEF Unused, Undecided
<1> QED
  BY <1>1, <1>3, <1>6, <1>8, <1>9, <1>10, Compose

\* The row is written: from here on one tab works.
LEMMA ArmKeeps == ASSUME DInv, IInv', NEW t \in Tabs, Arm(t) PROVE DInv'
<1>1. /\ Open(t) /\ tab[t].start = "granted" /\ tab[t].out = {} /\ lock = NoTab /\ lock' = t
      /\ row' = emptyMeta /\ srv' = srv
  BY DEF Arm, At, Is, Open, startBlocked, holdRecorderLock
<1>2. srv.take = t /\ row = NoMeta /\ srv.take # "gone"
  BY <1>1, DOpen, Names DEF Sound
<1>3. Unused /\ \A u \in Tabs : ~Works(tab[u])
  BY <1>2 DEF DInv, Alone, Holding
<1> DEFINE X == [tab[t] EXCEPT !.start = "armed"]
<1>4. tab' = [tab EXCEPT ![t] = X]
  BY DEF Arm, Set
<1>5. /\ X.page = tab[t].page /\ X.fin = tab[t].fin /\ X.bind = tab[t].bind /\ X.start = "armed"
      /\ X.commit = tab[t].commit /\ X.rec = tab[t].rec /\ X.buf = tab[t].buf
  BY <1>1, DOpen DEF TabOK, Loaded
<1> HIDE DEF X
<1>6. X # Closed
  BY <1>1, <1>5 DEF Open, Is, Closed
<1>7. Orderly(X, srv'.take, lock') /\ Quiescent(X)
  BY <1>1, <1>2, <1>3, <1>5, DOpen DEF Orderly, Works, Quiescent, Unused, Sound
<1>8. ASSUME NEW u \in Tabs \ {t} PROVE Orderly(tab[u], srv'.take, lock')
  <2>1. CASE tab[u] = Closed
    BY <2>1 DEF Orderly
  <2>2. CASE tab[u] # Closed
    <3>1. Sound(u, tab[u], srv.take, row) /\ Orderly(tab[u], srv.take, lock)
      BY <2>2 DEF DInv, IInv, Fits
    <3>2. tab[u].start # "abandon"
      BY <1>2, <3>1 DEF Sound
    <3> QED
      BY <1>1, <3>1, <3>2 DEF Orderly
  <2> QED
    BY <2>1, <2>2
<1>9. Whole(emptyMeta) /\ Holding(emptyMeta) /\ Fresh(emptyMeta) /\ emptyMeta # NoMeta
  BY EmptyFacts, MetaPresent DEF Whole, Holding, Fresh, emptyMeta, Settled, Terminal
<1>10. Undecided(srv') /\ \A u \in Tabs : Quiescent(tab'[u])
  BY <1>1, <1>3, <1>4, <1>7 DEF Unused, DInv, IInv, TypeOK
<1>11. Alone(t)'
  BY <1>1, <1>9, <1>10 DEF Alone
<1>12. tab'[t] = X
  BY <1>4 DEF DInv, IInv, TypeOK
<1>13. Unused'
  BY <1>1, <1>2, <1>5, <1>6, <1>9, <1>10, <1>12, Names DEF Unused
<1> QED
  BY <1>1, <1>3, <1>4, <1>7, <1>8, <1>9, <1>11, <1>13, Compose

\* The tab that works gives the lock back: nobody works any more.
LEMMA LetsGo ==
  ASSUME DInv, IInv', NEW t \in Tabs, Works(tab[t]), lock' = NoTab, NEW X,
         tab' = [tab EXCEPT ![t] = X], Orderly(X, srv'.take, NoTab), ~Works(X),
         row' # NoMeta => Whole(row'),
         srv'.take \in {srv.take, "gone"},
         srv'.take # "gone" => Unused'
  PROVE  DInv'
<1>1. \A u \in Tabs \ {t} : ~Works(tab[u])
  BY Working
<1>2. \A u \in Tabs \ {t} : Orderly(tab[u], srv'.take, lock')
  BY DEF DInv, Orderly
<1> QED
  BY <1>1, <1>2, Compose

LEMMA BeginThrowsKeeps == ASSUME DInv, IInv', NEW t \in Tabs, BeginThrows(t) PROVE DInv'
<1>1. Open(t) /\ tab[t].start = "armed" /\ row' = row /\ srv' = srv /\ lock' = NoTab
  BY DEF BeginThrows, At, Is, Open, disk
<1>2. Works(tab[t])
  BY <1>1, DOpen DEF Works
<1> DEFINE X == [tab[t] EXCEPT !.start = "abandon"]
<1>3. tab' = [tab EXCEPT ![t] = X]
  BY DEF BeginThrows, Set
<1>4. /\ X.page = tab[t].page /\ X.fin = tab[t].fin /\ X.bind = tab[t].bind /\ X.start = "abandon"
      /\ X.commit = tab[t].commit /\ X.rec = tab[t].rec /\ X.buf = tab[t].buf
  BY <1>1, DOpen DEF TabOK, Loaded
<1> HIDE DEF X
<1>5. X # Closed
  BY <1>1, <1>4 DEF Open, Is, Closed
<1>6. Orderly(X, srv'.take, NoTab) /\ ~Works(X)
  BY <1>1, <1>4, DOpen DEF Orderly, Works
<1>7. row' # NoMeta => Whole(row')
  BY <1>1, DRow
<1>8. ASSUME srv'.take # "gone" PROVE Unused'
  <2>1. Unused
    BY <1>1, <1>8 DEF DInv
  <2>2. tab'[t] = X /\ \A u \in Tabs \ {t} : tab'[u] = tab[u]
    BY <1>3 DEF DInv, IInv, TypeOK
  <2>3. \A u \in Tabs : Quiescent(tab'[u])
    BY <1>4, <1>5, <2>1, <2>2, DOpen, <1>1 DEF Unused, Quiescent
  <2>4. srv.take \in Tabs \cup {NoTab, "gone"}
    BY DEF DInv, IInv, TypeOK
  <2> QED
    BY <1>1, <1>4, <1>5, <1>8, <2>1, <2>2, <2>3, <2>4 DEF Unused
<1> QED
  BY <1>1, <1>2, <1>3, <1>6, <1>7, <1>8, LetsGo

LEMMA CommitKeeps ==
  ASSUME DInv, IInv', NEW t \in Tabs, commitRecorderStop(t) \/ CommitFails(t) PROVE DInv'
<1>1. Open(t) /\ tab[t].commit /\ tab[t].buf = 0 /\ srv' = srv /\ lock' = Freed(t)
  BY DEF commitRecorderStop, CommitFails, Committed
<1>2. Works(tab[t]) /\ srv'.take = "gone"
  BY <1>1, DOpen DEF Works, Orderly
<1>3. lock' = NoTab /\ row \in Meta /\ row # NoMeta /\ Whole(row) /\ Holding(row)
  BY <1>1, <1>2, Working, MetaPresent DEF Freed
<1> DEFINE X == [tab[t] EXCEPT !.commit = FALSE, !.asLost = FALSE]
<1>4. tab' = [tab EXCEPT ![t] = X]
  BY DEF commitRecorderStop, CommitFails, Committed
<1>5. /\ X.page = tab[t].page /\ X.start = tab[t].start
      /\ ~X.commit /\ X.commit \in BOOLEAN /\ X.rec = tab[t].rec /\ X.buf = tab[t].buf
  BY <1>1, DOpen DEF TabOK, Loaded
<1> HIDE DEF X
<1>6. Orderly(X, srv'.take, NoTab) /\ ~Works(X)
  <2>1. tab[t].rec = "none" /\ tab[t].start # "armed"
    BY <1>1, DOpen DEF Orderly
  <2>2. ~(X.buf > 0) /\ X.rec = "none" /\ X.start # "armed"
    BY <1>1, <1>5, <2>1
  <2> QED
    BY <1>5, <2>2 DEF Orderly, Works
<1>7. Whole(row')
  <2>1. CASE row' = row
    BY <1>3, <2>1
  <2>2. CASE row' = releaseRecorderFlush(declareStop(row, tab[t]))
    <3> DEFINE d == Declared(IF "revoked" \in tab[t].out THEN "revoked" ELSE "replaced", row)
               l == persistRecorderLost(row)
               noted(n) == [n EXCEPT !.operator = @ \/ tab[t].gap]
    <3>1. /\ d \in Meta /\ Whole(d) /\ l \in Meta /\ Whole(l)
      BY <1>3, DeclaredFacts, DeclaredWhole, LostFields, LostWhole
    <3>2. declareStop(row, tab[t]) \in {noted(d), noted(row), noted(l), row}
          \/ (row.rec # "lost" /\ declareStop(row, tab[t]) = persistStop(row))
      BY DEF declareStop
    <3> HIDE DEF d, l
    <3>3. ASSUME NEW n \in Meta, Whole(n) PROVE noted(n) \in Meta /\ Whole(noted(n))
      <4> DEFINE b == n.operator \/ tab[t].gap
      <4>1. b \in BOOLEAN /\ noted(n) = [n EXCEPT !.operator = b]
        BY <3>3
      <4> HIDE DEF b, noted
      <4>2. [n EXCEPT !.operator = b] \in Meta
        BY <3>3, <4>1, FlagFacts
      <4>3. Whole([n EXCEPT !.operator = b])
        BY <3>3, FlagWhole
      <4> QED
        BY <4>1, <4>2, <4>3
    <3> HIDE DEF noted
    <3>4. declareStop(row, tab[t]) \in Meta /\ Whole(declareStop(row, tab[t]))
      <4>1. row.rec # "lost" => row.rec = "recording"
        BY <1>3 DEF Holding
      <4> QED
        BY <1>3, <3>1, <3>2, <3>3, <4>1, StopWhole, DeclareFacts
    <3> QED
      BY <2>2, <3>4, ReleaseWhole
  <2> QED
    BY <1>3, <2>1, <2>2 DEF commitRecorderStop, CommitFails, disk
<1> QED
  BY <1>2, <1>3, <1>4, <1>6, <1>7, LetsGo

\* The lock of a recorder that did not start is gone before its row.
LEMMA AbandonKeeps == ASSUME DInv, IInv', NEW t \in Tabs, Abandon(t) PROVE DInv'
<1>1. /\ Open(t) /\ tab[t].start = "abandon" /\ srv' = srv /\ lock' = lock /\ row' = Abandoned
  BY DEF Abandon, At, Is, Open
<1>2. lock = NoTab /\ \A u \in Tabs : ~Works(tab[u])
  BY <1>1, DOpen, Working, Names DEF Orderly
<1> DEFINE X == [tab[t] EXCEPT !.start = "idle"]
<1>3. tab' = [tab EXCEPT ![t] = X]
  BY DEF Abandon, Set
<1>4. /\ X.page = tab[t].page /\ X.fin = tab[t].fin /\ X.bind = tab[t].bind /\ X.start = "idle"
      /\ X.commit = tab[t].commit /\ X.rec = tab[t].rec /\ X.buf = tab[t].buf
  BY <1>1, DOpen DEF TabOK, Loaded
<1> HIDE DEF X
<1>5. Orderly(X, srv'.take, lock') /\ ~Works(X)
  BY <1>1, <1>2, <1>4, DOpen DEF Orderly, Works
<1>6. row' # NoMeta => Whole(row')
  BY <1>1, DRow, LostWhole DEF Abandoned
<1>7. ASSUME srv'.take # "gone" PROVE Unused'
  <2>1. Unused
    BY <1>1, <1>7 DEF DInv
  <2>2. row # NoMeta => Fresh(row)
    BY <2>1 DEF Unused
  <2>3. row' = NoMeta
    BY <1>1, <2>2 DEF Abandoned, Fresh
  <2>4. X # Closed
    BY <1>1, <1>4 DEF Open, Is, Closed
  <2>5. \A u \in Tabs : Quiescent(tab'[u])
    BY <1>3, <1>4, <2>1, <2>4, DOpen, <1>1 DEF Unused, Quiescent, DInv, IInv, TypeOK
  <2> QED
    BY <1>1, <2>1, <2>3, <2>5 DEF Unused
<1>8. \A u \in Tabs : Orderly(tab[u], srv'.take, lock')
  BY <1>1 DEF DInv
<1> QED
  BY <1>2, <1>3, <1>5, <1>6, <1>7, <1>8, Compose

LEMMA CloseKeeps == ASSUME DInv, IInv', NEW t \in Tabs, Close(t) PROVE DInv'
<1>1. /\ row' = row /\ lock' = Freed(t) /\ tab' = [tab EXCEPT ![t] = Closed]
      /\ srv'.take = Forgotten(t) /\ srv'.fin = srv.fin /\ srv'.phase = srv.phase
  BY DEF Close, disk, DInv, IInv, TypeOK
<1>2. tab'[t] = Closed /\ \A u \in Tabs \ {t} : tab'[u] = tab[u]
  BY <1>1 DEF DInv, IInv, TypeOK
<1>3. Orderly(Closed, srv'.take, lock') /\ ~Works(Closed) /\ Quiescent(Closed)
  BY DEF Orderly, Works, Quiescent
<1>4. /\ srv.take = "gone" => srv'.take = "gone"
      /\ srv'.take # "gone" => srv'.take = srv.take /\ srv'.take # t
  BY <1>1, Names DEF Forgotten
<1>5. lock' \in {lock, NoTab}
  BY <1>1 DEF Freed
<1>6. \A u \in Tabs : Orderly(tab[u], srv'.take, lock')
  BY <1>4, <1>5 DEF DInv, Orderly
<1>7. ASSUME NEW u \in Tabs \ {t}, Works(tab[u]) PROVE Alone(u)'
  <2>1. Alone(u) /\ lock' = u
    BY <1>1, <1>7, Working DEF Freed
  <2> QED
    BY <1>1, <1>2, <1>3, <2>1 DEF Alone, Undecided
<1>8. ASSUME srv'.take # "gone" PROVE Unused'
  <2>1. Unused /\ srv'.take = srv.take /\ srv.take # t
    BY <1>4, <1>8 DEF DInv
  <2>2. srv.take \in Tabs \cup {NoTab, "gone"}
    BY DEF DInv, IInv, TypeOK
  <2> QED
    BY <1>1, <1>2, <1>3, <1>8, <2>1, <2>2 DEF Unused, Undecided
<1>9. row' # NoMeta => Whole(row')
  BY <1>1, DRow
<1> QED
  BY <1>1, <1>3, <1>6, <1>7, <1>8, <1>9, Compose

\* A tab that reads the row of a take that is being recorded records it itself.
LEMMA ReconcileReadsKeeps ==
  ASSUME DInv, IInv', NEW t \in Tabs, ReconcileReads(t), slips' = {} PROVE DInv'
<1>0. ASSUME NEW u \in Tabs, Open(u), tab[u].start = "abandon" PROVE FALSE
  <2>1. slips' = slips \cup {w \in {"abandon"} : \E v \in Tabs : Open(v) /\ tab[v].start = w}
    BY DEF ReconcileReads
  <2>2. "abandon" \in slips'
    BY <1>0, <2>1
  <2> QED
    BY <2>2
<1>1. /\ Open(t) /\ row # NoMeta /\ ~Elsewhere(t) /\ row' = row /\ lock' = lock /\ srv' = srv
      /\ \A u \in Tabs : Open(u) => tab[u].start # "abandon"
  BY <1>0 DEF ReconcileReads
<1>2. row \in Meta /\ Whole(row)
  BY <1>1, DRow
<1> DEFINE here == tab[t].rec = "running" \/ Stopping(t)
<1>3. PICK ok \in BOOLEAN :
        /\ ok => Auth(t) = "ok"
        /\ tab' = [tab EXCEPT ![t].bind = [pc |-> IF ok THEN srv.fin ELSE "failed", here |-> here]]
  BY DEF ReconcileReads, Set
<1> HIDE DEF here
<1> DEFINE B == [pc |-> IF ok THEN srv.fin ELSE "failed", here |-> here]
           X == [tab[t] EXCEPT !.bind = B]
<1>4. tab' = [tab EXCEPT ![t] = X]
  BY <1>3
<1>5. B.pc = (IF ok THEN srv.fin ELSE "failed") /\ B.here = here
  OBVIOUS
<1> HIDE DEF B
<1>6. /\ X.page = tab[t].page /\ X.fin = tab[t].fin /\ X.bind = B /\ X.start = tab[t].start
      /\ X.commit = tab[t].commit /\ X.rec = tab[t].rec /\ X.buf = tab[t].buf
  BY <1>1, DOpen DEF TabOK, Loaded
<1> HIDE DEF X
<1>7. Orderly(X, srv'.take, lock') /\ (Works(X) => Works(tab[t]))
  BY <1>1, <1>6, DOpen DEF Orderly, Works
<1>8. here <=> tab[t].rec = "running" \/ tab[t].rec = "inactive" \/ tab[t].commit
  BY DEF here, Stopping
<1>9. ASSUME NEW u \in Tabs, Works(tab[u]) PROVE u = t /\ here
  <2>1. lock = u /\ (row.rec = "recording" \/ row.flush)
    BY <1>9, Working DEF Holding
  <2>2. here
    BY <1>1, <1>8, <2>1, Names DEF Elsewhere, Stopping
  <2>3. Works(tab[t])
    BY <1>1, <1>8, <2>2, DOpen DEF Works
  <2> QED
    BY <1>9, <2>2, <2>3, Working
<1>10. srv.take = "gone"
  <2> SUFFICES ASSUME srv.take # "gone" PROVE FALSE
    OBVIOUS
  <2>1. /\ srv.take # NoTab /\ tab[srv.take] # Closed
        /\ tab[srv.take].start \in {"armed", "abandon"} /\ srv.take \in Tabs
    BY <1>1 DEF DInv, Unused, IInv, TypeOK
  <2>2. Open(srv.take)
    BY <2>1 DEF DInv, IInv, TypeOK, TabOK, Open, Is
  <2>3. tab[srv.take].start = "armed"
    BY <1>1, <2>1, <2>2
  <2>4. Works(tab[srv.take])
    BY <2>1, <2>3 DEF Works
  <2>5. here
    BY <1>9, <2>1, <2>4
  <2>6. tab[t].rec = "none" /\ ~tab[t].commit
    BY <1>1, DOpen DEF Sound, Orderly
  <2> QED
    BY <1>8, <2>5, <2>6
<1>11. ASSUME NEW u \in Tabs, Works(tab[u]) PROVE Alone(u)'
  <2>1. u = t /\ here /\ Alone(t) /\ Undecided(srv)
    BY <1>9, <1>11, Working
  <2>2. srv.fin = "none" \/ ~ok
    BY <1>3, <2>1 DEF Undecided, Auth
  <2>3. X.fin.pc = "off" /\ X.bind.here /\ X.bind.pc \in {"none", "failed"}
    BY <1>1, <1>5, <1>6, <2>1, <2>2, DOpen DEF Alone, Quiescent, ReadsHere
  <2>4. ReadsHere(X)
    BY <2>3 DEF ReadsHere
  <2>5. tab'[t] = X /\ \A v \in Tabs \ {t} : tab'[v] = tab[v]
    BY <1>4 DEF DInv, IInv, TypeOK
  <2> QED
    BY <1>1, <2>1, <2>4, <2>5 DEF Alone
<1>12. \A u \in Tabs : Orderly(tab[u], srv'.take, lock')
  BY <1>1 DEF DInv
<1> QED
  BY <1>1, <1>2, <1>4, <1>7, <1>10, <1>11, <1>12, Compose

\* A declaration goes out only when nobody works.
LEMMA SendableIsOver ==
  ASSUME DInv, row # NoMeta, row.pending, ~row.flush
  PROVE  /\ row.rec # "recording" /\ row.payload.final = row.next - 1
         /\ \A t \in Tabs : ~Works(tab[t])
<1>1. row \in Meta /\ Whole(row)
  BY DRow
<1>2. row.rec # "recording" /\ row.payload.final = row.next - 1
  BY <1>1 DEF Whole
<1>3. ~Holding(row)
  BY <1>2 DEF Holding
<1> QED
  BY <1>2, <1>3, Working

LEMMA sendFinalizeIfDueKeeps ==
  ASSUME DInv, IInv', NEW t \in Tabs, sendFinalizeIfDue(t) PROVE DInv'
<1>1. /\ Open(t) /\ row # NoMeta /\ row.pending /\ ~row.flush /\ row' = row /\ lock' = lock
  BY DEF sendFinalizeIfDue, finalizeDue, disk
<1>2. row.rec # "recording" /\ \A u \in Tabs : ~Works(tab[u])
  BY <1>1, SendableIsOver
<1>3. srv.take = "gone"
  BY <1>1, <1>2 DEF DInv, Unused, Fresh
<1>4. srv'.take = srv.take
  BY FinalizedFacts DEF sendFinalizeIfDue, DInv, IInv
<1>5. PICK answer : tab' = [tab EXCEPT ![t].fin = answer]
  BY DEF sendFinalizeIfDue, Set
<1> DEFINE X == [tab[t] EXCEPT !.fin = answer]
<1>6. tab' = [tab EXCEPT ![t] = X]
  BY <1>5
<1>7. /\ X.page = tab[t].page /\ X.start = tab[t].start
      /\ X.commit = tab[t].commit /\ X.rec = tab[t].rec /\ X.buf = tab[t].buf
  BY <1>1, DOpen DEF TabOK, Loaded
<1> HIDE DEF X
<1>8. X # Closed
  BY <1>1, <1>7 DEF Open, Is, Closed
<1>9. Orderly(X, srv'.take, lock') /\ ~Works(X)
  BY <1>1, <1>2, <1>4, <1>7, DOpen DEF Orderly, Works
<1>10. \A u \in Tabs : Orderly(tab[u], srv'.take, lock')
  BY <1>1, <1>4 DEF DInv
<1> QED
  BY <1>1, <1>2, <1>3, <1>4, <1>6, <1>9, <1>10, DRow, Compose

LEMMA PurgeKeeps == ASSUME DInv, IInv', NEW t \in Tabs, Purge(t) PROVE DInv'
<1>1. /\ shouldDiscardMeta(row) /\ row' = NoMeta /\ lock' = lock /\ tab' = tab /\ srv' = srv
  BY DEF Purge
<1>2. \A u \in Tabs : ~Works(tab[u])
  BY <1>1, Working DEF shouldDiscardMeta, SafeToClose, Holding, Settled
<1> QED
  BY <1>1, <1>2 DEF DInv, Unused

LEMMA StillKeeps ==
  ASSUME DInv, IInv', row' = row, lock' = lock, tab' = tab, srv'.take = srv.take,
         Undecided(srv) => Undecided(srv')
  PROVE  DInv'
BY DEF DInv, Unused, Alone

LEMMA ServiceKeeps == ASSUME DInv, IInv', Service PROVE DInv'
<1>1. row' = row /\ lock' = lock /\ tab' = tab
  BY DEF Service, disk
<1>2. srv'.take = srv.take /\ (Undecided(srv) => Undecided(srv'))
  BY DEF Service, OtherDevice, Revoke, End, GraceEnds, Undecided, DInv, IInv, TypeOK
<1> QED
  BY <1>1, <1>2, StillKeeps

-----------------------------------------------------------------------------
LEMMA DInitial == Init => DInv
<1> SUFFICES ASSUME Init PROVE DInv
  OBVIOUS
<1>1. IInv
  BY Initial
<1>2. \A t \in Tabs : tab[t] = Closed
  BY DEF Init
<1>3. row = NoMeta /\ srv.fin = "none"
  BY DEF Init
<1> QED
  BY <1>1, <1>2, <1>3 DEF DInv, Orderly, Works, Unused, Undecided, Quiescent

LEMMA DNext == ASSUME DInv, [Next]_vars, slips' = {} PROVE DInv'
<1>1. IInv'
  BY NextOK DEF DInv, StepOK
<1>2. CASE Service
  BY <1>1, <1>2, ServiceKeeps
<1>3. CASE UNCHANGED vars
  BY <1>1, <1>3, StillKeeps DEF vars
<1>4. ASSUME NEW t \in Tabs, Starting(t) PROVE DInv'
  BY <1>1, <1>4, TameOK, StartTame, PromptFailsTame, ClaimKeeps, ClaimRefusedTame, ArmKeeps,
     StartRefusedTame, BeginTame, BeginUnheededTame, BeginThrowsKeeps, AbandonKeeps DEF Starting
<1>5. ASSUME NEW t \in Tabs, Recording(t) PROVE DInv'
  BY <1>1, <1>5, TameOK, SliceTame, persistBlobTame, PersistFailsTame, stopRecordingTame,
     notePageHideTame, handleRecorderStopTame, CommitKeeps DEF Recording
<1>6. ASSUME NEW t \in Tabs, Hear(t) PROVE DInv'
  BY <1>1, <1>6, TameOK, HearTame, HearUnheededTame, InterruptStopsTame DEF Hear
<1>7. ASSUME NEW t \in Tabs, Bind(t) PROVE DInv'
  BY <1>1, <1>7, TameOK, ReconcileIdleTame, ReconcileReadsKeeps, ReconcileMergesTame DEF Bind
<1>8. ASSUME NEW t \in Tabs, Pump(t) \/ Finalize(t) PROVE DInv'
  BY <1>1, <1>8, TameOK, PurgeKeeps, uploadNextChunkTame, UploadRefusedTame, UploadUnheededTame,
     sendFinalizeIfDueKeeps, FinalizeAnsweredTame DEF Pump, Finalize
<1>9. ASSUME NEW t \in Tabs, Page(t) PROVE DInv'
  BY <1>1, <1>9, TameOK, OpenTame, OpenUploadTame, CloseKeeps, AdmitTame DEF Page
<1> QED
  BY <1>2, <1>3, <1>4, <1>5, <1>6, <1>7, <1>8, <1>9 DEF Next

\* A slip is not forgotten.
LEMMA SlipsGrow == ASSUME [Next]_vars PROVE slips \subseteq slips'
<1>1. ASSUME NEW t \in Tabs, Starting(t) PROVE slips' = slips
  BY <1>1 DEF Starting, Start, PromptFails, ClaimGranted, claimWithRetry, ClaimRefused, Arm,
     StartRefused, Begin, BeginUnheeded, BeginThrows, Abandon
<1>2. ASSUME NEW t \in Tabs, Recording(t) PROVE slips \subseteq slips'
  BY <1>2 DEF Recording, Slice, persistBlob, PersistFails, stopRecording, notePageHide,
     handleRecorderStop, commitRecorderStop, CommitFails
<1>3. ASSUME NEW t \in Tabs, Hear(t) \/ Bind(t) PROVE slips \subseteq slips'
  BY <1>3 DEF Hear, HearRevoked, HearReplaced, HearUnheeded, InterruptStops,
     Bind, ReconcileIdle, ReconcileReads, ReconcileMerges
<1>4. ASSUME NEW t \in Tabs, Pump(t) \/ Finalize(t) PROVE slips' = slips
  BY <1>4 DEF Pump, Purge, uploadNextChunk, UploadRefused, UploadUnheeded,
     Finalize, sendFinalizeIfDue, FinalizeAnswered
<1>5. ASSUME NEW t \in Tabs, Page(t) PROVE slips' = slips
  BY <1>5 DEF Page, OpenLive, OpenRestored, OpenUpload, Close, Admit, Drop
<1>6. Service => slips' = slips
  BY DEF Service
<1>7. UNCHANGED vars => slips' = slips
  BY DEF vars
<1> QED
  BY <1>1, <1>2, <1>3, <1>4, <1>5, <1>6, <1>7 DEF Next

\* A declaration that may go out covers every slice stored, and no slice is still
\* to come, however many tabs share the row and wherever they are interrupted,
\* until a slip: IndexedDB refused a slice that the recorder flushed on stop, or a
\* tab read the row of a recorder that did not start before it was deleted.
THEOREM DeclaredCorrect == Spec => []DeclaredIsOver
<1> DEFINE Inv == slips = {} => DInv
<1>1. Inv => DeclaredIsOver
  <2> SUFFICES ASSUME DInv, Sendable
               PROVE  row.payload.final = row.next - 1 /\ ~\E t \in Tabs : Delivering(t)
    BY DEF DeclaredIsOver, EverySliceDeclared
  <2>1. row.payload.final = row.next - 1 /\ \A t \in Tabs : ~Works(tab[t])
    BY SendableIsOver DEF Sendable
  <2>2. ASSUME NEW t \in Tabs, Delivering(t) PROVE Works(tab[t])
    BY <2>2, DOpen DEF Delivering, Orderly, Works
  <2> QED
    BY <2>1, <2>2
<1>2. Inv /\ [Next]_vars => Inv'
  <2> SUFFICES ASSUME Inv, [Next]_vars, slips' = {} PROVE DInv'
    OBVIOUS
  <2>1. slips = {}
    BY SlipsGrow
  <2> QED
    BY <2>1, DNext
<1>3. Init => Inv
  BY DInitial
<1> QED
  BY <1>1, <1>2, <1>3, PTL DEF Spec

-----------------------------------------------------------------------------
(* The verdict of the server.                                              *)

\* What was heard of the take is what the server says, if it is over.
True(heard, fin) == heard \in Terminal => heard = fin

(* A declared take that is open or complete was declared without a loss,   *)
(* so that repeating its declaration does not close it.                    *)
SrvSound == srv.fin \in {"pending", "complete"} => srv.payload # NoPayload /\ ~srv.payload.lost

TabTrue(T, fin) == T = Closed \/ (True(T.bind.pc, fin) /\ True(T.fin.pc, fin))

VInv ==
  /\ IInv /\ SrvSound
  /\ row # NoMeta => True(row.server, srv.fin)
  /\ \A t \in Tabs : TabTrue(tab[t], srv.fin)

(* The three parts of a step of tab t.                                     *)
Steady == SrvSound' /\ (srv.fin \in Terminal => srv'.fin = srv.fin)

Tells(m, n, fin) == n.server = m.server \/ (m.server \notin Terminal /\ True(n.server, fin))

RowTells ==
  row' # NoMeta =>
    IF row = NoMeta THEN row'.server \notin Terminal
    ELSE Tells(row, row', srv'.fin)

Heard(t) == /\ \A u \in Tabs \ {t} : tab'[u] = tab[u]
            /\ TabTrue(tab'[t], srv'.fin)

Stands == row # NoMeta /\ row.server \in Terminal /\ row' # NoMeta =>
            row'.server = row.server /\ row'.server = srv.fin
VerdictOK == VInv' /\ Stands

LEMMA Apart == Terminal \cap (Blocks \cup {"none", "pending", "off", "due", "failed"}) = {}
BY DEF Terminal, Blocks

LEMMA TellsOK ==
  ASSUME VInv, IInv', NEW t \in Tabs, Steady, RowTells, Heard(t)
  PROVE  VerdictOK
<1>1. ASSUME NEW x, True(x, srv.fin) PROVE True(x, srv'.fin)
  BY <1>1 DEF Steady, True
<1>2. row' # NoMeta => True(row'.server, srv'.fin)
  BY <1>1, Apart DEF RowTells, Tells, VInv, True
<1>3. \A u \in Tabs : TabTrue(tab'[u], srv'.fin)
  <2> SUFFICES ASSUME NEW u \in Tabs PROVE TabTrue(tab'[u], srv'.fin)
    OBVIOUS
  <2>1. CASE u = t
    BY <2>1 DEF Heard
  <2>2. CASE u # t
    BY <2>2, <1>1 DEF Heard, VInv, TabTrue
  <2> QED
    BY <2>1, <2>2
<1>4. Stands
  BY DEF RowTells, Tells, VInv, True, Stands
<1> QED
  BY <1>2, <1>3, <1>4 DEF VerdictOK, VInv, Steady

-----------------------------------------------------------------------------
(***************************************************************************)
(* No decision on the row but the server's status changes a verdict.       *)
(***************************************************************************)
Alike(m, n) == n.server = m.server \/ {m.server, n.server} \cap Terminal = {}

LEMMA AlikeTwice ==
  ASSUME NEW m, NEW n, NEW o, Alike(m, n), Alike(n, o) PROVE Alike(m, o)
BY DEF Alike

LEMMA FieldAlike ==
  ASSUME NEW m \in Meta, NEW v
  PROVE  /\ Alike(m, [m EXCEPT !.operator = v]) /\ Alike(m, [m EXCEPT !.flush = v])
         /\ Alike(m, [m EXCEPT !.stamp = @ + 1]) /\ Alike(m, [m EXCEPT !.next = @ + 1])
BY DEF Alike, Meta

LEMMA DeclareAlike ==
  ASSUME NEW m \in Meta
  PROVE  Alike(m, persistStop(m)) /\ Alike(m, persistRecorderLost(m))
<1>1. persistStop(m).server = IfNone(m.server) /\ persistRecorderLost(m).server = IfNone(m.server)
  BY DEF persistStop, persistRecorderLost, Meta
<1> QED
  BY <1>1 DEF IfNone, Alike, Terminal

LEMMA FailureAlike ==
  ASSUME NEW m \in Meta, NEW block PROVE Alike(m, notePermanentFailure(m, block))
BY DEF notePermanentFailure, Alike, Meta

LEMMA ReblockedAlike == \A m \in Meta : Alike(m, Reblocked(m))
BY FailureAlike DEF Reblocked, Alike

LEMMA DeclaredAlike == ASSUME NEW m \in Meta, NEW why PROVE Alike(m, Declared(why, m))
<1> DEFINE lost == persistRecorderLost(m)
           op   == [lost EXCEPT !.operator = TRUE]
<1>1. lost \in Meta /\ Alike(m, lost)
  BY DeclareFacts, DeclareAlike
<1> HIDE DEF lost
<1>2. op \in Meta /\ Alike(lost, op)
  BY <1>1, FlagFacts, FieldAlike
<1> HIDE DEF op
<1>3. Alike(m, Reblocked(op))
  BY <1>1, <1>2, ReblockedAlike, AlikeTwice
<1>4. persistInterrupted(m) \in {m, Reblocked(op)} /\ persistReplaced(m) \in {m, lost}
  BY DEF persistInterrupted, persistReplaced, op, lost
<1>5. Alike(m, m)
  BY DEF Alike
<1> QED
  BY <1>1, <1>3, <1>4, <1>5 DEF Declared

LEMMA HoldAlike == \A m \in Meta : Alike(m, holdForRecorderFlush(m))
BY FieldAlike DEF holdForRecorderFlush, Alike

LEMMA ReleaseAlike == ASSUME NEW m \in Meta PROVE Alike(m, releaseRecorderFlush(m))
<1> DEFINE free == [m EXCEPT !.flush = FALSE]
           lost == persistRecorderLost(free)
           anew == [lost EXCEPT !.stamp = @ + 1]
<1>1. releaseRecorderFlush(m) \in {free, Reblocked(anew)}
  BY DEF releaseRecorderFlush
<1>2. free \in Meta /\ Alike(m, free)
  BY FlagFacts, FieldAlike
<1> HIDE DEF free
<1>3. lost \in Meta /\ Alike(free, lost)
  BY <1>2, DeclareFacts, DeclareAlike
<1> HIDE DEF lost
<1>4. anew \in Meta /\ Alike(lost, anew)
  BY <1>3, FlagFacts, FieldAlike
<1> HIDE DEF anew
<1>5. Alike(anew, Reblocked(anew))
  BY <1>4, ReblockedAlike
<1> QED
  BY <1>1, <1>2, <1>3, <1>4, <1>5, AlikeTwice

LEMMA InterruptedAlike ==
  ASSUME NEW m \in Meta, NEW t, NEW why PROVE Alike(m, Interrupted(t, why, m))
<1> DEFINE d == Declared(why, m)
<1>1. d \in Meta /\ Alike(m, d)
  BY DeclaredFacts, DeclaredAlike
<1>2. Interrupted(t, why, m) \in {m, holdForRecorderFlush(d)}
  BY DEF Interrupted
<1> HIDE DEF d
<1>3. Alike(m, m) /\ Alike(m, holdForRecorderFlush(d))
  BY <1>1, HoldAlike, AlikeTwice DEF Alike
<1> QED
  BY <1>2, <1>3

LEMMA DeclareStopAlike ==
  ASSUME NEW m \in Meta, NEW T, T.gap \in BOOLEAN PROVE Alike(m, declareStop(m, T))
<1> DEFINE noted(n) == [n EXCEPT !.operator = @ \/ T.gap]
           d == Declared(IF "revoked" \in T.out THEN "revoked" ELSE "replaced", m)
           l == persistRecorderLost(m)
           q == persistStop(m)
<1>1. ASSUME NEW n \in Meta PROVE Alike(n, noted(n))
  BY DEF Alike, Meta
<1>2. declareStop(m, T) \in {noted(d), noted(m), noted(l), m, q}
  BY DEF declareStop
<1>3. d \in Meta /\ Alike(m, d) /\ l \in Meta /\ Alike(m, l) /\ Alike(m, q) /\ Alike(m, m)
  BY DeclaredFacts, DeclaredAlike, DeclareFacts, DeclareAlike DEF Alike
<1> HIDE DEF noted, d, l, q
<1>4. Alike(m, noted(d)) /\ Alike(m, noted(m)) /\ Alike(m, noted(l))
  BY <1>1, <1>3, AlikeTwice
<1> QED
  BY <1>2, <1>3, <1>4

LEMMA UnblockAlike ==
  ASSUME NEW m \in Meta, NEW remaining, NEW n \in clearUnauthorizedUploadBlock(m, remaining)
  PROVE  Alike(m, n)
BY DEF clearUnauthorizedUploadBlock, Alike, Meta

\* A status of the server is taken, unless it is older than the verdict.
LEMMA StatusTells ==
  ASSUME NEW m \in Meta, NEW fin \in Servers, NEW state, True(m.server, fin), True(state, fin)
  PROVE  LET n == applyServerStatus(m, state) IN
         n.server = m.server \/ (m.server \notin Terminal /\ n.server = state)
<1> DEFINE held == IF m.server \in Terminal /\ state \notin Terminal THEN m.server ELSE state
<1>1. applyServerStatus(m, state) =
        CASE held = "complete"   -> [m EXCEPT !.server = held, !.confirmed = TRUE, !.pending = FALSE]
          [] held = "incomplete" -> [m EXCEPT !.server = held, !.confirmed = FALSE, !.pending = FALSE]
          [] OTHER               -> [m EXCEPT !.server = held]
  BY DEF applyServerStatus
<1>2. held = m.server \/ (m.server \notin Terminal /\ held = state)
  BY DEF True
<1> HIDE DEF held
<1>3. applyServerStatus(m, state).server = held
  BY <1>1 DEF Meta
<1> QED
  BY <1>2, <1>3

LEMMA AlikeTells == ASSUME NEW m, NEW n, Alike(m, n), NEW fin PROVE Tells(m, n, fin)
BY DEF Alike, Tells, True

LEMMA TellsAlike ==
  ASSUME NEW m, NEW n, NEW o, NEW fin, Tells(m, n, fin), Alike(n, o) PROVE Tells(m, o, fin)
BY DEF Alike, Tells, True

LEMMA MergeTells ==
  ASSUME NEW m \in Meta, NEW fin \in Servers, NEW heard \in Servers \cup {"failed"}, NEW here,
         True(m.server, fin), True(heard, fin)
  PROVE  Tells(m, mergeReload(m, heard, here), fin)
<1> DEFINE next == IF heard = "failed" THEN m ELSE applyServerStatus(m, heard)
           lost == IF planReload(next) = "recorder_lost" /\ ~here THEN persistRecorderLost(next) ELSE next
<1>1. mergeReload(m, heard, here) = IF here THEN lost ELSE releaseRecorderFlush(lost)
  BY DEF mergeReload
<1>2. next \in Meta
  BY StatusFacts
<1>3. Tells(m, next, fin)
  <2>1. CASE heard = "failed"
    BY <2>1 DEF Tells
  <2>2. CASE heard # "failed"
    BY <2>2, StatusTells DEF Tells
  <2> QED
    BY <2>1, <2>2
<1> HIDE DEF next
<1>4. lost \in Meta /\ Alike(next, lost)
  BY <1>2, DeclareFacts, DeclareAlike DEF Alike
<1> HIDE DEF lost
<1>5. Tells(m, lost, fin)
  BY <1>3, <1>4, TellsAlike
<1>6. Tells(m, releaseRecorderFlush(lost), fin)
  BY <1>4, <1>5, ReleaseAlike, TellsAlike
<1> QED
  BY <1>1, <1>5, <1>6

-----------------------------------------------------------------------------
(***************************************************************************)
(* The server: a verdict of its own is final.                              *)
(***************************************************************************)
LEMMA SrvAlike ==
  ASSUME VInv, srv'.fin = srv.fin, srv'.payload = srv.payload PROVE Steady
BY DEF VInv, SrvSound, Steady

LEMMA StoredSteady == ASSUME VInv, NEW s, srv' = Stored(s) PROVE Steady
<1>1. /\ srv'.payload = srv.payload
      /\ srv'.fin = srv.fin \/ (srv.fin = "pending" /\ srv'.fin = "complete")
  BY DEF Stored, Judged, VInv, IInv, TypeOK
<1> QED
  BY <1>1 DEF VInv, SrvSound, Steady, Terminal

LEMMA FinalizedSteady ==
  ASSUME VInv, NEW t, NEW p \in [final : Int, lost : BOOLEAN], p # NoPayload,
         FinalizeVerdict(t, p) = "accepted", srv' = Finalized(p)
  PROVE  Steady
<1>1. srv.fin = "complete" => p = srv.payload /\ ~p.lost
  BY DEF FinalizeVerdict, Auth, Growing, VInv, SrvSound
<1> DEFINE f == IF srv.fin = "none" THEN "pending" ELSE srv.fin
           b == [srv EXCEPT !.payload = p, !.fin = f]
<1>2. CASE srv.fin = "incomplete" \/ p.lost
  <2>1. srv'.fin = "incomplete"
    BY <1>2 DEF Finalized, VInv, IInv, TypeOK
  <2> QED
    BY <2>1, <1>1, <1>2 DEF SrvSound, Steady, Terminal
<1>3. CASE srv.fin # "incomplete" /\ ~p.lost
  <2>1. srv' = Judged(b)
    BY <1>3 DEF Finalized
  <2>2. b.fin = f /\ b.payload = p /\ "fin" \in DOMAIN b
    BY DEF VInv, IInv, TypeOK
  <2> HIDE DEF b
  <2>3. /\ srv'.payload = p
        /\ srv'.fin = f \/ (f = "pending" /\ srv'.fin = "complete")
    BY <2>1, <2>2 DEF Judged
  <2> QED
    BY <2>3, <1>3 DEF SrvSound, Steady, Terminal
<1> QED
  BY <1>2, <1>3

LEMMA ServiceSteady == ASSUME VInv, Service PROVE VerdictOK
<1>1. StepOK /\ UNCHANGED <<row, tab>>
  BY ServiceOK DEF VInv, Service, disk
<1>2. Steady
  BY DEF Service, OtherDevice, Revoke, End, GraceEnds, VInv, IInv, TypeOK, SrvSound, Steady, Terminal
<1>3. ASSUME NEW x, True(x, srv.fin) PROVE True(x, srv'.fin)
  BY <1>2, <1>3 DEF Steady, True
<1>4. \A t \in Tabs : TabTrue(tab'[t], srv'.fin)
  BY <1>1, <1>3 DEF VInv, TabTrue
<1>5. Stands
  BY <1>1 DEF VInv, True, Stands
<1> QED
  BY <1>1, <1>2, <1>3, <1>4, <1>5 DEF StepOK, VerdictOK, VInv, Steady

-----------------------------------------------------------------------------
(***************************************************************************)
(* Steps that leave the row as it is.                                      *)
(***************************************************************************)
Lawful(t) == Steady /\ RowTells /\ Heard(t)

LEMMA VOpen ==
  ASSUME VInv, NEW t \in Tabs, Open(t)
  PROVE  /\ TabOK(tab[t]) /\ tab[t] # Closed
         /\ True(tab[t].bind.pc, srv.fin) /\ True(tab[t].fin.pc, srv.fin)
BY OpenFacts DEF VInv, TabTrue, Open, Is, Closed

LEMMA RowSame == ASSUME row' = row, IInv PROVE RowTells
BY DEF RowTells, Tells

\* What is in flight in the tab is as it was, or starts over.
LEMMA HeardSame ==
  ASSUME VInv, NEW t \in Tabs, Open(t), Steady, NEW X, tab' = [tab EXCEPT ![t] = X],
         X.bind.pc \in {tab[t].bind.pc, "off", "due"}, X.fin.pc \in {tab[t].fin.pc, "off"}
  PROVE  Heard(t)
<1>1. tab'[t] = X /\ \A u \in Tabs \ {t} : tab'[u] = tab[u]
  BY DEF VInv, IInv, TypeOK
<1>2. ASSUME NEW x, True(x, srv.fin) PROVE True(x, srv'.fin)
  BY <1>2 DEF Steady, True
<1>3. True(X.bind.pc, srv'.fin) /\ True(X.fin.pc, srv'.fin)
  BY <1>2, VOpen, Apart DEF True
<1> QED
  BY <1>1, <1>3 DEF Heard, TabTrue

LEMMA HeardStill == ASSUME VInv, NEW t \in Tabs, Steady, tab' = tab PROVE Heard(t)
<1>1. ASSUME NEW x, True(x, srv.fin) PROVE True(x, srv'.fin)
  BY <1>1 DEF Steady, True
<1> QED
  BY <1>1 DEF VInv, TabTrue, Heard

LEMMA HeardLoad ==
  ASSUME VInv, NEW t \in Tabs, NEW X, tab' = [tab EXCEPT ![t] = X],
         X = Closed \/ (X.bind.pc = "due" /\ X.fin.pc = "off")
  PROVE  Heard(t)
BY Apart DEF Heard, TabTrue, True, VInv, IInv, TypeOK

LEMMA InterruptStopsTells == ASSUME VInv, NEW t \in Tabs, InterruptStops(t) PROVE Lawful(t)
<1>1. Open(t) /\ row' = row
  BY DEF InterruptStops, At, Is, Open, disk
<1>2. Steady
  BY SrvAlike DEF InterruptStops, VInv, IInv, TypeOK
<1> DEFINE X == [tab[t] EXCEPT !.stop = FALSE, !.rec = IF @ = "running" THEN "inactive" ELSE @]
<1>3. tab' = [tab EXCEPT ![t] = X]
  BY DEF InterruptStops, Set
<1>4. X.bind.pc \in {tab[t].bind.pc, "off", "due"} /\ X.fin = tab[t].fin
  BY <1>1, VOpen DEF TabOK, Loaded
<1> QED
  BY <1>1, <1>2, <1>3, <1>4, RowSame, HeardSame DEF Lawful, VInv

LEMMA StartTells == ASSUME VInv, NEW t \in Tabs, Start(t) PROVE Lawful(t)
<1>1. Open(t) /\ row' = row
  BY DEF Start, At, Is, Open, disk
<1>2. Steady
  BY SrvAlike DEF Start, VInv, IInv, TypeOK
<1> DEFINE X == [tab[t] EXCEPT !.start = "prompt", !.bind = Rebound(t)]
<1>3. tab' = [tab EXCEPT ![t] = X]
  BY DEF Start, Set
<1>4. X.bind.pc \in {tab[t].bind.pc, "off", "due"} /\ X.fin = tab[t].fin
  BY <1>1, VOpen DEF TabOK, Loaded, Rebound
<1> QED
  BY <1>1, <1>2, <1>3, <1>4, RowSame, HeardSame DEF Lawful, VInv

LEMMA PromptFailsTells == ASSUME VInv, NEW t \in Tabs, PromptFails(t) PROVE Lawful(t)
<1>1. Open(t) /\ row' = row
  BY DEF PromptFails, At, Is, Open, disk
<1>2. Steady
  BY SrvAlike DEF PromptFails, VInv, IInv, TypeOK
<1> DEFINE X == [tab[t] EXCEPT !.start = "idle"]
<1>3. tab' = [tab EXCEPT ![t] = X]
  BY DEF PromptFails, Set
<1>4. X.bind.pc \in {tab[t].bind.pc, "off", "due"} /\ X.fin = tab[t].fin
  BY <1>1, VOpen DEF TabOK, Loaded
<1> QED
  BY <1>1, <1>2, <1>3, <1>4, RowSame, HeardSame DEF Lawful, VInv

LEMMA ClaimGrantedTells == ASSUME VInv, NEW t \in Tabs, ClaimGranted(t) PROVE Lawful(t)
<1>1. Open(t) /\ row' = row
  BY DEF ClaimGranted, At, Is, Open, disk, Prompted
<1>2. Steady
  BY SrvAlike DEF ClaimGranted, VInv, IInv, TypeOK
<1> DEFINE X == [tab[t] EXCEPT !.start = "granted", !.pending = TRUE]
<1>3. tab' = [tab EXCEPT ![t] = X]
  BY DEF ClaimGranted, Set
<1>4. X.bind.pc \in {tab[t].bind.pc, "off", "due"} /\ X.fin = tab[t].fin
  BY <1>1, VOpen DEF TabOK, Loaded
<1> QED
  BY <1>1, <1>2, <1>3, <1>4, RowSame, HeardSame DEF Lawful, VInv

LEMMA claimWithRetryTells == ASSUME VInv, NEW t \in Tabs, claimWithRetry(t) PROVE Lawful(t)
<1>1. Open(t) /\ row' = row
  BY DEF claimWithRetry, At, Is, Open, disk, Prompted
<1>2. Steady
  BY SrvAlike DEF claimWithRetry, VInv, IInv, TypeOK
<1> DEFINE X == [tab[t] EXCEPT !.start = "idle", !.pending = TRUE]
<1>3. tab' = [tab EXCEPT ![t] = X]
  BY DEF claimWithRetry, Set
<1>4. X.bind.pc \in {tab[t].bind.pc, "off", "due"} /\ X.fin = tab[t].fin
  BY <1>1, VOpen DEF TabOK, Loaded
<1> QED
  BY <1>1, <1>2, <1>3, <1>4, RowSame, HeardSame DEF Lawful, VInv

LEMMA StartRefusedTells == ASSUME VInv, NEW t \in Tabs, StartRefused(t) PROVE Lawful(t)
<1>1. Open(t) /\ row' = row
  BY DEF StartRefused, At, Is, Open, disk
<1>2. Steady
  BY SrvAlike DEF StartRefused, VInv, IInv, TypeOK
<1> DEFINE X == [tab[t] EXCEPT !.start = "idle"]
<1>3. tab' = [tab EXCEPT ![t] = X]
  BY DEF StartRefused, Set
<1>4. X.bind.pc \in {tab[t].bind.pc, "off", "due"} /\ X.fin = tab[t].fin
  BY <1>1, VOpen DEF TabOK, Loaded
<1> QED
  BY <1>1, <1>2, <1>3, <1>4, RowSame, HeardSame DEF Lawful, VInv

LEMMA BeginThrowsTells == ASSUME VInv, NEW t \in Tabs, BeginThrows(t) PROVE Lawful(t)
<1>1. Open(t) /\ row' = row
  BY DEF BeginThrows, At, Is, Open, disk
<1>2. Steady
  BY SrvAlike DEF BeginThrows, VInv, IInv, TypeOK
<1> DEFINE X == [tab[t] EXCEPT !.start = "abandon"]
<1>3. tab' = [tab EXCEPT ![t] = X]
  BY DEF BeginThrows, Set
<1>4. X.bind.pc \in {tab[t].bind.pc, "off", "due"} /\ X.fin = tab[t].fin
  BY <1>1, VOpen DEF TabOK, Loaded
<1> QED
  BY <1>1, <1>2, <1>3, <1>4, RowSame, HeardSame DEF Lawful, VInv

LEMMA SliceTells == ASSUME VInv, NEW t \in Tabs, Slice(t) PROVE Lawful(t)
<1>1. Open(t) /\ row' = row
  BY DEF Slice, At, Is, Open, disk
<1>2. Steady
  BY SrvAlike DEF Slice, VInv, IInv, TypeOK
<1> DEFINE X == [tab[t] EXCEPT !.buf = @ + 1]
<1>3. tab' = [tab EXCEPT ![t] = X]
  BY DEF Slice, Set
<1>4. X.bind.pc \in {tab[t].bind.pc, "off", "due"} /\ X.fin = tab[t].fin
  BY <1>1, VOpen DEF TabOK, Loaded
<1> QED
  BY <1>1, <1>2, <1>3, <1>4, RowSame, HeardSame DEF Lawful, VInv

LEMMA stopRecordingTells == ASSUME VInv, NEW t \in Tabs, stopRecording(t) PROVE Lawful(t)
<1>1. Open(t) /\ row' = row
  BY DEF stopRecording, At, Is, Open, disk
<1>2. Steady
  BY SrvAlike DEF stopRecording, VInv, IInv, TypeOK
<1> DEFINE X == [tab[t] EXCEPT !.rec = "inactive"]
<1>3. tab' = [tab EXCEPT ![t] = X]
  BY DEF stopRecording, Set
<1>4. X.bind.pc \in {tab[t].bind.pc, "off", "due"} /\ X.fin = tab[t].fin
  BY <1>1, VOpen DEF TabOK, Loaded
<1> QED
  BY <1>1, <1>2, <1>3, <1>4, RowSame, HeardSame DEF Lawful, VInv

LEMMA notePageHideTells == ASSUME VInv, NEW t \in Tabs, notePageHide(t) PROVE Lawful(t)
<1>1. Open(t) /\ row' = row
  BY DEF notePageHide, At, Is, Open, disk
<1>2. Steady
  BY SrvAlike DEF notePageHide, VInv, IInv, TypeOK
<1> DEFINE X == [tab[t] EXCEPT !.rec = "inactive", !.asLost = TRUE]
<1>3. tab' = [tab EXCEPT ![t] = X]
  BY DEF notePageHide, Set
<1>4. X.bind.pc \in {tab[t].bind.pc, "off", "due"} /\ X.fin = tab[t].fin
  BY <1>1, VOpen DEF TabOK, Loaded
<1> QED
  BY <1>1, <1>2, <1>3, <1>4, RowSame, HeardSame DEF Lawful, VInv

LEMMA CommitFailsTells == ASSUME VInv, NEW t \in Tabs, CommitFails(t) PROVE Lawful(t)
<1>1. Open(t) /\ row' = row
  BY DEF CommitFails, At, Is, Open, disk
<1>2. Steady
  BY SrvAlike DEF CommitFails, VInv, IInv, TypeOK
<1> DEFINE X == [tab[t] EXCEPT !.commit = FALSE, !.asLost = FALSE]
<1>3. tab' = [tab EXCEPT ![t] = X]
  BY DEF CommitFails, Set, Committed
<1>4. X.bind.pc \in {tab[t].bind.pc, "off", "due"} /\ X.fin = tab[t].fin
  BY <1>1, VOpen DEF TabOK, Loaded
<1> QED
  BY <1>1, <1>2, <1>3, <1>4, RowSame, HeardSame DEF Lawful, VInv

LEMMA ReconcileIdleTells == ASSUME VInv, NEW t \in Tabs, ReconcileIdle(t) PROVE Lawful(t)
<1>1. Open(t) /\ row' = row
  BY DEF ReconcileIdle, At, Is, Open, disk
<1>2. Steady
  BY SrvAlike DEF ReconcileIdle, VInv, IInv, TypeOK
<1> DEFINE X == [tab[t] EXCEPT !.bind = Off]
<1>3. tab' = [tab EXCEPT ![t] = X]
  BY DEF ReconcileIdle, Set
<1>4. X.bind.pc \in {tab[t].bind.pc, "off", "due"} /\ X.fin = tab[t].fin
  BY <1>1, VOpen DEF TabOK, Loaded, Off
<1> QED
  BY <1>1, <1>2, <1>3, <1>4, RowSame, HeardSame DEF Lawful, VInv

LEMMA handleRecorderStopTells ==
  ASSUME VInv, NEW t \in Tabs, handleRecorderStop(t) PROVE Lawful(t)
<1>1. Open(t) /\ row' = row /\ Steady
  BY SrvAlike DEF handleRecorderStop, disk
<1>2. PICK n \in 0 .. 1 :
        tab' = [tab EXCEPT ![t].rec = "none", ![t].commit = TRUE, ![t].buf = @ + n]
  BY DEF handleRecorderStop
<1> DEFINE X == [tab[t] EXCEPT !.rec = "none", !.commit = TRUE, !.buf = @ + n]
<1>3. tab' = [tab EXCEPT ![t] = X]
  BY <1>2
<1>4. X.bind = tab[t].bind /\ X.fin = tab[t].fin
  BY <1>1, VOpen DEF TabOK, Loaded
<1> QED
  BY <1>1, <1>3, <1>4, RowSame, HeardSame DEF Lawful, VInv

LEMMA ClaimRefusedTells == ASSUME VInv, NEW t \in Tabs, ClaimRefused(t) PROVE Lawful(t)
<1>1. Open(t) /\ row' = row
  BY DEF ClaimRefused, Prompted, At, Is, Open, disk
<1>2. Steady
  BY SrvAlike DEF ClaimRefused, VInv, IInv, TypeOK
<1> DEFINE kept == ClaimVerdict(t) = "not_admitted"
           o == IF ClaimVerdict(t) = "revoked" THEN Out(t, "revoked") ELSE tab[t].out
           X == [tab[t] EXCEPT !.start = "idle", !.pending = kept, !.out = o]
<1>3. tab' = [tab EXCEPT ![t] = X]
  BY DEF ClaimRefused
<1> HIDE DEF kept, o
<1>4. X.bind = tab[t].bind /\ X.fin = tab[t].fin
  BY <1>1, VOpen DEF TabOK, Loaded
<1> QED
  BY <1>1, <1>2, <1>3, <1>4, RowSame, HeardSame DEF Lawful, VInv

LEMMA AdmitTells == ASSUME VInv, NEW t \in Tabs, Admit(t) \/ Drop(t) PROVE Lawful(t)
<1>1. Open(t) /\ row' = row
  BY DEF Admit, Drop, Is, Open, disk
<1>2. Steady
  BY SrvAlike DEF Admit, Drop, VInv, IInv, TypeOK
<1>3. PICK a \in BOOLEAN : tab' = [tab EXCEPT ![t].admitted = a]
  BY DEF Admit, Drop, Set
<1> DEFINE X == [tab[t] EXCEPT !.admitted = a]
<1>4. tab' = [tab EXCEPT ![t] = X]
  BY <1>3
<1>5. X.bind = tab[t].bind /\ X.fin = tab[t].fin
  BY <1>1, VOpen DEF TabOK, Loaded
<1> QED
  BY <1>1, <1>2, <1>4, <1>5, RowSame, HeardSame DEF Lawful, VInv

LEMMA OpenTells == ASSUME VInv, NEW t \in Tabs, OpenLive(t) \/ OpenRestored(t) PROVE Lawful(t)
<1>1. row' = row /\ Steady
  BY SrvAlike DEF OpenLive, OpenRestored, disk
<1>2. PICK page \in {"live", "restored"} : tab' = [tab EXCEPT ![t] = Loaded(page)]
  BY DEF OpenLive, OpenRestored, Load
<1>3. Loaded(page).bind.pc = "due" /\ Loaded(page).fin.pc = "off"
  BY DEF Loaded, Off
<1> QED
  BY <1>1, <1>2, <1>3, RowSame, HeardLoad DEF Lawful, VInv

LEMMA CloseTells == ASSUME VInv, NEW t \in Tabs, Close(t) PROVE Lawful(t)
<1>1. row' = row /\ tab' = [tab EXCEPT ![t] = Closed]
  BY DEF Close, disk
<1>2. Steady
  BY SrvAlike DEF Close, VInv, IInv, TypeOK
<1> QED
  BY <1>1, <1>2, RowSame, HeardLoad DEF Lawful, VInv

LEMMA ReconcileReadsTells == ASSUME VInv, NEW t \in Tabs, ReconcileReads(t) PROVE Lawful(t)
<1>1. Open(t) /\ row' = row /\ srv' = srv
  BY DEF ReconcileReads
<1>2. Steady
  BY <1>1, SrvAlike
<1>3. PICK ok \in {TRUE, FALSE} :
        Set(t, "bind", [pc |-> IF ok THEN srv.fin ELSE "failed",
                        here |-> tab[t].rec = "running" \/ Stopping(t)])
  BY DEF ReconcileReads
<1> DEFINE b == [pc |-> IF ok THEN srv.fin ELSE "failed",
                 here |-> tab[t].rec = "running" \/ Stopping(t)]
           X == [tab[t] EXCEPT !.bind = b]
<1>4. tab' = [tab EXCEPT ![t] = X]
  BY <1>3 DEF Set
<1>5. True(b.pc, srv.fin)
  BY Apart DEF True
<1> HIDE DEF b
<1>6. X.bind = b /\ X.fin = tab[t].fin
  BY <1>1, VOpen DEF TabOK, Loaded
<1>7. TabTrue(X, srv'.fin)
  BY <1>1, <1>5, <1>6, VOpen DEF TabTrue
<1> HIDE DEF X
<1>8. Heard(t)
  BY <1>4, <1>7 DEF Heard, VInv, IInv, TypeOK
<1> QED
  BY <1>1, <1>2, <1>8, RowSame DEF Lawful, VInv

-----------------------------------------------------------------------------
(***************************************************************************)
(* Steps of the tab that change the row without a word of the server.      *)
(***************************************************************************)
LEMMA RowAlike ==
  ASSUME VInv, row # NoMeta, row' = NoMeta \/ Alike(row, row') PROVE RowTells
BY AlikeTells DEF RowTells

LEMMA RowNone == ASSUME row = NoMeta, row' = NoMeta PROVE RowTells
BY DEF RowTells

LEMMA VRow == ASSUME VInv, row # NoMeta PROVE row \in Meta /\ True(row.server, srv.fin)
BY RowType DEF VInv

LEMMA HearRevokedTells == ASSUME VInv, NEW t \in Tabs, HearRevoked(t) PROVE Lawful(t)
<1>1. Open(t) /\ Steady
  BY SrvAlike DEF HearRevoked, ToldRevoked, Is, Open
<1>2. row' = Interrupted(t, "revoked", row)
  BY DEF HearRevoked
<1>3. RowTells
  <2>1. CASE row = NoMeta
    BY <1>2, <2>1, RowNone DEF Interrupted
  <2>2. CASE row # NoMeta
    BY <1>2, <2>2, VRow, InterruptedAlike, RowAlike
  <2> QED
    BY <2>1, <2>2
<1> DEFINE X == [Interrupt(t, "revoked") EXCEPT !.admitted = FALSE]
<1>4. tab' = [tab EXCEPT ![t] = X]
  BY DEF HearRevoked
<1>5. X.bind = tab[t].bind /\ X.fin = tab[t].fin
  BY <1>1, VOpen DEF Interrupt, TabOK, Loaded
<1> HIDE DEF X
<1> QED
  BY <1>1, <1>3, <1>4, <1>5, HeardSame DEF Lawful

LEMMA HearReplacedTells == ASSUME VInv, NEW t \in Tabs, HearReplaced(t) PROVE Lawful(t)
<1>1. Open(t)
  BY DEF HearReplaced, ToldReplaced, Is, Open
<1>2. Steady
  BY SrvAlike DEF HearReplaced, VInv, IInv, TypeOK
<1>3. row' = Interrupted(t, "replaced", row)
  BY DEF HearReplaced
<1>4. RowTells
  <2>1. CASE row = NoMeta
    BY <1>3, <2>1, RowNone DEF Interrupted
  <2>2. CASE row # NoMeta
    BY <1>3, <2>2, VRow, InterruptedAlike, RowAlike
  <2> QED
    BY <2>1, <2>2
<1> DEFINE X == [Interrupt(t, "replaced") EXCEPT !.admitted = FALSE]
<1>5. tab' = [tab EXCEPT ![t] = X]
  BY DEF HearReplaced
<1>6. X.bind = tab[t].bind /\ X.fin = tab[t].fin
  BY <1>1, VOpen DEF Interrupt, TabOK, Loaded
<1> HIDE DEF X
<1> QED
  BY <1>1, <1>2, <1>4, <1>5, <1>6, HeardSame DEF Lawful

LEMMA HearUnheededTells == ASSUME VInv, NEW t \in Tabs, HearUnheeded(t) PROVE Lawful(t)
<1>1. Open(t) /\ row' = row
  BY DEF HearUnheeded, disk
<1>2. Steady
  BY SrvAlike DEF HearUnheeded, VInv, IInv, TypeOK
<1>3. PICK why : tab' = [tab EXCEPT ![t] = [Unheeded(t, why) EXCEPT !.admitted = FALSE]]
  BY DEF HearUnheeded
<1> DEFINE X == [Unheeded(t, why) EXCEPT !.admitted = FALSE]
<1>4. tab' = [tab EXCEPT ![t] = X]
  BY <1>3
<1>5. X.bind = tab[t].bind /\ X.fin = tab[t].fin
  BY <1>1, VOpen DEF Unheeded, TabOK, Loaded
<1> HIDE DEF X
<1> QED
  BY <1>1, <1>2, <1>4, <1>5, RowSame, HeardSame DEF Lawful, VInv

LEMMA UploadUnheededTells == ASSUME VInv, NEW t \in Tabs, UploadUnheeded(t) PROVE Lawful(t)
<1>1. Open(t) /\ Steady
  BY SrvAlike DEF UploadUnheeded
<1>2. row' = IF row = NoMeta THEN row ELSE notePermanentFailure(row, "unauthorized")
  BY DEF UploadUnheeded
<1>3. RowTells
  <2>1. CASE row = NoMeta
    BY <1>2, <2>1, RowNone
  <2>2. CASE row # NoMeta
    BY <1>2, <2>2, VRow, FailureAlike, RowAlike
  <2> QED
    BY <2>1, <2>2
<1> DEFINE X == Unheeded(t, "revoked")
<1>4. tab' = [tab EXCEPT ![t] = X]
  BY DEF UploadUnheeded
<1>5. X.bind = tab[t].bind /\ X.fin = tab[t].fin
  BY <1>1, VOpen DEF Unheeded, TabOK, Loaded
<1> HIDE DEF X
<1> QED
  BY <1>1, <1>3, <1>4, <1>5, HeardSame DEF Lawful

LEMMA BeginUnheededTells == ASSUME VInv, NEW t \in Tabs, BeginUnheeded(t) PROVE Lawful(t)
<1>1. Open(t) /\ row' = row
  BY DEF BeginUnheeded, At, Is, Open, disk
<1>2. Steady
  BY SrvAlike DEF BeginUnheeded, VInv, IInv, TypeOK
<1> DEFINE X == [tab[t] EXCEPT !.start = "idle", !.pending = FALSE, !.rec = "running",
                               !.unheeded = TRUE]
<1>3. tab' = [tab EXCEPT ![t] = X]
  BY DEF BeginUnheeded
<1>4. X.bind = tab[t].bind /\ X.fin = tab[t].fin
  BY <1>1, VOpen DEF TabOK, Loaded
<1> HIDE DEF X
<1> QED
  BY <1>1, <1>2, <1>3, <1>4, RowSame, HeardSame DEF Lawful, VInv

LEMMA UploadRefusedTells == ASSUME VInv, NEW t \in Tabs, UploadRefused(t) PROVE Lawful(t)
<1>1. Open(t) /\ Steady
  BY SrvAlike DEF UploadRefused
<1>2. PICK s \in DOMAIN chunks :
       /\ UploadVerdict(t, s) # "stored"
       /\ LET block   == permanentUploadBlock(UploadVerdict(t, s))
              noted   == IF row = NoMeta THEN row ELSE notePermanentFailure(row, block)
              revoked == isRevokedCredential(t, UploadVerdict(t, s))
          IN /\ row' = (IF revoked THEN Interrupted(t, "revoked", noted) ELSE noted)
             /\ tab' = [tab EXCEPT ![t] = IF revoked THEN Interrupt(t, "revoked") ELSE @]
  BY DEF UploadRefused
<1> DEFINE block   == permanentUploadBlock(UploadVerdict(t, s))
           noted   == IF row = NoMeta THEN row ELSE notePermanentFailure(row, block)
           revoked == isRevokedCredential(t, UploadVerdict(t, s))
           X       == IF revoked THEN Interrupt(t, "revoked") ELSE tab[t]
<1>3. block \in Blocks
  BY <1>2, BlockFacts
<1>4. row' = (IF revoked THEN Interrupted(t, "revoked", noted) ELSE noted)
  BY <1>2
<1>5. tab' = [tab EXCEPT ![t] = X]
  BY <1>2
<1> HIDE DEF block, revoked
<1>6. RowTells
  <2>1. CASE row = NoMeta
    <3>1. row' = NoMeta
      BY <1>4, <2>1 DEF Interrupted
    <3> QED
      BY <2>1, <3>1, RowNone
  <2>2. CASE row # NoMeta
    <3>1. noted \in Meta /\ Alike(row, noted)
      BY <2>2, <1>3, VRow, FailureFacts, FailureAlike
    <3> HIDE DEF noted
    <3>2. Alike(row, row')
      BY <1>4, <3>1, InterruptedAlike, AlikeTwice
    <3> QED
      BY <2>2, <3>2, RowAlike
  <2> QED
    BY <2>1, <2>2
<1>7. X.bind = tab[t].bind /\ X.fin = tab[t].fin
  BY <1>1, VOpen DEF Interrupt, TabOK, Loaded
<1> HIDE DEF X
<1> QED
  BY <1>1, <1>5, <1>6, <1>7, HeardSame DEF Lawful

LEMMA BeginTells == ASSUME VInv, NEW t \in Tabs, Begin(t) PROVE Lawful(t)
<1>1. Open(t)
  BY DEF Begin, At, Is, Open
<1>2. Steady
  BY SrvAlike DEF Begin, VInv, IInv, TypeOK
<1> DEFINE d == Declared(IF "revoked" \in tab[t].out THEN "revoked" ELSE "replaced", row)
<1>3. row' = IF tab[t].out = {} \/ row = NoMeta THEN row ELSE holdForRecorderFlush(d)
  BY DEF Begin
<1>4. RowTells
  <2>1. CASE row' = row
    BY <2>1, RowSame DEF VInv
  <2>2. CASE row # NoMeta /\ row' = holdForRecorderFlush(d)
    <3>1. d \in Meta /\ Alike(row, d)
      BY <2>2, VRow, DeclaredFacts, DeclaredAlike
    <3> HIDE DEF d
    <3> QED
      BY <2>2, <3>1, HoldAlike, AlikeTwice, RowAlike
  <2> QED
    BY <1>3, <2>1, <2>2
<1> DEFINE b == tab[t].out # {}
           X == [tab[t] EXCEPT !.start = "idle", !.pending = FALSE, !.rec = "running", !.stop = b]
<1>5. tab' = [tab EXCEPT ![t] = X]
  BY DEF Begin
<1> HIDE DEF b
<1>6. X.bind = tab[t].bind /\ X.fin = tab[t].fin
  BY <1>1, VOpen DEF TabOK, Loaded
<1> HIDE DEF X
<1> QED
  BY <1>1, <1>2, <1>4, <1>5, <1>6, HeardSame DEF Lawful

LEMMA AbandonTells == ASSUME VInv, NEW t \in Tabs, Abandon(t) PROVE Lawful(t)
<1>1. Open(t) /\ Steady
  BY SrvAlike DEF Abandon, At, Is, Open
<1>2. row' \in {NoMeta, persistRecorderLost(row)} /\ (row = NoMeta => row' = NoMeta)
  BY DEF Abandon, Abandoned
<1>3. RowTells
  BY <1>2, VRow, DeclareAlike, RowAlike, RowNone
<1> DEFINE X == [tab[t] EXCEPT !.start = "idle"]
<1>4. tab' = [tab EXCEPT ![t] = X]
  BY DEF Abandon, Set
<1>5. X.bind = tab[t].bind /\ X.fin = tab[t].fin
  BY <1>1, VOpen DEF TabOK, Loaded
<1> QED
  BY <1>1, <1>3, <1>4, <1>5, HeardSame DEF Lawful

LEMMA PersistFailsTells == ASSUME VInv, NEW t \in Tabs, PersistFails(t) PROVE Lawful(t)
<1>1. Open(t) /\ Steady
  BY SrvAlike DEF PersistFails
<1> DEFINE l == persistRecorderLost(row)
           o == [l EXCEPT !.operator = TRUE]
<1>2. row' \in {row, holdForRecorderFlush(o), o} /\ (row = NoMeta => row' = row)
  BY DEF PersistFails
<1>3. RowTells
  <2>1. CASE row = NoMeta
    BY <1>2, <2>1, RowNone
  <2>2. CASE row # NoMeta
    <3>1. l \in Meta /\ Alike(row, l)
      BY <2>2, VRow, DeclareFacts, DeclareAlike
    <3> HIDE DEF l
    <3>2. o \in Meta /\ Alike(row, o)
      BY <3>1, FlagFacts, FieldAlike, AlikeTwice
    <3> HIDE DEF o
    <3>3. Alike(row, row')
      BY <1>2, <3>2, HoldAlike, AlikeTwice DEF Alike
    <3> QED
      BY <2>2, <3>3, RowAlike
  <2> QED
    BY <2>1, <2>2
<1> DEFINE X == [tab[t] EXCEPT !.buf = @ - 1, !.gap = TRUE]
<1>4. tab' = [tab EXCEPT ![t] = X]
  BY DEF PersistFails
<1>5. X.bind = tab[t].bind /\ X.fin = tab[t].fin
  BY <1>1, VOpen DEF TabOK, Loaded
<1> HIDE DEF X
<1> QED
  BY <1>1, <1>3, <1>4, <1>5, HeardSame DEF Lawful

LEMMA commitRecorderStopTells ==
  ASSUME VInv, NEW t \in Tabs, commitRecorderStop(t) PROVE Lawful(t)
<1>1. Open(t) /\ Steady
  BY SrvAlike DEF commitRecorderStop
<1> DEFINE d == declareStop(row, tab[t])
<1>2. row' = IF row = NoMeta THEN row ELSE releaseRecorderFlush(d)
  BY DEF commitRecorderStop
<1>3. RowTells
  <2>1. CASE row = NoMeta
    BY <1>2, <2>1, RowNone
  <2>2. CASE row # NoMeta
    <3>1. tab[t].gap \in BOOLEAN
      BY <1>1, VOpen DEF TabOK
    <3>2. d \in Meta /\ Alike(row, d)
      BY <2>2, <3>1, VRow, DeclareStopFacts, DeclareStopAlike
    <3> HIDE DEF d
    <3>3. Alike(row, row')
      BY <1>2, <2>2, <3>2, ReleaseAlike, AlikeTwice
    <3> QED
      BY <2>2, <3>3, RowAlike
  <2> QED
    BY <2>1, <2>2
<1> DEFINE X == [tab[t] EXCEPT !.commit = FALSE, !.asLost = FALSE]
<1>4. tab' = [tab EXCEPT ![t] = X]
  BY DEF commitRecorderStop, Committed
<1>5. X.bind = tab[t].bind /\ X.fin = tab[t].fin
  BY <1>1, VOpen DEF TabOK, Loaded
<1> HIDE DEF X
<1> QED
  BY <1>1, <1>3, <1>4, <1>5, HeardSame DEF Lawful

LEMMA PurgeTells == ASSUME VInv, NEW t \in Tabs, Purge(t) PROVE Lawful(t)
<1>1. row' = NoMeta /\ tab' = tab /\ Steady
  BY SrvAlike DEF Purge
<1> QED
  BY <1>1, HeardStill DEF Lawful, RowTells

LEMMA OpenUploadTells == ASSUME VInv, NEW t \in Tabs, OpenUpload(t) PROVE Lawful(t)
<1>1. Steady /\ row # NoMeta
  BY SrvAlike
     DEF OpenUpload, offersUploadCode, findUnfinishedUploadSessions, showUploadCodeEntry
<1>2. PICK left : row' \in clearUnauthorizedUploadBlock(row, left)
  BY DEF OpenUpload, resumeUnauthorizedUploads
<1>3. RowTells
  BY <1>1, <1>2, VRow, UnblockAlike, RowAlike
<1>4. tab' = [tab EXCEPT ![t] = Loaded("upload")]
  BY DEF OpenUpload, Load
<1>5. Loaded("upload").bind.pc = "due" /\ Loaded("upload").fin.pc = "off"
  BY DEF Loaded, Off
<1> QED
  BY <1>1, <1>3, <1>4, <1>5, HeardLoad DEF Lawful

LEMMA ArmTells == ASSUME VInv, NEW t \in Tabs, Arm(t) PROVE Lawful(t)
<1>1. Open(t) /\ Steady
  BY SrvAlike DEF Arm, At, Is, Open
<1>2. row = NoMeta /\ row' = emptyMeta
  BY <1>1, OpenFacts DEF Arm, At, startBlocked, Sound, VInv
<1>3. RowTells
  BY <1>2, Apart DEF RowTells, emptyMeta
<1> DEFINE X == [tab[t] EXCEPT !.start = "armed"]
<1>4. tab' = [tab EXCEPT ![t] = X]
  BY DEF Arm, Set
<1>5. X.bind = tab[t].bind /\ X.fin = tab[t].fin
  BY <1>1, VOpen DEF TabOK, Loaded
<1> QED
  BY <1>1, <1>3, <1>4, <1>5, HeardSame DEF Lawful

LEMMA persistBlobTells == ASSUME VInv, NEW t \in Tabs, persistBlob(t) PROVE Lawful(t)
<1>1. Open(t) /\ Steady
  BY SrvAlike DEF persistBlob
<1> DEFINE m == IF row = NoMeta THEN emptyMeta ELSE row
<1>2. row' = [m EXCEPT !.next = @ + 1]
  BY DEF persistBlob, storeChunkAndBumpSequence, buildStoredChunk
<1>3. m \in Meta
  BY VRow, EmptyFacts
<1>4. row = NoMeta => m.server = "none"
  BY DEF emptyMeta
<1>5. row # NoMeta => m = row
  OBVIOUS
<1> HIDE DEF m
<1>6. row'.server = m.server
  BY <1>2, <1>3 DEF Meta
<1>7. RowTells
  BY <1>4, <1>5, <1>6, Apart DEF RowTells, Tells
<1> DEFINE X == [tab[t] EXCEPT !.buf = tab[t].buf - 1]
<1>8. tab' = [tab EXCEPT ![t] = X]
  BY DEF persistBlob, Set
<1>9. X.bind = tab[t].bind /\ X.fin = tab[t].fin
  BY <1>1, VOpen DEF TabOK, Loaded
<1> HIDE DEF X
<1> QED
  BY <1>1, <1>7, <1>8, <1>9, HeardSame DEF Lawful

-----------------------------------------------------------------------------
(***************************************************************************)
(* Steps that bring the server's word.                                     *)
(***************************************************************************)
LEMMA ReconcileMergesTells == ASSUME VInv, NEW t \in Tabs, ReconcileMerges(t) PROVE Lawful(t)
<1>1. Open(t) /\ Steady /\ srv' = srv
  BY SrvAlike DEF ReconcileMerges
<1>2. /\ tab[t].bind.pc \in Servers \cup {"failed"}
      /\ row' = IF row = NoMeta THEN row ELSE mergeReload(row, tab[t].bind.pc, tab[t].bind.here)
  BY DEF ReconcileMerges
<1>3. RowTells
  <2>1. CASE row = NoMeta
    BY <1>2, <2>1, RowNone
  <2>2. CASE row # NoMeta
    <3>1. Tells(row, mergeReload(row, tab[t].bind.pc, tab[t].bind.here), srv.fin)
      BY <1>1, <1>2, <2>2, VRow, VOpen, MergeTells DEF VInv, IInv, TypeOK
    <3> QED
      BY <1>1, <1>2, <2>2, <3>1 DEF RowTells
  <2> QED
    BY <2>1, <2>2
<1> DEFINE X == [tab[t] EXCEPT !.bind = Off]
<1>4. tab' = [tab EXCEPT ![t] = X]
  BY DEF ReconcileMerges, Set
<1>5. X.bind.pc = "off" /\ X.fin = tab[t].fin
  BY <1>1, VOpen DEF TabOK, Loaded, Off
<1> QED
  BY <1>1, <1>3, <1>4, <1>5, HeardSame DEF Lawful

LEMMA StatusRow ==
  ASSUME VInv, row # NoMeta, Steady, srv'.fin \in Servers,
         NEW state \in Servers, True(state, srv'.fin), row' = applyServerStatus(row, state)
  PROVE  RowTells
<1>1. row \in Meta /\ True(row.server, srv'.fin)
  BY VRow DEF Steady, True
<1> QED
  BY <1>1, StatusTells DEF RowTells, Tells

LEMMA uploadNextChunkTells == ASSUME VInv, NEW t \in Tabs, uploadNextChunk(t) PROVE Lawful(t)
<1>1. PICK s \in DOMAIN chunks : srv' = Stored(s) /\ (row' \in Told(row) \/ row' = row)
  BY DEF uploadNextChunk
<1>2. Steady /\ srv'.fin \in Servers /\ tab' = tab
  BY <1>1, StoredSteady, ServerFacts DEF uploadNextChunk, VInv
<1>3. RowTells
  <2>1. CASE row' = row
    BY <2>1, RowSame DEF VInv
  <2>2. CASE row # NoMeta /\ row' = applyServerStatus(row, srv'.fin)
    BY <1>2, <2>2, StatusRow DEF True
  <2> QED
    BY <1>1, <2>1, <2>2 DEF Told
<1> QED
  BY <1>2, <1>3, HeardStill DEF Lawful

LEMMA sendFinalizeIfDueTells ==
  ASSUME VInv, NEW t \in Tabs, sendFinalizeIfDue(t) PROVE Lawful(t)
<1>1. Open(t) /\ row' = row /\ row # NoMeta /\ row.payload # NoPayload
  BY DEF sendFinalizeIfDue, disk, finalizeDue
<1> DEFINE verdict == FinalizeVerdict(t, row.payload)
<1>2. srv' = IF verdict = "accepted" THEN Finalized(row.payload) ELSE srv
  BY DEF sendFinalizeIfDue
<1>3. row.payload \in [final : Int, lost : BOOLEAN]
  BY <1>1, VRow DEF Meta
<1>4. Steady
  BY <1>1, <1>2, <1>3, FinalizedSteady, SrvAlike
<1>5. PICK answer \in {IF verdict = "accepted" THEN srv'.fin ELSE permanentUploadBlock(verdict), "failed"} :
        tab' = [tab EXCEPT ![t].fin = [pc |-> answer, payload |-> row.payload, stamp |-> row.stamp]]
  BY DEF sendFinalizeIfDue, Set
<1>6. True(answer, srv'.fin)
  <2>1. CASE verdict = "accepted"
    BY <1>5, <2>1, Apart DEF True
  <2>2. CASE verdict # "accepted"
    BY <1>5, <2>2, RefusalFacts, Apart DEF True
  <2> QED
    BY <2>1, <2>2
<1> DEFINE f == [pc |-> answer, payload |-> row.payload, stamp |-> row.stamp]
           X == [tab[t] EXCEPT !.fin = f]
<1>7. tab' = [tab EXCEPT ![t] = X]
  BY <1>5
<1>8. f.pc = answer
  OBVIOUS
<1> HIDE DEF f
<1>9. X.bind = tab[t].bind /\ X.fin = f
  BY <1>1, VOpen DEF TabOK, Loaded
<1>10. True(tab[t].bind.pc, srv'.fin)
  BY <1>1, <1>4, VOpen DEF Steady, True
<1>11. TabTrue(X, srv'.fin)
  BY <1>6, <1>8, <1>9, <1>10 DEF TabTrue
<1> HIDE DEF X
<1>12. Heard(t)
  BY <1>7, <1>11 DEF Heard, VInv, IInv, TypeOK
<1> QED
  BY <1>1, <1>4, <1>12, RowSame DEF Lawful, VInv

LEMMA FinalizeAnsweredTells ==
  ASSUME VInv, NEW t \in Tabs, FinalizeAnswered(t) PROVE Lawful(t)
<1>1. Open(t) /\ Steady /\ srv' = srv
  BY SrvAlike DEF FinalizeAnswered
<1> DEFINE f == tab[t].fin
<1>2. f.pc \in Answered \cup Blocks \cup {"failed"}
  BY DEF FinalizeAnswered
<1>3. row' \in {row} \/ (row # NoMeta /\ f.pc \in Blocks /\ row' = notePermanentFailure(row, f.pc))
        \/ (row # NoMeta /\ f.pc \notin Blocks \cup {"failed"} /\ row' = applyServerStatus(row, f.pc))
  BY DEF FinalizeAnswered
<1>4. True(f.pc, srv'.fin)
  BY <1>1, VOpen
<1> HIDE DEF f
<1>5. f.pc \notin Blocks \cup {"failed"} => f.pc \in Servers
  BY <1>2 DEF Answered, Servers
<1>6. srv'.fin \in Servers
  BY <1>1 DEF VInv, IInv, TypeOK
<1>7. RowTells
  <2>1. CASE row' = row
    BY <2>1, RowSame DEF VInv
  <2>2. CASE row # NoMeta /\ f.pc \in Blocks /\ row' = notePermanentFailure(row, f.pc)
    BY <2>2, VRow, FailureAlike, RowAlike
  <2>3. CASE row # NoMeta /\ f.pc \notin Blocks \cup {"failed"} /\ row' = applyServerStatus(row, f.pc)
    BY <1>1, <1>4, <1>5, <1>6, <2>3, StatusRow
  <2> QED
    BY <1>3, <2>1, <2>2, <2>3
<1> DEFINE X == [tab[t] EXCEPT !.fin = Off]
<1>8. tab' = [tab EXCEPT ![t] = X]
  BY DEF FinalizeAnswered, Set
<1>9. X.bind = tab[t].bind /\ X.fin.pc = "off"
  BY <1>1, VOpen DEF TabOK, Loaded, Off
<1> QED
  BY <1>1, <1>7, <1>8, <1>9, HeardSame DEF Lawful

-----------------------------------------------------------------------------
LEMMA VInit == Init => VInv
<1> SUFFICES ASSUME Init PROVE VInv
  OBVIOUS
<1>1. IInv
  BY Initial
<1>2. SrvSound /\ row = NoMeta /\ \A t \in Tabs : tab[t] = Closed
  BY DEF Init, SrvSound
<1> QED
  BY <1>1, <1>2 DEF VInv, TabTrue

LEMMA LawfulOK == ASSUME VInv, [Next]_vars, NEW t \in Tabs, Lawful(t) PROVE VerdictOK
<1>1. IInv'
  BY NextOK DEF VInv, StepOK
<1> QED
  BY <1>1, TellsOK DEF Lawful

LEMMA VNext == ASSUME VInv, [Next]_vars PROVE VerdictOK
<1>1. ASSUME NEW t \in Tabs, Starting(t) PROVE VerdictOK
  BY <1>1, LawfulOK, StartTells, PromptFailsTells, ClaimGrantedTells, claimWithRetryTells,
     ClaimRefusedTells, ArmTells, StartRefusedTells, BeginTells, BeginUnheededTells,
     BeginThrowsTells, AbandonTells
     DEF Starting
<1>2. ASSUME NEW t \in Tabs, Recording(t) PROVE VerdictOK
  BY <1>2, LawfulOK, SliceTells, persistBlobTells, PersistFailsTells, stopRecordingTells,
     notePageHideTells, handleRecorderStopTells, commitRecorderStopTells, CommitFailsTells
     DEF Recording
<1>3. ASSUME NEW t \in Tabs, Hear(t) \/ Bind(t) PROVE VerdictOK
  BY <1>3, LawfulOK, HearRevokedTells, HearReplacedTells, HearUnheededTells, InterruptStopsTells,
     ReconcileIdleTells, ReconcileReadsTells, ReconcileMergesTells DEF Hear, Bind
<1>4. ASSUME NEW t \in Tabs, Pump(t) \/ Finalize(t) PROVE VerdictOK
  BY <1>4, LawfulOK, PurgeTells, uploadNextChunkTells, UploadRefusedTells, UploadUnheededTells,
     sendFinalizeIfDueTells, FinalizeAnsweredTells DEF Pump, Finalize
<1>5. ASSUME NEW t \in Tabs, Page(t) PROVE VerdictOK
  BY <1>5, LawfulOK, OpenTells, OpenUploadTells, CloseTells, AdmitTells DEF Page
<1>6. CASE UNCHANGED vars
  <2>1. UNCHANGED <<row, tab, srv>> /\ IInv'
    BY <1>6, NextOK DEF VInv, StepOK, vars
  <2> QED
    BY <2>1 DEF VerdictOK, VInv, SrvSound, Stands, True
<1> QED
  BY <1>1, <1>2, <1>3, <1>4, <1>5, <1>6, ServiceSteady DEF Next

\* A verdict the row has learnt stands, and is the server's: neither an answer
\* that was on its way, nor a reload, nor another tab's declaration changes it
\* (applyServerStatus, sendFinalizeIfDue, reconcile).
THEOREM VerdictCorrect == Spec => VerdictHolds
<1>1. Init => VInv
  BY VInit
<1>2. VInv /\ [Next]_vars => VInv'
  BY VNext DEF VerdictOK
<1>3. VInv /\ [Next]_vars => [Stands]_vars
  BY VNext DEF VerdictOK
<1>4. Spec => [][Stands]_vars
  BY <1>1, <1>2, <1>3, PTL DEF Spec
<1> QED
  BY <1>4 DEF VerdictHolds, Stands
=============================================================================

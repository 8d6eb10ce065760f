-------------------------- MODULE StudentTakeProofs --------------------------
(***************************************************************************)
(* Proofs of NormalIsWhole and StoredIsKept of StudentRecording, for any   *)
(* number of tabs, slices, loads and faults.                               *)
(***************************************************************************)
EXTENDS StudentVerdictProofs

(* A change of the row that gives no sequence out and declares no normal   *)
(* end of the take.                                                        *)
Alters(m, n) ==
  /\ n.rec # NoMeta.rec /\ n.next = m.next
  /\ IF n.rec = "stopped" THEN m.rec = "stopped" /\ n.payload = m.payload
     ELSE n.payload.lost \/ (n.payload = m.payload /\ m.rec # "stopped")

(* A normal end is declared of all the recorder has delivered.             *)
Plain(m, n) ==
  IF m.rec = "stopped" THEN m.next = n /\ m.payload.final = m.next - 1
  ELSE m.payload = NoPayload \/ m.payload.lost

(* What the recorder of the tab that works has delivered is stored or on   *)
(* its persist chain, if no slice was lost.                                *)
Counts(T, m, n) == Works(T) /\ ~T.gap => n = m.next + T.buf

(* A take that may still be recorded has declared no normal end, and the   *)
(* server can at most have closed it.                                      *)
Ongoing == srv.take # "gone" \/ \E t \in Tabs : Works(tab[t])
Unended == {"none", "incomplete"}

NInv ==
  /\ VInv
  /\ \A t \in Tabs : Orderly(tab[t], srv.take, lock)
  /\ \A t \in Tabs : Works(tab[t]) => lock = t /\ row # NoMeta
  /\ Ongoing => srv.fin \in Unended /\ (row # NoMeta => row.rec # "stopped")
  /\ srv.take # "gone" => captured = 0
  /\ \A t \in Tabs : Counts(tab[t], row, captured)
  /\ row # NoMeta => Plain(row, captured)

(* A step of tab t that delivers and stores no slice, and begins no work.  *)
RowAlters ==
  /\ row' # NoMeta => row # NoMeta /\ Alters(row, row')
  /\ row # NoMeta /\ row' = NoMeta => \A u \in Tabs : ~Works(tab[u])
TabCounts(t) ==
  /\ \A u \in Tabs \ {t} : tab'[u] = tab[u]
  /\ Works(tab'[t]) => /\ Works(tab[t])
                       /\ ~tab'[t].gap => ~tab[t].gap /\ tab'[t].buf = tab[t].buf
  /\ Orderly(tab'[t], srv'.take, lock')
LockCounts(t) == lock' = lock \/ (lock' = NoTab /\ lock = t /\ ~Works(tab'[t]))
Goes          == srv.take = "gone" => srv'.take = "gone"
SrvCounts     == Goes /\ (Ongoing => srv'.fin \in Unended)
Tally(t)      == captured' = captured /\ RowAlters /\ TabCounts(t) /\ LockCounts(t) /\ SrvCounts

-----------------------------------------------------------------------------
(***************************************************************************)
(* Only the stop button declares a normal end.                             *)
(***************************************************************************)
LEMMA AltersTwice ==
  ASSUME NEW m, NEW n, NEW o, Alters(m, n), Alters(n, o) PROVE Alters(m, o)
BY DEF Alters

LEMMA AltersSame == \A m \in Meta : Alters(m, m)
BY DEF Alters, Meta, NoMeta

LEMMA FieldAlters ==
  ASSUME NEW m \in Meta, NEW v
  PROVE  /\ Alters(m, [m EXCEPT !.operator = v]) /\ Alters(m, [m EXCEPT !.flush = v])
         /\ Alters(m, [m EXCEPT !.stamp = @ + 1])
BY DEF Alters, Meta, NoMeta

LEMMA LostAlters == ASSUME NEW m \in Meta PROVE Alters(m, persistRecorderLost(m))
<1>1. /\ persistRecorderLost(m).rec = "lost" /\ persistRecorderLost(m).payload = Declaration(m, TRUE)
      /\ persistRecorderLost(m).next = m.next
  BY DEF persistRecorderLost, Meta
<1> QED
  BY <1>1 DEF Alters, Declaration, NoMeta

LEMMA FailureAlters ==
  ASSUME NEW m \in Meta, NEW block PROVE Alters(m, notePermanentFailure(m, block))
BY DEF notePermanentFailure, Alters, Meta, NoMeta

LEMMA ReblockedAlters == \A m \in Meta : Alters(m, Reblocked(m))
BY FailureAlters, AltersSame DEF Reblocked

LEMMA DeclaredAlters == ASSUME NEW m \in Meta, NEW why PROVE Alters(m, Declared(why, m))
<1> DEFINE lost == persistRecorderLost(m)
           op   == [lost EXCEPT !.operator = TRUE]
<1>1. lost \in Meta /\ Alters(m, lost)
  BY DeclareFacts, LostAlters
<1> HIDE DEF lost
<1>2. op \in Meta /\ Alters(lost, op)
  BY <1>1, FlagFacts, FieldAlters
<1> HIDE DEF op
<1>3. Alters(m, Reblocked(op))
  BY <1>1, <1>2, ReblockedAlters, AltersTwice
<1>4. persistInterrupted(m) \in {m, Reblocked(op)} /\ persistReplaced(m) \in {m, lost}
  BY DEF persistInterrupted, persistReplaced, op, lost
<1> QED
  BY <1>1, <1>3, <1>4, AltersSame DEF Declared

LEMMA HoldAlters == \A m \in Meta : Alters(m, holdForRecorderFlush(m))
BY FieldAlters, AltersSame DEF holdForRecorderFlush

LEMMA ReleaseAlters == ASSUME NEW m \in Meta PROVE Alters(m, releaseRecorderFlush(m))
<1> DEFINE free == [m EXCEPT !.flush = FALSE]
           lost == persistRecorderLost(free)
           anew == [lost EXCEPT !.stamp = @ + 1]
<1>1. releaseRecorderFlush(m) \in {free, Reblocked(anew)}
  BY DEF releaseRecorderFlush
<1>2. free \in Meta /\ Alters(m, free)
  BY FlagFacts, FieldAlters
<1> HIDE DEF free
<1>3. lost \in Meta /\ Alters(free, lost)
  BY <1>2, DeclareFacts, LostAlters
<1> HIDE DEF lost
<1>4. anew \in Meta /\ Alters(lost, anew)
  BY <1>3, FlagFacts, FieldAlters
<1> HIDE DEF anew
<1>5. Alters(anew, Reblocked(anew))
  BY <1>4, ReblockedAlters
<1> QED
  BY <1>1, <1>2, <1>3, <1>4, <1>5, AltersTwice

LEMMA InterruptedAlters ==
  ASSUME NEW m \in Meta, NEW t, NEW why PROVE Alters(m, Interrupted(t, why, m))
<1> DEFINE d == Declared(why, m)
<1>1. d \in Meta /\ Alters(m, d)
  BY DeclaredFacts, DeclaredAlters
<1>2. Interrupted(t, why, m) \in {m, holdForRecorderFlush(d)}
  BY DEF Interrupted
<1> HIDE DEF d
<1>3. Alters(m, m) /\ Alters(m, holdForRecorderFlush(d))
  BY <1>1, HoldAlters, AltersTwice, AltersSame
<1> QED
  BY <1>2, <1>3

LEMMA UnblockAlters ==
  ASSUME NEW m \in Meta, NEW remaining, NEW n \in clearUnauthorizedUploadBlock(m, remaining)
  PROVE  Alters(m, n)
<1>1. CASE m.block # "unauthorized"
  BY <1>1, AltersSame DEF clearUnauthorizedUploadBlock
<1>2. CASE m.block = "unauthorized"
  <2> DEFINE resumed == m.payload # NoPayload /\ ~Settled(m) /\ remaining \cap stopsFinalize = {}
             o == remaining # {} \/ (m.rec = "lost" /\ m.operator)
             p == m.pending \/ resumed
  <2>1. PICK b \in IF remaining = {} THEN {"none"} ELSE remaining :
          n = [m EXCEPT !.block = b, !.operator = o, !.pending = p]
    BY <1>2 DEF clearUnauthorizedUploadBlock
  <2> HIDE DEF o, p
  <2> QED
    BY <2>1 DEF Alters, Meta, NoMeta
<1> QED
  BY <1>1, <1>2

LEMMA StatusAlters ==
  ASSUME NEW m \in Meta, NEW state \in Servers PROVE Alters(m, applyServerStatus(m, state))
<1> DEFINE held == IF m.server \in Terminal /\ state \notin Terminal THEN m.server ELSE state
<1>1. applyServerStatus(m, state) =
        CASE held = "complete"   -> [m EXCEPT !.server = held, !.confirmed = TRUE, !.pending = FALSE]
          [] held = "incomplete" -> [m EXCEPT !.server = held, !.confirmed = FALSE, !.pending = FALSE]
          [] OTHER               -> [m EXCEPT !.server = held]
  BY DEF applyServerStatus
<1> HIDE DEF held
<1> QED
  BY <1>1 DEF Alters, Meta, NoMeta

LEMMA MergeAlters ==
  ASSUME NEW m \in Meta, NEW pc \in Servers \cup {"failed"}, NEW here
  PROVE  Alters(m, mergeReload(m, pc, here))
<1> DEFINE n == IF pc = "failed" THEN m ELSE applyServerStatus(m, pc)
           l == IF planReload(n) = "recorder_lost" /\ ~here THEN persistRecorderLost(n) ELSE n
<1>1. n \in Meta /\ Alters(m, n)
  BY StatusFacts, StatusAlters, AltersSame
<1>2. mergeReload(m, pc, here) \in {l, releaseRecorderFlush(l)}
  BY DEF mergeReload
<1> HIDE DEF n
<1>3. l \in Meta /\ Alters(n, l)
  BY <1>1, DeclareFacts, LostAlters, AltersSame
<1> HIDE DEF l
<1> QED
  BY <1>1, <1>2, <1>3, ReleaseAlters, AltersTwice

LEMMA PlainKept == ASSUME NEW m, NEW n, NEW c, Alters(m, n), Plain(m, c) PROVE Plain(n, c)
BY DEF Alters, Plain

-----------------------------------------------------------------------------
LEMMA NOpen ==
  ASSUME NInv, NEW t \in Tabs, Open(t)
  PROVE  /\ TabOK(tab[t]) /\ Sound(t, tab[t], srv.take, row) /\ tab[t] # Closed
         /\ Orderly(tab[t], srv.take, lock)
BY OpenFacts DEF NInv, VInv, Open, Is, Closed

LEMMA NRow == ASSUME NInv, row # NoMeta PROVE row \in Meta
BY RowType DEF NInv, VInv

LEMMA NTab ==
  ASSUME NInv, NEW t \in Tabs, NEW X, tab' = [tab EXCEPT ![t] = X]
  PROVE  tab'[t] = X /\ \A u \in Tabs \ {t} : tab'[u] = tab[u]
BY DEF NInv, VInv, IInv, TypeOK

LEMMA TallyOK == ASSUME NInv, VInv', NEW t \in Tabs, Tally(t) PROVE NInv'
<1>1. captured' = captured /\ (srv'.take # "gone" => captured' = 0)
  BY DEF Tally, SrvCounts, Goes, NInv
<1>2. row' # NoMeta => Plain(row', captured')
  BY <1>1, PlainKept DEF Tally, RowAlters, NInv
<1>3. ASSUME NEW u \in Tabs, Works(tab'[u])
      PROVE  /\ Works(tab[u]) /\ row # NoMeta /\ row' # NoMeta /\ lock' = u
             /\ ~tab'[u].gap => ~tab[u].gap /\ tab'[u].buf = tab[u].buf
  <2>1. Works(tab[u]) /\ (~tab'[u].gap => ~tab[u].gap /\ tab'[u].buf = tab[u].buf)
    BY <1>3 DEF Tally, TabCounts
  <2>2. lock = u /\ row # NoMeta /\ row' # NoMeta
    BY <2>1 DEF NInv, Tally, RowAlters
  <2> QED
    BY <1>3, <2>1, <2>2 DEF Tally, LockCounts
<1>4. ASSUME NEW u \in Tabs PROVE Counts(tab'[u], row', captured')
  BY <1>1, <1>3 DEF Counts, NInv, Tally, RowAlters, Alters
<1>5. ASSUME NEW u \in Tabs PROVE Orderly(tab'[u], srv'.take, lock')
  <2>1. CASE u = t
    BY <2>1 DEF Tally, TabCounts
  <2>2. CASE u # t
    <3>1. tab'[u] = tab[u] /\ Orderly(tab[u], srv.take, lock)
      BY <2>2 DEF Tally, TabCounts, NInv
    <3> QED
      BY <3>1 DEF Tally, LockCounts, SrvCounts, Goes, Orderly
  <2> QED
    BY <2>1, <2>2
<1>6. Ongoing' => Ongoing
  BY <1>3 DEF Ongoing, Tally, SrvCounts, Goes
<1>7. Ongoing' => srv'.fin \in Unended /\ (row' # NoMeta => row'.rec # "stopped")
  BY <1>6 DEF Tally, RowAlters, Alters, SrvCounts, NInv
<1> QED
  BY <1>1, <1>2, <1>3, <1>4, <1>5, <1>7 DEF NInv

-----------------------------------------------------------------------------
(***************************************************************************)
(* What a tab counts.                                                      *)
(***************************************************************************)
\* The start of its recorder goes on or back, or the recorder stops.
LEMMA TabTally ==
  ASSUME NInv, NEW t \in Tabs, Open(t), NEW X, tab' = [tab EXCEPT ![t] = X], Goes, lock' = lock,
         X.buf = tab[t].buf, X.gap = tab[t].gap, X.commit = tab[t].commit,
         X.rec = tab[t].rec \/ (tab[t].rec = "running" /\ X.rec = "inactive"),
         X.start = tab[t].start \/ X.start \notin {"armed", "abandon"}
  PROVE  TabCounts(t)
<1>1. tab'[t] = X /\ \A u \in Tabs \ {t} : tab'[u] = tab[u]
  BY NTab
<1>2. Orderly(tab[t], srv.take, lock) /\ tab[t] # Closed
  BY NOpen
<1>3. Orderly(X, srv'.take, lock')
  BY <1>2 DEF Orderly, Goes
<1>4. Works(X) => Works(tab[t])
  BY <1>2 DEF Works
<1> QED
  BY <1>1, <1>3, <1>4 DEF TabCounts

LEMMA StepCounts ==
  ASSUME NInv, NEW t \in Tabs, Goes,
         \/ Start(t) \/ PromptFails(t) \/ ClaimGranted(t) \/ claimWithRetry(t) \/ StartRefused(t)
         \/ ClaimRefused(t) \/ Abandon(t)
  PROVE  TabCounts(t)
<1>1. Open(t) /\ lock' = lock
  BY DEF Start, PromptFails, ClaimGranted, claimWithRetry, StartRefused, ClaimRefused, Abandon,
         Prompted, At, Is, Open, disk
<1>2. TabOK(tab[t])
  BY <1>1, NOpen
<1>3. PICK step \in {"prompt", "granted", "idle"} :
        \E bind, pending, out :
          tab' = [tab EXCEPT ![t] = [@ EXCEPT !.start = step, !.bind = bind, !.pending = pending,
                                              !.out = out]]
  <2>1. CASE Start(t)
    <3>1. tab' = [tab EXCEPT ![t] = [@ EXCEPT !.start = "prompt", !.bind = Rebound(t),
                                              !.pending = tab[t].pending, !.out = tab[t].out]]
      BY <1>2, <2>1 DEF Start, TabOK, Loaded
    <3> QED
      BY <3>1
  <2>2. CASE ClaimGranted(t) \/ claimWithRetry(t)
    <3>1. PICK step \in {"granted", "idle"} :
            tab' = [tab EXCEPT ![t].start = step, ![t].pending = TRUE]
      BY <2>2 DEF ClaimGranted, claimWithRetry
    <3>2. tab' = [tab EXCEPT ![t] = [@ EXCEPT !.start = step, !.bind = tab[t].bind,
                                              !.pending = TRUE, !.out = tab[t].out]]
      BY <1>2, <3>1 DEF TabOK, Loaded
    <3> QED
      BY <3>2
  <2>3. CASE ClaimRefused(t)
    <3> DEFINE kept == ClaimVerdict(t) = "not_admitted"
               o == IF ClaimVerdict(t) = "revoked" THEN Out(t, "revoked") ELSE tab[t].out
    <3>1. tab' = [tab EXCEPT ![t].start = "idle", ![t].pending = kept, ![t].out = o]
      BY <2>3 DEF ClaimRefused
    <3> HIDE DEF kept, o
    <3>2. tab' = [tab EXCEPT ![t] = [@ EXCEPT !.start = "idle", !.bind = tab[t].bind,
                                              !.pending = kept, !.out = o]]
      BY <1>2, <3>1 DEF TabOK, Loaded
    <3> QED
      BY <3>2
  <2>4. CASE PromptFails(t) \/ StartRefused(t) \/ Abandon(t)
    <3>1. tab' = [tab EXCEPT ![t].start = "idle"]
      BY <2>4 DEF PromptFails, StartRefused, Abandon, Set
    <3>2. tab' = [tab EXCEPT ![t] = [@ EXCEPT !.start = "idle", !.bind = tab[t].bind,
                                              !.pending = tab[t].pending, !.out = tab[t].out]]
      BY <1>2, <3>1 DEF TabOK, Loaded
    <3> QED
      BY <3>2
  <2> QED
    BY <2>1, <2>2, <2>3, <2>4
<1>4. PICK bind, pending, out :
        tab' = [tab EXCEPT ![t] = [@ EXCEPT !.start = step, !.bind = bind, !.pending = pending,
                                            !.out = out]]
  BY <1>3
<1> DEFINE X == [tab[t] EXCEPT !.start = step, !.bind = bind, !.pending = pending, !.out = out]
<1>5. tab' = [tab EXCEPT ![t] = X]
  BY <1>4
<1>6. /\ X.buf = tab[t].buf /\ X.gap = tab[t].gap /\ X.rec = tab[t].rec
      /\ X.commit = tab[t].commit /\ X.start = step
  BY <1>2 DEF TabOK, Loaded
<1> HIDE DEF X
<1> QED
  BY <1>1, <1>5, <1>6, TabTally

LEMMA OtherCounts ==
  ASSUME NInv, NEW t \in Tabs, Goes,
         \/ InterruptStops(t) \/ stopRecording(t) \/ notePageHide(t)
         \/ ReconcileIdle(t) \/ ReconcileMerges(t) \/ FinalizeAnswered(t)
         \/ ReconcileReads(t) \/ sendFinalizeIfDue(t)
         \/ Admit(t) \/ Drop(t)
  PROVE  TabCounts(t)
<1>1. Open(t) /\ lock' = lock
  BY DEF InterruptStops, stopRecording, notePageHide, ReconcileIdle, ReconcileReads,
         sendFinalizeIfDue, ReconcileMerges, FinalizeAnswered, Admit, Drop, Is, Open, disk
<1>2. TabOK(tab[t])
  BY <1>1, NOpen
<1>3. PICK X : /\ tab' = [tab EXCEPT ![t] = X]
               /\ X.buf = tab[t].buf /\ X.gap = tab[t].gap
               /\ X.commit = tab[t].commit /\ X.start = tab[t].start
               /\ X.rec = tab[t].rec \/ (tab[t].rec = "running" /\ X.rec = "inactive")
  <2>1. CASE InterruptStops(t)
    <3> DEFINE r == IF tab[t].rec = "running" THEN "inactive" ELSE tab[t].rec
    <3>1. tab' = [tab EXCEPT ![t] = [tab[t] EXCEPT !.stop = FALSE, !.rec = r]]
      BY <1>2, <2>1 DEF InterruptStops, TabOK, Loaded
    <3> HIDE DEF r
    <3> DEFINE X == [tab[t] EXCEPT !.stop = FALSE, !.rec = r]
    <3>2. /\ X.buf = tab[t].buf /\ X.gap = tab[t].gap
          /\ X.commit = tab[t].commit /\ X.start = tab[t].start /\ X.rec = r
      BY <1>2 DEF TabOK, Loaded
    <3> HIDE DEF X
    <3> QED
      BY <3>1, <3>2 DEF X, r
  <2>2. CASE stopRecording(t) \/ notePageHide(t)
    <3>1. PICK lost : tab' = [tab EXCEPT ![t] = [tab[t] EXCEPT !.rec = "inactive", !.asLost = lost]]
      <4>1. CASE stopRecording(t)
        <5>1. tab' = [tab EXCEPT ![t] = [tab[t] EXCEPT !.rec = "inactive", !.asLost = tab[t].asLost]]
          BY <1>2, <4>1 DEF stopRecording, Set, TabOK, Loaded
        <5> QED
          BY <5>1
      <4>2. CASE notePageHide(t)
        BY <4>2 DEF notePageHide
      <4> QED
        BY <2>2, <4>1, <4>2
    <3> DEFINE X == [tab[t] EXCEPT !.rec = "inactive", !.asLost = lost]
    <3>2. /\ X.buf = tab[t].buf /\ X.gap = tab[t].gap
          /\ X.commit = tab[t].commit /\ X.start = tab[t].start /\ X.rec = "inactive"
      BY <1>2 DEF TabOK, Loaded
    <3>3. tab[t].rec = "running"
      BY <2>2 DEF stopRecording, notePageHide
    <3> HIDE DEF X
    <3> QED
      BY <3>1, <3>2, <3>3 DEF X
  <2>3. CASE \E b : tab' = [tab EXCEPT ![t].bind = b]
    <3>1. PICK b : tab' = [tab EXCEPT ![t].bind = b]
      BY <2>3
    <3> DEFINE X == [tab[t] EXCEPT !.bind = b]
    <3>2. /\ X.buf = tab[t].buf /\ X.gap = tab[t].gap
          /\ X.commit = tab[t].commit /\ X.start = tab[t].start /\ X.rec = tab[t].rec
      BY <1>2 DEF TabOK, Loaded
    <3>3. tab' = [tab EXCEPT ![t] = X]
      BY <3>1
    <3> HIDE DEF X
    <3> QED
      BY <3>2, <3>3
  <2>4. CASE \E f : tab' = [tab EXCEPT ![t].fin = f]
    <3>1. PICK f : tab' = [tab EXCEPT ![t].fin = f]
      BY <2>4
    <3> DEFINE X == [tab[t] EXCEPT !.fin = f]
    <3>2. /\ X.buf = tab[t].buf /\ X.gap = tab[t].gap
          /\ X.commit = tab[t].commit /\ X.start = tab[t].start /\ X.rec = tab[t].rec
      BY <1>2 DEF TabOK, Loaded
    <3>3. tab' = [tab EXCEPT ![t] = X]
      BY <3>1
    <3> HIDE DEF X
    <3> QED
      BY <3>2, <3>3
  <2>5. CASE \E a : tab' = [tab EXCEPT ![t].admitted = a]
    <3>1. PICK a : tab' = [tab EXCEPT ![t].admitted = a]
      BY <2>5
    <3> DEFINE X == [tab[t] EXCEPT !.admitted = a]
    <3>2. /\ X.buf = tab[t].buf /\ X.gap = tab[t].gap
          /\ X.commit = tab[t].commit /\ X.start = tab[t].start /\ X.rec = tab[t].rec
      BY <1>2 DEF TabOK, Loaded
    <3>3. tab' = [tab EXCEPT ![t] = X]
      BY <3>1
    <3> HIDE DEF X
    <3> QED
      BY <3>2, <3>3
  <2> QED
    BY <2>1, <2>2, <2>3, <2>4, <2>5 DEF ReconcileIdle, ReconcileMerges, FinalizeAnswered,
       ReconcileReads, sendFinalizeIfDue, Admit, Drop, Set
<1> QED
  BY <1>1, <1>3, TabTally

LEMMA OpenCounts ==
  ASSUME NInv, NEW t \in Tabs, NEW page, Load(t, page) PROVE TabCounts(t)
<1>1. tab'[t] = Loaded(page) /\ \A u \in Tabs \ {t} : tab'[u] = tab[u]
  BY NTab DEF Load
<1>2. ~Works(Loaded(page)) /\ Orderly(Loaded(page), srv'.take, lock')
  BY DEF Works, Orderly, Loaded
<1> QED
  BY <1>1, <1>2 DEF TabCounts

LEMMA CloseTally == ASSUME NInv, NEW t \in Tabs, Close(t) PROVE Tally(t)
<1>1. /\ tab'[t] = Closed /\ \A u \in Tabs \ {t} : tab'[u] = tab[u]
      /\ row' = row /\ captured' = captured /\ lock' = Freed(t)
  BY NTab DEF Close, disk
<1>2. Goes /\ srv'.fin = srv.fin
  BY Names DEF Close, Goes, Forgotten, NInv, VInv, IInv, TypeOK
<1>3. ~Works(Closed) /\ Orderly(Closed, srv'.take, lock')
  BY DEF Works, Orderly
<1> QED
  BY <1>1, <1>2, <1>3, NRow, AltersSame DEF Tally, TabCounts, LockCounts, Freed, RowAlters,
     SrvCounts, NInv

LEMMA InterruptCounts ==
  ASSUME NInv, NEW t \in Tabs, Open(t), Goes, lock' = lock, NEW out, NEW stop, NEW unheeded,
         NEW pending, NEW admitted, NEW X, tab' = [tab EXCEPT ![t] = X],
         X = [tab[t] EXCEPT !.out = out, !.stop = stop, !.unheeded = unheeded,
                            !.pending = pending, !.admitted = admitted]
  PROVE  TabCounts(t)
<1>1. /\ X.buf = tab[t].buf /\ X.gap = tab[t].gap /\ X.start = tab[t].start
      /\ X.commit = tab[t].commit /\ X.rec = tab[t].rec
  BY NOpen DEF TabOK, Loaded
<1> QED
  BY <1>1, TabTally

\* Interrupted or not, a tab that is put out keeps what it counts.
LEMMA PutOutCounts ==
  ASSUME NInv, NEW t \in Tabs, Open(t), Goes, lock' = lock, NEW why,
         NEW X \in {Interrupt(t, why), [Interrupt(t, why) EXCEPT !.admitted = FALSE],
                    Unheeded(t, why), [Unheeded(t, why) EXCEPT !.admitted = FALSE], tab[t]},
         tab' = [tab EXCEPT ![t] = X]
  PROVE  TabCounts(t)
<1> DEFINE stops == tab[t].stop \/ tab[t].rec = "running"
           keeps == tab[t].pending /\ why # "replaced"
           o == tab[t].out \cup {why}
           Y(a, s, u) == [tab[t] EXCEPT !.out = o, !.stop = s, !.unheeded = u,
                                        !.pending = keeps, !.admitted = a]
           h == tab[t].unheeded
           d == tab[t].admitted
<1>1. TabOK(tab[t])
  BY NOpen
<1>2. CASE X = tab[t]
  BY <1>2, TabTally
<1>3. CASE X = Interrupt(t, why)
  <2>1. X = Y(d, stops, h)
    BY <1>1, <1>3 DEF Interrupt, TabOK, Loaded
  <2> HIDE DEF stops, keeps, o, h, d
  <2> QED
    BY <2>1, InterruptCounts
<1>4. CASE X = [Interrupt(t, why) EXCEPT !.admitted = FALSE]
  <2>1. X = Y(FALSE, stops, h)
    BY <1>1, <1>4 DEF Interrupt, TabOK, Loaded
  <2> HIDE DEF stops, keeps, o, h, d
  <2> QED
    BY <2>1, InterruptCounts
<1>5. CASE X = Unheeded(t, why)
  <2> DEFINE s == tab[t].stop
  <2>1. X = Y(d, s, TRUE)
    BY <1>1, <1>5 DEF Unheeded, TabOK, Loaded
  <2> HIDE DEF stops, keeps, o, h, d, s
  <2> QED
    BY <2>1, InterruptCounts
<1>6. CASE X = [Unheeded(t, why) EXCEPT !.admitted = FALSE]
  <2> DEFINE s == tab[t].stop
  <2>1. X = Y(FALSE, s, TRUE)
    BY <1>1, <1>6 DEF Unheeded, TabOK, Loaded
  <2> HIDE DEF stops, keeps, o, h, d, s
  <2> QED
    BY <2>1, InterruptCounts
<1> QED
  BY <1>2, <1>3, <1>4, <1>5, <1>6

-----------------------------------------------------------------------------
(***************************************************************************)
(* Steps that are tallied.                                                 *)
(***************************************************************************)
LEMMA StillAlters == ASSUME NInv, row' = row PROVE RowAlters
BY NRow, AltersSame DEF RowAlters

LEMMA RowAltered == ASSUME row # NoMeta, Alters(row, row') PROVE RowAlters
BY DEF RowAlters, Alters

\* The server keeps the take and its verdict, and the lock its holder.
LEMMA PlainTally ==
  ASSUME NInv, NEW t \in Tabs, captured' = captured, lock' = lock, RowAlters, TabCounts(t),
         Goes, srv'.fin = srv.fin
  PROVE  Tally(t)
BY DEF Tally, LockCounts, SrvCounts, NInv

LEMMA GoesOn == ASSUME NInv, NEW t, srv'.take \in {srv.take, Forgotten(t)} PROVE Goes
BY Names DEF Goes, Forgotten

LEMMA StepTally ==
  ASSUME NInv, NEW t \in Tabs,
         \/ Start(t) \/ PromptFails(t) \/ ClaimGranted(t) \/ claimWithRetry(t) \/ StartRefused(t)
         \/ ClaimRefused(t)
  PROVE  Tally(t)
<1>1. row' = row /\ captured' = captured /\ lock' = lock
  BY DEF Start, PromptFails, ClaimGranted, claimWithRetry, StartRefused, ClaimRefused, disk
<1>2. Goes /\ srv'.fin = srv.fin
  <2>1. CASE ClaimGranted(t) \/ claimWithRetry(t)
    <3>1. srv.take # "gone"
      BY <2>1, Names DEF ClaimGranted, claimWithRetry, ClaimVerdict, Claimed, Auth
    <3> QED
      BY <2>1, <3>1 DEF ClaimGranted, claimWithRetry, Goes, NInv, VInv, IInv, TypeOK
  <2>2. CASE ClaimRefused(t)
    BY <2>2 DEF ClaimRefused, Forgotten, Goes, NInv, VInv, IInv, TypeOK
  <2> QED
    BY <2>1, <2>2 DEF Start, PromptFails, StartRefused, Goes
<1> QED
  BY <1>1, <1>2, StepCounts, StillAlters, PlainTally

LEMMA OtherTally ==
  ASSUME NInv, NEW t \in Tabs,
         \/ InterruptStops(t) \/ stopRecording(t) \/ notePageHide(t)
         \/ ReconcileIdle(t) \/ ReconcileReads(t) \/ Admit(t) \/ Drop(t)
  PROVE  Tally(t)
<1>1. row' = row /\ captured' = captured /\ lock' = lock
  BY DEF InterruptStops, stopRecording, notePageHide, ReconcileIdle, ReconcileReads, Admit, Drop, disk
<1>2. Goes /\ srv'.fin = srv.fin
  BY DEF InterruptStops, stopRecording, notePageHide, ReconcileIdle, ReconcileReads, Admit, Drop,
         Goes, NInv, VInv, IInv, TypeOK
<1> QED
  BY <1>1, <1>2, OtherCounts, StillAlters, PlainTally

LEMMA OpenTally == ASSUME NInv, NEW t \in Tabs, OpenLive(t) \/ OpenRestored(t) PROVE Tally(t)
<1>1. /\ row' = row /\ captured' = captured /\ lock' = lock /\ Goes /\ srv'.fin = srv.fin
      /\ \E page : Load(t, page)
  BY DEF OpenLive, OpenRestored, disk, Goes
<1> QED
  BY <1>1, OpenCounts, StillAlters, PlainTally

LEMMA OpenUploadTally == ASSUME NInv, NEW t \in Tabs, OpenUpload(t) PROVE Tally(t)
<1>1. /\ captured' = captured /\ lock' = lock /\ srv' = srv /\ row # NoMeta /\ Load(t, "upload")
  BY DEF OpenUpload, offersUploadCode, findUnfinishedUploadSessions, showUploadCodeEntry
<1>2. PICK left : row' \in clearUnauthorizedUploadBlock(row, left)
  BY DEF OpenUpload, resumeUnauthorizedUploads
<1>3. RowAlters
  BY <1>1, <1>2, NRow, UnblockAlters, RowAltered
<1> QED
  BY <1>1, <1>3, OpenCounts, PlainTally DEF Goes

LEMMA BeginThrowsTally == ASSUME NInv, NEW t \in Tabs, BeginThrows(t) PROVE Tally(t)
<1>1. /\ Open(t) /\ tab[t].start = "armed" /\ row' = row /\ captured' = captured /\ srv' = srv
      /\ lock' = NoTab
  BY DEF BeginThrows, At, Is, Open, disk
<1>2. TabOK(tab[t]) /\ Orderly(tab[t], srv.take, lock) /\ tab[t] # Closed
  BY <1>1, NOpen
<1>3. lock = t
  BY <1>1, <1>2 DEF NInv, Works
<1> DEFINE X == [tab[t] EXCEPT !.start = "abandon"]
<1>4. tab' = [tab EXCEPT ![t] = X]
  BY DEF BeginThrows, Set
<1>5. /\ X.buf = tab[t].buf /\ X.rec = tab[t].rec /\ X.commit = tab[t].commit
      /\ X.start = "abandon"
  BY <1>2 DEF TabOK, Loaded
<1> HIDE DEF X
<1>6. tab'[t] = X /\ \A u \in Tabs \ {t} : tab'[u] = tab[u]
  BY <1>4, NTab
<1>7. ~Works(X) /\ Orderly(X, srv'.take, lock')
  BY <1>1, <1>2, <1>5 DEF Works, Orderly
<1> QED
  BY <1>1, <1>3, <1>6, <1>7, StillAlters DEF Tally, TabCounts, LockCounts, SrvCounts, Goes, NInv

LEMMA AbandonTally == ASSUME NInv, NEW t \in Tabs, Abandon(t) PROVE Tally(t)
<1>1. /\ Open(t) /\ tab[t].start = "abandon" /\ captured' = captured /\ srv' = srv /\ lock' = lock
      /\ row' = Abandoned
  BY DEF Abandon, At, Is, Open
<1>2. \A u \in Tabs : ~Works(tab[u])
  BY <1>1, NOpen, Names DEF Orderly, NInv
<1>3. RowAlters
  BY <1>1, <1>2, NRow, LostAlters DEF RowAlters, Abandoned
<1> QED
  BY <1>1, <1>3, StepCounts, PlainTally DEF Goes

LEMMA PurgeTally == ASSUME NInv, NEW t \in Tabs, Purge(t) PROVE Tally(t)
<1>1. /\ captured' = captured /\ srv' = srv /\ row' = NoMeta /\ tab' = tab /\ lock' = lock
      /\ row # NoMeta /\ row.server = "complete"
  BY DEF Purge, shouldDiscardMeta, SafeToClose
<1>2. srv.fin = "complete"
  BY <1>1 DEF NInv, VInv, True, Terminal
<1>3. \A u \in Tabs : ~Works(tab[u])
  BY <1>2 DEF NInv, Ongoing, Unended
<1> QED
  BY <1>1, <1>3, PlainTally DEF RowAlters, TabCounts, Goes, NInv

LEMMA HearTally ==
  ASSUME NInv, NEW t \in Tabs, HearRevoked(t) \/ HearReplaced(t) \/ HearUnheeded(t) PROVE Tally(t)
<1>1. Open(t) /\ captured' = captured /\ lock' = lock
  BY DEF HearRevoked, HearReplaced, HearUnheeded, ToldRevoked, ToldReplaced, Is, Open
<1>2. Goes /\ srv'.fin = srv.fin
  <2>1. srv'.take \in {srv.take, Forgotten(t)} /\ srv'.fin = srv.fin
    BY DEF HearRevoked, HearReplaced, HearUnheeded, NInv, VInv, IInv, TypeOK
  <2> QED
    BY <2>1, GoesOn
<1>3. PICK why : /\ row' = row \/ row' = Interrupted(t, why, row)
                 /\ \E X \in {[Interrupt(t, why) EXCEPT !.admitted = FALSE],
                              [Unheeded(t, why) EXCEPT !.admitted = FALSE]} : tab' = [tab EXCEPT ![t] = X]
  <2>1. CASE HearUnheeded(t)
    <3>1. PICK why : tab' = [tab EXCEPT ![t] = [Unheeded(t, why) EXCEPT !.admitted = FALSE]]
      BY <2>1 DEF HearUnheeded
    <3> QED
      BY <2>1, <3>1 DEF HearUnheeded, disk
  <2> QED
    BY <2>1 DEF HearRevoked, HearReplaced
<1>4. RowAlters
  <2>1. CASE row = NoMeta
    BY <1>3, <2>1 DEF Interrupted, RowAlters
  <2>2. CASE row # NoMeta
    BY <1>3, <2>2, NRow, InterruptedAlters, RowAltered, StillAlters
  <2> QED
    BY <2>1, <2>2
<1> QED
  BY <1>1, <1>2, <1>3, <1>4, PutOutCounts, PlainTally

LEMMA BlockedTally ==
  ASSUME NInv, NEW t \in Tabs, UploadRefused(t) \/ UploadUnheeded(t) PROVE Tally(t)
<1>1. Open(t) /\ captured' = captured /\ srv' = srv /\ lock' = lock
  BY DEF UploadRefused, UploadUnheeded
<1>2. PICK block, noted :
        /\ block \in Blocks
        /\ noted = IF row = NoMeta THEN row ELSE notePermanentFailure(row, block)
        /\ row' \in {noted, Interrupted(t, "revoked", noted)}
        /\ \E X \in {Interrupt(t, "revoked"), Unheeded(t, "revoked"), tab[t]} :
             tab' = [tab EXCEPT ![t] = X]
  <2>1. CASE UploadRefused(t)
    <3>1. PICK s \in DOMAIN chunks :
            /\ UploadVerdict(t, s) # "stored"
            /\ LET block   == permanentUploadBlock(UploadVerdict(t, s))
                   noted   == IF row = NoMeta THEN row ELSE notePermanentFailure(row, block)
                   revoked == isRevokedCredential(t, UploadVerdict(t, s))
               IN /\ row' = (IF revoked THEN Interrupted(t, "revoked", noted) ELSE noted)
                  /\ tab' = [tab EXCEPT ![t] = IF revoked THEN Interrupt(t, "revoked") ELSE @]
      BY <2>1 DEF UploadRefused
    <3> DEFINE block   == permanentUploadBlock(UploadVerdict(t, s))
               noted   == IF row = NoMeta THEN row ELSE notePermanentFailure(row, block)
               revoked == isRevokedCredential(t, UploadVerdict(t, s))
    <3>2. block \in Blocks
      BY <3>1, BlockFacts
    <3>3. /\ row' = (IF revoked THEN Interrupted(t, "revoked", noted) ELSE noted)
          /\ tab' = [tab EXCEPT ![t] = IF revoked THEN Interrupt(t, "revoked") ELSE tab[t]]
      BY <3>1
    <3> HIDE DEF block, revoked
    <3> QED
      BY <3>2, <3>3
  <2>2. CASE UploadUnheeded(t)
    <3>1. "unauthorized" \in Blocks
      BY DEF Blocks
    <3> QED
      BY <2>2, <3>1 DEF UploadUnheeded
  <2> QED
    BY <2>1, <2>2
<1>3. RowAlters
  <2>1. CASE row = NoMeta
    BY <1>2, <2>1 DEF RowAlters, Interrupted
  <2>2. CASE row # NoMeta
    <3>1. noted \in Meta /\ Alters(row, noted)
      BY <1>2, <2>2, NRow, FailureFacts, FailureAlters
    <3> QED
      BY <1>2, <2>2, <3>1, InterruptedAlters, AltersTwice, RowAltered
  <2> QED
    BY <2>1, <2>2
<1>4. Goes /\ srv'.fin = srv.fin
  BY <1>1 DEF Goes
<1>5. TabCounts(t)
  BY <1>1, <1>2, <1>4, PutOutCounts
<1> QED
  BY <1>1, <1>3, <1>4, <1>5, PlainTally

LEMMA uploadNextChunkTally == ASSUME NInv, NEW t \in Tabs, uploadNextChunk(t) PROVE Tally(t)
<1>1. captured' = captured /\ tab' = tab /\ lock' = lock
  BY DEF uploadNextChunk
<1>2. PICK s : srv' = Stored(s) /\ (row' = row \/ row' \in Told(row))
  BY DEF uploadNextChunk
<1>3. /\ srv'.take = srv.take /\ srv'.fin \in Servers
      /\ srv.fin \in Unended => srv'.fin = srv.fin
  BY <1>2 DEF Stored, Judged, NInv, VInv, IInv, TypeOK, Servers, Terminal, Unended
<1>4. RowAlters
  <2>1. CASE row' = row
    BY <2>1, StillAlters
  <2>2. CASE row # NoMeta /\ row' = applyServerStatus(row, srv'.fin)
    BY <1>3, <2>2, NRow, StatusAlters, RowAltered
  <2> QED
    BY <1>2, <2>1, <2>2 DEF Told
<1>5. TabCounts(t)
  BY <1>1, <1>3 DEF TabCounts, NInv
<1> QED
  BY <1>1, <1>3, <1>4, <1>5 DEF Tally, LockCounts, SrvCounts, Goes, NInv

LEMMA FinalizeAnsweredTally == ASSUME NInv, NEW t \in Tabs, FinalizeAnswered(t) PROVE Tally(t)
<1>1. captured' = captured /\ srv' = srv /\ lock' = lock
  BY DEF FinalizeAnswered
<1> DEFINE f == tab[t].fin
<1>2. \/ row' = row
      \/ row # NoMeta /\ f.pc \in Blocks /\ row' = notePermanentFailure(row, f.pc)
      \/ row # NoMeta /\ f.pc \in Answered /\ row' = applyServerStatus(row, f.pc)
  BY DEF FinalizeAnswered
<1> HIDE DEF f
<1>3. RowAlters
  BY <1>2, StillAlters, NRow, FailureAlters, StatusAlters, RowAltered DEF Answered, Servers
<1> QED
  BY <1>1, <1>3, OtherCounts, PlainTally DEF Goes

LEMMA ReconcileMergesTally == ASSUME NInv, NEW t \in Tabs, ReconcileMerges(t) PROVE Tally(t)
<1>1. /\ captured' = captured /\ srv' = srv /\ lock' = lock
      /\ tab[t].bind.pc \in Servers \cup {"failed"}
      /\ row' = IF row = NoMeta THEN row ELSE mergeReload(row, tab[t].bind.pc, tab[t].bind.here)
  BY DEF ReconcileMerges
<1>2. RowAlters
  BY <1>1, NRow, MergeAlters, RowAltered, StillAlters
<1> QED
  BY <1>1, <1>2, OtherCounts, PlainTally DEF Goes

LEMMA BeginTally == ASSUME NInv, NEW t \in Tabs, Begin(t) \/ BeginUnheeded(t) PROVE Tally(t)
<1>1. Open(t) /\ tab[t].start = "armed" /\ captured' = captured /\ lock' = lock
  BY DEF Begin, BeginUnheeded, At, Is, Open
<1>2. Goes /\ srv'.fin = srv.fin
  <2>1. srv'.take \in {srv.take, Forgotten(t)} /\ srv'.fin = srv.fin
    BY DEF Begin, BeginUnheeded, NInv, VInv, IInv, TypeOK
  <2> QED
    BY <2>1, GoesOn
<1> DEFINE d == Declared(IF "revoked" \in tab[t].out THEN "revoked" ELSE "replaced", row)
<1>3. row' = row \/ (row # NoMeta /\ row' = holdForRecorderFlush(d))
  BY DEF Begin, BeginUnheeded, disk
<1>4. row # NoMeta => d \in Meta /\ Alters(row, d)
  BY NRow, DeclaredFacts, DeclaredAlters
<1> HIDE DEF d
<1>5. RowAlters
  BY <1>3, <1>4, StillAlters, HoldAlters, AltersTwice, RowAltered
<1>6. TabOK(tab[t]) /\ Orderly(tab[t], srv.take, lock) /\ tab[t] # Closed
  BY <1>1, NOpen
<1>7. PICK stop, unheeded :
        tab' = [tab EXCEPT ![t] = [tab[t] EXCEPT !.start = "idle", !.pending = FALSE,
                                     !.rec = "running", !.stop = stop, !.unheeded = unheeded]]
  <2>1. CASE Begin(t)
    <3> DEFINE stops == tab[t].out # {}
               h == tab[t].unheeded
    <3>1. tab' = [tab EXCEPT ![t] = [tab[t] EXCEPT !.start = "idle", !.pending = FALSE,
                                     !.rec = "running", !.stop = stops, !.unheeded = h]]
      BY <1>6, <2>1 DEF Begin, TabOK, Loaded
    <3> HIDE DEF stops, h
    <3> QED
      BY <3>1
  <2>2. CASE BeginUnheeded(t)
    <3> DEFINE stops == tab[t].stop
    <3>1. tab' = [tab EXCEPT ![t] = [tab[t] EXCEPT !.start = "idle", !.pending = FALSE,
                                     !.rec = "running", !.stop = stops, !.unheeded = TRUE]]
      BY <1>6, <2>2 DEF BeginUnheeded, TabOK, Loaded
    <3> HIDE DEF stops
    <3> QED
      BY <3>1
  <2> QED
    BY <2>1, <2>2
<1> DEFINE X == [tab[t] EXCEPT !.start = "idle", !.pending = FALSE, !.rec = "running",
                               !.stop = stop, !.unheeded = unheeded]
<1>8. /\ X.buf = tab[t].buf /\ X.gap = tab[t].gap /\ X.start = "idle"
      /\ X.commit = tab[t].commit /\ X.rec = "running"
  BY <1>6 DEF TabOK, Loaded
<1>9. tab' = [tab EXCEPT ![t] = X]
  BY <1>7
<1> HIDE DEF X
<1>10. tab'[t] = X /\ \A u \in Tabs \ {t} : tab'[u] = tab[u]
  BY <1>9, NTab
<1>11. Works(tab[t]) /\ Orderly(X, srv'.take, lock')
  BY <1>1, <1>6, <1>8 DEF Works, Orderly
<1>12. TabCounts(t)
  BY <1>8, <1>10, <1>11 DEF TabCounts
<1> QED
  BY <1>1, <1>2, <1>5, <1>12, PlainTally

LEMMA PersistFailsTally == ASSUME NInv, NEW t \in Tabs, PersistFails(t) PROVE Tally(t)
<1>1. Open(t) /\ tab[t].buf > 0 /\ captured' = captured /\ srv' = srv /\ lock' = lock
  BY DEF PersistFails
<1> DEFINE l == persistRecorderLost(row)
           o == [l EXCEPT !.operator = TRUE]
<1>2. \/ row' = row
      \/ row # NoMeta /\ row' \in {holdForRecorderFlush(o), o}
  BY DEF PersistFails
<1>3. row # NoMeta => l \in Meta /\ Alters(row, l)
  BY NRow, DeclareFacts, LostAlters
<1> HIDE DEF l
<1>4. row # NoMeta => o \in Meta /\ Alters(row, o)
  BY <1>3, FlagFacts, FieldAlters, AltersTwice
<1> HIDE DEF o
<1>5. RowAlters
  BY <1>2, <1>4, StillAlters, HoldAlters, AltersTwice, RowAltered
<1> DEFINE b == tab[t].buf - 1
           X == [tab[t] EXCEPT !.buf = b, !.gap = TRUE]
<1>6. TabOK(tab[t]) /\ Orderly(tab[t], srv.take, lock) /\ tab[t] # Closed
  BY <1>1, NOpen
<1>7. tab' = [tab EXCEPT ![t] = X]
  BY DEF PersistFails
<1>8. tab[t].buf \in Nat
  BY <1>6 DEF TabOK
<1> HIDE DEF b
<1>9. /\ X.gap /\ X.start = tab[t].start /\ X.commit = tab[t].commit /\ X.rec = tab[t].rec
      /\ X.buf = b
  BY <1>6 DEF TabOK, Loaded
<1> HIDE DEF X
<1>10. tab'[t] = X /\ \A u \in Tabs \ {t} : tab'[u] = tab[u]
  BY <1>7, NTab
<1>11. Orderly(X, srv'.take, lock') /\ (Works(X) => Works(tab[t]))
  BY <1>1, <1>6, <1>9 DEF Works, Orderly
<1>12. TabCounts(t)
  BY <1>9, <1>10, <1>11 DEF TabCounts
<1> QED
  BY <1>1, <1>5, <1>12, PlainTally DEF Goes

\* What is sent of a take that may still be recorded says that it is not whole.
LEMMA sendFinalizeIfDueTally == ASSUME NInv, NEW t \in Tabs, sendFinalizeIfDue(t) PROVE Tally(t)
<1>1. /\ captured' = captured /\ lock' = lock /\ row' = row /\ row # NoMeta
      /\ row.payload # NoPayload /\ (srv' = srv \/ srv' = Finalized(row.payload))
  BY DEF sendFinalizeIfDue, finalizeDue, disk
<1>2. srv'.take = srv.take
  BY <1>1 DEF Finalized, Judged, NInv, VInv, IInv, TypeOK
<1>3. Ongoing => srv'.fin \in Unended
  <2> SUFFICES ASSUME Ongoing, srv' # srv PROVE srv'.fin \in Unended
    BY DEF NInv
  <2>1. row.payload.lost
    BY <1>1 DEF NInv, Plain
  <2> QED
    BY <1>1, <2>1 DEF Finalized, Unended, NInv, VInv, IInv, TypeOK
<1>4. TabCounts(t)
  BY <1>2, OtherCounts DEF Goes
<1> QED
  BY <1>1, <1>2, <1>3, <1>4, StillAlters DEF Tally, LockCounts, SrvCounts, Goes

-----------------------------------------------------------------------------
(***************************************************************************)
(* Steps of the tab that works.                                            *)
(***************************************************************************)
LEMMA WorkingRow ==
  ASSUME NInv, NEW t \in Tabs, Works(tab[t])
  PROVE  /\ row \in Meta /\ row # NoMeta /\ row.rec # "stopped"
         /\ row.payload = NoPayload \/ row.payload.lost
         /\ lock = t /\ \A u \in Tabs : Works(tab[u]) => u = t
BY NRow DEF NInv, Ongoing, Plain

\* The recorder delivers, a slice is stored, or the take is over.
LEMMA WorkOK ==
  ASSUME NInv, VInv', NEW t \in Tabs, Works(tab[t]), srv.take = "gone", srv' = srv,
         \A u \in Tabs \ {t} : tab'[u] = tab[u],
         Orderly(tab'[t], srv'.take, lock'), Counts(tab'[t], row', captured'),
         row' # NoMeta, Plain(row', captured'),
         \/ lock' = lock /\ row'.rec # "stopped"
         \/ lock' = NoTab /\ ~Works(tab'[t])
  PROVE  NInv'
<1>1. \A u \in Tabs \ {t} : ~Works(tab'[u])
  BY WorkingRow
<1>2. lock = t /\ srv.fin \in Unended
  BY DEF NInv, Ongoing
<1>3. \A u \in Tabs : Orderly(tab'[u], srv'.take, lock')
  BY <1>2, Names DEF NInv, Orderly
<1>4. Ongoing' => srv'.fin \in Unended /\ row'.rec # "stopped"
  BY <1>1, <1>2 DEF Ongoing
<1> QED
  BY <1>1, <1>2, <1>3, <1>4 DEF NInv, Counts

LEMMA SliceOK ==
  ASSUME NInv, VInv', NEW t \in Tabs, Slice(t) \/ handleRecorderStop(t) PROVE NInv'
<1>1. /\ Open(t) /\ tab[t].rec # "none" /\ row' = row /\ srv' = srv /\ lock' = lock
  BY DEF Slice, handleRecorderStop, disk
<1>2. /\ TabOK(tab[t]) /\ Works(tab[t]) /\ srv.take = "gone" /\ Orderly(tab[t], srv.take, lock)
  BY <1>1, NOpen DEF Sound, Works
<1>3. ASSUME NEW n \in 0 .. 1, NEW X, captured' = captured + n, tab' = [tab EXCEPT ![t] = X],
             X.buf = tab[t].buf + n, X.gap = tab[t].gap, X.start = tab[t].start,
             \/ X.rec = tab[t].rec /\ X.commit = tab[t].commit
             \/ X.rec = "none" /\ X.commit = TRUE
      PROVE  NInv'
  <2>1. tab'[t] = X /\ \A u \in Tabs \ {t} : tab'[u] = tab[u]
    BY <1>3, NTab
  <2>2. Plain(row', captured') /\ row' # NoMeta /\ row'.rec # "stopped"
    BY <1>1, <1>2, WorkingRow DEF Plain
  <2>3. row.next \in Nat /\ tab[t].buf \in Nat
    BY <1>2, WorkingRow DEF Meta, TabOK
  <2>4. Counts(tab'[t], row', captured')
    BY <1>1, <1>2, <1>3, <2>1, <2>3 DEF Counts, NInv
  <2>5. tab[t].start # "armed" /\ ~(tab[t].commit)
    BY <1>1, <1>2 DEF Orderly, Works
  <2>6. Orderly(X, srv'.take, lock')
    BY <1>1, <1>2, <1>3, <2>5 DEF Orderly, Works
  <2> QED
    BY <1>1, <1>2, <2>1, <2>2, <2>4, <2>6, WorkOK
<1>4. CASE Slice(t)
  <2> DEFINE X == [tab[t] EXCEPT !.buf = tab[t].buf + 1]
  <2>1. captured' = captured + 1 /\ tab' = [tab EXCEPT ![t] = X]
    BY <1>4 DEF Slice, Delivers, Set
  <2>2. /\ X.buf = tab[t].buf + 1 /\ X.gap = tab[t].gap /\ X.start = tab[t].start
        /\ X.rec = tab[t].rec /\ X.commit = tab[t].commit
    BY <1>2 DEF TabOK, Loaded
  <2> HIDE DEF X
  <2>3. 1 \in 0 .. 1
    OBVIOUS
  <2> QED
    BY <1>3, <2>1, <2>2, <2>3
<1>5. CASE handleRecorderStop(t)
  <2>1. PICK n \in 0 .. 1 :
          /\ captured' = captured + n
          /\ tab' = [tab EXCEPT ![t].rec = "none", ![t].commit = TRUE, ![t].buf = @ + n]
    BY <1>5 DEF handleRecorderStop, Delivers
  <2> DEFINE X == [tab[t] EXCEPT !.rec = "none", !.commit = TRUE, !.buf = @ + n]
  <2>2. tab' = [tab EXCEPT ![t] = X]
    BY <2>1
  <2>3. /\ X.buf = tab[t].buf + n /\ X.gap = tab[t].gap /\ X.start = tab[t].start
        /\ X.rec = "none" /\ X.commit = TRUE
    BY <1>2 DEF TabOK, Loaded
  <2> HIDE DEF X
  <2> QED
    BY <1>3, <2>1, <2>2, <2>3
<1> QED
  BY <1>4, <1>5

LEMMA persistBlobCounts == ASSUME NInv, VInv', NEW t \in Tabs, persistBlob(t) PROVE NInv'
<1>1. Open(t) /\ tab[t].buf > 0 /\ srv' = srv /\ captured' = captured /\ lock' = lock
  BY DEF persistBlob
<1>2. /\ TabOK(tab[t]) /\ Works(tab[t]) /\ srv.take = "gone" /\ Orderly(tab[t], srv.take, lock)
  BY <1>1, NOpen DEF Sound, Orderly, Works, TabOK
<1>3. row \in Meta /\ row # NoMeta /\ row.rec # "stopped" /\ (row.payload = NoPayload \/ row.payload.lost)
  BY <1>2, WorkingRow
<1>4. row' = [row EXCEPT !.next = @ + 1]
  BY <1>3 DEF persistBlob, storeChunkAndBumpSequence, buildStoredChunk
<1>5. /\ row'.next = row.next + 1 /\ row'.rec = row.rec /\ row'.payload = row.payload
      /\ row.next \in Nat /\ row' \in Meta
  BY <1>3, <1>4 DEF Meta
<1> DEFINE X == [tab[t] EXCEPT !.buf = tab[t].buf - 1]
<1>6. tab' = [tab EXCEPT ![t] = X]
  BY DEF persistBlob, Set
<1>7. /\ X.buf = tab[t].buf - 1 /\ X.gap = tab[t].gap /\ tab[t].buf \in Nat
      /\ X.start = tab[t].start /\ X.rec = tab[t].rec /\ X.commit = tab[t].commit
  BY <1>2 DEF TabOK, Loaded
<1> HIDE DEF X
<1>8. tab'[t] = X /\ \A u \in Tabs \ {t} : tab'[u] = tab[u]
  BY <1>6, NTab
<1>9. Plain(row', captured') /\ row' # NoMeta
  BY <1>3, <1>5, MetaPresent DEF Plain
<1>10. Counts(tab'[t], row', captured')
  BY <1>1, <1>2, <1>5, <1>7, <1>8 DEF Counts, NInv
<1>11. Orderly(X, srv'.take, lock')
  BY <1>1, <1>2, <1>7 DEF Orderly, Works
<1> QED
  BY <1>1, <1>2, <1>3, <1>5, <1>8, <1>9, <1>10, <1>11, WorkOK

\* A normal end is declared when the persist chain is empty, and only by a tab
\* that has lost nothing.
LEMMA CommitCounts ==
  ASSUME NInv, VInv', NEW t \in Tabs, commitRecorderStop(t) \/ CommitFails(t) PROVE NInv'
<1>1. /\ Open(t) /\ tab[t].commit /\ tab[t].buf = 0 /\ srv' = srv /\ lock' = Freed(t)
      /\ captured' = captured
      /\ row' = row \/ (row # NoMeta /\ row' = releaseRecorderFlush(declareStop(row, tab[t])))
  BY DEF commitRecorderStop, CommitFails, Committed, disk
<1>2. /\ Works(tab[t]) /\ srv.take = "gone" /\ TabOK(tab[t]) /\ Orderly(tab[t], srv.take, lock)
      /\ tab[t] # Closed
  BY <1>1, NOpen DEF Works, Orderly
<1>3. lock' = NoTab /\ row \in Meta /\ row # NoMeta /\ Plain(row, captured) /\ row.rec # "stopped"
  BY <1>1, <1>2, WorkingRow DEF NInv, Freed
<1> DEFINE X == [tab[t] EXCEPT !.commit = FALSE, !.asLost = FALSE]
<1>4. tab' = [tab EXCEPT ![t] = X]
  BY DEF commitRecorderStop, CommitFails, Committed
<1>5. X.commit = FALSE /\ X.rec = tab[t].rec /\ X.start = tab[t].start /\ X.buf = tab[t].buf
  BY <1>2 DEF TabOK, Loaded
<1> HIDE DEF X
<1>6. tab'[t] = X /\ \A u \in Tabs \ {t} : tab'[u] = tab[u]
  BY <1>4, NTab
<1>7. ~Works(X) /\ Orderly(X, srv'.take, lock')
  <2>1. tab[t].start # "armed" /\ tab[t].rec = "none"
    BY <1>1, <1>2 DEF Orderly
  <2>2. ~Works(X)
    BY <1>5, <2>1 DEF Works
  <2>3. Orderly(X, srv'.take, lock')
    <3>1. X.commit \in BOOLEAN /\ ~(X.commit)
      BY <1>5
    <3>2. ~(X.buf > 0) /\ X.start # "armed" /\ (X.start = "abandon" => lock' = NoTab)
      BY <1>1, <1>3, <1>5, <2>1
    <3> QED
      BY <3>1, <3>2 DEF Orderly
  <2> QED
    BY <2>2, <2>3
<1>8. row' # row => row' # NoMeta /\ Plain(row', captured)
  <2> DEFINE d == Declared(IF "revoked" \in tab[t].out THEN "revoked" ELSE "replaced", row)
             l == persistRecorderLost(row)
             q == persistStop(row)
             s == declareStop(row, tab[t])
             noted(n) == [n EXCEPT !.operator = @ \/ tab[t].gap]
  <2>1. /\ d \in Meta /\ Alters(row, d) /\ l \in Meta /\ Alters(row, l)
    BY <1>3, DeclaredFacts, DeclaredAlters, DeclareFacts, LostAlters
  <2>2. s \in {noted(d), noted(row), noted(l), row} \/ (~tab[t].gap /\ s = q)
    BY DEF declareStop
  <2> HIDE DEF d, l, s
  <2>3. ASSUME NEW n \in Meta PROVE noted(n) \in Meta /\ Alters(n, noted(n))
    <3> DEFINE b == n.operator \/ tab[t].gap
    <3>1. b \in BOOLEAN /\ noted(n) = [n EXCEPT !.operator = b]
      BY <2>3
    <3> HIDE DEF b, noted
    <3>2. [n EXCEPT !.operator = b] \in Meta
      BY <2>3, <3>1, FlagFacts
    <3>3. Alters(n, [n EXCEPT !.operator = b])
      BY <2>3, FieldAlters
    <3> QED
      BY <3>1, <3>2, <3>3
  <2> HIDE DEF noted
  <2>4. CASE s \in {noted(d), noted(row), noted(l), row}
    <3>1. s \in Meta /\ Alters(row, s)
      BY <1>3, <2>1, <2>3, <2>4, AltersTwice, AltersSame
    <3>2. Alters(row, releaseRecorderFlush(s)) /\ releaseRecorderFlush(s) # NoMeta
      BY <3>1, ReleaseAlters, AltersTwice, FlushFacts, MetaPresent
    <3> QED
      BY <1>1, <1>3, <3>2, PlainKept DEF s
  <2>5. CASE ~tab[t].gap /\ s = q
    <3>1. captured = row.next + 0
      BY <1>1, <1>2, <2>5 DEF NInv, Counts
    <3>2. q \in Meta /\ q.next = row.next /\ q.rec = "stopped" /\ q.payload = Declaration(row, FALSE)
      BY <1>3, DeclareFacts DEF persistStop, Meta
    <3>3. Plain(q, captured)
      BY <1>3, <3>1, <3>2 DEF Plain, Meta, Declaration
    <3>4. Alters(q, releaseRecorderFlush(q)) /\ releaseRecorderFlush(q) # NoMeta
      BY <3>2, ReleaseAlters, FlushFacts, MetaPresent
    <3>5. row' # row => row' = releaseRecorderFlush(q)
      BY <1>1, <2>5 DEF s
    <3> HIDE DEF q
    <3> QED
      BY <3>3, <3>4, <3>5, PlainKept
  <2> QED
    BY <2>2, <2>4, <2>5
<1>9. row' # NoMeta /\ Plain(row', captured')
  BY <1>1, <1>3, <1>8
<1> QED
  BY <1>1, <1>2, <1>3, <1>6, <1>7, <1>9, WorkOK DEF Counts

LEMMA ArmCounts == ASSUME NInv, VInv', NEW t \in Tabs, Arm(t) PROVE NInv'
<1>1. /\ Open(t) /\ tab[t].start = "granted" /\ tab[t].out = {} /\ lock = NoTab /\ lock' = t
      /\ row' = emptyMeta /\ srv' = srv /\ captured' = captured
  BY DEF Arm, At, Is, Open, startBlocked, holdRecorderLock
<1>2. srv.take = t /\ srv.take # "gone" /\ TabOK(tab[t]) /\ Orderly(tab[t], srv.take, lock)
  BY <1>1, NOpen, Names DEF Sound
<1>3. captured = 0 /\ tab[t].buf = 0 /\ tab[t].rec = "none"
  BY <1>1, <1>2, NOpen DEF NInv, Sound
<1> DEFINE X == [tab[t] EXCEPT !.start = "armed"]
<1>4. tab' = [tab EXCEPT ![t] = X]
  BY DEF Arm, Set
<1>5. X.buf = 0 /\ X.rec = tab[t].rec /\ X.commit = tab[t].commit /\ X.start = "armed"
  BY <1>2, <1>3 DEF TabOK, Loaded
<1> HIDE DEF X
<1>6. tab'[t] = X /\ \A u \in Tabs \ {t} : tab'[u] = tab[u]
  BY <1>4, NTab
<1>7. \A u \in Tabs : ~Works(tab[u])
  BY <1>1, Names DEF NInv
<1>8. ASSUME NEW u \in Tabs PROVE Orderly(tab'[u], srv'.take, lock')
  <2>1. CASE u = t
    BY <1>1, <1>2, <1>3, <1>5, <1>6, <2>1, NOpen DEF Orderly
  <2>2. CASE u # t
    <3>1. tab'[u] = tab[u] /\ Orderly(tab[u], srv.take, lock)
      BY <1>6, <2>2 DEF NInv
    <3>2. tab[u] # Closed => tab[u].start # "abandon"
      BY <1>2, <2>2, OpenFacts, Names DEF NInv, VInv, IInv, Fits, Sound
    <3> QED
      BY <1>1, <3>1, <3>2 DEF Orderly
  <2> QED
    BY <2>1, <2>2
<1>9. /\ emptyMeta.next = 0 /\ emptyMeta.payload = NoPayload /\ emptyMeta.rec # "stopped"
      /\ emptyMeta # NoMeta
  BY EmptyFacts, MetaPresent DEF emptyMeta
<1>10. \A u \in Tabs : Works(tab'[u]) => u = t
  BY <1>6, <1>7
<1>11. Ongoing
  BY <1>2 DEF Ongoing
<1> QED
  BY <1>1, <1>3, <1>5, <1>6, <1>8, <1>9, <1>10, <1>11 DEF NInv, Counts, Plain

LEMMA StillCounts ==
  ASSUME NInv, VInv', row' = row, tab' = tab, lock' = lock, srv'.take = srv.take,
         srv'.fin \in {srv.fin, "incomplete"}, captured' = captured
  PROVE  NInv'
BY DEF NInv, Ongoing, Unended

-----------------------------------------------------------------------------
LEMMA NInitial == Init => NInv
<1> SUFFICES ASSUME Init PROVE NInv
  OBVIOUS
<1>1. /\ row = NoMeta /\ captured = 0 /\ srv.fin = "none" /\ \A t \in Tabs : tab[t] = Closed
  BY DEF Init
<1> QED
  BY <1>1, VInit DEF NInv, Counts, Works, Orderly, Unended

\* Every step is tallied, or one of the tab that works or of the server.
Books == NInv' /\ \/ \E t \in Tabs : Tally(t)
                  \/ /\ srv' = srv
                     /\ \E t \in Tabs : Works(tab[t]) \/ Arm(t)
                  \/ UNCHANGED <<row, tab, captured>> /\ (UNCHANGED srv \/ Service)

LEMMA NNext == ASSUME NInv, [Next]_vars PROVE Books
<1>1. VInv'
  BY VNext DEF NInv, VerdictOK
<1>2. CASE Service
  <2>1. /\ row' = row /\ tab' = tab /\ lock' = lock /\ captured' = captured
        /\ srv'.take = srv.take /\ srv'.fin \in {srv.fin, "incomplete"}
    BY <1>2 DEF Service, OtherDevice, Revoke, End, GraceEnds, disk, NInv, VInv, IInv, TypeOK
  <2> QED
    BY <1>1, <1>2, <2>1, StillCounts DEF Books
<1>3. CASE UNCHANGED vars
  BY <1>1, <1>3, StillCounts DEF vars, Books
<1>4. ASSUME NEW t \in Tabs, Tally(t) PROVE Books
  BY <1>1, <1>4, TallyOK DEF Books
<1>5. ASSUME NEW t \in Tabs, Starting(t) PROVE Books
  <2>1. CASE Arm(t)
    BY <1>1, <2>1, ArmCounts DEF Books, Arm
  <2> QED
    BY <1>4, <1>5, <2>1, StepTally, BeginTally, BeginThrowsTally, AbandonTally DEF Starting
<1>6. ASSUME NEW t \in Tabs, Recording(t) PROVE Books
  <2>1. CASE Slice(t) \/ handleRecorderStop(t)
    BY <1>1, <2>1, SliceOK, NOpen DEF Books, Works, Slice, handleRecorderStop
  <2>2. CASE persistBlob(t)
    BY <1>1, <2>2, persistBlobCounts, NOpen DEF Books, Works, persistBlob, Orderly
  <2>3. CASE commitRecorderStop(t) \/ CommitFails(t)
    BY <1>1, <2>3, CommitCounts, NOpen DEF Books, Works, commitRecorderStop, CommitFails
  <2> QED
    BY <1>4, <1>6, <2>1, <2>2, <2>3, OtherTally, PersistFailsTally DEF Recording
<1>7. ASSUME NEW t \in Tabs, Hear(t) \/ Bind(t) PROVE Books
  BY <1>4, <1>7, OtherTally, HearTally, ReconcileMergesTally DEF Hear, Bind
<1>8. ASSUME NEW t \in Tabs, Pump(t) \/ Finalize(t) \/ Page(t) PROVE Books
  BY <1>4, <1>8, OtherTally, PurgeTally, uploadNextChunkTally, BlockedTally,
     FinalizeAnsweredTally, sendFinalizeIfDueTally, OpenTally, OpenUploadTally, CloseTally
     DEF Pump, Finalize, Page
<1> QED
  BY <1>2, <1>3, <1>5, <1>6, <1>7, <1>8 DEF Next

\* A take is declared without recorder_lost only of all that its recorder has
\* delivered, wherever the recorder is stopped, its tab put out or closed, and
\* its writes refused.
THEOREM NormalCorrect == Spec => []NormalIsWhole
<1>1. NInv => NormalIsWhole
  BY DEF NInv, Plain, NormalIsWhole
<1>2. NInv /\ [Next]_vars => NInv'
  BY NNext DEF Books
<1> QED
  BY <1>1, <1>2, NInitial, PTL DEF Spec

-----------------------------------------------------------------------------
(***************************************************************************)
(* What the server calls complete.                                         *)
(***************************************************************************)
\* A declaration of a whole take that the server has is of all the slices that are
\* stored, and none is still to come; a complete take is held by the server.
Sent == srv.payload # NoPayload /\ ~srv.payload.lost =>
          /\ srv.take = "gone" /\ \A t \in Tabs : ~Works(tab[t])
          /\ row # NoMeta => srv.payload.final = row.next - 1
Held == srv.fin = "complete" => 0 .. srv.payload.final \subseteq srv.got

SInv == NInv /\ Sent /\ Held

Judgment == UNCHANGED <<srv.payload, srv.fin, srv.got>>

LEMMA JudgedHeld ==
  ASSUME NEW s, {"fin", "payload", "got"} \subseteq DOMAIN s, s.fin = "complete" => 0 .. s.payload.final \subseteq s.got
  PROVE  /\ Judged(s).fin = "complete" => 0 .. Judged(s).payload.final \subseteq Judged(s).got
         /\ Judged(s).payload = s.payload
<1>1. CASE s.fin = "pending" /\ s.got = 0 .. s.payload.final /\ 0 \in s.got
  <2>1. Judged(s) = [s EXCEPT !.fin = "complete"]
    BY <1>1 DEF Judged
  <2> QED
    BY <1>1, <2>1
<1>2. CASE ~(s.fin = "pending" /\ s.got = 0 .. s.payload.final /\ 0 \in s.got)
  BY <1>2 DEF Judged
<1> QED
  BY <1>1, <1>2

LEMMA StoredHeld ==
  ASSUME SInv, NEW s, srv' = Stored(s) PROVE Held' /\ srv'.payload = srv.payload
<1> DEFINE b == [srv EXCEPT !.got = @ \cup {s}]
<1>1. /\ b.fin = srv.fin /\ b.payload = srv.payload /\ srv.got \subseteq b.got
      /\ {"fin", "payload", "got"} \subseteq DOMAIN b
  BY DEF SInv, NInv, VInv, IInv, TypeOK
<1>2. srv' = Judged(b)
  BY DEF Stored
<1> HIDE DEF b
<1>3. b.fin = "complete" => 0 .. b.payload.final \subseteq b.got
  BY <1>1 DEF SInv, Held
<1> QED
  BY <1>1, <1>2, <1>3, JudgedHeld DEF Held

LEMMA FinalizedHeld ==
  ASSUME SInv, NEW t, NEW p, p # NoPayload, FinalizeVerdict(t, p) = "accepted", srv' = Finalized(p)
  PROVE  Held'
<1>1. srv.fin = "complete" => p = srv.payload /\ ~p.lost
  BY DEF FinalizeVerdict, Auth, Growing, SInv, NInv, VInv, SrvSound
<1> DEFINE f == IF srv.fin = "none" THEN "pending" ELSE srv.fin
           b == [srv EXCEPT !.payload = p, !.fin = f]
<1>2. CASE srv.fin = "incomplete" \/ p.lost
  <2>1. srv'.fin = "incomplete"
    BY <1>2 DEF Finalized, SInv, NInv, VInv, IInv, TypeOK
  <2> QED
    BY <2>1 DEF Held
<1>3. CASE srv.fin # "incomplete" /\ ~p.lost
  <2>1. srv' = Judged(b)
    BY <1>3 DEF Finalized
  <2>2. /\ b.fin = f /\ b.payload = p /\ b.got = srv.got
        /\ {"fin", "payload", "got"} \subseteq DOMAIN b
    BY DEF SInv, NInv, VInv, IInv, TypeOK
  <2> HIDE DEF b
  <2>3. b.fin = "complete" => 0 .. b.payload.final \subseteq b.got
    BY <1>1, <2>2 DEF SInv, Held
  <2> QED
    BY <2>1, <2>2, <2>3, JudgedHeld DEF Held
<1> QED
  BY <1>2, <1>3

LEMMA JudgmentHeld == ASSUME SInv, Judgment PROVE Held' /\ srv'.payload = srv.payload
BY DEF SInv, Judgment, Held

LEMMA HeldNext ==
  ASSUME SInv, [Next]_vars
  PROVE  Held' /\ (srv'.payload = srv.payload \/ \E t \in Tabs : sendFinalizeIfDue(t))
<1>1. DOMAIN srv = {"live", "phase", "holder", "take", "got", "fin", "payload"}
  BY DEF SInv, NInv, VInv, IInv, TypeOK
<1>2. ASSUME NEW t \in Tabs, Starting(t) PROVE Judgment
  BY <1>1, <1>2 DEF Starting, Start, PromptFails, ClaimGranted, claimWithRetry, ClaimRefused, Arm,
     StartRefused, Begin, BeginUnheeded, BeginThrows, Abandon, Judgment
<1>3. ASSUME NEW t \in Tabs, Recording(t) PROVE Judgment
  BY <1>3 DEF Recording, Slice, persistBlob, PersistFails, stopRecording, notePageHide,
     handleRecorderStop, commitRecorderStop, CommitFails, Judgment
<1>4. ASSUME NEW t \in Tabs, Hear(t) \/ Bind(t) PROVE Judgment
  BY <1>1, <1>4 DEF Hear, Bind, HearRevoked, HearReplaced, HearUnheeded, InterruptStops, ReconcileIdle,
     ReconcileReads, ReconcileMerges, Judgment
<1>5. ASSUME NEW t \in Tabs, Purge(t) \/ UploadRefused(t) \/ UploadUnheeded(t) \/ FinalizeAnswered(t)
      PROVE  Judgment
  BY <1>5 DEF Purge, UploadRefused, UploadUnheeded, FinalizeAnswered, Judgment
<1>6. ASSUME NEW t \in Tabs, Page(t) PROVE Judgment
  BY <1>1, <1>6 DEF Page, OpenLive, OpenRestored, OpenUpload, Close, Admit, Drop, Judgment
<1>7. ASSUME NEW t \in Tabs, uploadNextChunk(t) PROVE Held' /\ srv'.payload = srv.payload
  BY <1>7, StoredHeld DEF uploadNextChunk
<1>8. ASSUME NEW t \in Tabs, sendFinalizeIfDue(t) PROVE Held'
  <2>1. row.payload # NoPayload
    BY <1>8 DEF sendFinalizeIfDue, finalizeDue
  <2>2. \/ FinalizeVerdict(t, row.payload) = "accepted" /\ srv' = Finalized(row.payload)
        \/ srv' = srv
    BY <1>8 DEF sendFinalizeIfDue
  <2> QED
    BY <2>1, <2>2, FinalizedHeld, JudgmentHeld DEF Judgment
<1>9. CASE Service
  BY <1>1, <1>9 DEF Service, OtherDevice, Revoke, End, GraceEnds, SInv, Held
<1>10. CASE UNCHANGED vars
  BY <1>10, JudgmentHeld DEF vars, Judgment
<1> QED
  BY <1>2, <1>3, <1>4, <1>5, <1>6, <1>7, <1>8, <1>9, <1>10, JudgmentHeld DEF Next, Pump, Finalize

\* A declaration of a whole take goes out of one that is over.
LEMMA sendFinalizeIfDueSent ==
  ASSUME SInv, NEW t \in Tabs, sendFinalizeIfDue(t) PROVE Sent'
<1>1. /\ row # NoMeta /\ row' = row /\ row.payload # NoPayload
      /\ srv' = srv \/ srv' = Finalized(row.payload)
  BY DEF sendFinalizeIfDue, finalizeDue, disk
<1>2. Tally(t)
  BY sendFinalizeIfDueTally DEF SInv
<1>3. ASSUME srv.take = "gone", \A u \in Tabs : ~Works(tab[u])
      PROVE  srv'.take = "gone" /\ \A u \in Tabs : ~Works(tab'[u])
  BY <1>2, <1>3 DEF Tally, TabCounts, SrvCounts, Goes
<1>4. srv'.payload \in {srv.payload, row.payload}
  <2> DEFINE f == IF srv.fin = "none" THEN "pending" ELSE srv.fin
             a == [srv EXCEPT !.payload = row.payload, !.fin = "incomplete"]
             b == [srv EXCEPT !.payload = row.payload, !.fin = f]
  <2>1. srv' \in {srv, a, Judged(b)}
    BY <1>1 DEF Finalized
  <2>2. a.payload = row.payload /\ b.payload = row.payload
    BY DEF SInv, NInv, VInv, IInv, TypeOK
  <2> HIDE DEF a, b
  <2>3. Judged(b).payload = b.payload
    BY DEF Judged
  <2> QED
    BY <2>1, <2>2, <2>3
<1>5. CASE srv'.payload = srv.payload
  BY <1>1, <1>3, <1>5 DEF SInv, Sent
<1>6. CASE srv'.payload = row.payload /\ ~row.payload.lost
  <2>1. row.rec = "stopped" /\ row.payload.final = row.next - 1
    BY <1>1, <1>6 DEF SInv, NInv, Plain
  <2>2. srv.take = "gone" /\ \A u \in Tabs : ~Works(tab[u])
    BY <1>1, <2>1 DEF SInv, NInv, Ongoing
  <2> QED
    BY <1>1, <1>3, <1>6, <2>1, <2>2 DEF Sent
<1>7. CASE srv'.payload.lost
  BY <1>7 DEF Sent
<1> QED
  BY <1>4, <1>5, <1>6, <1>7

LEMMA SNext == ASSUME SInv, [Next]_vars PROVE SInv'
<1>1. NInv' /\ Held' /\ Books
  BY NNext, HeldNext DEF SInv, Books
<1>2. CASE \E t \in Tabs : sendFinalizeIfDue(t)
  BY <1>1, <1>2, sendFinalizeIfDueSent DEF SInv
<1>3. CASE srv'.payload = srv.payload
  <2> SUFFICES ASSUME srv.payload # NoPayload, ~srv.payload.lost PROVE Sent'
    BY <1>1, <1>3 DEF SInv, Sent
  <2>1. /\ srv.take = "gone" /\ \A t \in Tabs : ~Works(tab[t])
        /\ row # NoMeta => srv.payload.final = row.next - 1
    BY DEF SInv, Sent
  <2>2. ASSUME NEW t \in Tabs, Tally(t) PROVE Sent'
    <3>1. row' # NoMeta => row # NoMeta /\ row'.next = row.next
      BY <2>2 DEF Tally, RowAlters, Alters
    <3>2. srv'.take = "gone" /\ \A u \in Tabs : ~Works(tab'[u])
      BY <2>1, <2>2 DEF Tally, TabCounts, SrvCounts, Goes
    <3> QED
      BY <1>3, <2>1, <3>1, <3>2 DEF Sent
  <2>3. ASSUME NEW t \in Tabs, Works(tab[t]) \/ Arm(t) PROVE Sent'
    <3>1. ASSUME Arm(t) PROVE FALSE
      <4>1. Open(t) /\ tab[t].start = "granted" /\ tab[t].out = {}
        BY <3>1 DEF Arm, At, Is, Open, startBlocked
      <4>2. srv.take = t
        BY <4>1, NOpen DEF SInv, Sound
      <4> QED
        BY <2>1, <4>2, Names
    <3> QED
      BY <2>1, <2>3, <3>1
  <2>4. CASE UNCHANGED <<row, tab, captured>> /\ (UNCHANGED srv \/ Service)
    <3>1. srv'.take = srv.take
      BY <2>4 DEF Service, OtherDevice, Revoke, End, GraceEnds, SInv, NInv, VInv, IInv, TypeOK
    <3> QED
      BY <1>3, <2>1, <2>4, <3>1 DEF Sent
  <2> QED
    BY <1>1, <2>2, <2>3, <2>4 DEF Books
<1> QED
  BY <1>1, <1>2, <1>3, HeldNext

\* A stored slice stays in IndexedDB until the server has it, and a student is told
\* that the page is safe to close only once the server has every slice stored.
THEOREM StoredCorrect == Spec => []StoredIsKept
<1>1. Init => SInv
  BY NInitial DEF SInv, Sent, Held, Init
<1>2. SInv /\ [Next]_vars => SInv'
  BY SNext
<1>3. SInv /\ KeptSomewhere => StoredIsKept
  <2> SUFFICES ASSUME SInv, KeptSomewhere, closeBanner(row, chunks) = "safe"
               PROVE  stored \subseteq srv.got
    BY DEF StoredIsKept
  <2>1. row # NoMeta /\ row.server = "complete"
    BY DEF closeBanner, SafeToClose
  <2>2. srv.fin = "complete"
    BY <2>1 DEF SInv, NInv, VInv, True, Terminal
  <2>3. srv.payload.final = row.next - 1
    BY <2>1, <2>2 DEF SInv, NInv, VInv, SrvSound, Sent
  <2> QED
    BY <2>1, <2>2, <2>3 DEF SInv, Held, stored
<1> QED
  BY <1>1, <1>2, <1>3, SlicesKept, PTL DEF Spec
=============================================================================

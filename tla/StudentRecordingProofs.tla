----------------------- MODULE StudentRecordingProofs -----------------------
(***************************************************************************)
(* Proofs about StudentRecording, for any number of tabs, slices, loads    *)
(* and faults.                                                             *)
(***************************************************************************)
EXTENDS StudentRecording, TLAPS

(* A change of the row that gives no sequence out.                         *)
Calm(m, n) ==
  /\ m = NoMeta => n = NoMeta
  /\ m # NoMeta => n = NoMeta \/ (n \in Meta /\ n.next = m.next)

-----------------------------------------------------------------------------
(***************************************************************************)
(* The decisions of the queue.                                             *)
(***************************************************************************)
LEMMA MetaPresent == \A m \in Meta : m # NoMeta
<1> SUFFICES ASSUME NEW m \in Meta, m = NoMeta PROVE FALSE
  OBVIOUS
<1>1. m.rec = "absent"
  BY DEF NoMeta
<1> QED
  BY <1>1 DEF Meta

LEMMA EmptyFacts == emptyMeta \in Meta /\ emptyMeta.next = 0
BY DEF emptyMeta, Meta, NoPayload, Servers, Terminal

LEMMA DeclarationFacts ==
  \A m \in Meta : \A lost \in BOOLEAN : Declaration(m, lost) \in [final : Int, lost : BOOLEAN]
BY DEF Meta, Declaration

\* No decision on a row gives a sequence out, and each keeps the row's type.
LEMMA DeclareFacts ==
  ASSUME NEW m \in Meta
  PROVE  /\ persistStop(m) \in Meta /\ persistStop(m).next = m.next
         /\ persistRecorderLost(m) \in Meta /\ persistRecorderLost(m).next = m.next
<1>1. IfNone(m.server) \in Servers
  BY DEF Meta, IfNone, Servers
<1>2. m.stamp + 1 \in Nat /\ (IF m.stamp = 0 THEN 1 ELSE m.stamp) \in Nat
  BY DEF Meta
<1>3. /\ Declaration(m, FALSE) \in [final : Int, lost : BOOLEAN]
      /\ Declaration(m, TRUE) \in [final : Int, lost : BOOLEAN]
  BY DeclarationFacts
<1>4. persistStop(m) \in Meta /\ persistStop(m).next = m.next
  BY <1>1, <1>2, <1>3 DEF Meta, persistStop
<1>5. persistRecorderLost(m) \in Meta /\ persistRecorderLost(m).next = m.next
  BY <1>1, <1>2, <1>3 DEF Meta, persistRecorderLost
<1> QED
  BY <1>4, <1>5

LEMMA FlagFacts ==
  ASSUME NEW m \in Meta, NEW b \in BOOLEAN
  PROVE  /\ [m EXCEPT !.operator = b] \in Meta /\ [m EXCEPT !.operator = b].next = m.next
         /\ [m EXCEPT !.flush = b] \in Meta /\ [m EXCEPT !.flush = b].next = m.next
         /\ [m EXCEPT !.stamp = @ + 1] \in Meta /\ [m EXCEPT !.stamp = @ + 1].next = m.next
BY DEF Meta

LEMMA FailureFacts ==
  ASSUME NEW m \in Meta, NEW block \in Blocks
  PROVE  notePermanentFailure(m, block) \in Meta /\ notePermanentFailure(m, block).next = m.next
BY DEF Meta, notePermanentFailure

LEMMA ReblockedFacts == \A m \in Meta : Reblocked(m) \in Meta /\ Reblocked(m).next = m.next
<1> SUFFICES ASSUME NEW m \in Meta PROVE Reblocked(m) \in Meta /\ Reblocked(m).next = m.next
  OBVIOUS
<1>1. CASE m.block = "none"
  BY <1>1 DEF Reblocked
<1>2. CASE m.block # "none"
  BY <1>2, FailureFacts DEF Reblocked, Meta
<1> QED
  BY <1>1, <1>2

LEMMA DeclaredFacts ==
  ASSUME NEW m \in Meta, NEW why
  PROVE  Declared(why, m) \in Meta /\ Declared(why, m).next = m.next
<1> DEFINE lost == persistRecorderLost(m)
           op   == [lost EXCEPT !.operator = TRUE]
<1>1. lost \in Meta /\ lost.next = m.next
  BY DeclareFacts
<1> HIDE DEF lost
<1>2. op \in Meta /\ op.next = m.next
  BY <1>1, FlagFacts
<1> HIDE DEF op
<1>3. Reblocked(op) \in Meta /\ Reblocked(op).next = m.next
  BY <1>2, ReblockedFacts
<1>4. persistInterrupted(m) \in {m, Reblocked(op)} /\ persistReplaced(m) \in {m, lost}
  BY DEF persistInterrupted, persistReplaced, op, lost
<1> QED
  BY <1>1, <1>3, <1>4 DEF Declared

LEMMA FlushFacts ==
  ASSUME NEW m \in Meta
  PROVE  /\ holdForRecorderFlush(m) \in Meta /\ holdForRecorderFlush(m).next = m.next
         /\ releaseRecorderFlush(m) \in Meta /\ releaseRecorderFlush(m).next = m.next
<1>1. holdForRecorderFlush(m) \in Meta /\ holdForRecorderFlush(m).next = m.next
  BY FlagFacts DEF holdForRecorderFlush
<1> DEFINE free == [m EXCEPT !.flush = FALSE]
           lost == persistRecorderLost(free)
           anew == [lost EXCEPT !.stamp = @ + 1]
<1>2. free \in Meta /\ free.next = m.next
  BY FlagFacts
<1>3. releaseRecorderFlush(m) \in {free, Reblocked(anew)}
  BY DEF releaseRecorderFlush
<1> HIDE DEF free
<1>4. lost \in Meta /\ lost.next = m.next
  BY <1>2, DeclareFacts
<1> HIDE DEF lost
<1>5. anew \in Meta /\ anew.next = m.next
  BY <1>4, FlagFacts
<1> HIDE DEF anew
<1>6. Reblocked(anew) \in Meta /\ Reblocked(anew).next = m.next
  BY <1>5, ReblockedFacts
<1> QED
  BY <1>1, <1>2, <1>3, <1>6

LEMMA StatusFacts ==
  ASSUME NEW m \in Meta, NEW state \in Servers
  PROVE  applyServerStatus(m, state) \in Meta /\ applyServerStatus(m, state).next = m.next
<1> DEFINE held == IF m.server \in Terminal /\ state \notin Terminal THEN m.server ELSE state
<1>1. held \in Servers
  BY DEF Meta
<1>2. applyServerStatus(m, state) =
        CASE held = "complete"   -> [m EXCEPT !.server = held, !.confirmed = TRUE, !.pending = FALSE]
          [] held = "incomplete" -> [m EXCEPT !.server = held, !.confirmed = FALSE, !.pending = FALSE]
          [] OTHER               -> [m EXCEPT !.server = held]
  BY DEF applyServerStatus
<1> HIDE DEF held
<1>3. CASE held = "complete"
  BY <1>1, <1>2, <1>3 DEF Meta
<1>4. CASE held = "incomplete"
  BY <1>1, <1>2, <1>4 DEF Meta
<1>5. CASE held \notin {"complete", "incomplete"}
  BY <1>1, <1>2, <1>5 DEF Meta
<1> QED
  BY <1>3, <1>4, <1>5

LEMMA UnblockFacts ==
  ASSUME NEW m \in Meta, NEW remaining \in SUBSET Blocks,
         NEW n \in clearUnauthorizedUploadBlock(m, remaining)
  PROVE  n \in Meta /\ n.next = m.next
<1>1. CASE m.block # "unauthorized"
  BY <1>1 DEF clearUnauthorizedUploadBlock
<1>2. CASE m.block = "unauthorized"
  <2> DEFINE resumed == m.payload # NoPayload /\ ~Settled(m) /\ remaining \cap stopsFinalize = {}
             o == remaining # {} \/ (m.rec = "lost" /\ m.operator)
             p == m.pending \/ resumed
  <2>1. PICK b \in IF remaining = {} THEN {"none"} ELSE remaining :
          n = [m EXCEPT !.block = b, !.operator = o, !.pending = p]
    BY <1>2 DEF clearUnauthorizedUploadBlock
  <2>2. b \in Blocks \cup {"none"}
    BY <2>1
  <2>3. o \in BOOLEAN /\ p \in BOOLEAN
    OBVIOUS
  <2> HIDE DEF o, p
  <2> QED
    BY <2>1, <2>2, <2>3 DEF Meta
<1> QED
  BY <1>1, <1>2
-----------------------------------------------------------------------------
(***************************************************************************)
(* The invariant.  A tab that has not started yet does not record, and one *)
(* that was put out stops, or could not (Sound, first two).  Nothing was   *)
(* recorded before the take id of the claim is forgotten; until then the   *)
(* claim is in the hands of one tab, and there is no row.                  *)
(***************************************************************************)
Sound(t, T, take, m) ==
  /\ T.start # "idle" => T.rec # "running"
  /\ T.out # {} /\ T.rec = "running" => T.stop \/ T.unheeded
  /\ take # "gone" => T.rec = "none" /\ T.buf = 0
  /\ T.start \in {"granted", "armed", "abandon"} => take \in {t, "gone"}
  /\ T.start = "granted" /\ T.out = {} => take = t /\ m = NoMeta

Fits(t, T, take, m) == T = Closed \/ (TabOK(T) /\ Sound(t, T, take, m))

IInv == TypeOK /\ \A t \in Tabs : Fits(t, tab[t], srv.take, row)

(* A step of tab t that neither claims the take nor gives a sequence out.  *)
SrvPart(t) ==
  /\ DOMAIN srv' = {"live", "phase", "holder", "take", "got", "fin", "payload"}
  /\ srv'.take \in {srv.take, Forgotten(t)} /\ srv'.fin \in Servers /\ srv.got \subseteq srv'.got

ChunkPart ==
  /\ \A s \in DOMAIN chunks' : chunks'[s] \in Blocks \cup {"waiting"}
  /\ row' = NoMeta \/ DOMAIN chunks \subseteq DOMAIN chunks' \cup srv'.got

TabPart(t) ==
  /\ DOMAIN tab' = Tabs /\ \A u \in Tabs \ {t} : tab'[u] = tab[u]
  /\ Fits(t, tab'[t], srv'.take, row')

Quiet(t) == Calm(row, row') /\ SrvPart(t) /\ ChunkPart /\ TabPart(t)

LEMMA Names == /\ NoTab \notin Tabs /\ "gone" \notin Tabs /\ NoTab # "gone"
               /\ "other" \notin Tabs
BY RecordingConstants DEF NoTab

LEMMA OpenFacts ==
  ASSUME IInv, NEW t \in Tabs, Open(t)
  PROVE  TabOK(tab[t]) /\ Sound(t, tab[t], srv.take, row)
BY DEF IInv, Fits, Open, Is, Closed

LEMMA QuietStep == ASSUME IInv, NEW t \in Tabs, Quiet(t) PROVE IInv'
<1>1. row' = NoMeta \/ row' \in Meta
  BY DEF Quiet, Calm, IInv, TypeOK
<1>2. srv'.take \in Tabs \cup {NoTab, "gone"}
  BY DEF Quiet, SrvPart, Forgotten, IInv, TypeOK
<1>3. ASSUME NEW u \in Tabs \ {t} PROVE Fits(u, tab'[u], srv'.take, row')
  <2>1. tab'[u] = tab[u] /\ Fits(u, tab[u], srv.take, row)
    BY DEF Quiet, TabPart, IInv
  <2>2. row = NoMeta => row' = NoMeta
    BY DEF Quiet, Calm
  <2>3. srv'.take = srv.take \/ (srv.take = t /\ srv'.take = "gone")
    BY DEF Quiet, SrvPart, Forgotten
  <2> QED
    BY <2>1, <2>2, <2>3, Names DEF Fits, Sound
<1>4. Fits(t, tab'[t], srv'.take, row')
  BY DEF Quiet, TabPart
<1>5. \A u \in Tabs : Fits(u, tab'[u], srv'.take, row')
  BY <1>3, <1>4
<1>6. TypeOK'
  <2>1. \A u \in Tabs : tab'[u] = Closed \/ TabOK(tab'[u])
    BY <1>5 DEF Fits
  <2> QED
    BY <1>1, <1>2, <2>1 DEF Quiet, SrvPart, ChunkPart, TabPart, TypeOK
<1> QED
  BY <1>5, <1>6 DEF IInv

LEMMA RowStill == ASSUME IInv, row' = row PROVE Calm(row, row')
BY DEF IInv, TypeOK, Calm

LEMMA SrvStill == ASSUME IInv, NEW t, srv' = srv PROVE SrvPart(t)
BY DEF IInv, TypeOK, SrvPart

LEMMA ChunksStill ==
  ASSUME IInv, NEW t, chunks' = chunks
  PROVE  ChunkPart
BY DEF IInv, TypeOK, ChunkPart

LEMMA TabStill ==
  ASSUME IInv, NEW t \in Tabs, tab' = tab, Calm(row, row'), SrvPart(t), srv'.take = srv.take
  PROVE  TabPart(t)
<1>1. Fits(t, tab[t], srv.take, row)
  BY DEF IInv
<1>2. row = NoMeta => row' = NoMeta
  BY DEF Calm
<1> QED
  BY <1>1, <1>2 DEF TabPart, Fits, Sound, IInv, TypeOK

\* Server, row and slices as they were: what is left is the tab.
LEMMA LocalStep ==
  ASSUME IInv, NEW t \in Tabs, UNCHANGED <<row, chunks, srv>>, TabPart(t)
  PROVE  Quiet(t)
BY RowStill, SrvStill, ChunksStill DEF Quiet

-----------------------------------------------------------------------------
(***************************************************************************)
(* Steps that change the tab alone.                                        *)
(***************************************************************************)
LEMMA TabSet ==
  ASSUME IInv, NEW t \in Tabs, NEW X, tab' = [tab EXCEPT ![t] = X],
         TabOK(X), Sound(t, X, srv'.take, row')
  PROVE  TabPart(t)
BY DEF TabPart, Fits, IInv, TypeOK

LEMMA ReconcileIdleQuiet == ASSUME IInv, NEW t \in Tabs, ReconcileIdle(t) PROVE Quiet(t)
<1>1. TabOK(tab[t]) /\ Sound(t, tab[t], srv.take, row)
  BY OpenFacts DEF ReconcileIdle, At, Is, Open
<1> DEFINE X == [tab[t] EXCEPT !.bind = Off]
<1>2. tab' = [tab EXCEPT ![t] = X]
  BY DEF ReconcileIdle, Set
<1>3. UNCHANGED <<row, chunks, srv>>
  BY DEF ReconcileIdle, disk
<1>4. TabOK(X)
  BY <1>1 DEF TabOK, Loaded, Off, Rebound
<1>5. Sound(t, X, srv'.take, row')
  BY <1>1, <1>3 DEF ReconcileIdle, At, Is, TabOK, Loaded, Sound
<1> QED
  BY <1>2, <1>3, <1>4, <1>5, TabSet, LocalStep

LEMMA InterruptStopsQuiet == ASSUME IInv, NEW t \in Tabs, InterruptStops(t) PROVE Quiet(t)
<1>1. TabOK(tab[t]) /\ Sound(t, tab[t], srv.take, row)
  BY OpenFacts DEF InterruptStops, At, Is, Open
<1> DEFINE X == [tab[t] EXCEPT !.stop = FALSE, !.rec = IF @ = "running" THEN "inactive" ELSE @]
<1>2. tab' = [tab EXCEPT ![t] = X]
  BY DEF InterruptStops, Set
<1>3. UNCHANGED <<row, chunks, srv>>
  BY DEF InterruptStops, disk
<1>4. TabOK(X)
  BY <1>1 DEF TabOK, Loaded, Off, Rebound
<1>5. Sound(t, X, srv'.take, row')
  BY <1>1, <1>3 DEF InterruptStops, At, Is, TabOK, Loaded, Sound
<1> QED
  BY <1>2, <1>3, <1>4, <1>5, TabSet, LocalStep

LEMMA StartQuiet == ASSUME IInv, NEW t \in Tabs, Start(t) PROVE Quiet(t)
<1>1. TabOK(tab[t]) /\ Sound(t, tab[t], srv.take, row)
  BY OpenFacts DEF Start, At, Is, Open
<1> DEFINE X == [tab[t] EXCEPT !.start = "prompt", !.bind = Rebound(t)]
<1>2. tab' = [tab EXCEPT ![t] = X]
  BY DEF Start, Set
<1>3. UNCHANGED <<row, chunks, srv>>
  BY DEF Start, disk
<1>4. TabOK(X)
  BY <1>1 DEF TabOK, Loaded, Off, Rebound
<1>5. Sound(t, X, srv'.take, row')
  BY <1>1, <1>3 DEF Start, At, Is, TabOK, Loaded, Sound
<1> QED
  BY <1>2, <1>3, <1>4, <1>5, TabSet, LocalStep

LEMMA PromptFailsQuiet == ASSUME IInv, NEW t \in Tabs, PromptFails(t) PROVE Quiet(t)
<1>1. TabOK(tab[t]) /\ Sound(t, tab[t], srv.take, row)
  BY OpenFacts DEF PromptFails, At, Is, Open
<1> DEFINE X == [tab[t] EXCEPT !.start = "idle"]
<1>2. tab' = [tab EXCEPT ![t] = X]
  BY DEF PromptFails, Set
<1>3. UNCHANGED <<row, chunks, srv>>
  BY DEF PromptFails, disk
<1>4. TabOK(X)
  BY <1>1 DEF TabOK, Loaded, Off, Rebound
<1>5. Sound(t, X, srv'.take, row')
  BY <1>1, <1>3 DEF PromptFails, At, Is, TabOK, Loaded, Sound
<1> QED
  BY <1>2, <1>3, <1>4, <1>5, TabSet, LocalStep

LEMMA StartRefusedQuiet == ASSUME IInv, NEW t \in Tabs, StartRefused(t) PROVE Quiet(t)
<1>1. TabOK(tab[t]) /\ Sound(t, tab[t], srv.take, row)
  BY OpenFacts DEF StartRefused, At, Is, Open
<1> DEFINE X == [tab[t] EXCEPT !.start = "idle"]
<1>2. tab' = [tab EXCEPT ![t] = X]
  BY DEF StartRefused, Set
<1>3. UNCHANGED <<row, chunks, srv>>
  BY DEF StartRefused, disk
<1>4. TabOK(X)
  BY <1>1 DEF TabOK, Loaded, Off, Rebound
<1>5. Sound(t, X, srv'.take, row')
  BY <1>1, <1>3 DEF StartRefused, At, Is, TabOK, Loaded, Sound
<1> QED
  BY <1>2, <1>3, <1>4, <1>5, TabSet, LocalStep

LEMMA BeginThrowsQuiet == ASSUME IInv, NEW t \in Tabs, BeginThrows(t) PROVE Quiet(t)
<1>1. TabOK(tab[t]) /\ Sound(t, tab[t], srv.take, row)
  BY OpenFacts DEF BeginThrows, At, Is, Open
<1> DEFINE X == [tab[t] EXCEPT !.start = "abandon"]
<1>2. tab' = [tab EXCEPT ![t] = X]
  BY DEF BeginThrows, Set
<1>3. UNCHANGED <<row, chunks, srv>>
  BY DEF BeginThrows, disk
<1>4. TabOK(X)
  BY <1>1 DEF TabOK, Loaded, Off, Rebound
<1>5. Sound(t, X, srv'.take, row')
  BY <1>1, <1>3 DEF BeginThrows, At, Is, TabOK, Loaded, Sound
<1> QED
  BY <1>2, <1>3, <1>4, <1>5, TabSet, LocalStep

LEMMA SliceQuiet == ASSUME IInv, NEW t \in Tabs, Slice(t) PROVE Quiet(t)
<1>1. TabOK(tab[t]) /\ Sound(t, tab[t], srv.take, row)
  BY OpenFacts DEF Slice, At, Is, Open
<1> DEFINE X == [tab[t] EXCEPT !.buf = @ + 1]
<1>2. tab' = [tab EXCEPT ![t] = X]
  BY DEF Slice, Set
<1>3. UNCHANGED <<row, chunks, srv>>
  BY DEF Slice, disk
<1>4. TabOK(X)
  BY <1>1 DEF TabOK, Loaded, Off, Rebound
<1>5. Sound(t, X, srv'.take, row')
  BY <1>1, <1>3 DEF Slice, At, Is, TabOK, Loaded, Sound
<1> QED
  BY <1>2, <1>3, <1>4, <1>5, TabSet, LocalStep

LEMMA stopRecordingQuiet == ASSUME IInv, NEW t \in Tabs, stopRecording(t) PROVE Quiet(t)
<1>1. TabOK(tab[t]) /\ Sound(t, tab[t], srv.take, row)
  BY OpenFacts DEF stopRecording, At, Is, Open
<1> DEFINE X == [tab[t] EXCEPT !.rec = "inactive"]
<1>2. tab' = [tab EXCEPT ![t] = X]
  BY DEF stopRecording, Set
<1>3. UNCHANGED <<row, chunks, srv>>
  BY DEF stopRecording, disk
<1>4. TabOK(X)
  BY <1>1 DEF TabOK, Loaded, Off, Rebound
<1>5. Sound(t, X, srv'.take, row')
  BY <1>1, <1>3 DEF stopRecording, At, Is, TabOK, Loaded, Sound
<1> QED
  BY <1>2, <1>3, <1>4, <1>5, TabSet, LocalStep

LEMMA notePageHideQuiet == ASSUME IInv, NEW t \in Tabs, notePageHide(t) PROVE Quiet(t)
<1>1. TabOK(tab[t]) /\ Sound(t, tab[t], srv.take, row)
  BY OpenFacts DEF notePageHide, At, Is, Open
<1> DEFINE X == [tab[t] EXCEPT !.rec = "inactive", !.asLost = TRUE]
<1>2. tab' = [tab EXCEPT ![t] = X]
  BY DEF notePageHide, Set
<1>3. UNCHANGED <<row, chunks, srv>>
  BY DEF notePageHide, disk
<1>4. TabOK(X)
  BY <1>1 DEF TabOK, Loaded, Off, Rebound
<1>5. Sound(t, X, srv'.take, row')
  BY <1>1, <1>3 DEF notePageHide, At, Is, TabOK, Loaded, Sound
<1> QED
  BY <1>2, <1>3, <1>4, <1>5, TabSet, LocalStep

LEMMA CommitFailsQuiet == ASSUME IInv, NEW t \in Tabs, CommitFails(t) PROVE Quiet(t)
<1>1. TabOK(tab[t]) /\ Sound(t, tab[t], srv.take, row)
  BY OpenFacts DEF CommitFails, At, Is, Open
<1> DEFINE X == [tab[t] EXCEPT !.commit = FALSE, !.asLost = FALSE]
<1>2. tab' = [tab EXCEPT ![t] = X]
  BY DEF CommitFails, Set, Committed
<1>3. UNCHANGED <<row, chunks, srv>>
  BY DEF CommitFails, disk
<1>4. TabOK(X)
  BY <1>1 DEF TabOK, Loaded, Off, Rebound
<1>5. Sound(t, X, srv'.take, row')
  BY <1>1, <1>3 DEF CommitFails, At, Is, TabOK, Loaded, Sound
<1> QED
  BY <1>2, <1>3, <1>4, <1>5, TabSet, LocalStep

LEMMA handleRecorderStopQuiet ==
  ASSUME IInv, NEW t \in Tabs, handleRecorderStop(t) PROVE Quiet(t)
<1>1. TabOK(tab[t]) /\ Sound(t, tab[t], srv.take, row)
  BY OpenFacts DEF handleRecorderStop
<1>2. PICK n \in 0 .. 1 :
        tab' = [tab EXCEPT ![t].rec = "none", ![t].commit = TRUE, ![t].buf = @ + n]
  BY DEF handleRecorderStop
<1> DEFINE X == [tab[t] EXCEPT !.rec = "none", !.commit = TRUE, !.buf = @ + n]
<1>3. tab' = [tab EXCEPT ![t] = X] /\ UNCHANGED <<row, chunks, srv>>
  BY <1>2 DEF handleRecorderStop, disk
<1>4. TabOK(X)
  BY <1>1 DEF TabOK, Loaded
<1>5. Sound(t, X, srv'.take, row')
  BY <1>1, <1>3 DEF handleRecorderStop, TabOK, Loaded, Sound
<1> QED
  BY <1>3, <1>4, <1>5, TabSet, LocalStep

-----------------------------------------------------------------------------
(***************************************************************************)
(* Steps that put a tab out.                                               *)
(***************************************************************************)
LEMMA CalmFacts ==
  ASSUME NEW m, m = NoMeta \/ m \in Meta, NEW n
  PROVE  /\ Calm(m, m) /\ Calm(m, NoMeta)
         /\ m = NoMeta /\ n = m => Calm(m, n)
         /\ m # NoMeta /\ n \in Meta /\ n.next = m.next => Calm(m, n)
BY DEF Calm

LEMMA CalmTwice ==
  ASSUME NEW m, m = NoMeta \/ m \in Meta, NEW n, NEW o, Calm(m, n), Calm(n, o)
  PROVE  Calm(m, o)
BY MetaPresent DEF Calm

LEMMA RowType == ASSUME IInv PROVE row = NoMeta \/ row \in Meta
BY DEF IInv, TypeOK

LEMMA InterruptedFacts ==
  ASSUME NEW t, NEW why, NEW m, m = NoMeta \/ m \in Meta
  PROVE  Calm(m, Interrupted(t, why, m))
<1>1. CASE tab[t].rec = "running" /\ m # NoMeta
  <2> DEFINE d == Declared(why, m)
  <2>1. d \in Meta /\ d.next = m.next
    BY <1>1, DeclaredFacts
  <2> HIDE DEF d
  <2>2. holdForRecorderFlush(d) \in Meta /\ holdForRecorderFlush(d).next = m.next
    BY <2>1, FlushFacts
  <2>3. Interrupted(t, why, m) = holdForRecorderFlush(d)
    BY <1>1 DEF Interrupted, d
  <2> QED
    BY <1>1, <2>2, <2>3, CalmFacts
<1>2. CASE ~(tab[t].rec = "running" /\ m # NoMeta)
  BY <1>2, CalmFacts DEF Interrupted
<1> QED
  BY <1>1, <1>2

\* A tab that is out holds no claim that a start may use.
LEMMA SoundOut ==
  ASSUME NEW t, NEW T, NEW take, NEW m, Sound(t, T, take, m), T.out # {},
         NEW later \in {take, IF take = t THEN "gone" ELSE take}, NEW n
  PROVE  Sound(t, T, later, n)
BY DEF Sound

LEMMA InterruptFacts ==
  ASSUME NEW t, NEW why, NEW take, NEW m, TabOK(tab[t]), Sound(t, tab[t], take, m),
         NEW later \in {take, IF take = t THEN "gone" ELSE take}, NEW n
  PROVE  /\ TabOK(Interrupt(t, why)) /\ Sound(t, Interrupt(t, why), later, n)
         /\ TabOK([Interrupt(t, why) EXCEPT !.admitted = FALSE])
         /\ Sound(t, [Interrupt(t, why) EXCEPT !.admitted = FALSE], later, n)
<1> DEFINE X == Interrupt(t, why)
           Y == [X EXCEPT !.admitted = FALSE]
           stops == tab[t].stop \/ tab[t].rec = "running"
           keeps == tab[t].pending /\ why # "replaced"
<1>1. stops \in BOOLEAN /\ keeps \in BOOLEAN
  BY DEF TabOK
<1>2. /\ X = [tab[t] EXCEPT !.out = @ \cup {why}, !.stop = stops, !.pending = keeps]
      /\ X.out = tab[t].out \cup {why} /\ X.stop = stops
      /\ X.start = tab[t].start /\ X.rec = tab[t].rec /\ X.buf = tab[t].buf
      /\ X.unheeded = tab[t].unheeded
  BY DEF Interrupt, TabOK, Loaded
<1>3. TabOK(X)
  BY <1>1, <1>2 DEF TabOK, Loaded
<1>4. X.rec = "running" => X.stop
  BY <1>2
<1>5. X.out # {}
  BY <1>2
<1>6. Sound(t, X, take, m)
  BY <1>2, <1>4, <1>5 DEF Sound
<1>7. Sound(t, X, later, n)
  BY <1>5, <1>6, SoundOut
<1> HIDE DEF X
<1>8. TabOK(Y)
  BY <1>3 DEF TabOK, Loaded
<1>9. /\ Y.start = X.start /\ Y.rec = X.rec /\ Y.buf = X.buf
      /\ Y.out = X.out /\ Y.stop = X.stop /\ Y.unheeded = X.unheeded
  BY <1>3 DEF TabOK, Loaded
<1>10. Sound(t, Y, later, n)
  BY <1>7, <1>9 DEF Sound
<1> QED
  BY <1>3, <1>7, <1>8, <1>10 DEF X

LEMMA HearRevokedQuiet == ASSUME IInv, NEW t \in Tabs, HearRevoked(t) PROVE Quiet(t)
<1>1. TabOK(tab[t]) /\ Sound(t, tab[t], srv.take, row)
  BY OpenFacts DEF HearRevoked, ToldRevoked, Is, Open
<1>2. Calm(row, row')
  BY RowType, InterruptedFacts DEF HearRevoked
<1>3. SrvPart(t) /\ ChunkPart
  BY SrvStill, ChunksStill DEF HearRevoked
<1>4. srv'.take = srv.take
  BY DEF HearRevoked
<1> DEFINE X == [Interrupt(t, "revoked") EXCEPT !.admitted = FALSE]
<1>5. TabOK(X) /\ Sound(t, X, srv'.take, row')
  BY <1>1, <1>4, InterruptFacts
<1>6. tab' = [tab EXCEPT ![t] = X]
  BY DEF HearRevoked
<1> HIDE DEF X
<1> QED
  BY <1>2, <1>3, <1>5, <1>6, TabSet DEF Quiet

LEMMA HearReplacedQuiet == ASSUME IInv, NEW t \in Tabs, HearReplaced(t) PROVE Quiet(t)
<1>1. TabOK(tab[t]) /\ Sound(t, tab[t], srv.take, row)
  BY OpenFacts DEF HearReplaced, ToldReplaced, Is, Open
<1>2. Calm(row, row')
  BY RowType, InterruptedFacts DEF HearReplaced
<1>3. srv' = [srv EXCEPT !.take = Forgotten(t)]
  BY DEF HearReplaced
<1>4. SrvPart(t) /\ srv'.take = (IF srv.take = t THEN "gone" ELSE srv.take)
  BY <1>3 DEF SrvPart, Forgotten, IInv, TypeOK
<1>5. ChunkPart
  BY ChunksStill DEF HearReplaced
<1> DEFINE X == [Interrupt(t, "replaced") EXCEPT !.admitted = FALSE]
<1>6. TabOK(X) /\ Sound(t, X, srv'.take, row')
  BY <1>1, <1>4, InterruptFacts
<1>7. tab' = [tab EXCEPT ![t] = X]
  BY DEF HearReplaced
<1> HIDE DEF X
<1> QED
  BY <1>2, <1>4, <1>5, <1>6, <1>7, TabSet DEF Quiet

\* The declaration of the interruption is refused.
LEMMA UnheededFacts ==
  ASSUME NEW t, NEW why, NEW take, NEW m, TabOK(tab[t]), Sound(t, tab[t], take, m),
         NEW later \in {take, IF take = t THEN "gone" ELSE take}, NEW n
  PROVE  /\ TabOK(Unheeded(t, why)) /\ Sound(t, Unheeded(t, why), later, n)
         /\ TabOK([Unheeded(t, why) EXCEPT !.admitted = FALSE])
         /\ Sound(t, [Unheeded(t, why) EXCEPT !.admitted = FALSE], later, n)
<1> DEFINE X == Unheeded(t, why)
           Y == [X EXCEPT !.admitted = FALSE]
           keeps == tab[t].pending /\ why # "replaced"
<1>1. /\ X = [tab[t] EXCEPT !.out = @ \cup {why}, !.unheeded = TRUE, !.pending = keeps]
      /\ X.out = tab[t].out \cup {why} /\ X.stop = tab[t].stop /\ X.unheeded
      /\ X.start = tab[t].start /\ X.rec = tab[t].rec /\ X.buf = tab[t].buf
  BY DEF Unheeded, TabOK, Loaded
<1>2. TabOK(X)
  BY <1>1 DEF TabOK, Loaded
<1>3. X.out # {}
  BY <1>1
<1>4. Sound(t, X, take, m)
  BY <1>1, <1>3 DEF Sound
<1>5. Sound(t, X, later, n)
  BY <1>3, <1>4, SoundOut
<1> HIDE DEF X
<1>6. TabOK(Y)
  BY <1>2 DEF TabOK, Loaded
<1>7. /\ Y.start = X.start /\ Y.rec = X.rec /\ Y.buf = X.buf
      /\ Y.out = X.out /\ Y.stop = X.stop /\ Y.unheeded = X.unheeded
  BY <1>2 DEF TabOK, Loaded
<1>8. Sound(t, Y, later, n)
  BY <1>5, <1>7 DEF Sound
<1> QED
  BY <1>2, <1>5, <1>6, <1>8 DEF X

LEMMA HearUnheededQuiet == ASSUME IInv, NEW t \in Tabs, HearUnheeded(t) PROVE Quiet(t)
<1>1. TabOK(tab[t]) /\ Sound(t, tab[t], srv.take, row)
  BY OpenFacts DEF HearUnheeded
<1>2. row' = row /\ chunks' = chunks
  BY DEF HearUnheeded, disk
<1>3. PICK why \in {"revoked", "replaced"} :
        /\ tab' = [tab EXCEPT ![t] = [Unheeded(t, why) EXCEPT !.admitted = FALSE]]
        /\ srv' = [srv EXCEPT !.take = IF why = "replaced" THEN Forgotten(t) ELSE @]
  BY DEF HearUnheeded
<1>4. SrvPart(t) /\ srv'.take \in {srv.take, IF srv.take = t THEN "gone" ELSE srv.take}
  BY <1>3 DEF SrvPart, Forgotten, IInv, TypeOK
<1> DEFINE X == [Unheeded(t, why) EXCEPT !.admitted = FALSE]
<1>5. TabOK(X) /\ Sound(t, X, srv'.take, row')
  BY <1>1, <1>4, UnheededFacts
<1>6. tab' = [tab EXCEPT ![t] = X]
  BY <1>3
<1> HIDE DEF X
<1> QED
  BY <1>2, <1>4, <1>5, <1>6, RowStill, ChunksStill, TabSet DEF Quiet

LEMMA UploadUnheededQuiet == ASSUME IInv, NEW t \in Tabs, UploadUnheeded(t) PROVE Quiet(t)
<1>1. TabOK(tab[t]) /\ Sound(t, tab[t], srv.take, row)
  BY OpenFacts DEF UploadUnheeded
<1>2. srv' = srv
  BY DEF UploadUnheeded
<1>3. PICK s \in DOMAIN chunks : chunks' = marked(chunks, s, "unauthorized")
  BY DEF UploadUnheeded
<1>4. row' = IF row = NoMeta THEN row ELSE notePermanentFailure(row, "unauthorized")
  BY DEF UploadUnheeded
<1>5. "unauthorized" \in Blocks
  BY DEF Blocks
<1>6. Calm(row, row')
  <2>1. CASE row = NoMeta
    BY <2>1, <1>4, CalmFacts
  <2>2. CASE row # NoMeta
    BY <2>2, <1>4, <1>5, RowType, FailureFacts, CalmFacts
  <2> QED
    BY <2>1, <2>2
<1>7. ChunkPart
  BY <1>3, <1>5 DEF marked, ChunkPart, IInv, TypeOK
<1> DEFINE X == Unheeded(t, "revoked")
<1>8. TabOK(X) /\ Sound(t, X, srv'.take, row')
  BY <1>1, <1>2, UnheededFacts
<1>9. tab' = [tab EXCEPT ![t] = X]
  BY DEF UploadUnheeded
<1> HIDE DEF X
<1> QED
  BY <1>2, <1>6, <1>7, <1>8, <1>9, SrvStill, TabSet DEF Quiet

LEMMA BlockFacts ==
  ASSUME NEW t, NEW s, UploadVerdict(t, s) # "stored"
  PROVE  permanentUploadBlock(UploadVerdict(t, s)) \in Blocks
BY DEF UploadVerdict, Auth, permanentUploadBlock, Blocks

LEMMA UploadRefusedQuiet == ASSUME IInv, NEW t \in Tabs, UploadRefused(t) PROVE Quiet(t)
<1>1. TabOK(tab[t]) /\ Sound(t, tab[t], srv.take, row)
  BY OpenFacts DEF UploadRefused
<1>2. PICK s \in DOMAIN chunks :
       /\ chunks[s] = "waiting" /\ UploadVerdict(t, s) # "stored"
       /\ LET block   == permanentUploadBlock(UploadVerdict(t, s))
              noted   == IF row = NoMeta THEN row ELSE notePermanentFailure(row, block)
              revoked == isRevokedCredential(t, UploadVerdict(t, s))
          IN /\ chunks' = marked(chunks, s, block)
             /\ row' = (IF revoked THEN Interrupted(t, "revoked", noted) ELSE noted)
             /\ tab' = [tab EXCEPT ![t] = IF revoked THEN Interrupt(t, "revoked") ELSE @]
  BY DEF UploadRefused
<1> DEFINE block   == permanentUploadBlock(UploadVerdict(t, s))
           noted   == IF row = NoMeta THEN row ELSE notePermanentFailure(row, block)
           revoked == isRevokedCredential(t, UploadVerdict(t, s))
           X       == IF revoked THEN Interrupt(t, "revoked") ELSE tab[t]
<1>3. block \in Blocks
  BY <1>2, BlockFacts
<1>4. chunks' = marked(chunks, s, block)
  BY <1>2
<1>5. row' = (IF revoked THEN Interrupted(t, "revoked", noted) ELSE noted)
  BY <1>2
<1>6. tab' = [tab EXCEPT ![t] = X]
  BY <1>2
<1> HIDE DEF block, revoked
<1>7. Calm(row, noted) /\ (noted = NoMeta \/ noted \in Meta)
  <2>1. CASE row = NoMeta
    BY <2>1, CalmFacts
  <2>2. CASE row # NoMeta
    BY <2>2, <1>3, RowType, FailureFacts, CalmFacts
  <2> QED
    BY <2>1, <2>2
<1> HIDE DEF noted
<1>8. Calm(noted, Interrupted(t, "revoked", noted))
  BY <1>7, InterruptedFacts
<1>9. Calm(row, row')
  BY <1>5, <1>7, <1>8, RowType, CalmTwice
<1>10. srv' = srv
  BY DEF UploadRefused
<1>11. SrvPart(t)
  BY <1>10, SrvStill
<1>12. ChunkPart
  BY <1>3, <1>4 DEF marked, ChunkPart, IInv, TypeOK
<1>13. TabOK(X) /\ Sound(t, X, srv'.take, row')
  <2>1. CASE revoked
    BY <2>1, <1>1, <1>10, InterruptFacts
  <2>2. CASE ~revoked
    <3>1. row = NoMeta => row' = NoMeta
      BY <1>9 DEF Calm
    <3> QED
      BY <2>2, <3>1, <1>1, <1>10 DEF Sound
  <2> QED
    BY <2>1, <2>2
<1> HIDE DEF X
<1> QED
  BY <1>6, <1>9, <1>11, <1>12, <1>13, TabSet DEF Quiet

-----------------------------------------------------------------------------
(***************************************************************************)
(* A reload, the pump and the stop.                                        *)
(***************************************************************************)
LEMMA SoundSame ==
  ASSUME NEW t, NEW T, NEW take, NEW m, Sound(t, T, take, m), NEW n, m = NoMeta => n = NoMeta,
         NEW S, S.start = T.start, S.rec = T.rec, S.buf = T.buf, S.out = T.out, S.stop = T.stop,
         S.unheeded = T.unheeded
  PROVE  Sound(t, S, take, n)
BY DEF Sound

LEMMA ReconcileReadsQuiet == ASSUME IInv, NEW t \in Tabs, ReconcileReads(t) PROVE Quiet(t)
<1>1. TabOK(tab[t]) /\ Sound(t, tab[t], srv.take, row)
  BY OpenFacts DEF ReconcileReads
<1>2. row' = row /\ srv' = srv
  BY DEF ReconcileReads
<1>3. PICK ok \in {TRUE, FALSE} :
        /\ chunks' = IF ok THEN without(chunks, sequencesAlreadyReceived(chunks, srv.got)) ELSE chunks
        /\ Set(t, "bind", [pc |-> IF ok THEN srv.fin ELSE "failed",
                           here |-> tab[t].rec = "running" \/ Stopping(t)])
  BY DEF ReconcileReads
<1> DEFINE b == [pc |-> IF ok THEN srv.fin ELSE "failed",
                 here |-> tab[t].rec = "running" \/ Stopping(t)]
           X == [tab[t] EXCEPT !.bind = b]
<1>4. b.pc \in Servers \cup {"failed"}
  BY DEF IInv, TypeOK
<1>5. tab' = [tab EXCEPT ![t] = X]
  BY <1>3 DEF Set
<1> HIDE DEF b
<1>6. TabOK(X)
  BY <1>1, <1>4 DEF TabOK, Loaded
<1>7. /\ X.start = tab[t].start /\ X.rec = tab[t].rec /\ X.buf = tab[t].buf
      /\ X.out = tab[t].out /\ X.stop = tab[t].stop /\ X.unheeded = tab[t].unheeded
  BY <1>1 DEF TabOK, Loaded
<1>8. Sound(t, X, srv'.take, row')
  BY <1>1, <1>2, <1>7, SoundSame
<1>9. ChunkPart
  BY <1>2, <1>3 DEF without, sequencesAlreadyReceived, ChunkPart, IInv, TypeOK
<1> QED
  BY <1>2, <1>5, <1>6, <1>8, <1>9, RowStill, SrvStill, TabSet DEF Quiet

LEMMA MergeFacts ==
  ASSUME NEW m \in Meta, NEW fin \in Servers \cup {"failed"}, NEW here
  PROVE  mergeReload(m, fin, here) \in Meta /\ mergeReload(m, fin, here).next = m.next
<1> DEFINE next == IF fin = "failed" THEN m ELSE applyServerStatus(m, fin)
           lost == IF planReload(next) = "recorder_lost" /\ ~here THEN persistRecorderLost(next) ELSE next
<1>1. next \in Meta /\ next.next = m.next
  BY StatusFacts
<1>2. mergeReload(m, fin, here) = IF here THEN lost ELSE releaseRecorderFlush(lost)
  BY DEF mergeReload
<1> HIDE DEF next
<1>3. lost \in Meta /\ lost.next = m.next
  BY <1>1, DeclareFacts
<1> HIDE DEF lost
<1> QED
  BY <1>2, <1>3, FlushFacts

LEMMA ReconcileMergesQuiet == ASSUME IInv, NEW t \in Tabs, ReconcileMerges(t) PROVE Quiet(t)
<1>1. TabOK(tab[t]) /\ Sound(t, tab[t], srv.take, row)
  BY OpenFacts DEF ReconcileMerges
<1>2. chunks' = chunks /\ srv' = srv
  BY DEF ReconcileMerges
<1>3. Calm(row, row')
  <2>1. tab[t].bind.pc \in Servers \cup {"failed"}
    BY DEF ReconcileMerges
  <2>2. row' = IF row = NoMeta THEN row ELSE mergeReload(row, tab[t].bind.pc, tab[t].bind.here)
    BY DEF ReconcileMerges
  <2> QED
    BY <2>1, <2>2, RowType, MergeFacts, CalmFacts
<1>4. row = NoMeta => row' = NoMeta
  BY <1>3 DEF Calm
<1> DEFINE X == [tab[t] EXCEPT !.bind = Off]
<1>5. tab' = [tab EXCEPT ![t] = X]
  BY DEF ReconcileMerges, Set
<1>6. TabOK(X)
  BY <1>1 DEF TabOK, Loaded, Off
<1>7. /\ X.start = tab[t].start /\ X.rec = tab[t].rec /\ X.buf = tab[t].buf
      /\ X.out = tab[t].out /\ X.stop = tab[t].stop /\ X.unheeded = tab[t].unheeded
  BY <1>1 DEF TabOK, Loaded
<1>8. Sound(t, X, srv'.take, row')
  BY <1>1, <1>2, <1>4, <1>7, SoundSame
<1> QED
  BY <1>2, <1>3, <1>5, <1>6, <1>8, SrvStill, ChunksStill, TabSet DEF Quiet

LEMMA FinalizeAnsweredQuiet == ASSUME IInv, NEW t \in Tabs, FinalizeAnswered(t) PROVE Quiet(t)
<1>1. TabOK(tab[t]) /\ Sound(t, tab[t], srv.take, row)
  BY OpenFacts DEF FinalizeAnswered
<1>2. chunks' = chunks /\ srv' = srv
  BY DEF FinalizeAnswered
<1>3. Calm(row, row')
  <2> DEFINE f == tab[t].fin
  <2>1. f.pc \in Answered \cup Blocks \cup {"failed"}
    BY DEF FinalizeAnswered
  <2>2. row' \in {row} \/ (row # NoMeta /\ f.pc \in Blocks /\ row' = notePermanentFailure(row, f.pc))
          \/ (row # NoMeta /\ f.pc \notin Blocks \cup {"failed"} /\ row' = applyServerStatus(row, f.pc))
    BY DEF FinalizeAnswered
  <2> HIDE DEF f
  <2>3. f.pc \notin Blocks \cup {"failed"} => f.pc \in Servers
    BY <2>1 DEF Answered, Servers
  <2> QED
    BY <2>2, <2>3, RowType, FailureFacts, StatusFacts, CalmFacts
<1>4. row = NoMeta => row' = NoMeta
  BY <1>3 DEF Calm
<1> DEFINE X == [tab[t] EXCEPT !.fin = Off]
<1>5. tab' = [tab EXCEPT ![t] = X]
  BY DEF FinalizeAnswered, Set
<1>6. TabOK(X)
  BY <1>1 DEF TabOK, Loaded, Off
<1>7. /\ X.start = tab[t].start /\ X.rec = tab[t].rec /\ X.buf = tab[t].buf
      /\ X.out = tab[t].out /\ X.stop = tab[t].stop /\ X.unheeded = tab[t].unheeded
  BY <1>1 DEF TabOK, Loaded
<1>8. Sound(t, X, srv'.take, row')
  BY <1>1, <1>2, <1>4, <1>7, SoundSame
<1> QED
  BY <1>2, <1>3, <1>5, <1>6, <1>8, SrvStill, ChunksStill, TabSet DEF Quiet

LEMMA PurgeQuiet == ASSUME IInv, NEW t \in Tabs, Purge(t) PROVE Quiet(t)
<1>1. row' = NoMeta /\ chunks' = [s \in {} |-> "waiting"] /\ tab' = tab /\ srv' = srv
  BY DEF Purge
<1>2. Calm(row, row')
  BY <1>1, RowType, CalmFacts
<1>3. SrvPart(t)
  BY <1>1, SrvStill
<1>4. ChunkPart
  BY <1>1 DEF ChunkPart
<1>5. TabPart(t)
  BY <1>1, <1>2, <1>3, TabStill
<1> QED
  BY <1>2, <1>3, <1>4, <1>5 DEF Quiet

LEMMA ServerFacts ==
  ASSUME IInv, NEW s
  PROVE  /\ DOMAIN Stored(s) = DOMAIN srv /\ Stored(s).take = srv.take
         /\ Stored(s).fin \in Servers /\ Stored(s).got = srv.got \cup {s}
BY DEF Stored, Judged, IInv, TypeOK, Servers, Terminal

LEMMA uploadNextChunkQuiet == ASSUME IInv, NEW t \in Tabs, uploadNextChunk(t) PROVE Quiet(t)
<1>1. PICK s \in DOMAIN chunks :
       /\ srv' = Stored(s)
       /\ \/ chunks' = without(chunks, {s}) /\ row' \in Told(row)
          \/ UNCHANGED <<row, chunks>>
  BY DEF uploadNextChunk
<1>2. SrvPart(t) /\ srv'.take = srv.take /\ srv'.fin \in Servers /\ s \in srv'.got
  BY <1>1, ServerFacts DEF SrvPart, IInv, TypeOK
<1>3. Calm(row, row')
  <2>1. CASE row' = row
    BY <2>1, RowStill
  <2>2. CASE row' \in Told(row)
    <3>1. row' = row \/ (row # NoMeta /\ row' = applyServerStatus(row, srv'.fin))
      BY <2>2 DEF Told
    <3> QED
      BY <3>1, <1>2, RowType, StatusFacts, CalmFacts
  <2> QED
    BY <1>1, <2>1, <2>2
<1>4. ChunkPart
  <2>1. CASE chunks' = without(chunks, {s})
    BY <2>1, <1>2 DEF without, ChunkPart, IInv, TypeOK
  <2>2. CASE chunks' = chunks
    BY <2>2, ChunksStill
  <2> QED
    BY <1>1, <2>1, <2>2
<1>5. TabPart(t)
  BY <1>2, <1>3, TabStill DEF uploadNextChunk
<1> QED
  BY <1>2, <1>3, <1>4, <1>5 DEF Quiet

LEMMA JudgedFacts ==
  ASSUME NEW q, DOMAIN q = {"live", "phase", "holder", "take", "got", "fin", "payload"},
         q.fin \in Servers
  PROVE  /\ DOMAIN Judged(q) = DOMAIN q /\ Judged(q).take = q.take
         /\ Judged(q).fin \in Servers /\ Judged(q).got = q.got
BY DEF Judged, Servers, Terminal

LEMMA FinalizedFacts ==
  ASSUME IInv, NEW p
  PROVE  /\ DOMAIN Finalized(p) = DOMAIN srv /\ Finalized(p).take = srv.take
         /\ Finalized(p).fin \in Servers /\ Finalized(p).got = srv.got
<1> DEFINE a == [srv EXCEPT !.payload = p, !.fin = "incomplete"]
           f == IF srv.fin = "none" THEN "pending" ELSE srv.fin
           b == [srv EXCEPT !.payload = p, !.fin = f]
<1>1. Finalized(p) \in {a, Judged(b)}
  BY DEF Finalized
<1>2. f \in Servers /\ "incomplete" \in Servers
  BY DEF IInv, TypeOK, Servers, Terminal
<1> HIDE DEF f
<1>3. DOMAIN a = DOMAIN srv /\ a.take = srv.take /\ a.fin \in Servers /\ a.got = srv.got
  BY <1>2 DEF IInv, TypeOK
<1>4. DOMAIN b = DOMAIN srv /\ b.take = srv.take /\ b.fin \in Servers /\ b.got = srv.got
  BY <1>2 DEF IInv, TypeOK
<1> HIDE DEF a, b
<1>5. /\ DOMAIN Judged(b) = DOMAIN srv /\ Judged(b).take = srv.take
      /\ Judged(b).fin \in Servers /\ Judged(b).got = srv.got
  BY <1>4, JudgedFacts DEF IInv, TypeOK
<1> QED
  BY <1>1, <1>3, <1>5

LEMMA RefusalFacts ==
  ASSUME NEW t, NEW p, FinalizeVerdict(t, p) # "accepted"
  PROVE  permanentUploadBlock(FinalizeVerdict(t, p)) \in Blocks
BY DEF FinalizeVerdict, Auth, permanentUploadBlock, Blocks

LEMMA sendFinalizeIfDueQuiet == ASSUME IInv, NEW t \in Tabs, sendFinalizeIfDue(t) PROVE Quiet(t)
<1>1. TabOK(tab[t]) /\ Sound(t, tab[t], srv.take, row)
  BY OpenFacts DEF sendFinalizeIfDue
<1>2. row' = row /\ chunks' = chunks
  BY DEF sendFinalizeIfDue, disk
<1> DEFINE verdict == FinalizeVerdict(t, row.payload)
<1>3. srv' = IF verdict = "accepted" THEN Finalized(row.payload) ELSE srv
  BY DEF sendFinalizeIfDue
<1>4. SrvPart(t) /\ srv'.take = srv.take /\ srv'.fin \in Servers
  BY <1>3, FinalizedFacts DEF SrvPart, IInv, TypeOK
<1>5. PICK answer \in {IF verdict = "accepted" THEN srv'.fin ELSE permanentUploadBlock(verdict), "failed"} :
        tab' = [tab EXCEPT ![t].fin = [pc |-> answer, payload |-> row.payload, stamp |-> row.stamp]]
  BY DEF sendFinalizeIfDue, Set
<1>6. answer \in Servers \cup Blocks \cup {"failed"}
  <2>1. CASE verdict = "accepted"
    BY <2>1, <1>4, <1>5
  <2>2. CASE verdict # "accepted"
    BY <2>2, <1>5, RefusalFacts
  <2> QED
    BY <2>1, <2>2
<1> DEFINE f == [pc |-> answer, payload |-> row.payload, stamp |-> row.stamp]
           X == [tab[t] EXCEPT !.fin = f]
<1>7. tab' = [tab EXCEPT ![t] = X]
  BY <1>5
<1>8. f.pc \in Servers \cup Blocks \cup {"failed"}
  BY <1>6
<1> HIDE DEF f
<1>9. TabOK(X)
  BY <1>1, <1>8 DEF TabOK, Loaded
<1>10. /\ X.start = tab[t].start /\ X.rec = tab[t].rec /\ X.buf = tab[t].buf
       /\ X.out = tab[t].out /\ X.stop = tab[t].stop /\ X.unheeded = tab[t].unheeded
  BY <1>1 DEF TabOK, Loaded
<1>11. Sound(t, X, srv'.take, row')
  BY <1>1, <1>2, <1>4, <1>10, SoundSame
<1> HIDE DEF X
<1> QED
  BY <1>2, <1>4, <1>7, <1>9, <1>11, RowStill, ChunksStill, TabSet DEF Quiet

LEMMA DeclareStopFacts ==
  ASSUME NEW m \in Meta, NEW T, T.gap \in BOOLEAN
  PROVE  declareStop(m, T) \in Meta /\ declareStop(m, T).next = m.next
<1> DEFINE noted(n) == [n EXCEPT !.operator = @ \/ T.gap]
<1>1. ASSUME NEW n \in Meta PROVE noted(n) \in Meta /\ noted(n).next = n.next
  <2>1. (n.operator \/ T.gap) \in BOOLEAN
    BY DEF Meta
  <2>2. noted(n) = [n EXCEPT !.operator = n.operator \/ T.gap]
    BY DEF Meta
  <2> HIDE DEF noted
  <2> QED
    BY <2>1, <2>2, FlagFacts
<1> DEFINE d == Declared(IF "revoked" \in T.out THEN "revoked" ELSE "replaced", m)
           l == persistRecorderLost(m)
           q == persistStop(m)
<1>2. declareStop(m, T) \in {noted(d), noted(m), noted(l), m, q}
  BY DEF declareStop
<1> HIDE DEF noted
<1>3. d \in Meta /\ d.next = m.next
  BY DeclaredFacts
<1>4. l \in Meta /\ l.next = m.next /\ q \in Meta /\ q.next = m.next
  BY DeclareFacts
<1> HIDE DEF d, l, q
<1> QED
  BY <1>1, <1>2, <1>3, <1>4

LEMMA commitRecorderStopQuiet == ASSUME IInv, NEW t \in Tabs, commitRecorderStop(t) PROVE Quiet(t)
<1>1. TabOK(tab[t]) /\ Sound(t, tab[t], srv.take, row)
  BY OpenFacts DEF commitRecorderStop
<1>2. chunks' = chunks /\ srv' = srv
  BY DEF commitRecorderStop
<1> DEFINE d == declareStop(row, tab[t])
<1>3. row' = IF row = NoMeta THEN row ELSE releaseRecorderFlush(d)
  BY DEF commitRecorderStop
<1>4. row # NoMeta => d \in Meta /\ d.next = row.next
  BY <1>1, RowType, DeclareStopFacts DEF TabOK
<1> HIDE DEF d
<1>5. row # NoMeta => row' \in Meta /\ row'.next = row.next
  BY <1>3, <1>4, FlushFacts
<1>6. Calm(row, row') /\ (row = NoMeta => row' = NoMeta)
  BY <1>3, <1>5 DEF Calm
<1> DEFINE X == [tab[t] EXCEPT !.commit = FALSE, !.asLost = FALSE]
<1>7. tab' = [tab EXCEPT ![t] = X]
  BY DEF commitRecorderStop, Committed
<1>8. TabOK(X)
  BY <1>1 DEF TabOK, Loaded
<1>9. /\ X.start = tab[t].start /\ X.rec = tab[t].rec /\ X.buf = tab[t].buf
      /\ X.out = tab[t].out /\ X.stop = tab[t].stop /\ X.unheeded = tab[t].unheeded
  BY <1>1 DEF TabOK, Loaded
<1>10. Sound(t, X, srv'.take, row')
  BY <1>1, <1>2, <1>6, <1>9, SoundSame
<1> QED
  BY <1>2, <1>6, <1>7, <1>8, <1>10, SrvStill, ChunksStill, TabSet DEF Quiet

LEMMA PersistFailsQuiet == ASSUME IInv, NEW t \in Tabs, PersistFails(t) PROVE Quiet(t)
<1>1. TabOK(tab[t]) /\ Sound(t, tab[t], srv.take, row) /\ tab[t].buf > 0
  BY OpenFacts DEF PersistFails
<1>2. chunks' = chunks /\ srv' = srv
  BY DEF PersistFails
<1> DEFINE l == persistRecorderLost(row)
           o == [l EXCEPT !.operator = TRUE]
<1>3. row' \in {row, holdForRecorderFlush(o), o} /\ (row = NoMeta => row' = row)
  BY DEF PersistFails
<1>4. row # NoMeta => l \in Meta /\ l.next = row.next
  BY RowType, DeclareFacts
<1> HIDE DEF l
<1>5. row # NoMeta => o \in Meta /\ o.next = row.next
  BY <1>4, FlagFacts
<1> HIDE DEF o
<1>6. row # NoMeta => row' \in Meta /\ row'.next = row.next
  BY <1>3, <1>5, FlushFacts, RowType
<1>7. Calm(row, row') /\ (row = NoMeta => row' = NoMeta)
  BY <1>3, <1>6 DEF Calm
<1> DEFINE X == [tab[t] EXCEPT !.buf = @ - 1, !.gap = TRUE]
<1>8. tab' = [tab EXCEPT ![t] = X]
  BY DEF PersistFails
<1>9. TabOK(X)
  BY <1>1 DEF TabOK, Loaded
<1>10. Sound(t, X, srv'.take, row')
  BY <1>1, <1>2, <1>7 DEF TabOK, Loaded, Sound
<1> HIDE DEF X
<1> QED
  BY <1>2, <1>7, <1>8, <1>9, <1>10, SrvStill, ChunksStill, TabSet DEF Quiet

-----------------------------------------------------------------------------
(***************************************************************************)
(* The rest of the start, and the page.                                    *)
(***************************************************************************)
LEMMA TakeSet ==
  ASSUME IInv, NEW t \in Tabs, NEW h, NEW k \in {srv.take, Forgotten(t)},
         srv' = [srv EXCEPT !.take = k, !.holder = h]
  PROVE  SrvPart(t) /\ srv'.take = k
BY DEF SrvPart, IInv, TypeOK

LEMMA ClaimRefusedQuiet == ASSUME IInv, NEW t \in Tabs, ClaimRefused(t) PROVE Quiet(t)
<1>1. TabOK(tab[t]) /\ Sound(t, tab[t], srv.take, row) /\ tab[t].start = "prompt"
  BY OpenFacts DEF ClaimRefused, Prompted, At, Is, Open
<1>2. row' = row /\ chunks' = chunks
  BY DEF ClaimRefused, disk
<1> DEFINE kept == ClaimVerdict(t) = "not_admitted"
           k == IF kept THEN srv.take ELSE Forgotten(t)
           o == IF ClaimVerdict(t) = "revoked" THEN Out(t, "revoked") ELSE tab[t].out
           X == [tab[t] EXCEPT !.start = "idle", !.pending = kept, !.out = o]
<1>3. srv' = [srv EXCEPT !.take = k]
  BY DEF ClaimRefused
<1>4. SrvPart(t) /\ srv'.take \in {srv.take, Forgotten(t)}
  BY <1>3 DEF SrvPart, IInv, TypeOK
<1>5. tab' = [tab EXCEPT ![t] = X]
  BY DEF ClaimRefused
<1>6. kept \in BOOLEAN
  OBVIOUS
<1> HIDE DEF kept, o
<1>7. TabOK(X)
  BY <1>1, <1>6 DEF TabOK, Loaded
<1>8. X.start = "idle" /\ X.rec = tab[t].rec /\ X.buf = tab[t].buf
  BY <1>1 DEF TabOK, Loaded
<1>9. tab[t].rec # "running"
  BY <1>1 DEF Sound
<1>10. srv'.take # "gone" => srv.take # "gone"
  BY <1>4, Names DEF Forgotten
<1>11. Sound(t, X, srv'.take, row')
  BY <1>1, <1>8, <1>9, <1>10 DEF Sound
<1> HIDE DEF X
<1> QED
  BY <1>2, <1>4, <1>5, <1>7, <1>11, RowStill, ChunksStill, TabSet DEF Quiet

LEMMA BeginQuiet == ASSUME IInv, NEW t \in Tabs, Begin(t) PROVE Quiet(t)
<1>1. TabOK(tab[t]) /\ Sound(t, tab[t], srv.take, row) /\ tab[t].start = "armed"
  BY OpenFacts DEF Begin, At, Is, Open
<1>2. srv' = [srv EXCEPT !.take = Forgotten(t)] /\ chunks' = chunks
  BY DEF Begin
<1>3. SrvPart(t) /\ srv'.take = Forgotten(t)
  BY <1>2 DEF SrvPart, IInv, TypeOK
<1>4. srv'.take = "gone"
  BY <1>1, <1>3 DEF Sound, Forgotten
<1> DEFINE d == Declared(IF "revoked" \in tab[t].out THEN "revoked" ELSE "replaced", row)
<1>5. row' = IF tab[t].out = {} \/ row = NoMeta THEN row ELSE holdForRecorderFlush(d)
  BY DEF Begin
<1>6. row # NoMeta => d \in Meta /\ d.next = row.next
  BY RowType, DeclaredFacts
<1> HIDE DEF d
<1>7. Calm(row, row')
  BY <1>5, <1>6, RowType, FlushFacts DEF Calm
<1> DEFINE b == tab[t].out # {}
           X == [tab[t] EXCEPT !.start = "idle", !.pending = FALSE, !.rec = "running", !.stop = b]
<1>8. tab' = [tab EXCEPT ![t] = X]
  BY DEF Begin
<1>9. b \in BOOLEAN /\ (tab[t].out # {} => b)
  OBVIOUS
<1> HIDE DEF b
<1>10. TabOK(X)
  BY <1>1, <1>9 DEF TabOK, Loaded
<1>11. X.start = "idle" /\ X.out = tab[t].out /\ X.stop = b
  BY <1>1 DEF TabOK, Loaded
<1> HIDE DEF X
<1>12. X.out # {} => X.stop
  BY <1>9, <1>11
<1>13. Sound(t, X, srv'.take, row')
  BY <1>4, <1>11, <1>12 DEF Sound
<1> QED
  BY <1>2, <1>3, <1>7, <1>8, <1>10, <1>13, ChunksStill, TabSet DEF Quiet

LEMMA BeginUnheededQuiet == ASSUME IInv, NEW t \in Tabs, BeginUnheeded(t) PROVE Quiet(t)
<1>1. TabOK(tab[t]) /\ Sound(t, tab[t], srv.take, row) /\ tab[t].start = "armed"
  BY OpenFacts DEF BeginUnheeded, At, Is, Open
<1>2. srv' = [srv EXCEPT !.take = Forgotten(t)] /\ row' = row /\ chunks' = chunks
  BY DEF BeginUnheeded, disk
<1>3. SrvPart(t) /\ srv'.take = Forgotten(t)
  BY <1>2 DEF SrvPart, IInv, TypeOK
<1>4. srv'.take = "gone"
  BY <1>1, <1>3 DEF Sound, Forgotten
<1> DEFINE X == [tab[t] EXCEPT !.start = "idle", !.pending = FALSE, !.rec = "running",
                               !.unheeded = TRUE]
<1>5. tab' = [tab EXCEPT ![t] = X]
  BY DEF BeginUnheeded
<1>6. TabOK(X)
  BY <1>1 DEF TabOK, Loaded
<1>7. X.start = "idle" /\ X.unheeded
  BY <1>1 DEF TabOK, Loaded
<1> HIDE DEF X
<1>8. Sound(t, X, srv'.take, row')
  BY <1>4, <1>7 DEF Sound
<1> QED
  BY <1>2, <1>3, <1>5, <1>6, <1>8, RowStill, ChunksStill, TabSet DEF Quiet

LEMMA AbandonQuiet == ASSUME IInv, NEW t \in Tabs, Abandon(t) PROVE Quiet(t)
<1>1. TabOK(tab[t]) /\ Sound(t, tab[t], srv.take, row) /\ tab[t].start = "abandon"
  BY OpenFacts DEF Abandon, At, Is, Open
<1>2. srv' = srv /\ chunks' = chunks
  BY DEF Abandon
<1>3. row' \in {NoMeta, persistRecorderLost(row)} /\ (row = NoMeta => row' = NoMeta)
  BY DEF Abandon, Abandoned
<1>4. Calm(row, row')
  BY <1>3, RowType, DeclareFacts DEF Calm
<1> DEFINE X == [tab[t] EXCEPT !.start = "idle"]
<1>5. tab' = [tab EXCEPT ![t] = X]
  BY DEF Abandon, Set
<1>6. TabOK(X)
  BY <1>1 DEF TabOK, Loaded
<1>7. Sound(t, X, srv'.take, row')
  BY <1>1, <1>2 DEF TabOK, Loaded, Sound
<1> QED
  BY <1>2, <1>4, <1>5, <1>6, <1>7, SrvStill, ChunksStill, TabSet DEF Quiet

LEMMA AdmitQuiet == ASSUME IInv, NEW t \in Tabs, Admit(t) \/ Drop(t) PROVE Quiet(t)
<1>1. TabOK(tab[t]) /\ Sound(t, tab[t], srv.take, row)
  BY OpenFacts DEF Admit, Drop, Is, Open
<1>2. row' = row /\ chunks' = chunks
  BY DEF Admit, Drop, disk
<1>3. PICK h : srv' = [srv EXCEPT !.holder = h]
  BY DEF Admit, Drop
<1>4. SrvPart(t) /\ srv'.take = srv.take
  BY <1>3 DEF SrvPart, IInv, TypeOK
<1>5. PICK a \in BOOLEAN : tab' = [tab EXCEPT ![t].admitted = a]
  BY DEF Admit, Drop, Set
<1> DEFINE X == [tab[t] EXCEPT !.admitted = a]
<1>6. tab' = [tab EXCEPT ![t] = X]
  BY <1>5
<1>7. TabOK(X)
  BY <1>1 DEF TabOK, Loaded
<1>8. /\ X.start = tab[t].start /\ X.rec = tab[t].rec /\ X.buf = tab[t].buf
      /\ X.out = tab[t].out /\ X.stop = tab[t].stop /\ X.unheeded = tab[t].unheeded
  BY <1>1 DEF TabOK, Loaded
<1>9. Sound(t, X, srv'.take, row')
  BY <1>1, <1>2, <1>4, <1>8, SoundSame
<1> QED
  BY <1>2, <1>4, <1>6, <1>7, <1>9, RowStill, ChunksStill, TabSet DEF Quiet

LEMMA LoadedFacts ==
  ASSUME NEW page \in {"live", "restored", "upload"}, NEW t, NEW take, NEW m
  PROVE  TabOK(Loaded(page)) /\ Sound(t, Loaded(page), take, m)
BY DEF TabOK, Loaded, Off, Sound

LEMMA OpenQuiet == ASSUME IInv, NEW t \in Tabs, OpenLive(t) \/ OpenRestored(t) PROVE Quiet(t)
<1>1. UNCHANGED <<row, chunks, srv>>
  BY DEF OpenLive, OpenRestored, disk
<1>2. PICK page \in {"live", "restored"} : tab' = [tab EXCEPT ![t] = Loaded(page)]
  BY DEF OpenLive, OpenRestored, Load
<1>3. TabOK(Loaded(page)) /\ Sound(t, Loaded(page), srv'.take, row')
  BY LoadedFacts
<1> QED
  BY <1>1, <1>2, <1>3, TabSet, LocalStep

LEMMA OpenUploadQuiet == ASSUME IInv, NEW t \in Tabs, OpenUpload(t) PROVE Quiet(t)
<1>1. srv' = srv /\ row # NoMeta /\ row \in Meta
  BY RowType
     DEF OpenUpload, offersUploadCode, findUnfinishedUploadSessions, showUploadCodeEntry
<1> DEFINE left == {chunks'[s] : s \in DOMAIN chunks} \ {"waiting"}
<1>2. chunks' = clearUnauthorizedChunks(chunks) /\ row' \in clearUnauthorizedUploadBlock(row, left)
  BY DEF OpenUpload, resumeUnauthorizedUploads
<1>3. \A s \in DOMAIN chunks : chunks'[s] \in Blocks \cup {"waiting"}
  BY <1>2 DEF clearUnauthorizedChunks, IInv, TypeOK
<1>4. left \in SUBSET Blocks
  BY <1>3
<1> HIDE DEF left
<1>5. row' \in Meta /\ row'.next = row.next
  BY <1>1, <1>2, <1>4, UnblockFacts
<1>6. Calm(row, row')
  BY <1>1, <1>5 DEF Calm
<1>7. ChunkPart
  BY <1>2, <1>3 DEF clearUnauthorizedChunks, ChunkPart
<1>8. tab' = [tab EXCEPT ![t] = Loaded("upload")]
  BY DEF OpenUpload, Load
<1>9. TabOK(Loaded("upload")) /\ Sound(t, Loaded("upload"), srv'.take, row')
  BY LoadedFacts
<1> QED
  BY <1>1, <1>6, <1>7, <1>8, <1>9, SrvStill, TabSet DEF Quiet

LEMMA CloseQuiet == ASSUME IInv, NEW t \in Tabs, Close(t) PROVE Quiet(t)
<1>1. row' = row /\ chunks' = chunks
  BY DEF Close, disk
<1>2. PICK h : srv' = [srv EXCEPT !.take = Forgotten(t), !.holder = h]
  BY DEF Close
<1>3. SrvPart(t)
  BY <1>2, TakeSet
<1>4. TabPart(t)
  BY DEF Close, TabPart, Fits, IInv, TypeOK
<1> QED
  BY <1>1, <1>3, <1>4, RowStill, ChunksStill DEF Quiet

-----------------------------------------------------------------------------
(***************************************************************************)
(* Every step.                                                             *)
(***************************************************************************)
NextGrows == row # NoMeta /\ row' # NoMeta => row'.next >= row.next
StepOK    == IInv' /\ NextGrows /\ (KeptSomewhere => KeptSomewhere')

LEMMA QuietOK == ASSUME IInv, NEW t \in Tabs, Quiet(t) PROVE StepOK
<1>1. IInv'
  BY QuietStep
<1>2. row' # NoMeta => row # NoMeta /\ row'.next = row.next /\ row.next \in Nat
  BY RowType DEF Quiet, Calm, Meta
<1>3. NextGrows
  BY <1>2 DEF NextGrows
<1>4. KeptSomewhere => KeptSomewhere'
  <2> SUFFICES ASSUME KeptSomewhere, row' # NoMeta PROVE stored' \subseteq DOMAIN chunks' \cup srv'.got
    BY DEF KeptSomewhere, stored
  <2>1. stored' = stored
    BY <1>2 DEF stored
  <2>2. DOMAIN chunks \subseteq DOMAIN chunks' \cup srv'.got /\ srv.got \subseteq srv'.got
    BY DEF Quiet, ChunkPart, SrvPart
  <2> QED
    BY <2>1, <2>2 DEF KeptSomewhere
<1> QED
  BY <1>1, <1>3, <1>4 DEF StepOK

\* Row and slices as they were, and the server has no less: what is left is IInv.
LEMMA DiskStill ==
  ASSUME IInv, IInv', UNCHANGED <<row, chunks>>, srv.got \subseteq srv'.got
  PROVE  StepOK
<1>1. NextGrows
  BY RowType DEF NextGrows, Meta
<1>2. stored' = stored
  BY DEF stored
<1> QED
  BY <1>1, <1>2 DEF StepOK, KeptSomewhere

\* A claim is granted to the tab that has it already, or when nobody has.
LEMMA ClaimStep ==
  ASSUME IInv, NEW t \in Tabs, Prompted(t), ClaimVerdict(t) = "claimed",
         NEW step \in {"granted", "idle"}, UNCHANGED <<row, chunks>>,
         srv' = [srv EXCEPT !.take = t],
         tab' = [tab EXCEPT ![t].start = step, ![t].pending = TRUE]
  PROVE  StepOK
<1>1. /\ TabOK(tab[t]) /\ Sound(t, tab[t], srv.take, row)
      /\ tab[t].start = "prompt" /\ row = NoMeta
  BY OpenFacts DEF Prompted, At, Is, Open
<1>2. srv.take \in {t, NoTab}
  BY DEF ClaimVerdict, Auth, Claimed
<1>3. /\ srv'.take = t /\ DOMAIN srv' = DOMAIN srv
      /\ srv'.got = srv.got /\ srv'.fin = srv.fin
  BY DEF IInv, TypeOK
<1> DEFINE X == [tab[t] EXCEPT !.start = step, !.pending = TRUE]
<1>4. tab' = [tab EXCEPT ![t] = X]
  OBVIOUS
<1>5. TabOK(X)
  BY <1>1 DEF TabOK, Loaded
<1>6. tab[t].rec = "none" /\ tab[t].buf = 0
  BY <1>1, <1>2, Names DEF Sound
<1>7. Sound(t, X, srv'.take, row')
  BY <1>1, <1>3, <1>6, Names DEF TabOK, Loaded, Sound
<1> HIDE DEF X
<1>8. ASSUME NEW u \in Tabs \ {t} PROVE Fits(u, tab'[u], srv'.take, row')
  <2>1. tab'[u] = tab[u] /\ Fits(u, tab[u], srv.take, row)
    BY <1>4 DEF IInv, TypeOK
  <2> QED
    BY <2>1, <1>2, <1>3, Names DEF Fits, Sound
<1>9. Fits(t, tab'[t], srv'.take, row')
  BY <1>4, <1>5, <1>7 DEF Fits, IInv, TypeOK
<1>10. \A u \in Tabs : Fits(u, tab'[u], srv'.take, row')
  BY <1>8, <1>9
<1>11. DOMAIN tab' = Tabs /\ \A u \in Tabs : tab'[u] = Closed \/ TabOK(tab'[u])
  BY <1>4, <1>10 DEF Fits, IInv, TypeOK
<1>12. TypeOK'
  BY <1>3, <1>11 DEF IInv, TypeOK
<1>13. IInv'
  BY <1>10, <1>12 DEF IInv
<1> QED
  BY <1>3, <1>13, DiskStill

LEMMA ClaimGrantedOK == ASSUME IInv, NEW t \in Tabs, ClaimGranted(t) PROVE StepOK
BY ClaimStep DEF ClaimGranted, disk

LEMMA claimWithRetryOK == ASSUME IInv, NEW t \in Tabs, claimWithRetry(t) PROVE StepOK
<1>1. CASE srv' = [srv EXCEPT !.take = t]
  BY <1>1, ClaimStep DEF claimWithRetry, disk
<1>2. CASE srv' = srv
  <2>1. /\ TabOK(tab[t]) /\ Sound(t, tab[t], srv.take, row)
    BY OpenFacts DEF claimWithRetry, Prompted, At, Is, Open
  <2> DEFINE X == [tab[t] EXCEPT !.start = "idle", !.pending = TRUE]
  <2>2. tab' = [tab EXCEPT ![t] = X] /\ UNCHANGED <<row, chunks, srv>>
    BY <1>2 DEF claimWithRetry, disk
  <2>3. TabOK(X)
    BY <2>1 DEF TabOK, Loaded
  <2>4. Sound(t, X, srv'.take, row')
    BY <2>1, <2>2 DEF TabOK, Loaded, Sound
  <2> QED
    BY <2>2, <2>3, <2>4, TabSet, LocalStep, QuietOK
<1> QED
  BY <1>1, <1>2 DEF claimWithRetry

\* The row of a new take: the claim is this tab's, and there is no row.
LEMMA ArmOK == ASSUME IInv, NEW t \in Tabs, Arm(t) PROVE StepOK
<1>1. /\ TabOK(tab[t]) /\ Sound(t, tab[t], srv.take, row)
      /\ tab[t].start = "granted" /\ tab[t].out = {}
  BY OpenFacts DEF Arm, At, Is, Open, startBlocked
<1>2. srv.take = t /\ row = NoMeta
  BY <1>1 DEF Sound
<1>3. row' = emptyMeta /\ chunks' = chunks /\ srv' = srv
  BY DEF Arm
<1> DEFINE X == [tab[t] EXCEPT !.start = "armed"]
<1>4. tab' = [tab EXCEPT ![t] = X]
  BY DEF Arm, Set
<1>5. TabOK(X)
  BY <1>1 DEF TabOK, Loaded
<1>6. Sound(t, X, srv'.take, row')
  BY <1>1, <1>2, <1>3 DEF TabOK, Loaded, Sound
<1> HIDE DEF X
<1>7. ASSUME NEW u \in Tabs \ {t} PROVE Fits(u, tab'[u], srv'.take, row')
  <2>1. tab'[u] = tab[u] /\ Fits(u, tab[u], srv.take, row)
    BY <1>4 DEF IInv, TypeOK
  <2> QED
    BY <2>1, <1>2, <1>3, Names DEF Fits, Sound
<1>8. Fits(t, tab'[t], srv'.take, row')
  BY <1>4, <1>5, <1>6 DEF Fits, IInv, TypeOK
<1>9. \A u \in Tabs : Fits(u, tab'[u], srv'.take, row')
  BY <1>7, <1>8
<1>10. DOMAIN tab' = Tabs /\ \A u \in Tabs : tab'[u] = Closed \/ TabOK(tab'[u])
  BY <1>4, <1>9 DEF Fits, IInv, TypeOK
<1>11. TypeOK'
  BY <1>3, <1>10, EmptyFacts DEF IInv, TypeOK
<1>12. NextGrows
  BY <1>2 DEF NextGrows
<1>13. KeptSomewhere'
  <2>1. stored' = {}
    BY <1>3, EmptyFacts DEF stored
  <2> QED
    BY <2>1 DEF KeptSomewhere
<1> QED
  BY <1>9, <1>11, <1>12, <1>13 DEF IInv, StepOK

\* A sequence is given out, and its slice is stored.
LEMMA persistBlobOK == ASSUME IInv, NEW t \in Tabs, persistBlob(t) PROVE StepOK
<1>1. TabOK(tab[t]) /\ Sound(t, tab[t], srv.take, row) /\ tab[t].buf > 0
  BY OpenFacts DEF persistBlob
<1>2. srv.take = "gone" /\ srv' = srv
  BY <1>1 DEF Sound, persistBlob
<1> DEFINE m == IF row = NoMeta THEN emptyMeta ELSE row
<1>3. m \in Meta /\ m.next \in Nat
  BY RowType, EmptyFacts DEF Meta
<1>4. /\ row' = [m EXCEPT !.next = @ + 1]
      /\ chunks' = [s \in DOMAIN chunks \cup {m.next} |-> IF s = m.next THEN "waiting" ELSE chunks[s]]
  BY DEF persistBlob, storeChunkAndBumpSequence, buildStoredChunk
<1>5. row # NoMeta => m = row
  OBVIOUS
<1>6. row = NoMeta => m.next = 0
  BY EmptyFacts
<1> HIDE DEF m
<1>7. row' \in Meta /\ row'.next = m.next + 1
  BY <1>3, <1>4 DEF Meta
<1> DEFINE X == [tab[t] EXCEPT !.buf = tab[t].buf - 1]
<1>8. tab' = [tab EXCEPT ![t] = X]
  BY DEF persistBlob, Set
<1>9. TabOK(X)
  BY <1>1 DEF TabOK, Loaded
<1>10. /\ X.start = tab[t].start /\ X.rec = tab[t].rec
       /\ X.out = tab[t].out /\ X.stop = tab[t].stop /\ X.unheeded = tab[t].unheeded
  BY <1>1 DEF TabOK, Loaded
<1> HIDE DEF X
<1>11. Sound(t, X, srv'.take, row')
  BY <1>1, <1>2, <1>10, Names DEF Sound
<1>12. ASSUME NEW u \in Tabs \ {t} PROVE Fits(u, tab'[u], srv'.take, row')
  <2>1. tab'[u] = tab[u] /\ Fits(u, tab[u], srv.take, row)
    BY <1>8 DEF IInv, TypeOK
  <2> QED
    BY <2>1, <1>2, Names DEF Fits, Sound
<1>13. Fits(t, tab'[t], srv'.take, row')
  BY <1>8, <1>9, <1>11 DEF Fits, IInv, TypeOK
<1>14. \A u \in Tabs : Fits(u, tab'[u], srv'.take, row')
  BY <1>12, <1>13
<1>15. DOMAIN tab' = Tabs /\ \A u \in Tabs : tab'[u] = Closed \/ TabOK(tab'[u])
  BY <1>8, <1>14 DEF Fits, IInv, TypeOK
<1>16. \A s \in DOMAIN chunks' : chunks'[s] \in Blocks \cup {"waiting"}
  BY <1>4 DEF IInv, TypeOK
<1>17. TypeOK'
  BY <1>2, <1>7, <1>15, <1>16 DEF IInv, TypeOK
<1>18. NextGrows
  BY <1>3, <1>5, <1>7 DEF NextGrows
<1>19. KeptSomewhere => KeptSomewhere'
  <2> SUFFICES ASSUME KeptSomewhere, NEW s \in stored'
               PROVE  s \in DOMAIN chunks' \cup srv'.got
    BY DEF KeptSomewhere
  <2>1. s \in 0 .. m.next
    BY <1>3, <1>7, MetaPresent DEF stored
  <2>2. CASE s = m.next
    BY <2>2, <1>4
  <2>3. CASE s # m.next
    <3>1. s \in 0 .. m.next - 1
      BY <2>1, <2>3, <1>3
    <3>2. s \in stored
      BY <3>1, <1>5, <1>6 DEF stored
    <3> QED
      BY <3>2, <1>2, <1>4 DEF KeptSomewhere
  <2> QED
    BY <2>2, <2>3
<1> QED
  BY <1>14, <1>17, <1>18, <1>19 DEF IInv, StepOK

LEMMA ServiceOK == ASSUME IInv, Service PROVE StepOK
<1>1. /\ DOMAIN srv' = DOMAIN srv /\ srv'.take = srv.take /\ srv'.got = srv.got
      /\ srv'.fin \in Servers /\ UNCHANGED <<row, chunks, tab>>
  BY DEF Service, OtherDevice, Revoke, End, GraceEnds, disk, IInv, TypeOK, Servers, Terminal
<1>2. IInv'
  BY <1>1 DEF IInv, TypeOK
<1> QED
  BY <1>1, <1>2, DiskStill

LEMMA StutterOK == ASSUME IInv, UNCHANGED vars PROVE StepOK
<1>1. UNCHANGED <<row, chunks, tab, srv>>
  BY DEF vars
<1>2. IInv'
  BY <1>1 DEF IInv, TypeOK
<1> QED
  BY <1>1, <1>2, DiskStill

LEMMA Initial == Init => IInv /\ KeptSomewhere
<1> SUFFICES ASSUME Init PROVE IInv /\ KeptSomewhere
  OBVIOUS
<1>1. TypeOK
  BY DEF Init, TypeOK, Servers
<1>2. \A t \in Tabs : tab[t] = Closed
  BY DEF Init
<1>3. KeptSomewhere
  BY DEF Init, KeptSomewhere, stored
<1> QED
  BY <1>1, <1>2, <1>3 DEF IInv, Fits

LEMMA NextOK == ASSUME IInv, [Next]_vars PROVE StepOK
<1>1. ASSUME NEW t \in Tabs, Starting(t) PROVE StepOK
  BY <1>1, QuietOK, StartQuiet, PromptFailsQuiet, ClaimGrantedOK, claimWithRetryOK, ClaimRefusedQuiet,
     ArmOK, StartRefusedQuiet, BeginQuiet, BeginUnheededQuiet, BeginThrowsQuiet, AbandonQuiet DEF Starting
<1>2. ASSUME NEW t \in Tabs, Recording(t) PROVE StepOK
  BY <1>2, QuietOK, SliceQuiet, persistBlobOK, PersistFailsQuiet, stopRecordingQuiet, notePageHideQuiet,
     handleRecorderStopQuiet, commitRecorderStopQuiet, CommitFailsQuiet DEF Recording
<1>3. ASSUME NEW t \in Tabs, Hear(t) \/ Bind(t) PROVE StepOK
  BY <1>3, QuietOK, HearRevokedQuiet, HearReplacedQuiet, HearUnheededQuiet, InterruptStopsQuiet,
     ReconcileIdleQuiet, ReconcileReadsQuiet, ReconcileMergesQuiet DEF Hear, Bind
<1>4. ASSUME NEW t \in Tabs, Pump(t) \/ Finalize(t) PROVE StepOK
  BY <1>4, QuietOK, PurgeQuiet, uploadNextChunkQuiet, UploadRefusedQuiet, UploadUnheededQuiet,
     sendFinalizeIfDueQuiet, FinalizeAnsweredQuiet DEF Pump, Finalize
<1>5. ASSUME NEW t \in Tabs, Page(t) PROVE StepOK
  BY <1>5, QuietOK, OpenQuiet, OpenUploadQuiet, CloseQuiet, AdmitQuiet DEF Page
<1> QED
  BY <1>1, <1>2, <1>3, <1>4, <1>5, ServiceOK, StutterOK DEF Next

\* The row, the slices, the tabs and the server's take keep the shape that what
\* is decided on them relies on.
THEOREM RecordingTyped == Spec => []TypeOK
<1>1. Init => IInv
  BY Initial
<1>2. IInv /\ [Next]_vars => IInv'
  BY NextOK DEF StepOK
<1>3. IInv => TypeOK
  BY DEF IInv
<1> QED
  BY <1>1, <1>2, <1>3, PTL DEF Spec

\* A tab that was revoked or replaced, before, during or after its start, does
\* not go on recording, unless IndexedDB refused the declaration that comes before
\* its recorder.stop() (interruptRecording, stopReplacedRecording, the check after
\* recorder.start()).
THEOREM InterruptCorrect == Spec => []NeverResumes
<1>1. Init => IInv
  BY Initial
<1>2. IInv /\ [Next]_vars => IInv'
  BY NextOK DEF StepOK
<1>3. IInv => NeverResumes
  BY OpenFacts DEF NeverResumes, Sound
<1> QED
  BY <1>1, <1>2, <1>3, PTL DEF Spec

\* No tab writes a new row over a take that has slices, so no sequence is given
\* out twice (writeMeta after the claim, storeChunkAndBumpSequence).
THEOREM SequencesGrow == Spec => NextNeverRewinds
<1>1. Init => IInv
  BY Initial
<1>2. IInv /\ [Next]_vars => IInv'
  BY NextOK DEF StepOK
<1>3. IInv /\ [Next]_vars => [NextGrows]_vars
  BY NextOK DEF StepOK
<1>4. Spec => [][NextGrows]_vars
  BY <1>1, <1>2, <1>3, PTL DEF Spec
<1> QED
  BY <1>4 DEF NextNeverRewinds, NextGrows

\* A stored slice is in IndexedDB until the server has it: neither the status of
\* a reload, nor a lost answer, nor the purge of another take drops one.
THEOREM SlicesKept == Spec => []KeptSomewhere
<1>1. Init => IInv /\ KeptSomewhere
  BY Initial
<1>2. IInv /\ KeptSomewhere /\ [Next]_vars => IInv' /\ KeptSomewhere'
  BY NextOK DEF StepOK
<1> QED
  BY <1>1, <1>2, PTL DEF Spec
=============================================================================

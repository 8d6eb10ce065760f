------------------------ MODULE SessionSocketProofs ------------------------
(***************************************************************************)
(* Proofs about SessionSocket, for either hook and any number of sockets,  *)
(* events, faults and pauses.                                              *)
(*                                                                         *)
(* The safety of the link speaks of three values: the lifecycle lf, the    *)
(* page p and the sockets ss.  Linked(lf, p, ss) is what every action      *)
(* preserves of them.  Frames, events, timers of the view and the server   *)
(* only ever bring a socket further from being live (Calm) and leave the   *)
(* page's link alone (SameLink); what is left are connect, the snapshot    *)
(* that admits, and the ways a socket is given up.                         *)
(***************************************************************************)
EXTENDS SessionSocket, TLAPS

Shaped(ss) ==
  /\ DOMAIN ss = Slots
  /\ \A s \in Slots : /\ DOMAIN ss[s] = DOMAIN Free
                      /\ ss[s].at \in {"free", "connecting", "open", "closed"}

LiveIn(ss, s) == ss[s].at \in {"connecting", "open"}
Calm(ss, tt)  == Shaped(tt) /\ \A s \in Slots : LiveIn(tt, s) => LiveIn(ss, s)

PageOK(p) ==
  /\ DOMAIN p = DOMAIN Mounted /\ p.admitted \in BOOLEAN /\ p.reconnect \in BOOLEAN
  /\ p.ref \in Slots \cup {0} /\ p.admission \in Slots \cup {0} /\ p.status \in Statuses
  /\ p.beat \in [on : Slots \cup {0}, waits : BOOLEAN, missed : Nat]

SameLink(p, q) ==
  /\ PageOK(q)
  /\ q.ref = p.ref /\ q.admission = p.admission /\ q.reconnect = p.reconnect
  /\ q.admitted = p.admitted /\ q.beat.on = p.beat.on
  /\ ShownAdmitted(q) = ShownAdmitted(p)

One(lf, p, ss) ==
  /\ \A s \in Slots : LiveIn(ss, s) => s = lf.current /\ s = p.ref /\ ~ p.reconnect
  /\ p.admission # 0 => p.admission = lf.current
  /\ lf.stopped => p.ref = 0 /\ ~ p.reconnect

Admission(lf, p) ==
  /\ ShownAdmitted(p) = (lf.admitted # 0)
  /\ p.admitted = (lf.admitted # 0)
  /\ p.beat.on = lf.admitted

(* A lifecycle without a socket is one that is stopped or waits to         *)
(* reconnect, and only the current socket has been admitted.               *)
Vacancy(lf, p) ==
  /\ lf.stopped => lf.current = 0
  /\ p.reconnect => lf.current = 0
  /\ lf.admitted # 0 => lf.admitted = lf.current

Linked(lf, p, ss) ==
  /\ lf \in Lives(Slots) /\ PageOK(p) /\ Shaped(ss)
  /\ One(lf, p, ss) /\ Admission(lf, p) /\ Vacancy(lf, p)

LinkOK == Linked(life, page, socks)

-----------------------------------------------------------------------------
(***************************************************************************)
(* Sockets.                                                                *)
(***************************************************************************)
LEMMA SlotFacts == Slots \subseteq Nat \ {0} /\ 0 \notin Slots /\ (MaxSockets >= 1 => 1 \in Slots)
BY SocketAssumption DEF Slots, SocketAssumption

\* Anything may happen to a socket's line, frames and server end.
LEMMA CalmRefl == ASSUME NEW ss, Shaped(ss) PROVE Calm(ss, ss)
BY DEF Calm

LEMMA CalmTrans ==
  ASSUME NEW ss, NEW tt, NEW uu, Calm(ss, tt), Calm(tt, uu)
  PROVE  Calm(ss, uu)
BY DEF Calm

LEMMA TidyCalm == ASSUME NEW ss, Shaped(ss) PROVE Calm(ss, Tidy(ss))
BY DEF Calm, Shaped, LiveIn, Tidy, Free

LEMMA UpCalm ==
  ASSUME NEW ss, Shaped(ss), NEW s \in Slots, NEW fs
  PROVE  Calm(ss, Up(ss, s, fs))
BY DEF Calm, Shaped, LiveIn, Up, Free

LEMMA DownCalm ==
  ASSUME NEW ss, Shaped(ss), NEW s \in Slots, NEW fs
  PROVE  Calm(ss, Down(ss, s, fs))
BY DEF Calm, Shaped, LiveIn, Down, Free

\* A frame leaves a queue of a socket, or its line or server end changes.
LEMMA FieldCalm ==
  ASSUME NEW ss, Shaped(ss), NEW s \in Slots, NEW x
  PROVE  /\ Calm(ss, [ss EXCEPT ![s].down = x])
         /\ Calm(ss, [ss EXCEPT ![s].up = x])
         /\ Calm(ss, [ss EXCEPT ![s].srv = x])
         /\ Calm(ss, [ss EXCEPT ![s].net = x])
BY DEF Calm, Shaped, LiveIn, Free

LEMMA ShutCalm ==
  ASSUME NEW ss, Shaped(ss), NEW s \in Slots
  PROVE  Calm(ss, Shut(ss, s)) /\ ~ LiveIn(Shut(ss, s), s)
<1> DEFINE tt == [ss EXCEPT ![s].at = "closed", ![s].down = <<>>]
<1>1. Calm(ss, tt) /\ ~ LiveIn(tt, s)
  BY DEF Calm, Shaped, LiveIn, Free
<1>2. Calm(tt, Tidy(tt))
  BY <1>1, TidyCalm DEF Calm
<1>3. Shut(ss, s) = Tidy(tt)
  BY DEF Shut
<1> HIDE DEF tt
<1> QED
  BY <1>1, <1>2, <1>3, CalmTrans DEF Calm

LEMMA ClosedCalm ==
  ASSUME NEW ss, Shaped(ss), NEW S, NEW frame
  PROVE  Calm(ss, ClosedBy(ss, S, frame))
<1> DEFINE fs == <<Frame("close", frame)>>
           tt == [s \in Slots |-> IF s \notin S THEN ss[s]
                                  ELSE [Down(ss, s, fs)[s] EXCEPT !.srv = "gone", !.up = <<>>]]
<1>1. \A s \in Slots : Calm(ss, Down(ss, s, fs))
  BY DownCalm
<1>2. Calm(ss, tt)
  BY <1>1 DEF Calm, Shaped, LiveIn, Free
<1>3. ClosedBy(ss, S, frame) = Tidy(tt)
  BY DEF ClosedBy
<1> HIDE DEF tt
<1>4. Calm(tt, Tidy(tt))
  BY <1>2, TidyCalm DEF Calm
<1> QED
  BY <1>2, <1>3, <1>4, CalmTrans

LEMMA RawCalm ==
  ASSUME NEW ss, Shaped(ss), NEW p, PageOK(p), NEW fs
  PROVE  Calm(ss, rawSend(p, ss, fs)) /\ Calm(ss, requestSnapshot(p, ss))
<1>1. \A gs : Calm(ss, rawSend(p, ss, gs))
  BY UpCalm, CalmRefl DEF rawSend, PageOK
<1> QED
  BY <1>1 DEF requestSnapshot

-----------------------------------------------------------------------------
(***************************************************************************)
(* The page.  The view, the answers to events and the timers of the view   *)
(* do not touch the link.                                                  *)
(***************************************************************************)
LEMMA LinkRefl == ASSUME NEW p, PageOK(p) PROVE SameLink(p, p)
BY DEF SameLink

LEMMA LinkTrans ==
  ASSUME NEW p, NEW q, NEW r, SameLink(p, q), SameLink(q, r)
  PROVE  SameLink(p, r)
BY DEF SameLink

LEMMA FieldLink ==
  ASSUME NEW p, PageOK(p), NEW x
  PROVE  /\ SameLink(p, [p EXCEPT !.view = x])
         /\ SameLink(p, [p EXCEPT !.start = x])
         /\ SameLink(p, [p EXCEPT !.inFlight = x])
         /\ SameLink(p, [p EXCEPT !.resync = x])
         /\ SameLink(p, [p EXCEPT !.replay = x])
         /\ SameLink(p, [p EXCEPT !.pending = x])
BY DEF PageOK, SameLink, ShownAdmitted, Mounted, Statuses

LEMMA ViewLink ==
  ASSUME NEW p, PageOK(p), NEW state
  PROVE  SameLink(p, SetView(p, state))
BY DEF PageOK, SameLink, ShownAdmitted, Mounted, Statuses, SetView

LEMMA AnswerLink ==
  ASSUME NEW p, PageOK(p), NEW state
  PROVE  /\ SameLink(p, Scheduled(p))
         /\ SameLink(p, applySnapshot(p, state))
         /\ SameLink(p, applyBroadcastEnvelope(p, state))
<1>1. ASSUME NEW q, SameLink(p, q), NEW x
      PROVE  /\ SameLink(p, [q EXCEPT !.start = x])
             /\ SameLink(p, [q EXCEPT !.resync = x])
             /\ SameLink(p, [q EXCEPT !.replay = x])
  <2>1. PageOK(q)
    BY <1>1 DEF SameLink
  <2>2. /\ SameLink(q, [q EXCEPT !.start = x])
        /\ SameLink(q, [q EXCEPT !.resync = x])
        /\ SameLink(q, [q EXCEPT !.replay = x])
    BY <2>1, FieldLink
  <2> QED
    BY <1>1, <2>2, LinkTrans, Zenon
<1>2. \A st : SameLink(p, SetView(p, st))
  BY ViewLink
<1>3. SameLink(p, Scheduled(p))
  BY <1>1, <1>2 DEF Scheduled
<1>4. SameLink(p, applyBroadcastEnvelope(p, state))
  BY <1>1, <1>2 DEF applyBroadcastEnvelope, Mirrored
<1>5. SameLink(p, applySnapshot(p, state))
  <2> DEFINE q == [SetView(p, state) EXCEPT !.start = (state = "starting")]
  <2>1. SameLink(p, q)
    BY <1>1, <1>2
  <2>2. applySnapshot(p, state) = [q EXCEPT !.replay = FALSE]
    BY DEF applySnapshot
  <2> HIDE DEF q
  <2> QED
    <3>1. SameLink(p, [q EXCEPT !.replay = FALSE])
      BY <1>1, <2>1
    <3> QED
      BY <2>2, <3>1
<1> QED
  BY <1>3, <1>4, <1>5

LEMMA AckLink ==
  ASSUME NEW p, PageOK(p), NEW e, NEW verdict
  PROVE  SameLink(p, handleAck(p, e, verdict))
<1> DEFINE rest  == SelectSeq(p.pending, LAMBDA d : d # e)
           known == e \in ToSet(p.pending)
           start == known /\ issued[e] = "start"
           p1    == [p EXCEPT !.pending = rest]
           a     == p1.inFlight /\ ~ (verdict = "rejected" /\ start)
           b     == p1.resync \/ verdict = "accepted" \/ (verdict = "duplicate" /\ start)
           p2    == [p1 EXCEPT !.inFlight = a]
           p3    == [p2 EXCEPT !.resync = b]
<1>1. handleAck(p, e, verdict) = IF role = "student" THEN p1 ELSE p3
  BY DEF handleAck
<1> HIDE DEF a, b, rest
<1>2. SameLink(p, p1)
  BY FieldLink
<1> HIDE DEF p1
<1>3. SameLink(p1, p2)
  BY <1>2, FieldLink DEF SameLink
<1> HIDE DEF p2
<1>4. SameLink(p2, p3)
  BY <1>3, FieldLink DEF SameLink
<1> HIDE DEF p3
<1> QED
  BY <1>1, <1>2, <1>3, <1>4, LinkTrans

\* A pong, and a wait for one, change how the page shows its admission, not
\* whether it is admitted.
LEMMA BeatLink ==
  ASSUME NEW p, PageOK(p)
  PROVE  /\ SameLink(p, handlePong(p))
         /\ SameLink(p, [p EXCEPT !.beat.waits = TRUE])
         /\ SameLink(p, [p EXCEPT !.beat.waits = FALSE, !.beat.missed = @ + 1])
         /\ ShownAdmitted(p) =>
              SameLink(p, [[p EXCEPT !.beat.waits = FALSE, !.beat.missed = @ + 1]
                             EXCEPT !.status = "degraded"])
<1>1. p.beat.missed + 1 \in Nat /\ 0 \in Nat
  BY DEF PageOK
<1>2. SameLink(p, handlePong(p))
  <2> DEFINE r == [p EXCEPT !.beat.waits = FALSE, !.beat.missed = 0]
             st == IF r.status = "degraded" THEN "open" ELSE r.status
  <2>1. SameLink(p, r)
    BY <1>1 DEF PageOK, SameLink, ShownAdmitted, Mounted, Statuses
  <2>2. handlePong(p) = [r EXCEPT !.status = st]
    BY DEF handlePong
  <2> HIDE DEF r
  <2> QED
    BY <2>1, <2>2 DEF PageOK, SameLink, ShownAdmitted, Mounted, Statuses
<1>3. SameLink(p, [p EXCEPT !.beat.waits = TRUE])
  BY DEF PageOK, SameLink, ShownAdmitted, Mounted, Statuses
<1> DEFINE q == [p EXCEPT !.beat.waits = FALSE, !.beat.missed = @ + 1]
<1>4. SameLink(p, q)
  BY <1>1 DEF PageOK, SameLink, ShownAdmitted, Mounted, Statuses
<1>5. ShownAdmitted(p) => SameLink(p, [q EXCEPT !.status = "degraded"])
  <2> HIDE DEF q
  <2> QED
    BY <1>4 DEF PageOK, SameLink, ShownAdmitted, Mounted, Statuses
<1> QED
  BY <1>2, <1>3, <1>4, <1>5

-----------------------------------------------------------------------------
(***************************************************************************)
(* What keeps the link.                                                    *)
(***************************************************************************)
LEMMA Calmly ==
  ASSUME NEW lf, NEW p, NEW ss, Linked(lf, p, ss),
         NEW q, SameLink(p, q), NEW tt, Calm(ss, tt)
  PROVE  Linked(lf, q, tt)
BY DEF Linked, SameLink, Calm, One, Admission, Vacancy

LEMMA LeavesOK ==
  ASSUME NEW p, PageOK(p)
  PROVE  /\ PageOK(leaves(p)) /\ leaves(p).admission = 0 /\ leaves(p).admitted = FALSE
         /\ leaves(p).beat.on = 0 /\ leaves(p).ref = p.ref
         /\ leaves(p).reconnect = p.reconnect /\ leaves(p).status = p.status
<1>1. NoBeat \in [on : Slots \cup {0}, waits : BOOLEAN, missed : Nat] /\ NoBeat.on = 0
  BY DEF NoBeat
<1> QED
  BY <1>1 DEF PageOK, leaves, clearHeartbeat, Mounted

\* The current socket is given up: nothing of it runs on, and the page waits
\* to reconnect, unless the close was final.
LEMMA GivenUp ==
  ASSUME NEW lf, NEW p, NEW ss, Linked(lf, p, ss),
         NEW s \in Slots, isCurrent(lf, s),
         NEW out, out.life \in Lives(Slots), out.life.current = 0, out.life.admitted = 0,
         NEW q, PageOK(q),
         \/ /\ out.status = "reconnecting" /\ "retry" \in out.effects
            /\ out.life.stopped = FALSE
         \/ /\ out.status = "closed" /\ out.effects = {"stop"}
            /\ q.ref = 0 /\ q.reconnect = FALSE,
         "admitted" \notin out.effects,
         NEW tt, Calm(ss, tt), ~ LiveIn(tt, s)
  PROVE  Linked(out.life, apply(q, s, out), tt)
<1> DEFINE r == [q EXCEPT !.status    = IF out.status = "same" THEN @ ELSE out.status,
                          !.ref       = IF "detach" \in out.effects /\ @ = s THEN 0 ELSE @,
                          !.reconnect = @ \/ "retry" \in out.effects]
<1>1. apply(q, s, out) = leaves(r)
  BY DEF apply
<1>2. PageOK(r) /\ r.status = out.status
  BY DEF PageOK, Mounted, Statuses
<1>3. out.status = "closed" => r.ref = 0 /\ r.reconnect = FALSE
  BY DEF PageOK, Mounted
<1> HIDE DEF r
<1>4. \A t \in Slots : ~ LiveIn(tt, t)
  BY DEF Calm, Linked, One, isCurrent
<1>5. Shaped(tt)
  BY DEF Calm
<1>6. out.life.stopped => out.status = "closed"
  OBVIOUS
<1> DEFINE l == leaves(r)
<1>7. /\ PageOK(l) /\ l.admission = 0 /\ l.admitted = FALSE /\ l.beat.on = 0
      /\ l.ref = r.ref /\ l.reconnect = r.reconnect /\ l.status = out.status
  BY <1>2, LeavesOK
<1> HIDE DEF l
<1>8. One(out.life, l, tt)
  BY <1>3, <1>4, <1>6, <1>7 DEF One
<1>9. Admission(out.life, l)
  <2>1. ShownAdmitted(l) = FALSE
    BY <1>7 DEF ShownAdmitted
  <2>2. (out.life.admitted # 0) = FALSE
    OBVIOUS
  <2> QED
    BY <1>7, <2>1, <2>2, Zenon DEF Admission
<1>10. Vacancy(out.life, l)
  BY DEF Vacancy
<1> QED
  BY <1>1, <1>5, <1>7, <1>8, <1>9, <1>10 DEF Linked, l
-----------------------------------------------------------------------------
(***************************************************************************)
(* Steps of the page.                                                      *)
(***************************************************************************)
\* The page starts with one socket that is connecting.
LEMMA LinkInit == Init => LinkOK
<1> SUFFICES ASSUME Init PROVE LinkOK
  OBVIOUS
<1>1. 1 \in Slots /\ 0 \notin Slots
  BY SlotFacts, SocketAssumption
<1>2. life = [current |-> 1, admitted |-> 0, ever |-> FALSE, stopped |-> FALSE]
  BY DEF Init, begin, Does, Fresh
<1>3. life \in Lives(Slots)
  BY <1>1, <1>2 DEF Lives
<1>4. PageOK(page)
  BY <1>1 DEF Init, PageOK, Mounted, NoBeat, Statuses
<1>5. Shaped(socks) /\ \A s \in Slots : LiveIn(socks, s) => s = 1
  BY <1>1 DEF Init, Shaped, LiveIn, Dialling, Free
<1>6. One(life, page, socks)
  BY <1>2, <1>5 DEF Init, One, Mounted
<1>7. Admission(life, page) /\ Vacancy(life, page)
  <2>1. /\ page.status = "connecting" /\ page.admitted = FALSE /\ page.beat.on = 0
        /\ page.reconnect = FALSE
    BY DEF Init, Mounted, NoBeat
  <2>2. ShownAdmitted(page) = FALSE /\ (life.admitted # 0) = FALSE /\ ~ life.stopped
    BY <1>2, <2>1 DEF ShownAdmitted
  <2> QED
    BY <1>2, <2>1, <2>2 DEF Admission, Vacancy
<1> QED
  BY <1>3, <1>4, <1>5, <1>6, <1>7 DEF LinkOK, Linked

\* A socket is opened where none is live.
LEMMA ConnectLinks ==
  ASSUME NEW lf \in Lives(Slots), ~ lf.stopped, NEW p, PageOK(p), NEW ss, Shaped(ss),
         \A s \in Slots : ~ LiveIn(ss, s),
         p.admitted = FALSE, p.admission = 0, p.beat.on = 0, HasRoom(ss),
         connect(p, lf, ss)
  PROVE  LinkOK'
<1> DEFINE s   == CHOOSE t \in Slots : ss[t].at = "free"
           out == begin(lf, s)
<1>1. s \in Slots
  BY DEF HasRoom
<1>2. /\ life' = out.life /\ socks' = [ss EXCEPT ![s] = Dialling]
      /\ page' = [p EXCEPT !.ref = s, !.status = out.status, !.reconnect = FALSE]
  BY DEF connect
<1> HIDE DEF s
<1>3. /\ out.life \in Lives(Slots) /\ out.life.current = s /\ out.life.admitted = 0
      /\ out.life.stopped = FALSE /\ out.status \in {"connecting", "reconnecting"}
  BY <1>1 DEF begin, Does, Lives
<1> HIDE DEF out
<1>4. /\ PageOK(page') /\ page'.ref = s /\ page'.reconnect = FALSE /\ page'.admission = 0
      /\ page'.admitted = FALSE /\ page'.beat.on = 0 /\ page'.status = out.status
  BY <1>1, <1>2, <1>3 DEF PageOK, Mounted, Statuses
<1>5. Shaped(socks') /\ \A t \in Slots : LiveIn(socks', t) => t = s
  BY <1>1, <1>2 DEF Shaped, LiveIn, Dialling, Free
<1>6. One(life', page', socks')
  BY <1>2, <1>3, <1>4, <1>5 DEF One
<1>7. Admission(life', page')
  <2>1. ShownAdmitted(page') = FALSE
    BY <1>3, <1>4 DEF ShownAdmitted
  <2>2. (life'.admitted # 0) = FALSE
    BY <1>2, <1>3
  <2> QED
    BY <1>2, <1>3, <1>4, <2>1, <2>2, Zenon DEF Admission
<1>8. Vacancy(life', page')
  BY <1>2, <1>3, <1>4 DEF Vacancy
<1> QED
  BY <1>2, <1>3, <1>4, <1>5, <1>6, <1>7, <1>8 DEF LinkOK, Linked

\* What a step that only calms the sockets and leaves the link alone keeps.
LEMMA CalmStep ==
  ASSUME LinkOK, life' = life, SameLink(page, page'), Calm(socks, socks')
  PROVE  LinkOK'
<1>1. Linked(life, page', socks')
  BY Calmly DEF LinkOK
<1> QED
  BY <1>1, Zenon DEF LinkOK

LEMMA LinkParts ==
  ASSUME LinkOK
  PROVE  /\ life \in Lives(Slots) /\ PageOK(page) /\ Shaped(socks)
         /\ SameLink(page, page) /\ Calm(socks, socks)
         /\ \A s \in Slots : LiveIn(socks, s) => isCurrent(life, s)
         /\ \A s \in Slots : LiveIn(socks, s) => page.ref = s /\ page.reconnect = FALSE
<1>1. 0 \notin Slots
  BY SlotFacts
<1>2. ASSUME NEW s \in Slots, LiveIn(socks, s)
      PROVE  isCurrent(life, s) /\ page.ref = s /\ page.reconnect = FALSE
  <2>1. life.current = s /\ page.ref = s /\ ~ page.reconnect
    BY <1>2 DEF LinkOK, Linked, One
  <2>2. ~ life.stopped
    BY <1>1, <2>1 DEF LinkOK, Linked, Vacancy
  <2>3. page.reconnect \in BOOLEAN
    BY DEF LinkOK, Linked, PageOK
  <2> QED
    BY <2>1, <2>2, <2>3 DEF isCurrent
<1> QED
  BY <1>2, LinkRefl, CalmRefl DEF LinkOK, Linked

LEMMA ReconnectLinks == LinkOK /\ Reconnect => LinkOK'
<1> SUFFICES ASSUME LinkOK, Reconnect PROVE LinkOK'
  OBVIOUS
<1>1. page.reconnect /\ HasRoom(socks) /\ connect(page, life, socks)
  BY DEF Reconnect
<1>2. /\ life.current = 0 /\ ~ life.stopped /\ life.admitted = 0
      /\ \A s \in Slots : ~ LiveIn(socks, s)
  BY <1>1, SlotFacts DEF LinkOK, Linked, One, Vacancy
<1>3. page.admission = 0 /\ page.admitted = FALSE /\ page.beat.on = 0
  BY <1>2 DEF LinkOK, Linked, One, Admission
<1> QED
  BY <1>1, <1>2, <1>3, LinkParts, ConnectLinks

LEMMA RemountLinks == LinkOK /\ Remount => LinkOK'
<1> SUFFICES ASSUME LinkOK, Remount PROVE LinkOK'
  OBVIOUS
<1> DEFINE s  == page.ref
           ss == IF s = 0 THEN socks ELSE Shut(socks, s)
           p  == [page EXCEPT !.ref = 0, !.admitted = FALSE, !.beat = NoBeat, !.admission = 0,
                              !.reconnect = FALSE, !.resync = FALSE, !.start = FALSE]
<1>1. HasRoom(ss) /\ connect(p, Fresh, ss)
  BY DEF Remount
<1>2. Fresh \in Lives(Slots) /\ ~ Fresh.stopped
  BY DEF Fresh, Lives
<1>3. s \in Slots \cup {0} /\ Calm(socks, ss) /\ (s # 0 => ~ LiveIn(ss, s))
  BY LinkParts, ShutCalm DEF PageOK
<1>4. \A t \in Slots : ~ LiveIn(ss, t)
  BY <1>3, SlotFacts DEF Calm, LinkOK, Linked, One
<1>5. PageOK(p) /\ p.admitted = FALSE /\ p.admission = 0 /\ p.beat.on = 0
  BY LinkParts DEF PageOK, Mounted, NoBeat
<1>6. Shaped(ss)
  BY <1>3 DEF Calm
<1> HIDE DEF ss, p
<1> QED
  BY <1>1, <1>2, <1>4, <1>5, <1>6, ConnectLinks

LEMMA OpensLinks == ASSUME LinkOK, NEW s \in Slots, Opens(s) PROVE LinkOK'
<1>1. LiveIn(socks, s) /\ isCurrent(life, s)
  BY LinkParts DEF Opens, LiveIn
<1>2. "hello" \in opened(life, s).effects
  BY <1>1 DEF opened, Does
<1> DEFINE ss == [socks EXCEPT ![s].at = "open"]
           p  == [page EXCEPT !.admission = s]
<1>3. page' = p /\ socks' = requestSnapshot(page, ss) /\ life' = life
  BY <1>2 DEF Opens
<1>4. Calm(socks, ss)
  BY <1>1, LinkParts DEF Calm, Shaped, LiveIn, Free
<1> HIDE DEF ss
<1>5. Calm(socks, socks')
  <2>1. Calm(ss, socks')
    BY <1>3, <1>4, LinkParts, RawCalm DEF Calm
  <2> QED
    BY <1>4, <2>1, CalmTrans
<1>6. Linked(life, page, socks')
  BY <1>5, LinkParts, Calmly DEF LinkOK
<1>7. /\ PageOK(p) /\ p.ref = page.ref /\ p.reconnect = page.reconnect /\ p.beat = page.beat
      /\ p.admitted = page.admitted /\ p.status = page.status /\ p.admission = s
  BY LinkParts DEF PageOK, Mounted
<1> HIDE DEF p
<1>8. One(life, p, socks')
  BY <1>1, <1>6, <1>7 DEF Linked, One, isCurrent
<1>9. Admission(life, p) /\ Vacancy(life, p)
  BY <1>6, <1>7 DEF Linked, Admission, Vacancy, ShownAdmitted
<1> QED
  BY <1>3, <1>6, <1>7, <1>8, <1>9, Zenon DEF LinkOK, Linked

\* What is left of a lifecycle when its socket is given up.
LEMMA VacantFacts ==
  ASSUME NEW lf \in Lives(Slots), lf.stopped = FALSE
  PROVE  LET v == Vacant(lf)
             w == [Vacant(lf) EXCEPT !.stopped = TRUE]
         IN  /\ v \in Lives(Slots) /\ v.current = 0 /\ v.admitted = 0 /\ v.stopped = FALSE
             /\ w \in Lives(Slots) /\ w.current = 0 /\ w.admitted = 0
<1> DEFINE v == Vacant(lf)
           w == [v EXCEPT !.stopped = TRUE]
<1>1. v \in Lives(Slots) /\ v.current = 0 /\ v.admitted = 0 /\ v.stopped = FALSE
  BY DEF Vacant, Lives
<1> HIDE DEF v
<1>2. w \in Lives(Slots) /\ w.current = 0 /\ w.admitted = 0
  BY <1>1 DEF Lives
<1> QED
  BY <1>1, <1>2 DEF v

\* Any close of a live socket, final or not.
LEMMA CloseLinks ==
  ASSUME LinkOK, NEW s \in Slots, LiveIn(socks, s), NEW frame,
         NEW ss, Calm(socks, ss), onclose(s, frame, ss)
  PROVE  LinkOK'
<1> DEFINE out == closed(life, s, frame)
           p   == [page EXCEPT !.ref = IF isCurrent(life, s) /\ @ = s THEN 0 ELSE @]
           p1  == apply(p, s, out)
<1>1. isCurrent(life, s) /\ page.ref = s /\ page.reconnect = FALSE
  BY LinkParts
<1>2. /\ life' = out.life /\ socks' = Shut(ss, s)
      /\ page' = p1 \/ page' = SetView(p1, "ended")
  BY DEF onclose
<1>3. PageOK(p) /\ p.ref = 0 /\ p.reconnect = FALSE
  BY <1>1, LinkParts DEF PageOK, Mounted
<1> HIDE DEF p
<1>4. \/ out = Does(Vacant(life), "reconnecting", {"retry"})
      \/ out = Does([Vacant(life) EXCEPT !.stopped = TRUE], "closed", {"stop"})
  BY <1>1 DEF closed
<1> HIDE DEF out
<1>5. /\ out.life \in Lives(Slots) /\ out.life.current = 0 /\ out.life.admitted = 0
      /\ "admitted" \notin out.effects
      /\ \/ /\ out.status = "reconnecting" /\ "retry" \in out.effects
            /\ out.life.stopped = FALSE
         \/ out.status = "closed" /\ out.effects = {"stop"}
  <2>1. life \in Lives(Slots) /\ life.stopped = FALSE
    BY <1>1, LinkParts DEF isCurrent, Lives
  <2> DEFINE v == Vacant(life)
             w == [Vacant(life) EXCEPT !.stopped = TRUE]
  <2>2. /\ v \in Lives(Slots) /\ v.current = 0 /\ v.admitted = 0 /\ v.stopped = FALSE
        /\ w \in Lives(Slots) /\ w.current = 0 /\ w.admitted = 0
    BY <2>1, VacantFacts
  <2>3. \/ out = Does(v, "reconnecting", {"retry"})
        \/ out = Does(w, "closed", {"stop"})
    BY <1>4
  <2> HIDE DEF v, w
  <2> QED
    BY <2>2, <2>3 DEF Does
<1>6. Calm(ss, Shut(ss, s)) /\ ~ LiveIn(Shut(ss, s), s)
  BY ShutCalm DEF Calm
<1>7. Calm(socks, Shut(ss, s))
  BY <1>6, CalmTrans
<1>8. Linked(out.life, p1, Shut(ss, s))
  BY <1>1, <1>3, <1>5, <1>6, <1>7, GivenUp DEF LinkOK
<1> HIDE DEF p1
<1>9. PageOK(p1) /\ Shaped(Shut(ss, s))
  BY <1>8 DEF Linked
<1>10. SameLink(p1, page')
  BY <1>2, <1>9, LinkRefl, ViewLink
<1>11. Linked(life', page', socks')
  BY <1>2, <1>8, <1>9, <1>10, CalmRefl, Calmly
<1> QED
  BY <1>11, Zenon DEF LinkOK

\* A timer gives the current socket up, with the page as the timer left it.
LEMMA TimeoutLinks ==
  ASSUME LinkOK, NEW s \in Slots, life.current = s, NEW p, PageOK(p), TimesOut(p, s)
  PROVE  LinkOK'
<1> DEFINE out == timedOut(life, s)
<1>1. isCurrent(life, s)
  BY SlotFacts DEF LinkOK, Linked, Vacancy, isCurrent
<1>2. out = Does(Vacant(life), "reconnecting", {"detach", "retry"})
  BY <1>1 DEF timedOut
<1> HIDE DEF out
<1>3. /\ out.life \in Lives(Slots) /\ out.life.current = 0 /\ out.life.admitted = 0
      /\ out.effects = {"detach", "retry"} /\ out.status = "reconnecting"
      /\ out.life.stopped = FALSE
  <2>1. life \in Lives(Slots) /\ life.stopped = FALSE
    BY <1>1, LinkParts DEF isCurrent, Lives
  <2> DEFINE v == Vacant(life)
  <2>2. v \in Lives(Slots) /\ v.current = 0 /\ v.admitted = 0 /\ v.stopped = FALSE
    BY <2>1, VacantFacts
  <2>3. out = Does(v, "reconnecting", {"detach", "retry"})
    BY <1>2
  <2> HIDE DEF v
  <2> QED
    BY <2>2, <2>3 DEF Does
<1>4. life' = out.life /\ page' = apply(p, s, out) /\ socks' = Shut(socks, s)
  BY <1>3 DEF TimesOut, out
<1>5. Calm(socks, Shut(socks, s)) /\ ~ LiveIn(Shut(socks, s), s)
  BY LinkParts, ShutCalm
<1>6. Linked(out.life, apply(p, s, out), Shut(socks, s))
  BY <1>1, <1>3, <1>5, GivenUp DEF LinkOK
<1> QED
  BY <1>4, <1>6, Zenon DEF LinkOK

LEMMA AdmissionTimerLinks == LinkOK /\ AdmissionTimer => LinkOK'
<1> SUFFICES ASSUME LinkOK, AdmissionTimer PROVE LinkOK'
  OBVIOUS
<1> DEFINE s == page.admission
           p == [page EXCEPT !.admission = 0]
<1>1. s \in Slots /\ life.current = s /\ TimesOut(p, s)
  BY DEF AdmissionTimer, LinkOK, Linked, One, PageOK
<1>2. PageOK(p)
  BY LinkParts DEF PageOK, Mounted
<1> HIDE DEF s, p
<1> QED
  BY <1>1, <1>2, TimeoutLinks

LEMMA PongTimerLinks == LinkOK /\ PongTimer => LinkOK'
<1> SUFFICES ASSUME LinkOK, PongTimer PROVE LinkOK'
  OBVIOUS
<1> DEFINE s == page.beat.on
           p == [page EXCEPT !.beat.waits = FALSE, !.beat.missed = @ + 1]
<1>1. s \in Slots /\ life.current = s /\ life.admitted = s
  BY DEF PongTimer, LinkOK, Linked, Admission, Vacancy, PageOK
<1>2. ShownAdmitted(page)
  BY <1>1, SlotFacts DEF LinkOK, Linked, Admission
<1>3. SameLink(page, p) /\ SameLink(page, [p EXCEPT !.status = "degraded"])
  BY <1>2, LinkParts, BeatLink
<1>4. PageOK(p)
  BY <1>3 DEF SameLink
<1>5. \/ TimesOut(p, s)
      \/ page' = [p EXCEPT !.status = "degraded"] /\ UNCHANGED <<life, socks>>
  BY DEF PongTimer
<1> HIDE DEF s, p
<1>6. CASE TimesOut(p, s)
  BY <1>1, <1>4, <1>6, TimeoutLinks
<1>7. CASE page' = [p EXCEPT !.status = "degraded"] /\ UNCHANGED <<life, socks>>
  BY <1>3, <1>7, LinkParts, CalmStep
<1> QED
  BY <1>5, <1>6, <1>7

\* The snapshot admits the current socket, or says what is known already.
LEMMA SnapshotLinks ==
  ASSUME LinkOK, NEW s \in Slots, isCurrent(life, s), LiveIn(socks, s),
         NEW state, NEW ss, Calm(socks, ss),
         LET out == snapshot(life, s)
             p   == apply(page, s, out)
         IN  /\ life'  = out.life
             /\ page'  = applySnapshot(p, state)
             /\ socks' = rawSend(p, ss, Replays(p))
  PROVE  LinkOK'
<1> DEFINE out == snapshot(life, s)
           p   == apply(page, s, out)
<1>1. Linked(out.life, p, ss)
  <2>1. CASE life.admitted = s
    <3>1. out.life = life /\ out.status = "same" /\ out.effects = {}
      BY <2>1 DEF snapshot, Nothing, Does
    <3> DEFINE q == [page EXCEPT !.status    = page.status,
                                 !.ref       = page.ref,
                                 !.reconnect = page.reconnect \/ FALSE]
    <3>2. p = [page EXCEPT !.status    = IF out.status = "same" THEN @ ELSE out.status,
                           !.ref       = IF "detach" \in out.effects /\ @ = s THEN 0 ELSE @,
                           !.reconnect = @ \/ "retry" \in out.effects]
      BY <3>1 DEF apply
    <3> HIDE DEF out, p
    <3>3. SameLink(page, p)
      BY <3>1, <3>2, LinkParts DEF SameLink, PageOK, Mounted, ShownAdmitted
    <3> QED
      BY <3>1, <3>3, Calmly DEF LinkOK
  <2>2. CASE life.admitted # s
    <3>1. /\ out.life = [life EXCEPT !.admitted = s, !.ever = TRUE]
          /\ out.status = "open" /\ out.effects = {"admitted"}
      BY <2>2 DEF snapshot, Does
    <3> DEFINE q == [page EXCEPT !.status    = IF out.status = "same" THEN @ ELSE out.status,
                                 !.ref       = IF "detach" \in out.effects /\ @ = s THEN 0 ELSE @,
                                 !.reconnect = @ \/ "retry" \in out.effects]
    <3>2. p = admits(q, s)
      BY <3>1 DEF apply
    <3> HIDE DEF out, p
    <3>3. /\ PageOK(q) /\ q.status = "open" /\ q.ref = page.ref /\ q.reconnect = page.reconnect
      BY <3>1, LinkParts DEF PageOK, Mounted, Statuses
    <3> HIDE DEF q
    <3> DEFINE b == [NoBeat EXCEPT !.on = s]
    <3>4. b \in [on : Slots \cup {0}, waits : BOOLEAN, missed : Nat] /\ b.on = s
      BY DEF NoBeat
    <3>5. /\ PageOK(p) /\ p.status = "open" /\ p.ref = page.ref /\ p.reconnect = page.reconnect
          /\ p.admission = 0 /\ p.admitted = TRUE /\ p.beat.on = s
      <4>1. p = [q EXCEPT !.admission = 0, !.admitted = TRUE, !.replay = TRUE, !.beat = b]
        BY <3>2 DEF admits
      <4> HIDE DEF b
      <4> QED
        BY <3>3, <3>4, <4>1 DEF PageOK, Mounted
    <3>6. /\ out.life \in Lives(Slots) /\ out.life.current = s /\ out.life.admitted = s
          /\ out.life.stopped = FALSE
      BY <3>1, LinkParts DEF Lives, isCurrent
    <3>7. One(out.life, p, ss)
      BY <3>5, <3>6, LinkParts DEF One, Calm, isCurrent
    <3>8. Admission(out.life, p)
      <4>1. ShownAdmitted(p) = TRUE /\ (out.life.admitted # 0) = TRUE
        BY <3>5, <3>6, SlotFacts DEF ShownAdmitted
      <4> QED
        BY <3>5, <3>6, <4>1, Zenon DEF Admission
    <3>9. Vacancy(out.life, p)
      BY <3>5, <3>6, LinkParts DEF Vacancy
    <3>10. Shaped(ss)
      BY DEF Calm
    <3> QED
      BY <3>5, <3>6, <3>7, <3>8, <3>9, <3>10 DEF Linked
  <2> QED
    BY <2>1, <2>2
<1>2. life' = out.life /\ page' = applySnapshot(p, state) /\ socks' = rawSend(p, ss, Replays(p))
  OBVIOUS
<1> HIDE DEF out, p
<1>3. SameLink(p, page') /\ Calm(ss, socks')
  BY <1>1, <1>2, AnswerLink, RawCalm DEF Linked
<1> QED
  BY <1>1, <1>2, <1>3, Calmly DEF LinkOK

\* One frame: a close, a control message, an event of another role, or
\* anything at all on a socket that is not current.
LEMMA HearsLinks == ASSUME LinkOK, NEW s \in Slots, Hears(s) PROVE LinkOK'
<1> DEFINE f  == Head(socks[s].down)
           ss == [socks EXCEPT ![s].down = Tail(@)]
<1>1. LiveIn(socks, s) /\ isCurrent(life, s)
  BY LinkParts DEF Hears, LiveIn
<1>2. Calm(socks, ss)
  BY LinkParts, FieldCalm
<1>3. \/ onclose(s, f.arg, ss)
      \/ f.type = "broadcast" /\ handleMessage(s, f, ss)
      \/ f.type # "broadcast" /\ handleControl(s, f, ss)
      \/ socks' = ss /\ UNCHANGED <<life, page>>
  BY DEF Hears, handleMessage
<1> HIDE DEF f, ss
<1>4. CASE onclose(s, f.arg, ss)
  BY <1>1, <1>2, <1>4, CloseLinks
<1>5. CASE f.type = "broadcast" /\ handleMessage(s, f, ss)
  <2>1. /\ page' = applyBroadcastEnvelope(page, f.arg) /\ life' = life
        /\ socks' = requestSnapshot(page, ss) \/ socks' = ss
    BY <1>5 DEF handleMessage
  <2>2. Calm(ss, socks')
    BY <1>2, <2>1, LinkParts, RawCalm, CalmRefl DEF Calm
  <2> QED
    BY <1>2, <2>1, <2>2, LinkParts, AnswerLink, CalmTrans, CalmStep
<1>6. CASE f.type # "broadcast" /\ handleControl(s, f, ss)
  <2>1. CASE f.type = "pong"
    <3>1. page' = handlePong(page) /\ socks' = ss /\ life' = life
      BY <1>6, <2>1 DEF handleControl
    <3> QED
      BY <1>2, <3>1, LinkParts, BeatLink, CalmStep
  <2>2. CASE f.type = "ack"
    <3>1. /\ page' = handleAck(page, f.arg.ev, f.arg.verdict) /\ life' = life
          /\ socks' = requestSnapshot(page, ss) \/ socks' = ss
      BY <1>6, <2>2 DEF handleControl
    <3>2. Calm(ss, socks')
      BY <1>2, <3>1, LinkParts, RawCalm, CalmRefl DEF Calm
    <3> QED
      BY <1>2, <3>1, <3>2, LinkParts, AckLink, CalmTrans, CalmStep
  <2>3. CASE f.type = "snapshot"
    <3>1. LET out == snapshot(life, s)
              p   == apply(page, s, out)
          IN  /\ life'  = out.life
              /\ page'  = applySnapshot(p, f.arg)
              /\ socks' = rawSend(p, ss, Replays(p))
      BY <1>6, <2>3 DEF handleControl
    <3> QED
      BY <1>1, <1>2, <3>1, SnapshotLinks
  <2>4. CASE f.type \notin {"pong", "ack", "snapshot"}
    <3>1. page' = Scheduled(page) /\ socks' = ss /\ life' = life
      BY <1>6, <2>4 DEF handleControl
    <3> QED
      BY <1>2, <3>1, LinkParts, AnswerLink, CalmStep
  <2> QED
    BY <2>1, <2>2, <2>3, <2>4
<1>7. CASE socks' = ss /\ UNCHANGED <<life, page>>
  BY <1>2, <1>7, LinkParts, CalmStep
<1> QED
  BY <1>3, <1>4, <1>5, <1>6, <1>7

LEMMA TimersLink == LinkOK /\ Timers => LinkOK'
<1> SUFFICES ASSUME LinkOK, Timers PROVE LinkOK'
  OBVIOUS
<1>1. CASE PingTimer
  <2> DEFINE p == [page EXCEPT !.beat.waits = TRUE]
  <2>1. page' = p /\ life' = life /\ socks' = rawSend(page, socks, <<Frame("ping", 0)>>)
    BY <1>1 DEF PingTimer
  <2>2. SameLink(page, p)
    BY LinkParts, BeatLink
  <2> HIDE DEF p
  <2> QED
    BY <2>1, <2>2, LinkParts, RawCalm, CalmStep
<1>2. CASE StartTimer
  <2> DEFINE p == [page EXCEPT !.start = FALSE]
             q == [p EXCEPT !.view = "active"]
  <2>1. /\ page' = p \/ page' = q
        /\ life' = life
        /\ socks' = requestSnapshot(page, socks) \/ socks' = socks
    BY <1>2 DEF StartTimer
  <2>2. SameLink(page, p)
    BY LinkParts, FieldLink
  <2> HIDE DEF p
  <2>3. SameLink(p, q)
    BY <2>2, FieldLink DEF SameLink
  <2> HIDE DEF q
  <2>4. SameLink(page, page') /\ life' = life
    <3>1. SameLink(page, q)
      BY <2>2, <2>3, LinkTrans
    <3> QED
      BY <2>1, <2>2, <3>1
  <2>5. Calm(socks, socks')
    BY <2>1, LinkParts, RawCalm
  <2> QED
    BY <2>4, <2>5, CalmStep
<1>3. CASE ResyncTimer
  <2> DEFINE p == [page EXCEPT !.resync = FALSE]
  <2>1. page' = p /\ life' = life /\ socks' = requestSnapshot(page, socks)
    BY <1>3 DEF ResyncTimer
  <2>2. SameLink(page, p)
    BY LinkParts, FieldLink
  <2> HIDE DEF p
  <2> QED
    BY <2>1, <2>2, LinkParts, RawCalm, CalmStep
<1> QED
  BY <1>1, <1>2, <1>3, ReconnectLinks, AdmissionTimerLinks, PongTimerLinks DEF Timers

\* Events of the page.
LEMMA SendLinks ==
  ASSUME LinkOK, NEW kind, NEW p, SameLink(page, p), sendEnvelope(kind, p)
  PROVE  LinkOK'
<1> DEFINE e == Append(p.pending, Len(issued'))
           q == [p EXCEPT !.pending = e]
<1>1. /\ page' = q /\ life' = life
      /\ socks' = rawSend(p, socks, <<Event(Len(issued'))>>)
  BY DEF sendEnvelope
<1>2. SameLink(p, q)
  BY FieldLink DEF SameLink
<1> HIDE DEF q
<1>3. SameLink(page, page') /\ Calm(socks, socks')
  BY <1>1, <1>2, LinkTrans, LinkParts, RawCalm DEF SameLink
<1> QED
  BY <1>1, <1>3, CalmStep

LEMMA AuthorsLink ==
  LinkOK /\ (sendSessionStarted \/ sendSessionResumed \/ sendClipEvent) => LinkOK'
<1> SUFFICES ASSUME LinkOK, sendSessionStarted \/ sendSessionResumed \/ sendClipEvent
             PROVE  LinkOK'
  OBVIOUS
<1> DEFINE p == [page EXCEPT !.inFlight = TRUE]
<1>1. SameLink(page, p) /\ SameLink(page, page)
  BY LinkParts, FieldLink
<1>2. \E kind : sendEnvelope(kind, p) \/ sendEnvelope(kind, page)
  BY DEF sendSessionStarted, sendSessionResumed, sendClipEvent
<1> HIDE DEF p
<1> QED
  BY <1>1, <1>2, SendLinks
-----------------------------------------------------------------------------
(***************************************************************************)
(* Steps of the network and the server.                                    *)
(***************************************************************************)
LEMMA NetworkLinks ==
  ASSUME LinkOK, NEW s \in Slots, NetBreaks(s) \/ NetDies(s) \/ BrowserGivesUp(s)
  PROVE  LinkOK'
<1>1. CASE NetBreaks(s)
  <2>1. PICK lost \in BOOLEAN :
          onclose(s, "abnormal", [socks EXCEPT ![s].up = IF lost THEN <<>> ELSE @])
    BY <1>1 DEF NetBreaks
  <2> DEFINE x  == IF lost THEN <<>> ELSE socks[s].up
             ss == [socks EXCEPT ![s].up = x]
  <2>2. onclose(s, "abnormal", ss)
    BY <2>1
  <2> HIDE DEF x
  <2>3. Calm(socks, ss)
    BY LinkParts, FieldCalm
  <2> HIDE DEF ss
  <2> QED
    BY <1>1, <2>2, <2>3, CloseLinks DEF NetBreaks, LiveIn
<1>2. CASE NetDies(s)
  <2> DEFINE s1 == [socks EXCEPT ![s].net = "dead"]
             s2 == [s1 EXCEPT ![s].up = <<>>]
             s3 == [s2 EXCEPT ![s].down = <<>>]
  <2>1. socks' = s3 /\ life' = life /\ page' = page
    BY <1>2 DEF NetDies
  <2>2. Calm(socks, s1)
    BY LinkParts, FieldCalm
  <2> HIDE DEF s1
  <2>3. Calm(s1, s2)
    BY <2>2, FieldCalm DEF Calm
  <2> HIDE DEF s2
  <2>4. Calm(s2, s3)
    BY <2>3, FieldCalm DEF Calm
  <2> HIDE DEF s3
  <2> QED
    BY <2>1, <2>2, <2>3, <2>4, CalmTrans, LinkParts, CalmStep
<1>3. CASE BrowserGivesUp(s)
  BY <1>3, LinkParts, CloseLinks DEF BrowserGivesUp, LiveIn
<1> QED
  BY <1>1, <1>2, <1>3

\* The server only ever closes, answers and queues.
LEMMA ServerCalm ==
  ASSUME LinkOK, NEW s \in Slots,
         AdmitUpgrade(s) \/ RefuseUpgrade(s) \/ Serve(s) \/ Notices(s)
  PROVE  Calm(socks, socks') /\ life' = life /\ page' = page
<1>1. Shaped(socks)
  BY LinkParts
<1>2. CASE AdmitUpgrade(s)
  <2> DEFINE ss == ClosedBy(socks, {t \in Slots : Held(t)}, "role_connection_replaced")
  <2>1. socks' = [ss EXCEPT ![s].srv = "admitted"] /\ life' = life /\ page' = page
    BY <1>2 DEF AdmitUpgrade
  <2>2. Calm(socks, ss)
    BY <1>1, ClosedCalm
  <2> HIDE DEF ss
  <2>3. Calm(ss, [ss EXCEPT ![s].srv = "admitted"])
    BY <2>2, FieldCalm DEF Calm
  <2> QED
    BY <2>1, <2>2, <2>3, CalmTrans
<1>3. CASE RefuseUpgrade(s)
  <2>1. \E frame : socks' = ClosedBy(socks, {s}, frame)
    BY <1>3 DEF RefuseUpgrade
  <2>2. life' = life /\ page' = page
    BY <1>3 DEF RefuseUpgrade
  <2> QED
    BY <1>1, <2>1, <2>2, ClosedCalm
<1>4. CASE Serve(s)
  <2> DEFINE ss == [socks EXCEPT ![s].up = Tail(@)]
             f  == Head(socks[s].up)
  <2>1. Calm(socks, ss)
    BY <1>1, FieldCalm
  <2>2. /\ \/ \E frame : socks' = ClosedBy(ss, {s}, frame)
           \/ \E fs : socks' = Down(ss, s, fs)
        /\ life' = life /\ page' = page
    <3>1. \/ socks' = ClosedBy(ss, {s}, Refusal)
          \/ Handle(s, f.arg, ss)
          \/ socks' = Down(ss, s, <<IF f.type = "hello" THEN Frame("snapshot", row)
                                                        ELSE Frame("pong", 0)>>)
      BY <1>4 DEF Serve
    <3>2. life' = life /\ page' = page
      BY <1>4 DEF Serve
    <3> HIDE DEF ss, f
    <3>3. CASE Handle(s, f.arg, ss)
      BY <3>3, <3>2 DEF Handle
    <3> QED
      BY <3>1, <3>2, <3>3
  <2> HIDE DEF ss
  <2>3. Calm(ss, socks')
    BY <2>1, <2>2, ClosedCalm, DownCalm DEF Calm
  <2> QED
    BY <2>1, <2>2, <2>3, CalmTrans
<1>5. CASE Notices(s)
  <2> DEFINE ss == [socks EXCEPT ![s].srv = "gone"]
  <2>1. socks' = Tidy(ss) /\ life' = life /\ page' = page
    BY <1>5 DEF Notices
  <2>2. Calm(socks, ss)
    BY <1>1, FieldCalm
  <2> HIDE DEF ss
  <2>3. Calm(ss, Tidy(ss))
    BY <2>2, TidyCalm DEF Calm
  <2> QED
    BY <2>1, <2>2, <2>3, CalmTrans
<1> QED
  BY <1>2, <1>3, <1>4, <1>5

LEMMA BroadcastCalm ==
  ASSUME Shaped(socks), NEW fs, Broadcasts(fs)
  PROVE  Calm(socks, socks')
<1>1. \A s \in Slots : Calm(socks, Down(socks, s, fs))
  BY DownCalm
<1>2. socks' = [s \in Slots |-> IF Held(s) THEN Down(socks, s, fs)[s] ELSE socks[s]]
  BY DEF Broadcasts
<1> QED
  BY <1>1, <1>2 DEF Calm, Shaped, LiveIn, Free

LEMMA SessionCalm ==
  ASSUME LinkOK, StartComesDue \/ Pause \/ WizardActs \/ EndSession \/ Revoke \/ TakenOver
  PROVE  Calm(socks, socks') /\ life' = life /\ page' = page
<1>1. Shaped(socks)
  BY LinkParts
<1>2. life' = life /\ page' = page
  BY DEF StartComesDue, Pause, WizardActs, EndSession, Revoke, TakenOver
<1>3. \/ socks' = socks
      \/ \E fs : Broadcasts(fs)
      \/ \E S, frame : socks' = ClosedBy(socks, S, frame)
  <2>1. CASE StartComesDue
    BY <2>1 DEF StartComesDue
  <2>2. CASE Pause \/ WizardActs
    BY <2>2 DEF Pause, WizardActs
  <2>3. CASE EndSession \/ Revoke \/ TakenOver
    BY <2>3 DEF EndSession, Revoke, TakenOver
  <2> QED
    BY <2>1, <2>2, <2>3
<1>4. CASE \E fs : Broadcasts(fs)
  BY <1>1, <1>2, <1>4, BroadcastCalm
<1>5. CASE \E S, frame : socks' = ClosedBy(socks, S, frame)
  BY <1>1, <1>2, <1>5, ClosedCalm
<1> QED
  BY <1>1, <1>2, <1>3, <1>4, <1>5, CalmRefl

-----------------------------------------------------------------------------
\* Every step keeps the link.
LEMMA LinkStep == LinkOK /\ [Next]_vars => LinkOK'
<1> SUFFICES ASSUME LinkOK, [Next]_vars PROVE LinkOK'
  OBVIOUS
<1>1. CASE UNCHANGED vars
  BY <1>1, LinkParts, CalmStep DEF vars
<1>2. CASE Timers \/ Remount
  BY <1>2, TimersLink, RemountLinks
<1>3. CASE sendSessionStarted \/ sendSessionResumed \/ sendClipEvent
  BY <1>3, AuthorsLink
<1>4. ASSUME NEW s \in Slots, Opens(s) \/ Hears(s)
      PROVE  LinkOK'
  BY <1>4, OpensLinks, HearsLinks
<1>5. ASSUME NEW s \in Slots, NetBreaks(s) \/ NetDies(s) \/ BrowserGivesUp(s)
      PROVE  LinkOK'
  BY <1>5, NetworkLinks
<1>6. ASSUME NEW s \in Slots,
             AdmitUpgrade(s) \/ RefuseUpgrade(s) \/ Serve(s) \/ Notices(s)
      PROVE  LinkOK'
  BY <1>6, ServerCalm, LinkParts, CalmStep
<1>7. CASE StartComesDue \/ Pause \/ WizardActs \/ EndSession \/ Revoke \/ TakenOver
  BY <1>7, SessionCalm, LinkParts, CalmStep
<1> QED
  BY <1>1, <1>2, <1>3, <1>4, <1>5, <1>6, <1>7 DEF Next

\* The lifecycle, the page's link and the sockets keep their types, whatever
\* the hook, the network and the server do.
THEOREM SocketsTyped == Spec => []TypeOK
<1>1. LinkOK => TypeOK
  BY DEF LinkOK, Linked, PageOK, Shaped, TypeOK
<1> QED
  BY <1>1, LinkInit, LinkStep, PTL DEF Spec

\* OneLiveSocket for any number of sockets, events and faults: a timer or a
\* callback never belongs to a socket other than the current one, and there
\* is no second live socket beside it, nor one after a final close.
THEOREM OneLiveSocketCorrect == Spec => []OneLiveSocket
<1>1. LinkOK => OneLiveSocket
  BY DEF LinkOK, Linked, One, OneLiveSocket, Live, LiveIn
<1> QED
  BY <1>1, LinkInit, LinkStep, PTL DEF Spec

\* AdmissionShown for any number of sockets, events and faults: the page
\* shows itself admitted exactly while the current socket has its snapshot.
THEOREM AdmissionCorrect == Spec => []AdmissionShown
<1>1. LinkOK => AdmissionShown
  BY DEF LinkOK, Linked, Admission, AdmissionShown
<1> QED
  BY <1>1, LinkInit, LinkStep, PTL DEF Spec
=============================================================================

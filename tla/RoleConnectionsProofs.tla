----------------------- MODULE RoleConnectionsProofs -----------------------
(***************************************************************************)
(* Proofs about RoleConnections, for any set of sockets.                   *)
(***************************************************************************)
EXTENDS RoleConnections, SequenceTheorems, TLAPS

\* Removing the entry of a socket keeps the others, each once.
LEMMA WithoutFacts ==
  ASSUME TypeOK, NEW s \in Sockets
  PROVE  /\ Without(s) \in Seq(Sockets)
         /\ \A i, j \in DOMAIN Without(s) : Without(s)[i] = Without(s)[j] => i = j
         /\ \A i \in DOMAIN Without(s) :
              \E k \in DOMAIN registry : Without(s)[i] = registry[k] /\ registry[k] # s
         /\ Len(Without(s)) <= Len(registry)
         /\ \A k \in DOMAIN registry :
              registry[k] # s => \E i \in DOMAIN Without(s) : Without(s)[i] = registry[k]
<1>1. CASE s \notin Registered
  <2>1. Without(s) = registry
    BY <1>1 DEF Without
  <2>2. \A k \in DOMAIN registry : registry[k] # s
    BY <1>1 DEF Registered, ToSet
  <2> QED
    BY <2>1, <2>2 DEF TypeOK
<1>2. CASE s \in Registered
  <2> DEFINE p == At(s)
  <2>1. p \in DOMAIN registry /\ registry[p] = s
    BY <1>2 DEF Registered, ToSet, At
  <2>2. registry \in Seq(Sockets) /\ p \in 1 .. Len(registry)
    BY <2>1 DEF TypeOK
  <2> DEFINE w == RemoveAt(registry, p)
             src(i) == IF i < p THEN i ELSE i + 1
  <2>3. Without(s) = w
    BY <1>2 DEF Without
  <2> HIDE DEF p
  <2>4. /\ w \in Seq(Sockets) /\ Len(w) = Len(registry) - 1
        /\ \A i \in 1 .. Len(w) : w[i] = registry[src(i)]
    <3> DEFINE a == SubSeq(registry, 1, p - 1)
               b == SubSeq(registry, p + 1, Len(registry))
    <3>1. a \in Seq(Sockets) /\ Len(a) = p - 1 /\ \A i \in 1 .. p - 1 : a[i] = registry[i]
      BY <2>2
    <3>2. /\ b \in Seq(Sockets) /\ Len(b) = Len(registry) - p
          /\ \A i \in 1 .. Len(registry) - p : b[i] = registry[p + i]
      BY <2>2
    <3>3. w = a \o b
      BY DEF RemoveAt
    <3> HIDE DEF a, b, w
    <3>4. w \in Seq(Sockets) /\ Len(w) = Len(registry) - 1
      <4>1. w \in Seq(Sockets) /\ Len(w) = Len(a) + Len(b)
        BY <3>1, <3>2, <3>3, ConcatProperties
      <4> QED
        BY <4>1, <3>1, <3>2, <2>2
    <3>5. ASSUME NEW i \in 1 .. Len(w), i < p
          PROVE  w[i] = registry[i]
      BY <3>1, <3>2, <3>3, <3>4, <3>5, <2>2
    <3>6. ASSUME NEW i \in 1 .. Len(w), ~(i < p)
          PROVE  w[i] = registry[i + 1]
      <4>1. w[i] = b[i - (p - 1)]
        BY <3>1, <3>2, <3>3, <3>4, <3>6, <2>2
      <4>2. i - (p - 1) \in 1 .. Len(registry) - p /\ p + (i - (p - 1)) = i + 1
        BY <3>4, <3>6, <2>2
      <4> QED
        BY <4>1, <4>2, <3>2
    <3> QED
      BY <3>4, <3>5, <3>6
  <2> HIDE DEF w
  <2>5. \A i \in 1 .. Len(w) : src(i) \in 1 .. Len(registry) /\ src(i) # p
    BY <2>2, <2>4
  <2>6. \A i, j \in 1 .. Len(w) : src(i) = src(j) => i = j
    BY <2>2, <2>4
  <2>7. \A k \in 1 .. Len(registry) : k # p => \E i \in 1 .. Len(w) : src(i) = k
    <3> SUFFICES ASSUME NEW k \in 1 .. Len(registry), k # p
                 PROVE  \E i \in 1 .. Len(w) : src(i) = k
      OBVIOUS
    <3>1. CASE k < p
      <4>1. k \in 1 .. Len(w) /\ src(k) = k
        BY <3>1, <2>2, <2>4
      <4> QED
        BY <4>1
    <3>2. CASE k > p
      <4>1. k - 1 \in 1 .. Len(w) /\ src(k - 1) = k
        BY <3>2, <2>2, <2>4
      <4> QED
        BY <4>1
    <3> QED
      BY <3>1, <3>2, <2>2
  <2>8. \A i, j \in 1 .. Len(registry) : registry[i] = registry[j] => i = j
    BY DEF TypeOK
  <2> HIDE DEF src
  <2>9. DOMAIN registry = 1 .. Len(registry) /\ DOMAIN w = 1 .. Len(w)
    BY <2>2, <2>4
  <2>10. \A i, j \in DOMAIN w : w[i] = w[j] => i = j
    BY <2>4, <2>5, <2>6, <2>8, <2>9
  <2>11. \A i \in DOMAIN w : \E k \in DOMAIN registry : w[i] = registry[k] /\ registry[k] # s
    BY <2>1, <2>4, <2>5, <2>8, <2>9
  <2>12. \A k \in DOMAIN registry : registry[k] # s => \E i \in DOMAIN w : w[i] = registry[k]
    BY <2>1, <2>4, <2>7, <2>9
  <2>13. Len(w) <= Len(registry)
    BY <2>2, <2>4
  <2> QED
    BY <2>3, <2>4, <2>10, <2>11, <2>12, <2>13
<1> QED
  BY <1>1, <1>2

LEMMA TypeInit == Init => TypeOK
<1> SUFFICES ASSUME Init PROVE TypeOK
  OBVIOUS
<1>1. registry = <<>> /\ registry \in Seq(Sockets) /\ DOMAIN registry = {}
  BY DEF Init
<1> QED
  BY <1>1 DEF Init, TypeOK, Phases, Admitting, Reporting, Served, In

LEMMA TypeStep == TypeOK /\ [Next]_vars => TypeOK'
<1> SUFFICES ASSUME TypeOK, [Next]_vars
             PROVE  TypeOK'
  OBVIOUS
<1> USE DEF Phases, Admitting, Reporting, Served
<1>0. \A s \in Sockets : phase[s] \in {"new", "accepting", "replacing", "closing"} => s \notin Registered
  BY DEF TypeOK, Registered, ToSet
<1>1. CASE UNCHANGED vars
  BY <1>1 DEF vars, TypeOK, In
<1>2. CASE GraceExpires
  BY <1>2 DEF GraceExpires, TypeOK, In
<1>3. ASSUME NEW s \in Sockets, AdmitFirst(s)
      PROVE  TypeOK'
  <2>1. DOMAIN registry = {}
    BY <1>3 DEF AdmitFirst
  <2> QED
    BY <1>3, <2>1 DEF AdmitFirst, BeginAdmission, TypeOK, In
<1>4. ASSUME NEW s \in Sockets, Refuse(s)
      PROVE  TypeOK'
  BY <1>0, <1>4 DEF Refuse, TypeOK, In
<1>5. ASSUME NEW s \in Sockets, TakeOver(s)
      PROVE  TypeOK'
  <2>1. Head(registry) \in Sockets /\ Head(registry) # s
    BY <1>5 DEF TakeOver, TypeOK
  <2>2. \A i \in DOMAIN registry : registry[i] # s
    BY <1>5 DEF TakeOver, TypeOK
  <2> QED
    BY <1>5, <2>1, <2>2 DEF TakeOver, BeginAdmission, TypeOK, In
<1>6. ASSUME NEW s \in Sockets, TakeOverClosed(s)
      PROVE  TypeOK'
  BY <1>6 DEF TakeOverClosed, BeginAdmission, TypeOK, In
<1>7. ASSUME NEW s \in Sockets, CloseReturns(s)
      PROVE  TypeOK'
  BY <1>7 DEF CloseReturns, TypeOK, In
<1>8. ASSUME NEW s \in Sockets, Accepted(s)
      PROVE  TypeOK'
  <2>1. registry' \in Seq(Sockets) /\ Len(registry') = Len(registry) + 1
    BY <1>8 DEF Accepted, TypeOK
  <2>2. /\ \A i \in 1 .. Len(registry) : registry'[i] = registry[i]
        /\ registry'[Len(registry) + 1] = s
    BY <1>8 DEF Accepted, TypeOK
  <2>3. \A i \in 1 .. Len(registry) : registry[i] # s
    BY <1>8 DEF Accepted, TypeOK
  <2>4. DOMAIN registry' = 1 .. (Len(registry) + 1) /\ DOMAIN registry = 1 .. Len(registry)
    BY <2>1 DEF TypeOK
  <2>5. Len(registry) \in Nat
    BY DEF TypeOK
  <2>6. \A i, j \in DOMAIN registry' : registry'[i] = registry'[j] => i = j
    BY <2>2, <2>3, <2>4, <2>5 DEF TypeOK
  <2>7. \A i \in DOMAIN registry' : phase'[registry'[i]] \in Reporting \cup {"dead"}
    BY <1>8, <2>1, <2>2, <2>3, <2>4, <2>5 DEF Accepted, TypeOK
  <2> QED
    BY <1>8, <2>1, <2>6, <2>7 DEF Accepted, TypeOK, In
<1>9. ASSUME NEW s \in Sockets, AcceptFails(s)
      PROVE  TypeOK'
  BY <1>0, <1>9 DEF AcceptFails, TypeOK, In
<1>10. ASSUME NEW s \in Sockets, Announce(s)
       PROVE  TypeOK'
  BY <1>10 DEF Announce, TypeOK, In
<1>11. ASSUME NEW s \in Sockets, Frame(s)
       PROVE  TypeOK'
  BY <1>11 DEF Frame, TypeOK, In
<1>12. ASSUME NEW s \in Sockets, CloseLive(s)
       PROVE  TypeOK'
  BY <1>12 DEF CloseLive, TypeOK, In
<1>13. ASSUME NEW s \in Sockets, HandlerDies(s)
       PROVE  TypeOK'
  BY <1>13 DEF HandlerDies, TypeOK, In
<1>14. ASSUME NEW s \in Sockets, Disconnect(s)
       PROVE  TypeOK'
  <2>1. registry' = Without(s)
    BY <1>14 DEF Disconnect
  <2>2. \A i \in DOMAIN registry' : phase'[registry'[i]] \in Reporting \cup {"dead"}
    BY <1>14, <2>1, WithoutFacts DEF Disconnect, TypeOK
  <2> QED
    BY <1>14, <2>1, <2>2, WithoutFacts DEF Disconnect, TypeOK, In
<1>15. ASSUME NEW s \in Sockets, GoesStale(s)
       PROVE  TypeOK'
  BY <1>15 DEF GoesStale, TypeOK, In
<1> QED
  BY <1>1, <1>2, <1>3, <1>4, <1>5, <1>6, <1>7, <1>8, <1>9, <1>10, <1>11, <1>12,
     <1>13, <1>14, <1>15 DEF Next

\* The type invariant, with the shape of the registry: each socket at most
\* once, and only sockets whose handler is there or has died.
THEOREM RolesTyped == Spec => []TypeOK
<1> QED
  BY TypeInit, TypeStep, PTL DEF Spec

-----------------------------------------------------------------------------
LEMMA MarkStep == TypeOK /\ MarkMeansEmpty /\ [Next]_vars => MarkMeansEmpty'
<1> SUFFICES ASSUME TypeOK, MarkMeansEmpty, [Next]_vars
             PROVE  MarkMeansEmpty'
  OBVIOUS
<1> USE DEF MarkMeansEmpty
<1>1. CASE UNCHANGED vars
  BY <1>1 DEF vars
<1>2. CASE GraceExpires
  BY <1>2 DEF GraceExpires
<1>3. ASSUME NEW s \in Sockets, Disconnect(s)
      PROVE  MarkMeansEmpty'
  <2>1. registry = <<>> => Without(s) = <<>>
    BY DEF Without, Registered, ToSet
  <2> QED
    BY <1>3, <2>1 DEF Disconnect
<1>4. ASSUME NEW s \in Sockets,
             \/ AdmitFirst(s) \/ Refuse(s) \/ TakeOver(s) \/ TakeOverClosed(s)
             \/ CloseReturns(s) \/ Accepted(s) \/ AcceptFails(s) \/ Announce(s)
             \/ Frame(s) \/ CloseLive(s) \/ HandlerDies(s) \/ GoesStale(s)
      PROVE  MarkMeansEmpty'
  BY <1>4 DEF AdmitFirst, Refuse, TakeOver, TakeOverClosed, CloseReturns, Accepted,
       AcceptFails, Announce, Frame, CloseLive, HandlerDies, GoesStale
<1> QED
  BY <1>1, <1>2, <1>3, <1>4 DEF Next

\* A role that is back carries no disconnect mark: also when admissions and
\* late disconnects cross.
THEOREM MarkCorrect == Spec => []MarkMeansEmpty
<1>1. Init => MarkMeansEmpty
  BY DEF Init, MarkMeansEmpty
<1> QED
  BY <1>1, RolesTyped, MarkStep, PTL DEF Spec

-----------------------------------------------------------------------------
(***************************************************************************)
(* AbsenceIsMarked holds because an empty registry that carries no mark,   *)
(* of a role that a socket has left, is owed a report: by a handler that   *)
(* has not called disconnect() yet, or by one that died and never will.    *)
(***************************************************************************)
Owed == (registry = <<>> /\ mark = "none" /\ In({"closed"}) # {})
          => In(Reporting \cup {"dead"}) # {}

LEMMA OwedStep == TypeOK /\ Owed /\ [Next]_vars => Owed'
<1> SUFFICES ASSUME TypeOK, Owed, [Next]_vars
             PROVE  Owed'
  OBVIOUS
<1> USE DEF Owed, In, Reporting, Served
<1>1. CASE UNCHANGED vars
  BY <1>1 DEF vars
<1>2. CASE GraceExpires
  BY <1>2 DEF GraceExpires
<1>3. registry # <<>> => \E s \in Sockets : phase[s] \in Reporting \cup {"dead"}
  <2>1. registry # <<>> => Head(registry) = registry[1] /\ 1 \in DOMAIN registry
    BY DEF TypeOK
  <2> QED
    BY <2>1 DEF TypeOK
<1>4. ASSUME NEW s \in Sockets, AdmitFirst(s) \/ Refuse(s) \/ AcceptFails(s)
      PROVE  Owed'
  BY <1>4 DEF AdmitFirst, Refuse, AcceptFails, TypeOK, Admitting, Phases
<1>5. ASSUME NEW s \in Sockets, TakeOver(s)
      PROVE  Owed'
  BY <1>5 DEF TakeOver
<1>6. ASSUME NEW s \in Sockets, TakeOverClosed(s) \/ CloseReturns(s)
      PROVE  Owed'
  BY <1>3, <1>6 DEF TakeOverClosed, CloseReturns, TypeOK, Admitting, Phases
<1>7. ASSUME NEW s \in Sockets, Accepted(s)
      PROVE  Owed'
  <2>1. registry' # <<>>
    BY <1>7 DEF Accepted, TypeOK
  <2> QED
    BY <2>1
<1>8. ASSUME NEW s \in Sockets, Announce(s) \/ CloseLive(s) \/ HandlerDies(s)
      PROVE  Owed'
  BY <1>8 DEF Announce, CloseLive, HandlerDies, TypeOK, Admitting, Phases
<1>9. ASSUME NEW s \in Sockets, Frame(s) \/ GoesStale(s)
      PROVE  Owed'
  BY <1>9 DEF Frame, GoesStale
<1>10. ASSUME NEW s \in Sockets, Disconnect(s)
       PROVE  Owed'
  BY <1>10 DEF Disconnect
<1> QED
  BY <1>1, <1>2, <1>4, <1>5, <1>6, <1>7, <1>8, <1>9, <1>10 DEF Next

\* When every socket of a role is gone and has said so, its absence is marked.
THEOREM AbsenceCorrect == Spec => []AbsenceIsMarked
<1>1. Init => Owed
  BY DEF Init, Owed, In
<1>2. Owed => AbsenceIsMarked
  BY DEF Owed, AbsenceIsMarked, In
<1> QED
  BY <1>1, <1>2, RolesTyped, OwedStep, PTL DEF Spec

-----------------------------------------------------------------------------
(***************************************************************************)
(* What one admission at a time comes to.  While it waits for the close of *)
(* the prior connection nobody is served, and the list it read before the  *)
(* wait is still the list of the role, or that is empty; while it waits    *)
(* for its own accept the registry is empty.                               *)
(***************************************************************************)
Alone ==
  /\ Len(registry) <= 1
  /\ In(Served) \subseteq Registered
  /\ \A s, t \in In(Admitting) : s = t
  /\ In({"accepting", "replacing"}) # {} => registry = <<>>
  /\ In({"closing"}) # {} => In(Served) = {}
  /\ In({"closing"}) \subseteq captured \/ registry = <<>>
AloneInv == ~crossed => Alone

LEMMA OneOrNone ==
  ASSUME TypeOK, Len(registry) <= 1
  PROVE  /\ registry = <<>> => Registered = {}
         /\ registry # <<>> => Registered = {Head(registry)} /\ Head(registry) \in Sockets
<1>1. registry = <<>> => DOMAIN registry = {}
  OBVIOUS
<1>2. registry # <<>> => DOMAIN registry = {1} /\ Head(registry) = registry[1]
  <2>1. registry \in Seq(Sockets) /\ Len(registry) \in Nat
    BY DEF TypeOK
  <2>2. registry # <<>> => Len(registry) \in Nat \ {0}
    BY <2>1, EmptySeq
  <2> DEFINE n == Len(registry)
  <2>3. registry # <<>> => n = 1
    <3>1. n <= 1 /\ (registry # <<>> => n \in Nat \ {0})
      BY <2>2
    <3> HIDE DEF n
    <3> QED
      BY <3>1
  <2> QED
    BY <2>1, <2>3
<1> QED
  BY <1>1, <1>2 DEF Registered, ToSet, TypeOK

LEMMA AloneStep == TypeOK /\ AloneInv /\ [Next]_vars => AloneInv'
<1> SUFFICES ASSUME TypeOK, AloneInv, [Next]_vars
             PROVE  AloneInv'
  OBVIOUS
<1> USE DEF Reporting, Served, Admitting, In
<1>1. CASE UNCHANGED vars
  BY <1>1 DEF vars, AloneInv, Alone, Registered
<1>2. CASE GraceExpires
  BY <1>2 DEF GraceExpires, AloneInv, Alone, Registered
<1>3. ASSUME NEW s \in Sockets, AdmitFirst(s)
      PROVE  AloneInv'
  BY <1>3 DEF AdmitFirst, BeginAdmission, AloneInv, Alone, Registered, TypeOK
<1>4. ASSUME NEW s \in Sockets, Refuse(s) \/ AcceptFails(s)
      PROVE  AloneInv'
  BY <1>4 DEF Refuse, AcceptFails, AloneInv, Alone, Registered, TypeOK
<1>5. ASSUME NEW s \in Sockets, TakeOver(s)
      PROVE  AloneInv'
  <2> SUFFICES ASSUME ~crossed' PROVE Alone'
    BY DEF AloneInv
  <2>1. Alone /\ In(Admitting) = {}
    BY <1>5 DEF TakeOver, BeginAdmission, AloneInv, TypeOK
  <2>2. Registered = {Head(registry)} /\ Head(registry) \in Sockets
    BY <1>5, <2>1, OneOrNone DEF Alone, TakeOver
  <2>3. In(Served)' = {}
    BY <1>5, <2>1, <2>2 DEF Alone, TakeOver, TypeOK
  <2> QED
    BY <1>5, <2>1, <2>3 DEF Alone, TakeOver, TypeOK
<1>6. ASSUME NEW s \in Sockets, TakeOverClosed(s)
      PROVE  AloneInv'
  <2> SUFFICES ASSUME ~crossed' PROVE Alone'
    BY DEF AloneInv
  <2>1. Alone /\ In(Admitting) = {}
    BY <1>6 DEF TakeOverClosed, BeginAdmission, AloneInv, TypeOK
  <2>2. Registered = {Head(registry)}
    BY <1>6, <2>1, OneOrNone DEF Alone, TakeOverClosed
  <2>3. In(Served)' = {}
    BY <1>6, <2>1, <2>2 DEF Alone, TakeOverClosed, TypeOK
  <2> QED
    BY <1>6, <2>1, <2>3 DEF Alone, TakeOverClosed, TypeOK
<1>7. ASSUME NEW s \in Sockets, CloseReturns(s)
      PROVE  AloneInv'
  <2> SUFFICES ASSUME ~crossed' PROVE Alone'
    BY DEF AloneInv
  <2>1. Alone
    BY <1>7 DEF CloseReturns, AloneInv
  <2>2. registry' = <<>> /\ In(Served)' = {}
    BY <1>7, <2>1 DEF Alone, CloseReturns, TypeOK
  <2> QED
    BY <1>7, <2>1, <2>2 DEF Alone, CloseReturns, TypeOK
<1>8. ASSUME NEW s \in Sockets, Accepted(s)
      PROVE  AloneInv'
  <2> SUFFICES ASSUME ~crossed' PROVE Alone'
    BY DEF AloneInv
  <2>1. Alone /\ registry = <<>>
    BY <1>8 DEF Accepted, AloneInv, Alone
  <2>2. registry' = <<s>> /\ In(Served) = {}
    BY <1>8, <2>1, OneOrNone DEF Accepted, Alone
  <2>3. Registered' = {s}
    BY <2>2 DEF Registered, ToSet
  <2>4. In(Admitting)' = {} /\ In(Served)' = {s}
    BY <1>8, <2>1, <2>2 DEF Accepted, Alone, TypeOK
  <2> QED
    BY <2>2, <2>3, <2>4 DEF Alone
<1>9. ASSUME NEW s \in Sockets, Announce(s) \/ CloseLive(s) \/ HandlerDies(s)
      PROVE  AloneInv'
  BY <1>9 DEF Announce, CloseLive, HandlerDies, AloneInv, Alone, Registered, TypeOK
<1>10. ASSUME NEW s \in Sockets, Frame(s) \/ GoesStale(s)
       PROVE  AloneInv'
  BY <1>10 DEF Frame, GoesStale, AloneInv, Alone, Registered
<1>11. ASSUME NEW s \in Sockets, Disconnect(s)
       PROVE  AloneInv'
  <2> SUFFICES ASSUME ~crossed' PROVE Alone'
    BY DEF AloneInv
  <2>1. Alone /\ (captured = {} \/ s \in Registered)
    BY <1>11 DEF Disconnect, AloneInv, TypeOK
  <2>2. CASE s \in Registered
    <3>1. Registered = {s}
      BY <2>1, <2>2, OneOrNone DEF Alone
    <3>2. \A k \in DOMAIN registry : registry[k] = s
      BY <3>1 DEF Registered, ToSet
    <3>3. Without(s) \in Seq(Sockets) /\ DOMAIN Without(s) = {}
      BY <3>2, WithoutFacts
    <3>4. registry' = <<>>
      BY <1>11, <3>3 DEF Disconnect
    <3>5. In(Served)' = {}
      BY <1>11, <2>1, <3>1 DEF Disconnect, Alone, TypeOK
    <3> QED
      BY <1>11, <2>1, <3>4, <3>5 DEF Disconnect, Alone, TypeOK
  <2>3. CASE s \notin Registered
    <3>1. registry' = registry /\ captured = {}
      BY <1>11, <2>1, <2>3 DEF Disconnect, Without
    <3> QED
      BY <1>11, <2>1, <3>1 DEF Disconnect, Alone, Registered, TypeOK
  <2> QED
    BY <2>2, <2>3
<1> QED
  BY <1>1, <1>2, <1>3, <1>4, <1>5, <1>6, <1>7, <1>8, <1>9, <1>10, <1>11 DEF Next

\* While nothing crosses an admission the role has one entry at most, and it is
\* that of the socket whose frames are handled.
THEOREM HolderCorrect == Spec => [](SingleHolder /\ ServedIsRegistered)
<1>1. Init => AloneInv
  BY DEF Init, AloneInv, Alone, In, Served, Admitting
<1>2. AloneInv => SingleHolder /\ ServedIsRegistered
  BY DEF AloneInv, Alone, SingleHolder, ServedIsRegistered
<1> QED
  BY <1>1, <1>2, RolesTyped, AloneStep, PTL DEF Spec
=============================================================================

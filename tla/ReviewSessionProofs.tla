------------------------- MODULE ReviewSessionProofs -------------------------
(***************************************************************************)
(* Proofs of OneHolder, ReuseNeedsReload and NeverResurrected of           *)
(* ReviewSession, for any number of grants, calls and turns.  IInv holds   *)
(* until the back/forward cache gives a document without a login back to a *)
(* tab that stores one (foundLogin), which the three properties except.    *)
(***************************************************************************)
EXTENDS ReviewSession, SequenceTheorems, TLAPS

-----------------------------------------------------------------------------
(* Types.                                                                  *)
RowType   == [chain : Nat, from : Nat, revoked : BOOLEAN, age : {"fresh", "stale", "dead"},
              shown : 0 .. 2, cut : BOOLEAN]
LoginType == [acc : Nat, ref : Nat]
DocType   == [at : {"none", "shown", "cached"}, reload : BOOLEAN, mem : LoginType,
              flight : Calls \cup {0}, forgot : SUBSET Nat]
Outs      == {"ok", "revoked", "reused", "expired", "failed"}
Toks      == Nat \cup Calls    \* a grant, or for a logout that waits the flight
CallType  == [kind : {"idle", "login", "page", "logout", "refresh"}, doc : Docs \cup {"none"},
              tok : Toks, at : {"sent", "read", "answered", "waits"},
              out : Outs,
              moved : BOOLEAN, last : BOOLEAN]
Browsers  == [docs : [Docs -> DocType], store : [Tabs -> LoginType], calls : [Calls -> CallType]]

Types == Browser \in Browsers /\ grants \in Seq(RowType) /\ turns \in Nat

(* Whatever names a grant names a row.                                     *)
Holds(l, G) == l.acc \in G \cup {0} /\ l.ref \in {0, l.acc}

Named ==
  /\ \A g \in Grants : grants[g].chain \in Grants /\ grants[g].from \in Grants \cup {0}
  /\ \A d \in Docs : Holds(docs[d].mem, Grants) /\ docs[d].forgot \subseteq Grants
  /\ \A t \in Tabs : Holds(store[t], Grants) /\ store[t].ref = 0

(* A request that is out, and one whose answer is a grant.                 *)
Out(k) == k.kind = "refresh" /\ k.at \in {"sent", "read"}
Won(k) == k.kind \in {"login", "refresh"} /\ k.at = "answered" /\ k.out = "ok"

Shape(k, D, G) ==
  /\ k.at = "waits" => k.kind = "logout" /\ k.doc \in Docs
  /\ k.at = "read" => k.kind = "refresh"
  /\ k.kind = "idle" => k = Idle
  /\ k.kind \in {"page", "logout"} /\ k.at # "waits" => k.tok \in G
  /\ k.kind = "refresh" => k.tok \in G
  /\ k.kind \in {"login", "page"} => k.doc \in Docs
  /\ Won(k) => k.tok \in G
  /\ k.doc \in Docs => D[k.doc].at # "none"
  /\ k.out = "reused" => k.kind = "refresh"
  /\ k.at = "answered" => k.doc \in Docs

(* A logout that waits, waits for a refresh of its document.               *)
WaitsFor(k, K) == k.at = "waits" => /\ k.tok \in Calls
                                    /\ K[k.tok].kind = "refresh" /\ K[k.tok].doc = k.doc

CallShape == \A c \in Calls : Shape(calls[c], docs, Grants) /\ WaitsFor(calls[c], calls)

(* What is shown and what its tab stores.                                  *)
Pages ==
  /\ Shown("first") # Shown("second") /\ docs["copy"].at # "cached"
  /\ \A d \in Docs : docs[d].at = "none" => docs[d] = NoDoc
  /\ \A d \in Docs : Shown(d) => store[TabOf(d)] = Stripped(docs[d].mem)

(* The flight of a document is its one refresh that no clear has crossed,  *)
(* and refreshes a chain that the document has not cleared.                *)
Flights ==
  /\ \A d \in Docs : docs[d].flight # 0 =>
       LET k == calls[docs[d].flight] IN k.kind = "refresh" /\ k.doc = d /\ ~ k.moved
  /\ \A c \in Calls : calls[c].kind = "refresh" /\ calls[c].doc \in Docs /\ ~ calls[c].moved =>
       LET d == calls[c].doc
       IN  docs[d].flight = c /\ ChainOf(calls[c].tok) \notin docs[d].forgot

(* A refresh token is held once, and one that was just won by nobody.      *)
Unique ==
  /\ \A d, e \in Docs : docs[d].mem.ref # 0 /\ docs[d].mem.ref = docs[e].mem.ref => d = e
  /\ \A c \in Calls : Won(calls[c]) =>
       /\ grants[calls[c].tok].shown = 0
       /\ \A d \in Docs : docs[d].mem.ref # calls[c].tok
       /\ \A b \in Calls : Won(calls[b]) /\ calls[b].tok = calls[c].tok => b = c

(* Nobody knows the chain of a login whose answer is on its way.           *)
NewTo(n, c) ==
  /\ \A d \in Docs : n \notin docs[d].forgot /\ (docs[d].mem.acc # 0 => ChainOf(docs[d].mem.acc) # n)
  /\ \A t \in Tabs : store[t].acc # 0 => ChainOf(store[t].acc) # n
  /\ \A b \in Calls \ {c} : calls[b].kind = "refresh" \/ Won(calls[b]) => ChainOf(calls[b].tok) # n

NewChain ==
  \A c \in Calls : calls[c].kind = "login" /\ Won(calls[c]) => NewTo(ChainOf(calls[c].tok), c)

(* How often the server has seen a refresh token.                          *)
OnceOr(g) ==
  /\ grants[g].shown > 1 => grants[g].cut
  /\ HasSuccessor(g) => grants[g].shown >= 1

Seen(d) ==
  LET g == docs[d].mem.ref
  IN  g # 0 /\ grants[g].shown >= 1 => grants[g].cut \/ docs[d].flight # 0

Counted(c) ==
  LET g == calls[c].tok
  IN  /\ grants[g].shown >= 1
      /\ HasSuccessor(g) => grants[g].shown > 1
      /\ \A b \in Calls : Out(calls[b]) /\ b # c /\ calls[b].tok = g => grants[g].shown > 1

Shows ==
  /\ \A g \in Grants : OnceOr(g)
  /\ \A d \in Docs : Seen(d)
  /\ \A c \in Calls : /\ Out(calls[c]) => Counted(c)
                      /\ calls[c].out = "reused" => grants[calls[c].tok].cut

(* NeverResurrected, for the login that a document uses.                   *)
Forgotten == \A d \in Docs : docs[d].mem.acc # 0 => ChainOf(docs[d].mem.acc) \notin docs[d].forgot

IInv ==
  /\ Types /\ Named /\ CallShape /\ Pages /\ Flights
  /\ Unique /\ NewChain /\ Shows /\ Forgotten

-----------------------------------------------------------------------------
(* The documents and what the operators on a browser do, point by point.   *)

\* The entry of the history that is not d, and where the documents are.
LEMMA Siblings ==
  /\ Sibling("first") = "second" /\ Sibling("second") = "first"
  /\ TabOf("first") = "tab" /\ TabOf("second") = "tab" /\ TabOf("copy") = "duplicate"
<1>1. \A e \in Docs : TabOf(e) = TabOf("first") /\ e # "first" <=> e = "second"
  BY DEF Docs, TabOf
<1>2. \A e \in Docs : TabOf(e) = TabOf("second") /\ e # "second" <=> e = "first"
  BY DEF Docs, TabOf
<1>3. "second" \in Docs /\ "first" \in Docs
  BY DEF Docs
<1>4. Sibling("first") = "second"
  BY <1>1, <1>3 DEF Sibling
<1>5. Sibling("second") = "first"
  BY <1>2, <1>3 DEF Sibling
<1> QED
  BY <1>4, <1>5 DEF TabOf

\* The shapes of the constants.
LEMMA Constants ==
  /\ NoLogin \in LoginType /\ NoLogin.acc = 0 /\ NoLogin.ref = 0
  /\ NoDoc \in DocType /\ Idle \in CallType
  /\ \A d \in Docs : TabOf(d) \in Tabs
<1>1. NoLogin \in LoginType /\ NoLogin.acc = 0 /\ NoLogin.ref = 0
  BY DEF NoLogin, LoginType
<1>2. NoDoc \in DocType /\ Idle \in CallType
  BY <1>1 DEF NoDoc, Idle, DocType, CallType, Toks, Outs
<1>3. \A d \in Docs : TabOf(d) \in Tabs
  BY DEF Docs, TabOf, Tabs
<1> QED
  BY <1>1, <1>2, <1>3

\* The login of a grant.
LEMMA Logins ==
  ASSUME NEW g \in Nat
  PROVE  Login(g) \in LoginType /\ Login(g).acc = g /\ Login(g).ref = g
BY DEF LoginType, Login

\* Without its refresh token.
LEMMA Strips ==
  ASSUME NEW l \in LoginType
  PROVE  /\ Stripped(l) \in LoginType
         /\ Stripped(l).acc = l.acc /\ Stripped(l).ref = 0
         /\ l.ref = 0 => Stripped(l) = l
         /\ l = NoLogin <=> (l.acc = 0 /\ l.ref = 0)
BY DEF Stripped, LoginType, NoLogin

\* A browser is its documents, its storage and its requests.
LEMMA Fields ==
  ASSUME NEW b \in Browsers
  PROVE  /\ b.docs \in [Docs -> DocType] /\ b.store \in [Tabs -> LoginType]
         /\ b.calls \in [Calls -> CallType]
         /\ \A d \in Docs : b.docs[d] \in DocType /\ b.docs[d].mem \in LoginType
         /\ \A t \in Tabs : b.store[t] \in LoginType
BY DEF Browsers, DocType

\* persistReview writes one entry of the storage: without the refresh token,
\* or with it.
LEMMA Persists ==
  ASSUME NEW b \in Browsers, NEW d \in Docs
  PROVE  LET r == persistReview(b, d, FALSE)
         IN  /\ r \in Browsers /\ r.docs = b.docs /\ r.calls = b.calls
             /\ r.store[TabOf(d)] = Stripped(b.docs[d].mem)
             /\ \A t \in Tabs \ {TabOf(d)} : r.store[t] = b.store[t]
BY Fields, Constants, Strips DEF persistReview, Browsers

\* The same when it is parked.
LEMMA PersistsAll ==
  ASSUME NEW b \in Browsers, NEW d \in Docs
  PROVE  LET r == persistReview(b, d, TRUE)
         IN  /\ r \in Browsers /\ r.docs = b.docs /\ r.calls = b.calls
             /\ r.store[TabOf(d)] = b.docs[d].mem
             /\ \A t \in Tabs \ {TabOf(d)} : r.store[t] = b.store[t]
BY Fields, Constants, Strips DEF persistReview, Browsers

(* One document of a browser becomes x, and one slot of storage l.         *)
Puts(r, b, d, x, l) ==
  /\ r.docs[d] = x /\ \A e \in Docs \ {d} : r.docs[e] = b.docs[e]
  /\ r.store[TabOf(d)] = l /\ \A t \in Tabs \ {TabOf(d)} : r.store[t] = b.store[t]

\* A document takes a login, a flight or both.
LEMMA Takes ==
  ASSUME NEW x \in DocType, NEW l \in LoginType
  PROVE  LET y == [x EXCEPT !.mem = l]
         IN  /\ y \in DocType /\ y.mem = l
             /\ y.at = x.at /\ y.reload = x.reload /\ y.flight = x.flight /\ y.forgot = x.forgot
BY DEF DocType

\* rememberReviewSession signs one document in, and stores its login without
\* the refresh token.
LEMMA Remembers ==
  ASSUME NEW b \in Browsers, NEW d \in Docs, NEW g \in Nat
  PROVE  LET r == rememberReviewSession(b, d, g)
         IN  /\ r \in Browsers /\ r.calls = b.calls
             /\ Puts(r, b, d, [b.docs[d] EXCEPT !.mem = Login(g)], Stripped(Login(g)))
<1> DEFINE m == [b EXCEPT !.docs[d].mem = Login(g)]
           y == [b.docs[d] EXCEPT !.mem = Login(g)]
           x == [b.docs EXCEPT ![d] = y]
<1>1. m = [docs |-> x, store |-> b.store, calls |-> b.calls]
  BY DEF Browsers
<1>2. y \in DocType /\ y.mem = Login(g)
  BY Logins, Fields, Takes
<1> HIDE DEF y
<1>3. x \in [Docs -> DocType] /\ x[d] = y /\ \A e \in Docs \ {d} : x[e] = b.docs[e]
  BY <1>2, Fields
<1> HIDE DEF x
<1>4. m \in Browsers /\ m.docs = x /\ m.calls = b.calls /\ m.store = b.store
  BY <1>1, <1>3, Fields DEF Browsers
<1>5. rememberReviewSession(b, d, g) = persistReview(m, d, FALSE)
  BY DEF rememberReviewSession
<1> HIDE DEF m
<1>6. LET r == persistReview(m, d, FALSE)
      IN  /\ r \in Browsers /\ r.docs = m.docs /\ r.calls = m.calls
          /\ r.store[TabOf(d)] = Stripped(m.docs[d].mem)
          /\ \A t \in Tabs \ {TabOf(d)} : r.store[t] = m.store[t]
  BY <1>4, Persists
<1>7. LET r == rememberReviewSession(b, d, g)
      IN  /\ r \in Browsers /\ r.calls = b.calls
          /\ Puts(r, b, d, y, Stripped(Login(g)))
  BY <1>2, <1>3, <1>4, <1>5, <1>6 DEF Puts
<1> QED
  BY <1>7 DEF y

\* readReviewSession leaves a browser alone whose document has a login or
\* whose tab stores none.
LEMMA ReadsNothing ==
  ASSUME NEW b \in Browsers, NEW d \in Docs,
         b.docs[d].mem # NoLogin \/ b.store[TabOf(d)] = NoLogin
  PROVE  readReviewSession(b, d) = b
BY DEF readReviewSession

\* Otherwise the document takes the stored login: with the refresh token if
\* it was reloaded.
LEMMA Reads ==
  ASSUME NEW b \in Browsers, NEW d \in Docs,
         b.docs[d].mem = NoLogin, b.store[TabOf(d)] # NoLogin
  PROVE  LET r == readReviewSession(b, d)
             s == b.store[TabOf(d)]
             l == IF b.docs[d].reload THEN s ELSE Stripped(s)
         IN  /\ r \in Browsers /\ r.calls = b.calls
             /\ Puts(r, b, d, [b.docs[d] EXCEPT !.mem = l], Stripped(s))
<1> DEFINE s == b.store[TabOf(d)]
           l == IF b.docs[d].reload THEN s ELSE Stripped(s)
           m == [b EXCEPT !.docs[d].mem = l]
           y == [b.docs[d] EXCEPT !.mem = l]
           x == [b.docs EXCEPT ![d] = y]
<1>a. s \in LoginType
  BY Fields, Constants
<1>b. l \in LoginType /\ Stripped(l) = Stripped(s)
  BY <1>a, Strips DEF Stripped, LoginType
<1>5. readReviewSession(b, d) = persistReview(m, d, FALSE)
  BY DEF readReviewSession, shouldClaimParkedRefresh
<1> HIDE DEF s, l
<1>1. m = [docs |-> x, store |-> b.store, calls |-> b.calls]
  BY DEF Browsers
<1>2. y \in DocType /\ y.mem = l
  BY <1>b, Fields, Takes
<1> HIDE DEF y
<1>3. x \in [Docs -> DocType] /\ x[d] = y /\ \A e \in Docs \ {d} : x[e] = b.docs[e]
  BY <1>2, Fields
<1> HIDE DEF x
<1>4. m \in Browsers /\ m.docs = x /\ m.calls = b.calls /\ m.store = b.store
  BY <1>1, <1>3, Fields DEF Browsers
<1> HIDE DEF m
<1>6. LET r == persistReview(m, d, FALSE)
      IN  /\ r \in Browsers /\ r.docs = m.docs /\ r.calls = m.calls
          /\ r.store[TabOf(d)] = Stripped(m.docs[d].mem)
          /\ \A t \in Tabs \ {TabOf(d)} : r.store[t] = m.store[t]
  BY <1>4, Persists
<1>7. LET r == readReviewSession(b, d)
      IN  /\ r \in Browsers /\ r.calls = b.calls
          /\ Puts(r, b, d, y, Stripped(s))
  BY <1>b, <1>2, <1>3, <1>4, <1>5, <1>6 DEF Puts
<1> QED
  BY <1>7 DEF y, l, s

\* The fields of an emptied document.
LEMMA Empties ==
  ASSUME NEW x \in DocType, NEW F \in SUBSET Nat
  PROVE  LET y == Emptied(x, F)
         IN  /\ y \in DocType /\ y.at = x.at /\ y.reload = x.reload
             /\ y.mem = NoLogin /\ y.flight = 0 /\ y.forgot = x.forgot \cup F
BY Constants DEF DocType, Emptied

(* A request that a clear of document d has crossed.                       *)
Crossed(k, d) == IF k.doc = d /\ k.kind = "refresh" THEN [k EXCEPT !.moved = TRUE] ELSE k

\* clearReviewSession empties the document and the storage of its tab, and
\* moves the epoch of its refreshes.
LEMMA Clears ==
  ASSUME NEW b \in Browsers, NEW d \in Docs, Known(b, d) \subseteq Nat
  PROVE  LET r == clearReviewSession(b, d)
         IN  /\ r \in Browsers
             /\ Puts(r, b, d, Emptied(b.docs[d], Known(b, d)), NoLogin)
             /\ \A c \in Calls : r.calls[c] = Crossed(b.calls[c], d)
<1> DEFINE F == Known(b, d)
           y == Emptied(b.docs[d], F)
           x == [b.docs EXCEPT ![d] = y]
           u == [b.store EXCEPT ![TabOf(d)] = NoLogin]
           k == [c \in Calls |-> Crossed(b.calls[c], d)]
           f == Forgets(b, d)
<1>1. f = [docs |-> x, store |-> u, calls |-> b.calls]
  <2>1. f = [b EXCEPT !.docs = x, !.store = u]
    BY DEF Forgets
  <2> HIDE DEF x, u
  <2> QED
    BY <2>1 DEF Browsers
<1>2. clearReviewSession(b, d) = [docs |-> x, store |-> u, calls |-> k]
  <2>1. clearReviewSession(b, d) = [f EXCEPT !.calls = [c \in Calls |-> Crossed(f.calls[c], d)]]
    BY <1>1 DEF clearReviewSession, Crossed
  <2> HIDE DEF x, u, f
  <2> QED
    BY <1>1, <2>1
<1>3. y \in DocType
  BY Fields, Empties
<1> HIDE DEF y, F
<1>4. x \in [Docs -> DocType] /\ x[d] = y /\ \A e \in Docs \ {d} : x[e] = b.docs[e]
  BY <1>3, Fields
<1>5. u \in [Tabs -> LoginType] /\ u[TabOf(d)] = NoLogin /\ \A t \in Tabs \ {TabOf(d)} : u[t] = b.store[t]
  BY Fields, Constants
<1>6. k \in [Calls -> CallType]
  <2> SUFFICES ASSUME NEW c \in Calls PROVE Crossed(b.calls[c], d) \in CallType
    OBVIOUS
  <2>1. b.calls[c] \in CallType
    BY Fields
  <2> QED
    BY <2>1 DEF CallType, Crossed
<1>7. \A c \in Calls : k[c] = Crossed(b.calls[c], d)
  OBVIOUS
<1> HIDE DEF x, u, k
<1>8. LET r == clearReviewSession(b, d)
      IN  /\ r \in Browsers
          /\ Puts(r, b, d, y, NoLogin)
          /\ r.calls = k
  BY <1>2, <1>4, <1>5, <1>6 DEF Puts, Browsers
<1> QED
  BY <1>7, <1>8 DEF y, F

\* parkReviewRefreshForReload stores the login with its refresh token.
LEMMA Parks ==
  ASSUME NEW b \in Browsers, NEW d \in Docs,
         b.store[TabOf(d)] = Stripped(b.docs[d].mem)
  PROVE  LET r == parkReviewRefreshForReload(b, d)
         IN  r \in Browsers /\ r.calls = b.calls /\ Puts(r, b, d, b.docs[d], b.docs[d].mem)
<1>1. CASE b.docs[d].mem.ref = 0
  <2>1. parkReviewRefreshForReload(b, d) = b
    BY <1>1 DEF parkReviewRefreshForReload
  <2>2. Stripped(b.docs[d].mem) = b.docs[d].mem
    BY <1>1, Fields, Strips
  <2> QED
    BY <2>1, <2>2 DEF Puts
<1>2. CASE b.docs[d].mem.ref # 0
  <2>1. parkReviewRefreshForReload(b, d) = persistReview(b, d, TRUE)
    BY <1>2 DEF parkReviewRefreshForReload
  <2>2. LET r == persistReview(b, d, TRUE)
        IN  /\ r \in Browsers /\ r.docs = b.docs /\ r.calls = b.calls
            /\ r.store[TabOf(d)] = b.docs[d].mem
            /\ \A t \in Tabs \ {TabOf(d)} : r.store[t] = b.store[t]
    BY PersistsAll
  <2> QED
    BY <2>1, <2>2 DEF Puts
<1> QED
  BY <1>1, <1>2

\* unparkReviewRefresh strips the stored login of a document that has one.
LEMMA Unparks ==
  ASSUME NEW b \in Browsers, NEW d \in Docs, b.docs[d].mem # NoLogin
  PROVE  LET r == unparkReviewRefresh(b, d)
         IN  r \in Browsers /\ r.calls = b.calls /\ Puts(r, b, d, b.docs[d], Stripped(b.docs[d].mem))
<1>1. unparkReviewRefresh(b, d) = persistReview(b, d, FALSE)
  BY DEF unparkReviewRefresh
<1>2. LET r == persistReview(b, d, FALSE)
      IN  /\ r \in Browsers /\ r.docs = b.docs /\ r.calls = b.calls
          /\ r.store[TabOf(d)] = Stripped(b.docs[d].mem)
          /\ \A t \in Tabs \ {TabOf(d)} : r.store[t] = b.store[t]
  BY Persists
<1> QED
  BY <1>1, <1>2 DEF Puts

\* One request is replaced.
LEMMA Slotted ==
  ASSUME NEW b \in Browsers, NEW c \in Calls, NEW k \in CallType
  PROVE  LET r == InSlot(b, c, k)
         IN  /\ r \in Browsers /\ r.docs = b.docs /\ r.store = b.store
             /\ r.calls[c] = k /\ \A e \in Calls \ {c} : r.calls[e] = b.calls[e]
<1> DEFINE x == [b.calls EXCEPT ![c] = k]
<1>1. InSlot(b, c, k) = [docs |-> b.docs, store |-> b.store, calls |-> x]
  BY DEF InSlot, Browsers
<1>2. x \in [Calls -> CallType] /\ x[c] = k /\ \A e \in Calls \ {c} : x[e] = b.calls[e]
  BY Fields
<1> HIDE DEF x
<1> QED
  BY <1>1, <1>2, Fields DEF Browsers

\* One document is replaced.
LEMMA Placed ==
  ASSUME NEW b \in Browsers, NEW d \in Docs, NEW x \in DocType
  PROVE  LET r == InPlace(b, d, x)
         IN  /\ r \in Browsers /\ r.calls = b.calls /\ r.store = b.store
             /\ r.docs[d] = x /\ \A e \in Docs \ {d} : r.docs[e] = b.docs[e]
<1> DEFINE y == [b.docs EXCEPT ![d] = x]
<1>1. InPlace(b, d, x) = [docs |-> y, store |-> b.store, calls |-> b.calls]
  BY DEF InPlace, Browsers
<1>2. y \in [Docs -> DocType] /\ y[d] = x /\ \A e \in Docs \ {d} : y[e] = b.docs[e]
  BY Fields
<1> HIDE DEF y
<1> QED
  BY <1>1, <1>2, Fields DEF Browsers

\* A new request, and a logout that waits.
LEMMA NewCall ==
  ASSUME NEW kind \in {"login", "page", "logout", "refresh"}, NEW d \in Docs,
         NEW g \in Toks
  PROVE  LET k == Call(kind, d, g)
         IN  /\ k \in CallType /\ k.kind = kind /\ k.doc = d /\ k.tok = g
             /\ k.at = "sent" /\ k.out = "ok" /\ k.moved = FALSE
BY Constants DEF Call, Idle, CallType, Toks, Outs

\* A logout that waits for request c.
LEMMA NewWaiting ==
  ASSUME NEW d \in Docs, NEW c \in Calls
  PROVE  LET k == [Call("logout", d, c) EXCEPT !.at = "waits"]
         IN  /\ k \in CallType /\ k.kind = "logout" /\ k.doc = d /\ k.tok = c
             /\ k.at = "waits" /\ k.out = "ok"
<1> DEFINE x == Call("logout", d, c)
<1>1. x \in CallType /\ x.kind = "logout" /\ x.doc = d /\ x.tok = c /\ x.out = "ok"
  BY Constants DEF Call, Idle, CallType, Toks, Outs
<1> HIDE DEF x
<1>2. LET k == [x EXCEPT !.at = "waits"]
      IN  /\ k \in CallType /\ k.kind = "logout" /\ k.doc = d /\ k.tok = c
          /\ k.at = "waits" /\ k.out = "ok"
  BY <1>1 DEF CallType
<1> QED
  BY <1>2 DEF x

(* A logout that is sent once more.                                        *)
LastLogout(d, g) == [Call("logout", d, g) EXCEPT !.last = TRUE]

\* Its fields.
LEMMA NewLast ==
  ASSUME NEW d \in Docs, NEW g \in Nat
  PROVE  LET k == LastLogout(d, g)
         IN  /\ k \in CallType /\ k.kind = "logout" /\ k.doc = d /\ k.tok = g
             /\ k.at = "sent" /\ k.out = "ok"
<1> DEFINE x == Call("logout", d, g)
<1>1. x \in CallType /\ x.kind = "logout" /\ x.doc = d /\ x.tok = g /\ x.at = "sent" /\ x.out = "ok"
  BY Constants DEF Call, Idle, CallType, Toks, Outs
<1> HIDE DEF x
<1>2. LET k == [x EXCEPT !.last = TRUE]
      IN  /\ k \in CallType /\ k.kind = "logout" /\ k.doc = d /\ k.tok = g
          /\ k.at = "sent" /\ k.out = "ok"
  BY <1>1 DEF CallType
<1> QED
  BY <1>2 DEF x, LastLogout

(* A request whose document is one of S, when those are gone.              *)
Orphan(k, S) ==
  IF k.doc \notin S THEN k
  ELSE IF k.at \in {"waits", "answered"} \/ k.kind \in {"page", "login"} THEN Idle
  ELSE [k EXCEPT !.doc = "none"]

\* Orphaned changes the requests of the documents of S alone.
LEMMA Orphans ==
  ASSUME NEW b \in Browsers, NEW S
  PROVE  LET r == Orphaned(b, S)
         IN  /\ r \in Browsers /\ r.docs = b.docs /\ r.store = b.store
             /\ \A c \in Calls : r.calls[c] = Orphan(b.calls[c], S)
<1> DEFINE x == [c \in Calls |-> Orphan(b.calls[c], S)]
<1>1. Orphaned(b, S) = [b EXCEPT !.calls = x]
  BY DEF Orphaned, Orphan
<1>2. ASSUME NEW c \in Calls PROVE x[c] \in CallType /\ x[c] = Orphan(b.calls[c], S)
  <2>1. b.calls[c] \in CallType
    BY Fields
  <2> QED
    BY <2>1, Constants DEF Orphan, CallType
<1>3. x \in [Calls -> CallType]
  BY <1>2
<1> HIDE DEF x
<1>4. Orphaned(b, S) = [docs |-> b.docs, store |-> b.store, calls |-> x]
  BY <1>1 DEF Browsers
<1> QED
  BY <1>2, <1>3, <1>4, Fields DEF Browsers

(* A request when flight c has ended: a logout that waited is over, or     *)
(* sent again by a document of D.                                          *)
Over(k, c)     == IF k.at # "waits" \/ k.tok # c THEN k ELSE Idle
Again(k, c, D) == IF k.at # "waits" \/ k.tok # c THEN k
                  ELSE LastLogout(k.doc, D[k.doc].mem.acc)

\* Those that waited are sent again.
LEMMA Resumes ==
  ASSUME NEW b \in Browsers, NEW c \in Calls,
         \A e \in Calls : b.calls[e].at = "waits" => b.calls[e].doc \in Docs
  PROVE  LET r == Resumed(b, c, TRUE)
         IN  /\ r \in Browsers /\ r.docs = b.docs /\ r.store = b.store
             /\ \A e \in Calls : r.calls[e] = Again(b.calls[e], c, b.docs)
<1> DEFINE x == [e \in Calls |-> Again(b.calls[e], c, b.docs)]
           r == Resumed(b, c, TRUE)
<1>1. r = [b EXCEPT !.calls = x]
  BY DEF Resumed, Again, LastLogout
<1> HIDE DEF r
<1>2. ASSUME NEW e \in Calls PROVE x[e] \in CallType /\ x[e] = Again(b.calls[e], c, b.docs)
  <2>1. b.calls[e] \in CallType
    BY Fields
  <2>2. ASSUME b.calls[e].doc \in Docs
        PROVE  LastLogout(b.calls[e].doc, b.docs[b.calls[e].doc].mem.acc) \in CallType
    <3>1. b.docs[b.calls[e].doc].mem.acc \in Nat
      BY <2>2, Fields DEF LoginType
    <3> QED
      BY <2>2, <3>1, NewLast
  <2> QED
    BY <2>1, <2>2 DEF Again
<1>3. x \in [Calls -> CallType]
  BY <1>2
<1>5. \A e \in Calls : x[e] = Again(b.calls[e], c, b.docs)
  OBVIOUS
<1> HIDE DEF x
<1>4. r = [docs |-> b.docs, store |-> b.store, calls |-> x]
  BY <1>1 DEF Browsers
<1>6. r \in Browsers /\ r.docs = b.docs /\ r.store = b.store /\ r.calls = x
  BY <1>3, <1>4, Fields DEF Browsers
<1> QED
  BY <1>5, <1>6 DEF r

\* Or are over.
LEMMA Ends ==
  ASSUME NEW b \in Browsers, NEW c \in Calls
  PROVE  LET r == Resumed(b, c, FALSE)
         IN  /\ r \in Browsers /\ r.docs = b.docs /\ r.store = b.store
             /\ \A e \in Calls : r.calls[e] = Over(b.calls[e], c)
<1> DEFINE x == [e \in Calls |-> Over(b.calls[e], c)]
           r == Resumed(b, c, FALSE)
<1>1. r = [b EXCEPT !.calls = x]
  BY DEF Resumed, Over
<1> HIDE DEF r
<1>2. ASSUME NEW e \in Calls PROVE x[e] \in CallType
  <2>1. b.calls[e] \in CallType
    BY Fields
  <2> QED
    BY <2>1, Constants DEF Over
<1>3. x \in [Calls -> CallType]
  BY <1>2
<1>5. \A e \in Calls : x[e] = Over(b.calls[e], c)
  OBVIOUS
<1> HIDE DEF x
<1>4. r = [docs |-> b.docs, store |-> b.store, calls |-> x]
  BY <1>1 DEF Browsers
<1>6. r \in Browsers /\ r.docs = b.docs /\ r.store = b.store /\ r.calls = x
  BY <1>3, <1>4, Fields DEF Browsers
<1> QED
  BY <1>5, <1>6 DEF r

-----------------------------------------------------------------------------
(* The kinds of steps.  What a request may become when it wins nothing.    *)
Quiet(c) ==
  LET k == calls[c]
      n == calls'[c]
  IN  /\ n.kind \in {"login", "refresh"} =>
           /\ n.kind = k.kind /\ n.tok = k.tok /\ n.doc \in {k.doc, "none"}
           /\ (k.moved => n.moved) /\ (Out(n) => Out(k)) /\ (Won(n) => Won(k))
      /\ n.out = "reused" => \/ k.out = "reused" /\ n.tok = k.tok
                             \/ n.tok \in Grants /\ grants[n.tok].shown > 1

(* A refresh that is still out for its document.                           *)
StillOut(c) ==
  calls[c].kind = "refresh" /\ calls[c].doc \in Docs /\ ~ calls[c].moved =>
    calls'[c].kind = "refresh" /\ calls'[c].doc = calls[c].doc /\ ~ calls'[c].moved

(* The rows stay in their chains, as often shown as they were.             *)
SameRow(g) == /\ grants'[g].chain = grants[g].chain /\ grants'[g].from = grants[g].from
              /\ grants'[g].shown = grants[g].shown /\ grants'[g].cut = grants[g].cut
SameRows == Grants' = Grants /\ \A g \in Grants : SameRow(g)

SameDocs(S) == \A e \in Docs \ S : docs'[e] = docs[e]
SameTabs(S) == \A t \in Tabs \ S : store'[t] = store[t]

(* No document changes, and no request wins.                               *)
Calm ==
  /\ SameDocs({}) /\ SameTabs({}) /\ SameRows
  /\ \A c \in Calls : Quiet(c) /\ StillOut(c)

(* Document d is cleared; s, if it is a request, is its new login.         *)
Leaves(d, s) ==
  /\ d \in Docs /\ Shown(d) /\ SameDocs({d}) /\ SameTabs({TabOf(d)}) /\ SameRows
  /\ docs'[d].at = docs[d].at /\ docs'[d].mem = NoLogin /\ docs'[d].flight = 0
  /\ docs'[d].forgot = docs[d].forgot \cup Known(Browser, d)
  /\ store'[TabOf(d)] = NoLogin
  /\ \A c \in Calls \ {s} : /\ Quiet(c) /\ (calls[c].doc # d => StillOut(c))
                            /\ calls'[c].kind = "refresh" /\ calls'[c].doc = d => calls'[c].moved
  /\ s \in Calls => calls[s].kind = "idle" /\ calls'[s] = Call("login", d, 0)

(* Document d is signed in by the answer of request s.                     *)
Signs(d, s) ==
  /\ d \in Docs /\ s \in Calls /\ SameDocs({d}) /\ SameTabs({TabOf(d)}) /\ SameRows
  /\ Won(calls[s]) /\ calls[s].doc = d /\ Shown(d)
  /\ calls[s].kind = "refresh" => ~ calls[s].moved
  /\ docs'[d].at = docs[d].at /\ docs'[d].mem = Login(calls[s].tok)
  /\ docs'[d].flight = IF calls[s].kind = "login" THEN docs[d].flight ELSE 0
  /\ docs'[d].forgot = docs[d].forgot
  /\ store'[TabOf(d)] = Stripped(Login(calls[s].tok))
  /\ calls'[s] = Idle
  /\ \A c \in Calls \ {s} : Quiet(c) /\ StillOut(c)

(* Document d presents its refresh token, in request s.                    *)
Flown(d, s) ==
  LET g == docs[d].mem.ref
  IN  /\ d \in Docs /\ s \in Calls /\ SameDocs({d}) /\ SameTabs({})
      /\ g # 0 /\ docs[d].flight = 0
      /\ docs'[d].at = docs[d].at /\ docs'[d].mem = docs[d].mem /\ docs'[d].flight = s
      /\ docs'[d].forgot = docs[d].forgot
      /\ calls[s].kind \notin {"login", "refresh"} /\ calls'[s] = Call("refresh", d, g)
      /\ \A c \in Calls \ {s} : Quiet(c) /\ StillOut(c)
      /\ Grants' = Grants /\ \A h \in Grants \ {g} : SameRow(h)
      /\ grants'[g].chain = grants[g].chain /\ grants'[g].from = grants[g].from
      /\ grants'[g].cut = grants[g].cut
      /\ grants'[g].shown = IF grants[g].shown < 2 THEN grants[g].shown + 1 ELSE grants[g].shown

(* The server mints grant n, the answer of request s.                      *)
Mints(s, n) ==
  /\ s \in Calls /\ SameDocs({}) /\ SameTabs({})
  /\ n \notin Grants /\ n # 0 /\ Grants' = Grants \cup {n} /\ \A g \in Grants : SameRow(g)
  /\ grants'[n].shown = 0 /\ ~ grants'[n].cut
  /\ \A c \in Calls \ {s} : calls'[c] = calls[c]
  /\ \/ calls[s].doc = "none" /\ calls'[s] = Idle
     \/ /\ calls'[s].kind = calls[s].kind /\ calls'[s].doc = calls[s].doc
        /\ calls'[s].moved = calls[s].moved /\ calls'[s].tok = n
        /\ calls'[s].at = "answered" /\ calls'[s].out = "ok"

(* The start of a chain, or the successor of the token presented.          *)
MintsLogin(s, n) ==
  /\ Mints(s, n) /\ calls[s].kind = "login" /\ calls[s].at = "sent"
  /\ grants'[n].chain = n /\ grants'[n].from = 0

MintsRefresh(s, n) ==
  /\ Mints(s, n) /\ Out(calls[s])
  /\ grants'[n].chain = ChainOf(calls[s].tok) /\ grants'[n].from = calls[s].tok
  /\ ~ HasSuccessor(calls[s].tok)

(* The requests of the documents of S are nobody's any more.               *)
Orphaning(S) == \A c \in Calls : /\ Quiet(c) /\ calls'[c].doc \in {calls[c].doc, "none"} \ S
                                 /\ calls[c].doc \notin S => calls'[c] = calls[c]

(* Document d starts, with login l.                                        *)
Starts(d, l) ==
  docs'[d].at = "shown" /\ docs'[d].mem = l /\ docs'[d].flight = 0 /\ docs'[d].forgot = {}

Reloaded(d) ==
  /\ d \in Docs /\ Shown(d) /\ SameDocs({d}) /\ SameTabs({})
  /\ Starts(d, docs[d].mem) /\ Orphaning({d})
  /\ Grants' = Grants
  /\ \A g \in Grants :
       /\ grants'[g].chain = grants[g].chain /\ grants'[g].from = grants[g].from
       /\ grants'[g].shown = grants[g].shown
       /\ \/ grants'[g].cut <=> grants[g].cut
          \/ grants'[g].cut /\ docs[d].mem.ref = g
       /\ docs[d].mem.ref = g /\ docs[d].flight # 0 => grants'[g].cut

(* Document e takes the place of d, which is cached or gone.               *)
Moved(d, e) ==
  /\ <<d, e>> \in {<<"first", "second">>, <<"second", "first">>} /\ Shown(d)
  /\ SameDocs({d, e}) /\ SameTabs({}) /\ SameRows
  /\ Starts(e, Stripped(docs[d].mem))
  /\ \/ docs'[d].at = "cached" /\ docs'[d].mem = docs[d].mem /\ Orphaning({e})
        /\ docs'[d].flight = docs[d].flight /\ docs'[d].forgot = docs[d].forgot
     \/ docs'[d] = NoDoc /\ Orphaning({d, e})

(* Document d is shown again, in the place of e.                           *)
Restored(d, e) ==
  /\ <<d, e>> \in {<<"first", "second">>, <<"second", "first">>}
  /\ docs[d].at = "cached" /\ Shown(e)
  /\ SameDocs({d, e}) /\ SameTabs({"tab"}) /\ SameRows
  /\ docs'[d].at = "shown" /\ docs'[d].mem = docs[d].mem /\ docs'[d].flight = docs[d].flight
  /\ docs'[d].forgot = docs[d].forgot
  /\ docs'[e].at = "cached" /\ docs'[e].mem = docs[e].mem /\ docs'[e].flight = docs[e].flight
  /\ docs'[e].forgot = docs[e].forgot
  /\ store'["tab"] = Stripped(docs[d].mem)
  /\ \A c \in Calls : calls'[c] = calls[c]

(* The tab of document d is duplicated.                                    *)
Copied(d) ==
  /\ d \in {"first", "second"} /\ Shown(d) /\ docs["copy"].at = "none"
  /\ SameDocs({"copy"}) /\ SameTabs({"duplicate"}) /\ SameRows
  /\ Starts("copy", Stripped(docs[d].mem))
  /\ store'["duplicate"] = Stripped(docs[d].mem)
  /\ \A c \in Calls : calls'[c] = calls[c]

Kinds ==
  \/ Calm
  \/ \E d \in Docs : \/ \E s \in Calls \cup {0} : Leaves(d, s)
                     \/ \E s \in Calls : Signs(d, s) \/ Flown(d, s)
                     \/ Reloaded(d) \/ Copied(d)
                     \/ \E e \in Docs : Moved(d, e) \/ Restored(d, e)
  \/ \E s \in Calls, n \in Nat : MintsLogin(s, n) \/ MintsRefresh(s, n)

-----------------------------------------------------------------------------
(* Each kind of step keeps the invariant.                                  *)

(* What the invariant says of a state, with the types spelt out.           *)
Facts ==
  /\ 0 \notin Grants /\ 0 \notin Calls
  /\ \A g \in Grants : grants[g].shown \in Nat /\ grants[g].chain \in Nat
  /\ "none" \notin Docs /\ \A d \in Docs : docs[d].mem \in LoginType /\ docs[d].flight \in Calls \cup {0}
  /\ \A t \in Tabs : store[t] \in LoginType
  /\ \A c \in Calls : calls[c] \in CallType

\* The types spelt out.
LEMMA Spelt == Types => Facts
<1> SUFFICES ASSUME Types PROVE Facts
  OBVIOUS
<1>1. grants \in Seq(RowType) /\ Browser \in Browsers
  BY DEF Types
<1>2. Grants = 1 .. Len(grants) /\ \A g \in Grants : grants[g] \in RowType
  BY <1>1, ElementOfSeq, LenProperties DEF Grants
<1>3. docs \in [Docs -> DocType] /\ store \in [Tabs -> LoginType] /\ calls \in [Calls -> CallType]
  BY <1>1, Fields DEF Browser
<1>4. \A g \in Grants : grants[g].shown \in Nat /\ grants[g].chain \in Nat
  BY <1>2 DEF RowType
<1>5. \A d \in Docs : docs[d].mem \in LoginType /\ docs[d].flight \in Calls \cup {0}
  BY <1>3 DEF DocType
<1>6. "none" \notin Docs
  BY DEF Docs
<1> QED
  BY <1>2, <1>3, <1>4, <1>5, <1>6, ReviewAssumption DEF Facts, ReviewAssumption

\* A calm step.
LEMMA CalmKeeps ==
  ASSUME IInv, Types', CallShape', Calm
  PROVE  IInv'
<1>1. /\ \A e \in Docs : docs'[e] = docs[e]
      /\ \A t \in Tabs : store'[t] = store[t]
      /\ Grants' = Grants /\ \A g \in Grants : SameRow(g)
      /\ \A c \in Calls : Quiet(c) /\ StillOut(c)
  BY DEF Calm, SameDocs, SameTabs, SameRows
<1>2. Facts
  BY Spelt DEF IInv
<1>n. Named'
  BY <1>1 DEF IInv, Named, SameRow
<1>p. Pages'
  BY <1>1, Constants DEF IInv, Pages, Shown, Docs
<1>f. Flights'
  <2>1. \A d \in Docs : docs'[d].flight # 0 =>
          LET k == calls'[docs'[d].flight] IN k.kind = "refresh" /\ k.doc = d /\ ~ k.moved
    BY <1>1, <1>2 DEF IInv, Flights, StillOut, Facts
  <2>3. ASSUME NEW c \in Calls, calls'[c].kind = "refresh", calls'[c].doc \in Docs, ~ calls'[c].moved
        PROVE  LET d == calls'[c].doc
               IN  docs'[d].flight = c /\ grants'[calls'[c].tok].chain \notin docs'[d].forgot
    <3> DEFINE d == calls[c].doc
               g == calls[c].tok
    <3>1. /\ calls'[c].doc = d /\ calls'[c].tok = g /\ g \in Grants /\ d \in Docs
          /\ docs[d].flight = c /\ grants[g].chain \notin docs[d].forgot
      BY <1>1, <1>2, <2>3 DEF IInv, Flights, Quiet, Facts, CallShape, Shape, ChainOf
    <3> QED
      BY <1>1, <3>1 DEF SameRow
  <2> QED
    BY <2>1, <2>3 DEF Flights, ChainOf
<1>u. Unique'
  BY <1>1, <1>2 DEF IInv, Unique, Quiet, SameRow, CallShape, Shape, Won
<1>c. NewChain'
  BY <1>1, <1>2 DEF IInv, NewChain, NewTo, Quiet, SameRow, ChainOf, CallShape, Shape, Won, Named, Holds
<1>s. Shows'
  BY <1>1, <1>2 DEF IInv, Shows, OnceOr, Seen, Counted, HasSuccessor, Quiet, SameRow, CallShape, Shape, Out, Facts, Named, Holds
<1>r. Forgotten'
  BY <1>1, <1>2 DEF IInv, Forgotten, SameRow, ChainOf, Named, Holds
<1> QED
  BY <1>n, <1>p, <1>f, <1>u, <1>c, <1>s, <1>r DEF IInv

\* A document is cleared.
LEMMA LeavesKeeps ==
  ASSUME IInv, Types', CallShape', NEW d \in Docs, NEW s \in Calls \cup {0}, Leaves(d, s)
  PROVE  IInv'
<1>1. /\ \A e \in Docs \ {d} : docs'[e] = docs[e]
      /\ \A t \in Tabs \ {TabOf(d)} : store'[t] = store[t]
      /\ Grants' = Grants /\ \A g \in Grants : SameRow(g)
  BY DEF Leaves, SameDocs, SameTabs, SameRows
<1>2. Facts
  BY Spelt DEF IInv
<1>3. /\ docs'[d].at = docs[d].at /\ Shown(d) /\ docs'[d].mem = NoLogin /\ docs'[d].flight = 0
      /\ docs'[d].mem.acc = 0 /\ docs'[d].mem.ref = 0
      /\ docs'[d].forgot = docs[d].forgot \cup Known(Browser, d)
      /\ store'[TabOf(d)] = NoLogin /\ store'[TabOf(d)].acc = 0 /\ store'[TabOf(d)].ref = 0
  BY Constants DEF Leaves
<1>4. \A c \in Calls \ {s} : /\ Quiet(c) /\ (calls[c].doc # d => StillOut(c))
                             /\ calls'[c].kind = "refresh" /\ calls'[c].doc = d => calls'[c].moved
  BY DEF Leaves
<1>5. s \in Calls => /\ calls[s].kind = "idle" /\ calls'[s].kind = "login" /\ calls'[s].doc = d
                     /\ calls'[s].at = "sent" /\ calls'[s].out = "ok"
  <2>1. LET k == Call("login", d, 0) IN k.kind = "login" /\ k.doc = d /\ k.at = "sent" /\ k.out = "ok"
    BY DEF Call, Idle
  <2> QED
    BY <2>1 DEF Leaves
<1>6. Known(Browser, d) = IF docs[d].mem.acc = 0 THEN {} ELSE {grants[docs[d].mem.acc].chain}
  BY DEF Known, Browser, ChainOf
<1>7. \A c \in Calls : calls'[c].kind = "refresh" =>
        /\ c # s /\ calls[c].kind = "refresh" /\ calls[c].tok = calls'[c].tok /\ calls[c].tok \in Grants
        /\ calls'[c].doc \in {calls[c].doc, "none"} /\ (calls[c].moved => calls'[c].moved)
        /\ (calls'[c].doc = d => calls'[c].moved) /\ (Out(calls'[c]) => Out(calls[c]))
  <2> SUFFICES ASSUME NEW c \in Calls, calls'[c].kind = "refresh"
               PROVE  /\ c # s /\ calls[c].kind = "refresh" /\ calls[c].tok = calls'[c].tok
                      /\ calls[c].tok \in Grants
                      /\ calls'[c].doc \in {calls[c].doc, "none"} /\ (calls[c].moved => calls'[c].moved)
                      /\ (calls'[c].doc = d => calls'[c].moved) /\ (Out(calls'[c]) => Out(calls[c]))
    OBVIOUS
  <2>1. c \in Calls \ {s}
    BY <1>5
  <2> QED
    BY <1>4, <2>1 DEF Quiet, IInv, CallShape, Shape
<1>8. \A c \in Calls : Won(calls'[c]) =>
        /\ c # s /\ Won(calls[c]) /\ calls[c].tok = calls'[c].tok /\ calls[c].tok \in Grants
        /\ calls[c].kind = calls'[c].kind
  <2> SUFFICES ASSUME NEW c \in Calls, Won(calls'[c])
               PROVE  /\ c # s /\ Won(calls[c]) /\ calls[c].tok = calls'[c].tok
                      /\ calls[c].tok \in Grants /\ calls[c].kind = calls'[c].kind
    OBVIOUS
  <2>1. c \in Calls \ {s} /\ calls'[c].kind \in {"login", "refresh"}
    BY <1>5 DEF Won
  <2>2. Quiet(c)
    BY <1>4, <2>1
  <2>3. Won(calls[c]) /\ calls[c].tok = calls'[c].tok /\ calls[c].kind = calls'[c].kind
    BY <2>1, <2>2 DEF Quiet
  <2> QED
    BY <2>1, <2>3 DEF IInv, CallShape, Shape
<1>9. \A c \in Calls : calls'[c].kind = "login" =>
        /\ calls'[c].doc \in Docs
        /\ c # s => calls[c].kind = "login" /\ calls[c].doc = calls'[c].doc
  <2> SUFFICES ASSUME NEW c \in Calls, calls'[c].kind = "login"
               PROVE  /\ calls'[c].doc \in Docs
                      /\ c # s => calls[c].kind = "login" /\ calls[c].doc = calls'[c].doc
    OBVIOUS
  <2>1. calls'[c].doc \in Docs
    BY DEF CallShape, Shape
  <2>2. c # s => Quiet(c)
    BY <1>4
  <2> QED
    BY <1>2, <2>1, <2>2 DEF Quiet, Facts
<1>n. Named'
  <2>1. docs[d].mem.acc # 0 => grants[docs[d].mem.acc].chain \in Grants
    BY DEF IInv, Named, Holds
  <2> QED
    BY <1>1, <1>3, <1>6, <2>1 DEF IInv, Named, SameRow, Holds
<1>p. Pages'
  <2>1. \A e \in Docs \ {d} : docs[e].at = "shown" => TabOf(e) # TabOf(d)
    BY <1>3, Siblings DEF IInv, Pages, Shown, Docs
  <2>2. Stripped(NoLogin) = NoLogin
    BY Strips, Constants
  <2> QED
    BY <1>1, <1>3, <2>1, <2>2, Constants DEF IInv, Pages, Shown, Docs
<1>f. Flights'
  <2>1. ASSUME NEW e \in Docs, docs'[e].flight # 0
        PROVE  LET k == calls'[docs'[e].flight] IN k.kind = "refresh" /\ k.doc = e /\ ~ k.moved
    <3> DEFINE c == docs[e].flight
    <3>1. e # d /\ docs'[e].flight = c /\ c # 0
      BY <1>1, <1>3, <2>1
    <3>2. c \in Calls /\ calls[c].kind = "refresh" /\ calls[c].doc = e /\ ~ calls[c].moved
      BY <1>2, <3>1 DEF IInv, Flights, Facts
    <3>3. StillOut(c)
      BY <1>4, <1>5, <3>1, <3>2
    <3> QED
      BY <3>1, <3>2, <3>3 DEF StillOut
  <2>3. ASSUME NEW c \in Calls, calls'[c].kind = "refresh", calls'[c].doc \in Docs, ~ calls'[c].moved
        PROVE  LET e == calls'[c].doc
               IN  docs'[e].flight = c /\ grants'[calls'[c].tok].chain \notin docs'[e].forgot
    <3> DEFINE e == calls[c].doc
               g == calls[c].tok
    <3>1. /\ calls'[c].doc = e /\ calls'[c].tok = g /\ g \in Grants /\ e \in Docs \ {d}
          /\ calls[c].kind = "refresh" /\ ~ calls[c].moved
      BY <1>2, <1>7, <2>3 DEF Facts
    <3>2. docs[e].flight = c /\ grants[g].chain \notin docs[e].forgot
      BY <3>1 DEF IInv, Flights, ChainOf
    <3> QED
      BY <1>1, <3>1, <3>2 DEF SameRow
  <2> QED
    BY <2>1, <2>3 DEF Flights, ChainOf
<1>u. Unique'
  <2>1. \A e, f \in Docs : docs'[e].mem.ref # 0 /\ docs'[e].mem.ref = docs'[f].mem.ref => e = f
    BY <1>1, <1>3 DEF IInv, Unique
  <2>2. ASSUME NEW c \in Calls, Won(calls'[c])
        PROVE  /\ grants'[calls'[c].tok].shown = 0
               /\ \A e \in Docs : docs'[e].mem.ref # calls'[c].tok
    <3>1. /\ Won(calls[c]) /\ calls[c].tok = calls'[c].tok /\ calls[c].tok \in Grants
      BY <1>8, <2>2
    <3>2. calls[c].tok # 0
      BY <1>2, <3>1 DEF Facts
    <3> QED
      BY <1>1, <1>3, <3>1, <3>2 DEF IInv, Unique, SameRow
  <2>3. \A b, c \in Calls : Won(calls'[b]) /\ Won(calls'[c]) /\ calls'[b].tok = calls'[c].tok => b = c
    BY <1>8 DEF IInv, Unique
  <2> QED
    BY <2>1, <2>2, <2>3 DEF Unique
<1>c. NewChain'
  <2> SUFFICES ASSUME NEW c \in Calls, calls'[c].kind = "login", Won(calls'[c])
               PROVE  NewTo(ChainOf(calls[c].tok), c)'
    BY DEF NewChain
  <2> DEFINE n == grants[calls[c].tok].chain
  <2>1. n = grants'[calls'[c].tok].chain /\ NewTo(n, c)
    BY <1>1, <1>8 DEF IInv, NewChain, SameRow, ChainOf
  <2> HIDE DEF n
  <2>2. \A e \in Docs : n \notin docs'[e].forgot /\ (docs'[e].mem.acc # 0 => grants'[docs'[e].mem.acc].chain # n)
    BY <1>1, <1>3, <1>6, <2>1 DEF NewTo, SameRow, ChainOf, IInv, Named, Holds
  <2>3. \A t \in Tabs : store'[t].acc # 0 => grants'[store'[t].acc].chain # n
    BY <1>1, <1>3, <2>1 DEF NewTo, SameRow, ChainOf, IInv, Named, Holds
  <2>4. \A b \in Calls \ {c} : calls'[b].kind = "refresh" \/ Won(calls'[b]) => grants'[calls'[b].tok].chain # n
    BY <1>1, <1>7, <1>8, <2>1 DEF NewTo, SameRow, ChainOf
  <2> QED
    BY <2>1, <2>2, <2>3, <2>4 DEF NewTo, ChainOf
<1>s. Shows'
  <2>1. \A g \in Grants : OnceOr(g)'
    BY <1>1 DEF IInv, Shows, OnceOr, SameRow, HasSuccessor
  <2>2. \A e \in Docs : Seen(e)'
    BY <1>1, <1>2, <1>3 DEF IInv, Shows, Seen, SameRow, Named, Holds
  <2>3. \A c \in Calls : Out(calls'[c]) => Counted(c)'
    BY <1>1, <1>7 DEF IInv, Shows, Counted, SameRow, HasSuccessor, Out
  <2>4. \A c \in Calls : calls'[c].out = "reused" => grants'[calls'[c].tok].cut
    BY <1>1, <1>4, <1>5 DEF IInv, Shows, OnceOr, Quiet, SameRow, CallShape, Shape
  <2> QED
    BY <1>1, <2>1, <2>2, <2>3, <2>4 DEF Shows
<1>r. Forgotten'
  BY <1>1, <1>2, <1>3 DEF IInv, Forgotten, SameRow, ChainOf, Named, Holds
<1> QED
  BY <1>n, <1>p, <1>f, <1>u, <1>c, <1>s, <1>r DEF IInv

\* A document is signed in.
LEMMA SignsKeeps ==
  ASSUME IInv, Types', CallShape', NEW d \in Docs, NEW s \in Calls, Signs(d, s)
  PROVE  IInv'
<1> DEFINE g == calls[s].tok
<1>1. /\ \A e \in Docs \ {d} : docs'[e] = docs[e]
      /\ \A t \in Tabs \ {TabOf(d)} : store'[t] = store[t]
      /\ Grants' = Grants /\ \A h \in Grants : SameRow(h)
  BY DEF Signs, SameDocs, SameTabs, SameRows
<1>2. Facts
  BY Spelt DEF IInv
<1>a. g \in Grants /\ g \in Nat /\ g # 0 /\ Won(calls[s]) /\ calls[s].doc = d
      /\ (calls[s].kind = "refresh" => ~ calls[s].moved) /\ Shown(d)
  <2>1. g \in Grants /\ Won(calls[s]) /\ calls[s].doc = d
        /\ (calls[s].kind = "refresh" => ~ calls[s].moved) /\ Shown(d)
    BY DEF Signs, IInv, CallShape, Shape
  <2>2. Grants = 1 .. Len(grants) /\ Len(grants) \in Nat
    BY LenProperties DEF IInv, Types, Grants
  <2> QED
    BY <2>1, <2>2
<1>3. /\ docs'[d].at = docs[d].at /\ docs'[d].mem = Login(g)
      /\ docs'[d].flight = IF calls[s].kind = "login" THEN docs[d].flight ELSE 0
      /\ docs'[d].mem.acc = g /\ docs'[d].mem.ref = g
      /\ docs'[d].forgot = docs[d].forgot
      /\ store'[TabOf(d)] = Stripped(Login(g)) /\ store'[TabOf(d)].acc = g /\ store'[TabOf(d)].ref = 0
  <2>1. /\ docs'[d].at = docs[d].at /\ docs'[d].mem = Login(g)
        /\ docs'[d].flight = IF calls[s].kind = "login" THEN docs[d].flight ELSE 0
        /\ docs'[d].forgot = docs[d].forgot /\ store'[TabOf(d)] = Stripped(Login(g))
    BY DEF Signs
  <2>2. Login(g) \in LoginType /\ Login(g).acc = g /\ Login(g).ref = g
    BY <1>a, Logins
  <2>3. Stripped(Login(g)).acc = g /\ Stripped(Login(g)).ref = 0
    BY <2>2, Strips
  <2> QED
    BY <2>1, <2>2, <2>3
<1>4. calls'[s] = Idle /\ \A c \in Calls \ {s} : Quiet(c) /\ StillOut(c)
  BY DEF Signs
<1>5. calls'[s].kind = "idle" /\ calls'[s].out = "ok"
  BY <1>4 DEF Idle
<1>b. \/ calls[s].kind = "login"
      \/ /\ calls[s].kind = "refresh" /\ docs[d].flight = s
         /\ grants[g].chain \notin docs[d].forgot
  BY <1>a DEF Won, IInv, Flights, ChainOf
<1>7. \A c \in Calls : calls'[c].kind = "refresh" =>
        /\ c # s /\ calls[c].kind = "refresh" /\ calls[c].tok = calls'[c].tok /\ calls[c].tok \in Grants
        /\ calls'[c].doc \in {calls[c].doc, "none"} /\ (calls[c].moved => calls'[c].moved)
        /\ (calls'[c].doc = d => calls'[c].moved \/ calls[s].kind = "login") /\ (Out(calls'[c]) => Out(calls[c]))
  <2> SUFFICES ASSUME NEW c \in Calls, calls'[c].kind = "refresh"
               PROVE  /\ c # s /\ calls[c].kind = "refresh" /\ calls[c].tok = calls'[c].tok
                      /\ calls[c].tok \in Grants
                      /\ calls'[c].doc \in {calls[c].doc, "none"} /\ (calls[c].moved => calls'[c].moved)
                      /\ (calls'[c].doc = d => calls'[c].moved \/ calls[s].kind = "login") /\ (Out(calls'[c]) => Out(calls[c]))
    OBVIOUS
  <2>1. c \in Calls \ {s}
    BY <1>5
  <2>2. /\ calls[c].kind = "refresh" /\ calls[c].tok = calls'[c].tok
        /\ calls[c].tok \in Grants
        /\ calls'[c].doc \in {calls[c].doc, "none"} /\ (calls[c].moved => calls'[c].moved)
        /\ (Out(calls'[c]) => Out(calls[c]))
    BY <1>4, <2>1 DEF Quiet, IInv, CallShape, Shape
  <2>3. ASSUME calls'[c].doc = d, ~ calls'[c].moved, calls[s].kind # "login" PROVE FALSE
    <3>1. calls[c].doc = d /\ ~ calls[c].moved
      BY <1>2, <2>2, <2>3 DEF Facts
    <3>2. docs[d].flight = c
      BY <2>2, <3>1 DEF IInv, Flights
    <3> QED
      BY <1>2, <1>b, <2>1, <2>3, <3>2 DEF Facts
  <2> QED
    BY <2>1, <2>2, <2>3
<1>8. \A c \in Calls : Won(calls'[c]) =>
        /\ c # s /\ Won(calls[c]) /\ calls[c].tok = calls'[c].tok /\ calls[c].tok \in Grants
        /\ calls[c].kind = calls'[c].kind
  <2> SUFFICES ASSUME NEW c \in Calls, Won(calls'[c])
               PROVE  /\ c # s /\ Won(calls[c]) /\ calls[c].tok = calls'[c].tok
                      /\ calls[c].tok \in Grants /\ calls[c].kind = calls'[c].kind
    OBVIOUS
  <2>1. c \in Calls \ {s} /\ calls'[c].kind \in {"login", "refresh"}
    BY <1>5 DEF Won
  <2>2. Quiet(c)
    BY <1>4, <2>1
  <2>3. Won(calls[c]) /\ calls[c].tok = calls'[c].tok /\ calls[c].kind = calls'[c].kind
    BY <2>1, <2>2 DEF Quiet
  <2> QED
    BY <2>1, <2>3 DEF IInv, CallShape, Shape
<1>n. Named'
  BY <1>1, <1>3, <1>a DEF IInv, Named, SameRow, Holds
<1>p. Pages'
  <2>1. \A e \in Docs \ {d} : docs[e].at = "shown" => TabOf(e) # TabOf(d)
    BY <1>a, Siblings DEF IInv, Pages, Shown, Docs
  <2> QED
    BY <1>1, <1>3, <1>a, <2>1, Constants DEF IInv, Pages, Shown, Docs
<1>f. Flights'
  <2>1. ASSUME NEW e \in Docs, docs'[e].flight # 0
        PROVE  LET k == calls'[docs'[e].flight] IN k.kind = "refresh" /\ k.doc = e /\ ~ k.moved
    <3> DEFINE c == docs[e].flight
    <3>1. docs'[e].flight = c /\ c # 0 /\ (e = d => calls[s].kind = "login")
      BY <1>1, <1>3, <2>1
    <3>2. c \in Calls /\ calls[c].kind = "refresh" /\ calls[c].doc = e /\ ~ calls[c].moved
      BY <1>2, <3>1 DEF IInv, Flights, Facts
    <3>3. StillOut(c)
      BY <1>4, <1>a, <3>1, <3>2
    <3> QED
      BY <3>1, <3>2, <3>3 DEF StillOut
  <2>3. ASSUME NEW c \in Calls, calls'[c].kind = "refresh", calls'[c].doc \in Docs, ~ calls'[c].moved
        PROVE  LET e == calls'[c].doc
               IN  docs'[e].flight = c /\ grants'[calls'[c].tok].chain \notin docs'[e].forgot
    <3> DEFINE e == calls[c].doc
               h == calls[c].tok
    <3>1. /\ calls'[c].doc = e /\ calls'[c].tok = h /\ h \in Grants /\ e \in Docs
          /\ calls[c].kind = "refresh" /\ ~ calls[c].moved
          /\ e = d => calls[s].kind = "login"
      BY <1>2, <1>7, <2>3 DEF Facts
    <3>2. docs[e].flight = c /\ grants[h].chain \notin docs[e].forgot
      BY <3>1 DEF IInv, Flights, ChainOf
    <3>3. docs'[e].flight = c /\ docs'[e].forgot = docs[e].forgot
      BY <1>1, <1>3, <3>1, <3>2
    <3> QED
      BY <1>1, <3>1, <3>2, <3>3 DEF SameRow
  <2> QED
    BY <2>1, <2>3 DEF Flights, ChainOf
<1>u. Unique'
  <2>0. /\ \A e \in Docs : docs[e].mem.ref # g
        /\ \A c \in Calls : Won(calls[c]) /\ calls[c].tok = g => c = s
    BY <1>a DEF IInv, Unique
  <2>1. \A e, f \in Docs : docs'[e].mem.ref # 0 /\ docs'[e].mem.ref = docs'[f].mem.ref => e = f
    BY <1>1, <1>3, <2>0 DEF IInv, Unique
  <2>2. ASSUME NEW c \in Calls, Won(calls'[c])
        PROVE  /\ grants'[calls'[c].tok].shown = 0
               /\ \A e \in Docs : docs'[e].mem.ref # calls'[c].tok
    <3>1. /\ Won(calls[c]) /\ calls[c].tok = calls'[c].tok /\ calls[c].tok \in Grants /\ c # s
      BY <1>8, <2>2
    <3> QED
      BY <1>1, <1>3, <2>0, <3>1 DEF IInv, Unique, SameRow
  <2>3. \A b, c \in Calls : Won(calls'[b]) /\ Won(calls'[c]) /\ calls'[b].tok = calls'[c].tok => b = c
    BY <1>8 DEF IInv, Unique
  <2> QED
    BY <2>1, <2>2, <2>3 DEF Unique
<1>c. NewChain'
  <2> SUFFICES ASSUME NEW c \in Calls, calls'[c].kind = "login", Won(calls'[c])
               PROVE  NewTo(ChainOf(calls[c].tok), c)'
    BY DEF NewChain
  <2> DEFINE n == grants[calls[c].tok].chain
  <2>1. n = grants'[calls'[c].tok].chain /\ NewTo(n, c) /\ c # s
    BY <1>1, <1>8 DEF IInv, NewChain, SameRow, ChainOf
  <2> HIDE DEF n
  <2>5. grants[g].chain # n
    BY <1>a, <2>1 DEF NewTo, ChainOf
  <2>2. \A e \in Docs : n \notin docs'[e].forgot /\ (docs'[e].mem.acc # 0 => grants'[docs'[e].mem.acc].chain # n)
    BY <1>1, <1>3, <1>a, <2>1, <2>5 DEF NewTo, SameRow, ChainOf, IInv, Named, Holds
  <2>3. \A t \in Tabs : store'[t].acc # 0 => grants'[store'[t].acc].chain # n
    BY <1>1, <1>3, <1>a, <2>1, <2>5 DEF NewTo, SameRow, ChainOf, IInv, Named, Holds
  <2>4. \A b \in Calls \ {c} : calls'[b].kind = "refresh" \/ Won(calls'[b]) => grants'[calls'[b].tok].chain # n
    BY <1>1, <1>7, <1>8, <2>1 DEF NewTo, SameRow, ChainOf
  <2> QED
    BY <2>1, <2>2, <2>3, <2>4 DEF NewTo, ChainOf
<1>s. Shows'
  <2>1. \A h \in Grants : OnceOr(h)'
    BY <1>1 DEF IInv, Shows, OnceOr, SameRow, HasSuccessor
  <2>2. \A e \in Docs : Seen(e)'
    <3>1. grants'[g].shown = 0
      BY <1>1, <1>a DEF IInv, Unique, SameRow
    <3> QED
      BY <1>1, <1>2, <1>3, <3>1 DEF IInv, Shows, Seen, SameRow, Named, Holds
  <2>3. \A c \in Calls : Out(calls'[c]) => Counted(c)'
    BY <1>1, <1>7 DEF IInv, Shows, Counted, SameRow, HasSuccessor, Out
  <2>4. \A c \in Calls : calls'[c].out = "reused" => grants'[calls'[c].tok].cut
    BY <1>1, <1>4, <1>5 DEF IInv, Shows, OnceOr, Quiet, SameRow, CallShape, Shape
  <2> QED
    BY <1>1, <2>1, <2>2, <2>3, <2>4 DEF Shows
<1>r. Forgotten'
  <2>1. grants[g].chain \notin docs[d].forgot
    <3>1. CASE calls[s].kind = "login"
      BY <1>a, <3>1 DEF IInv, NewChain, NewTo, ChainOf
    <3>2. CASE calls[s].kind = "refresh"
      BY <1>b, <3>2
    <3> QED
      BY <1>b, <3>1, <3>2
  <2> QED
    BY <1>1, <1>2, <1>3, <1>a, <2>1 DEF IInv, Forgotten, SameRow, ChainOf, Named, Holds
<1> QED
  BY <1>n, <1>p, <1>f, <1>u, <1>c, <1>s, <1>r DEF IInv

\* A refresh token is presented.
LEMMA FlownKeeps ==
  ASSUME IInv, Types', CallShape', NEW d \in Docs, NEW s \in Calls, Flown(d, s)
  PROVE  IInv'
<1>0. PICK g \in Grants : g = docs[d].mem.ref
  BY DEF Flown, IInv, Named, Holds
<1>1. /\ \A e \in Docs \ {d} : docs'[e] = docs[e]
      /\ \A t \in Tabs : store'[t] = store[t]
      /\ Grants' = Grants /\ \A h \in Grants \ {g} : SameRow(h)
  BY <1>0 DEF Flown, SameDocs, SameTabs
<1>2. Facts
  BY Spelt DEF IInv
<1>a. g \in Grants /\ g # 0 /\ docs[d].flight = 0 /\ docs[d].mem.acc = g
  BY <1>0 DEF Flown, IInv, Named, Holds
<1>3. /\ docs'[d].at = docs[d].at /\ docs'[d].mem = docs[d].mem /\ docs'[d].flight = s
      /\ docs'[d].forgot = docs[d].forgot
  BY DEF Flown
<1>b. /\ grants'[g].chain = grants[g].chain /\ grants'[g].from = grants[g].from
      /\ grants'[g].cut = grants[g].cut
      /\ grants'[g].shown = IF grants[g].shown < 2 THEN grants[g].shown + 1 ELSE grants[g].shown
  BY <1>0 DEF Flown
<1>4. \A c \in Calls \ {s} : Quiet(c) /\ StillOut(c)
  BY DEF Flown
<1>5. /\ calls[s].kind \notin {"login", "refresh"} /\ calls'[s].kind = "refresh" /\ calls'[s].doc = d
      /\ calls'[s].tok = g /\ calls'[s].at = "sent" /\ calls'[s].out = "ok" /\ ~ calls'[s].moved
  <2>1. LET k == Call("refresh", d, g)
        IN  /\ k.kind = "refresh" /\ k.doc = d /\ k.tok = g /\ k.at = "sent" /\ k.out = "ok" /\ ~ k.moved
    BY DEF Call, Idle
  <2> QED
    BY <1>0, <2>1 DEF Flown
<1>c. \A h \in Grants :
        /\ grants'[h].chain = grants[h].chain /\ grants'[h].from = grants[h].from
        /\ grants'[h].cut = grants[h].cut
        /\ grants'[h].shown \in {grants[h].shown, grants[h].shown + 1}
        /\ h # g => grants'[h].shown = grants[h].shown
  BY <1>1, <1>2, <1>b DEF SameRow, Facts
<1>7. \A c \in Calls \ {s} : calls'[c].kind = "refresh" =>
        /\ calls[c].kind = "refresh" /\ calls[c].tok = calls'[c].tok /\ calls[c].tok \in Grants
        /\ calls'[c].doc \in {calls[c].doc, "none"} /\ (calls[c].moved => calls'[c].moved)
        /\ (calls'[c].doc = d => calls'[c].moved) /\ (Out(calls'[c]) => Out(calls[c]))
  <2> SUFFICES ASSUME NEW c \in Calls \ {s}, calls'[c].kind = "refresh"
               PROVE  /\ calls[c].kind = "refresh" /\ calls[c].tok = calls'[c].tok
                      /\ calls[c].tok \in Grants
                      /\ calls'[c].doc \in {calls[c].doc, "none"} /\ (calls[c].moved => calls'[c].moved)
                      /\ (calls'[c].doc = d => calls'[c].moved) /\ (Out(calls'[c]) => Out(calls[c]))
    OBVIOUS
  <2>2. /\ calls[c].kind = "refresh" /\ calls[c].tok = calls'[c].tok
        /\ calls[c].tok \in Grants
        /\ calls'[c].doc \in {calls[c].doc, "none"} /\ (calls[c].moved => calls'[c].moved)
        /\ (Out(calls'[c]) => Out(calls[c]))
    BY <1>4 DEF Quiet, IInv, CallShape, Shape
  <2>3. ASSUME calls'[c].doc = d, ~ calls'[c].moved PROVE FALSE
    <3>1. calls[c].doc = d /\ ~ calls[c].moved
      BY <1>2, <2>2, <2>3 DEF Facts
    <3>2. docs[d].flight = c
      BY <2>2, <3>1 DEF IInv, Flights
    <3> QED
      BY <1>2, <1>a, <3>2 DEF Facts
  <2> QED
    BY <2>2, <2>3
<1>8. \A c \in Calls : Won(calls'[c]) =>
        /\ c # s /\ Won(calls[c]) /\ calls[c].tok = calls'[c].tok /\ calls[c].tok \in Grants \ {g}
        /\ calls[c].kind = calls'[c].kind
  <2> SUFFICES ASSUME NEW c \in Calls, Won(calls'[c])
               PROVE  /\ c # s /\ Won(calls[c]) /\ calls[c].tok = calls'[c].tok
                      /\ calls[c].tok \in Grants \ {g} /\ calls[c].kind = calls'[c].kind
    OBVIOUS
  <2>1. c \in Calls \ {s} /\ calls'[c].kind \in {"login", "refresh"}
    BY <1>5 DEF Won
  <2>2. Quiet(c)
    BY <1>4, <2>1
  <2>3. Won(calls[c]) /\ calls[c].tok = calls'[c].tok /\ calls[c].kind = calls'[c].kind
    BY <2>1, <2>2 DEF Quiet
  <2>4. calls[c].tok # g
    BY <1>0, <2>3 DEF IInv, Unique
  <2> QED
    BY <2>1, <2>3, <2>4 DEF IInv, CallShape, Shape
<1>n. Named'
  BY <1>1, <1>3, <1>c DEF IInv, Named, Holds
<1>p. Pages'
  <2>1. docs[d].at # "none"
    BY <1>0, <1>a, Constants DEF IInv, Pages, NoDoc
  <2>2. \A e \in Docs : docs'[e].at = docs[e].at /\ docs'[e].mem = docs[e].mem
    BY <1>1, <1>3
  <2>3. \A e \in Docs : docs'[e].at = "none" => docs'[e] = NoDoc
    BY <1>1, <1>3, <2>1 DEF IInv, Pages
  <2>4. \A e \in Docs : Shown(e)' => store'[TabOf(e)] = Stripped(docs'[e].mem)
    BY <1>1, <2>2, Constants DEF IInv, Pages, Shown
  <2> QED
    BY <2>2, <2>3, <2>4 DEF IInv, Pages, Shown, Docs
<1>f. Flights'
  <2>1. ASSUME NEW e \in Docs, docs'[e].flight # 0
        PROVE  LET k == calls'[docs'[e].flight] IN k.kind = "refresh" /\ k.doc = e /\ ~ k.moved
    <3>1. CASE e = d
      BY <1>3, <1>5, <3>1
    <3>2. CASE e # d
      <4> DEFINE c == docs[e].flight
      <4>1. docs'[e].flight = c /\ c # 0
        BY <1>1, <2>1, <3>2
      <4>2. c \in Calls /\ calls[c].kind = "refresh" /\ calls[c].doc = e /\ ~ calls[c].moved
        BY <1>2, <4>1 DEF IInv, Flights, Facts
      <4>3. StillOut(c)
        BY <1>4, <1>5, <4>2
      <4> QED
        BY <4>1, <4>2, <4>3 DEF StillOut
    <3> QED
      BY <3>1, <3>2
  <2>3. ASSUME NEW c \in Calls, calls'[c].kind = "refresh", calls'[c].doc \in Docs, ~ calls'[c].moved
        PROVE  LET e == calls'[c].doc
               IN  docs'[e].flight = c /\ grants'[calls'[c].tok].chain \notin docs'[e].forgot
    <3>1. CASE c = s
      <4>1. grants[g].chain \notin docs[d].forgot
        BY <1>a DEF IInv, Forgotten, ChainOf
      <4> QED
        BY <1>3, <1>5, <1>b, <3>1, <4>1
    <3>2. CASE c # s
      <4> DEFINE e == calls[c].doc
                 h == calls[c].tok
      <4>1. /\ calls'[c].doc = e /\ calls'[c].tok = h /\ h \in Grants /\ e \in Docs \ {d}
            /\ calls[c].kind = "refresh" /\ ~ calls[c].moved
        BY <1>2, <1>7, <2>3, <3>2 DEF Facts
      <4>2. docs[e].flight = c /\ grants[h].chain \notin docs[e].forgot
        BY <4>1 DEF IInv, Flights, ChainOf
      <4>4. grants'[h].chain \notin docs[e].forgot
        BY <1>c, <4>1, <4>2
      <4> HIDE DEF h
      <4> QED
        BY <1>1, <4>1, <4>2, <4>4
    <3> QED
      BY <3>1, <3>2
  <2> QED
    BY <2>1, <2>3 DEF Flights, ChainOf
<1>m. \A e \in Docs : docs'[e].mem = docs[e].mem /\ docs'[e].forgot = docs[e].forgot
  BY <1>1, <1>3
<1>u. Unique'
  <2>1. \A e, f \in Docs : docs'[e].mem.ref # 0 /\ docs'[e].mem.ref = docs'[f].mem.ref => e = f
    BY <1>m DEF IInv, Unique
  <2>2. ASSUME NEW c \in Calls, Won(calls'[c])
        PROVE  /\ grants'[calls'[c].tok].shown = 0
               /\ \A e \in Docs : docs'[e].mem.ref # calls'[c].tok
    BY <1>c, <1>m, <1>8, <2>2 DEF IInv, Unique
  <2>3. \A b, c \in Calls : Won(calls'[b]) /\ Won(calls'[c]) /\ calls'[b].tok = calls'[c].tok => b = c
    BY <1>8 DEF IInv, Unique
  <2> QED
    BY <2>1, <2>2, <2>3 DEF Unique
<1>c1. NewChain'
  <2> SUFFICES ASSUME NEW c \in Calls, calls'[c].kind = "login", Won(calls'[c])
               PROVE  NewTo(ChainOf(calls[c].tok), c)'
    BY DEF NewChain
  <2> DEFINE n == grants[calls[c].tok].chain
  <2>1. n = grants'[calls'[c].tok].chain /\ NewTo(n, c) /\ c # s
    BY <1>c, <1>8 DEF IInv, NewChain, ChainOf
  <2> HIDE DEF n
  <2>5. grants[g].chain # n
    BY <1>a, <2>1 DEF NewTo, ChainOf
  <2>2. \A e \in Docs : n \notin docs'[e].forgot /\ (docs'[e].mem.acc # 0 => grants'[docs'[e].mem.acc].chain # n)
    BY <1>c, <1>m, <2>1 DEF NewTo, ChainOf, IInv, Named, Holds
  <2>3. \A t \in Tabs : store'[t].acc # 0 => grants'[store'[t].acc].chain # n
    BY <1>1, <1>c, <2>1 DEF NewTo, ChainOf, IInv, Named, Holds
  <2>4. \A b \in Calls \ {c} : calls'[b].kind = "refresh" \/ Won(calls'[b]) => grants'[calls'[b].tok].chain # n
    BY <1>5, <1>7, <1>8, <1>a, <1>c, <2>1, <2>5 DEF NewTo, ChainOf
  <2> QED
    BY <2>1, <2>2, <2>3, <2>4, <1>c, <1>8 DEF NewTo, ChainOf
<1>s. Shows'
  <2>0. grants[g].shown >= 1 => grants[g].cut /\ grants'[g].shown > 1
    BY <1>0, <1>2, <1>a, <1>b DEF IInv, Shows, Seen, Facts
  <2>5. \A h \in Grants : HasSuccessor(h)' <=> HasSuccessor(h)
    BY <1>1, <1>c DEF HasSuccessor
  <2>6. grants'[g].shown >= 1
    BY <1>2, <1>a, <1>b DEF Facts
  <2>1. \A h \in Grants : OnceOr(h)'
    <3>1. \A h \in Grants \ {g} : OnceOr(h)'
      BY <1>c, <2>5 DEF IInv, Shows, OnceOr
    <3>2. OnceOr(g)'
      BY <1>2, <1>a, <1>b, <2>0, <2>6 DEF OnceOr, Facts
    <3> QED
      BY <3>1, <3>2
  <2>2. \A e \in Docs : Seen(e)'
    <3>1. Seen(d)'
      BY <1>2, <1>3 DEF Seen, Facts
    <3>2. ASSUME NEW e \in Docs \ {d} PROVE Seen(e)'
      <4>1. docs[e].mem.ref # g
        BY <1>0, <1>a DEF IInv, Unique
      <4> QED
        BY <1>1, <1>c, <4>1 DEF IInv, Shows, Seen, Named, Holds
    <3> QED
      BY <3>1, <3>2
  <2>3. ASSUME NEW c \in Calls, Out(calls'[c]) PROVE Counted(c)'
    <3>1. CASE c = s
      <4>1. HasSuccessor(g)' => grants'[g].shown > 1
        BY <1>a, <2>0, <2>5 DEF IInv, Shows, OnceOr
      <4>2. ASSUME NEW b \in Calls, Out(calls'[b]), b # c, calls'[b].tok = g PROVE grants'[g].shown > 1
        BY <1>7, <2>0, <3>1, <4>2 DEF IInv, Shows, Counted, Out
      <4> QED
        BY <1>5, <2>6, <3>1, <4>1, <4>2 DEF Counted
    <3>2. CASE c # s
      <4>1. Out(calls[c]) /\ calls[c].tok = calls'[c].tok /\ calls[c].tok \in Grants /\ Counted(c)
        BY <1>7, <2>3, <3>2 DEF Out, IInv, Shows
      <4>2. CASE calls[c].tok = g
        <5>1. grants'[g].shown > 1
          BY <2>0, <4>1, <4>2 DEF Counted
        <5> QED
          BY <2>6, <4>1, <4>2, <5>1 DEF Counted
      <4>3. CASE calls[c].tok # g
        BY <1>5, <1>7, <1>c, <2>5, <4>1, <4>3 DEF Counted, Out
      <4> QED
        BY <4>2, <4>3
    <3> QED
      BY <3>1, <3>2
  <2>4. \A c \in Calls : calls'[c].out = "reused" => grants'[calls'[c].tok].cut
    BY <1>c, <1>4, <1>5 DEF IInv, Shows, OnceOr, Quiet, CallShape, Shape
  <2> QED
    BY <1>1, <2>1, <2>2, <2>3, <2>4 DEF Shows
<1>r. Forgotten'
  BY <1>c, <1>m DEF IInv, Forgotten, ChainOf, Named, Holds
<1> QED
  BY <1>n, <1>p, <1>f, <1>u, <1>c1, <1>s, <1>r DEF IInv

\* A grant is minted.
LEMMA MintsKeeps ==
  ASSUME IInv, Types', CallShape', NEW s \in Calls, NEW n \in Nat,
         MintsLogin(s, n) \/ MintsRefresh(s, n)
  PROVE  IInv'
<1>1. /\ \A e \in Docs : docs'[e] = docs[e]
      /\ \A t \in Tabs : store'[t] = store[t]
      /\ n \notin Grants /\ n # 0 /\ Grants' = Grants \cup {n} /\ \A h \in Grants : SameRow(h)
      /\ grants'[n].shown = 0
      /\ \A c \in Calls \ {s} : calls'[c] = calls[c]
  BY DEF MintsLogin, MintsRefresh, Mints, SameDocs, SameTabs
<1>2. Facts
  BY Spelt DEF IInv
<1>3. \/ calls[s].doc = "none" /\ calls'[s] = Idle
      \/ /\ calls'[s].kind = calls[s].kind /\ calls'[s].doc = calls[s].doc
         /\ calls'[s].moved = calls[s].moved /\ calls'[s].tok = n
         /\ calls'[s].at = "answered" /\ calls'[s].out = "ok"
  BY DEF MintsLogin, MintsRefresh, Mints
<1>4. \/ /\ calls[s].kind = "login" /\ ~ Won(calls[s])
         /\ grants'[n].chain = n /\ grants'[n].from = 0
      \/ /\ calls[s].kind = "refresh" /\ Out(calls[s]) /\ calls[s].tok \in Grants
         /\ grants'[n].chain = grants[calls[s].tok].chain /\ grants'[n].from = calls[s].tok
  BY DEF MintsLogin, MintsRefresh, Mints, Won, Out, ChainOf, IInv, CallShape, Shape
<1>5. Idle.kind = "idle" /\ Idle.doc = "none" /\ Idle.out = "ok" /\ ~ Won(Idle) /\ ~ Out(Idle)
  BY DEF Idle, Won, Out
<1>a. ~ Out(calls'[s]) /\ calls'[s].out = "ok"
  BY <1>3, <1>5 DEF Out
<1>6. \A c \in Calls : Won(calls'[c]) =>
        /\ c # s => Won(calls[c]) /\ calls'[c] = calls[c] /\ calls[c].tok \in Grants
        /\ c = s => calls'[c].tok = n /\ calls'[c].kind = calls[c].kind
  BY <1>1, <1>3, <1>5 DEF IInv, CallShape, Shape
<1>7. \A c \in Calls : calls'[c].kind = "refresh" => calls[c].kind = "refresh" /\ calls[c].tok \in Grants
  BY <1>1, <1>3, <1>5 DEF IInv, CallShape, Shape
<1>8. \A c \in Calls : calls'[c].kind = "refresh" /\ calls'[c].doc \in Docs =>
        /\ calls'[c].doc = calls[c].doc /\ calls'[c].moved = calls[c].moved
        /\ grants'[calls'[c].tok].chain = grants[calls[c].tok].chain
  BY <1>1, <1>2, <1>3, <1>4, <1>5, <1>7 DEF SameRow, Facts
<1>n. Named'
  <2>1. \A g \in Grants : grants'[g].chain \in Grants' /\ grants'[g].from \in Grants' \cup {0}
    BY <1>1 DEF IInv, Named, SameRow
  <2>2. grants'[n].chain \in Grants' /\ grants'[n].from \in Grants' \cup {0}
    BY <1>1, <1>4 DEF IInv, Named
  <2> QED
    BY <1>1, <2>1, <2>2 DEF IInv, Named, Holds
<1>p. Pages'
  BY <1>1, Constants DEF IInv, Pages, Shown, Docs
<1>f. Flights'
  <2>1. ASSUME NEW e \in Docs, docs'[e].flight # 0
        PROVE  LET k == calls'[docs'[e].flight] IN k.kind = "refresh" /\ k.doc = e /\ ~ k.moved
    <3> DEFINE c == docs[e].flight
    <3>1. docs'[e].flight = c /\ c # 0
      BY <1>1, <2>1
    <3>2. c \in Calls /\ calls[c].kind = "refresh" /\ calls[c].doc = e /\ ~ calls[c].moved
      BY <1>2, <3>1 DEF IInv, Flights, Facts
    <3> QED
      BY <1>1, <1>2, <1>3, <3>1, <3>2 DEF Facts
  <2>3. ASSUME NEW c \in Calls, calls'[c].kind = "refresh", calls'[c].doc \in Docs, ~ calls'[c].moved
        PROVE  LET e == calls'[c].doc
               IN  docs'[e].flight = c /\ grants'[calls'[c].tok].chain \notin docs'[e].forgot
    <3> DEFINE e == calls[c].doc
    <3>1. /\ calls'[c].doc = e /\ e \in Docs /\ calls[c].kind = "refresh" /\ ~ calls[c].moved
          /\ grants'[calls'[c].tok].chain = grants[calls[c].tok].chain
      BY <1>7, <1>8, <2>3
    <3>2. docs[e].flight = c /\ grants[calls[c].tok].chain \notin docs[e].forgot
      BY <3>1 DEF IInv, Flights, ChainOf
    <3> QED
      BY <1>1, <3>1, <3>2
  <2> QED
    BY <2>1, <2>3 DEF Flights, ChainOf
<1>u. Unique'
  <2>0. \A e \in Docs : docs[e].mem.ref # n
    BY <1>1 DEF IInv, Named, Holds
  <2>1. \A e, f \in Docs : docs'[e].mem.ref # 0 /\ docs'[e].mem.ref = docs'[f].mem.ref => e = f
    BY <1>1 DEF IInv, Unique
  <2>2. ASSUME NEW c \in Calls, Won(calls'[c])
        PROVE  /\ grants'[calls'[c].tok].shown = 0
               /\ \A e \in Docs : docs'[e].mem.ref # calls'[c].tok
    BY <1>1, <1>6, <2>0, <2>2 DEF IInv, Unique, SameRow
  <2>3. \A b, c \in Calls : Won(calls'[b]) /\ Won(calls'[c]) /\ calls'[b].tok = calls'[c].tok => b = c
    BY <1>1, <1>6 DEF IInv, Unique
  <2> QED
    BY <2>1, <2>2, <2>3 DEF Unique
<1>c. NewChain'
  <2> SUFFICES ASSUME NEW c \in Calls, calls'[c].kind = "login", Won(calls'[c])
               PROVE  NewTo(ChainOf(calls[c].tok), c)'
    BY DEF NewChain
  <2>a. PICK m \in Nat : m = grants'[calls'[c].tok].chain
    BY <1>1, <1>2, <1>4, <1>6 DEF SameRow, Facts
  <2>b. \/ c # s /\ NewTo(m, c) /\ m \in Grants
        \/ c = s /\ m = n /\ calls[s].kind = "login"
    <3>1. CASE c # s
      BY <1>1, <1>6, <2>a, <3>1 DEF IInv, NewChain, SameRow, ChainOf, Named
    <3>2. CASE c = s
      BY <1>3, <1>4, <1>5, <1>6, <2>a, <3>2
    <3> QED
      BY <3>1, <3>2
  <2>1. \A h \in Grants : grants'[h].chain = grants[h].chain /\ grants[h].chain \in Grants
    BY <1>1 DEF SameRow, IInv, Named
  <2>2. \A e \in Docs : m \notin docs'[e].forgot /\ (docs'[e].mem.acc # 0 => grants'[docs'[e].mem.acc].chain # m)
    BY <1>1, <2>1, <2>b DEF NewTo, ChainOf, IInv, Named, Holds
  <2>3. \A t \in Tabs : store'[t].acc # 0 => grants'[store'[t].acc].chain # m
    BY <1>1, <2>1, <2>b DEF NewTo, ChainOf, IInv, Named, Holds
  <2>4. ASSUME NEW b \in Calls \ {c}, calls'[b].kind = "refresh" \/ Won(calls'[b])
        PROVE  grants'[calls'[b].tok].chain # m
    <3>1. CASE b # s
      <4>1. calls'[b] = calls[b] /\ calls[b].tok \in Grants
        BY <1>1, <1>6, <1>7, <2>4, <3>1
      <4> QED
        BY <1>1, <2>1, <2>4, <2>b, <4>1 DEF NewTo, ChainOf
    <3>2. CASE b = s
      <4>1. c # s /\ NewTo(m, c) /\ m \in Grants /\ calls'[s].tok = n
        BY <1>3, <1>5, <2>4, <2>b, <3>2
      <4> QED
        BY <1>1, <1>4, <3>2, <4>1 DEF NewTo, ChainOf
    <3> QED
      BY <3>1, <3>2
  <2> QED
    BY <2>a, <2>2, <2>3, <2>4 DEF NewTo, ChainOf
<1>s. Shows'
  <2>0. \A h \in Grants : /\ grants'[h].shown = grants[h].shown /\ grants'[h].cut = grants[h].cut
    BY <1>1 DEF SameRow
  <2>5. \A h \in Grants : HasSuccessor(h)' => HasSuccessor(h) \/ (h = calls[s].tok /\ Out(calls[s]))
    BY <1>1, <1>2, <1>4 DEF HasSuccessor, SameRow, Facts
  <2>6. ~ HasSuccessor(n)'
    BY <1>1, <1>4 DEF HasSuccessor, SameRow, IInv, Named
  <2>1. \A h \in Grants' : OnceOr(h)'
    <3>1. \A h \in Grants : OnceOr(h)'
      BY <2>0, <2>5 DEF IInv, Shows, OnceOr, Counted
    <3>2. OnceOr(n)'
      BY <1>1, <2>6 DEF OnceOr
    <3> QED
      BY <1>1, <3>1, <3>2
  <2>2. \A e \in Docs : Seen(e)'
    BY <1>1, <2>0 DEF IInv, Shows, Seen, Named, Holds
  <2>3. ASSUME NEW c \in Calls, Out(calls'[c]) PROVE Counted(c)'
    <3>1. c # s /\ calls'[c] = calls[c] /\ Out(calls[c]) /\ Counted(c) /\ calls[c].tok \in Grants
      BY <1>1, <1>7, <1>a, <2>3 DEF Out, IInv, Shows
    <3>4. PICK h \in Grants : h = calls[c].tok
      BY <3>1
    <3>2. HasSuccessor(h)' => grants[h].shown > 1
      BY <2>5, <3>1, <3>4 DEF Counted
    <3>3. \A b \in Calls : Out(calls'[b]) => b # s /\ calls'[b] = calls[b]
      BY <1>1, <1>a
    <3> QED
      BY <2>0, <3>1, <3>2, <3>3, <3>4 DEF Counted, HasSuccessor
  <2>4. \A c \in Calls : calls'[c].out = "reused" => grants'[calls'[c].tok].cut
    BY <1>1, <1>a, <2>0 DEF IInv, Shows, CallShape, Shape
  <2> QED
    BY <2>1, <2>2, <2>3, <2>4 DEF Shows
<1>r. Forgotten'
  BY <1>1 DEF IInv, Forgotten, SameRow, ChainOf, Named, Holds
<1> QED
  BY <1>n, <1>p, <1>f, <1>u, <1>c, <1>s, <1>r DEF IInv

\* What a quiet request that refreshes, has won or logs in was before.
LEMMA Traces ==
  ASSUME IInv, CallShape', NEW c \in Calls, Quiet(c)
  PROVE  /\ calls'[c].kind = "refresh" =>
              /\ calls[c].kind = "refresh" /\ calls[c].tok = calls'[c].tok /\ calls[c].tok \in Grants
              /\ calls'[c].doc \in {calls[c].doc, "none"} /\ (Out(calls'[c]) => Out(calls[c]))
         /\ Won(calls'[c]) =>
              /\ Won(calls[c]) /\ calls[c].tok = calls'[c].tok /\ calls[c].tok \in Grants
              /\ calls[c].kind = calls'[c].kind
         /\ calls'[c].kind = "login" =>
              /\ calls'[c].doc \in Docs /\ calls[c].kind = "login" /\ calls[c].doc = calls'[c].doc
<1>1. calls'[c].kind = "refresh" =>
        /\ calls[c].kind = "refresh" /\ calls[c].tok = calls'[c].tok /\ calls[c].tok \in Grants
        /\ calls'[c].doc \in {calls[c].doc, "none"} /\ (Out(calls'[c]) => Out(calls[c]))
  BY DEF Quiet, IInv, CallShape, Shape
<1>2. ASSUME Won(calls'[c])
      PROVE  /\ Won(calls[c]) /\ calls[c].tok = calls'[c].tok /\ calls[c].tok \in Grants
             /\ calls[c].kind = calls'[c].kind
  <2>1. calls'[c].kind \in {"login", "refresh"}
    BY <1>2 DEF Won
  <2>2. Won(calls[c]) /\ calls[c].tok = calls'[c].tok /\ calls[c].kind = calls'[c].kind
    BY <1>2, <2>1 DEF Quiet
  <2> QED
    BY <2>2 DEF IInv, CallShape, Shape
<1>3. ASSUME calls'[c].kind = "login"
      PROVE  calls'[c].doc \in Docs /\ calls[c].kind = "login" /\ calls[c].doc = calls'[c].doc
  <2>1. calls'[c].doc \in Docs
    BY <1>3 DEF CallShape, Shape
  <2> QED
    BY <1>3, <2>1, Spelt DEF Quiet, Facts, IInv
<1> QED
  BY <1>1, <1>2, <1>3

(* A document that goes on, and one that starts or is gone.                *)
GoesOn(e) ==
  /\ docs'[e].mem = docs[e].mem /\ docs'[e].flight = docs[e].flight
  /\ docs'[e].forgot = docs[e].forgot
  /\ \A c \in Calls : calls[c].doc = e \/ calls'[c].doc = e => calls'[c] = calls[c]

IsNew(e) ==
  /\ docs'[e].flight = 0 /\ docs'[e].forgot = {}
  /\ \A c \in Calls : calls'[c].doc # e
  /\ docs'[e].mem.acc = 0 \/ \E f \in Docs : docs'[e].mem.acc = docs[f].mem.acc
  /\ docs'[e].mem.ref \in {0, docs'[e].mem.acc}
  /\ docs'[e].mem.ref # 0 =>
       /\ docs'[e].mem.ref = docs[e].mem.ref
       /\ docs[e].flight # 0 => grants'[docs'[e].mem.ref].cut

(* What the four ways to navigate have in common.                          *)
Shifts ==
  /\ \A c \in Calls : Quiet(c)
  /\ Grants' = Grants
  /\ \A g \in Grants :
       /\ grants'[g].chain = grants[g].chain /\ grants'[g].from = grants[g].from
       /\ grants'[g].shown = grants[g].shown
       /\ grants[g].cut => grants'[g].cut
  /\ \A e \in Docs : GoesOn(e) \/ IsNew(e)
  /\ \A t \in Tabs : store'[t] = store[t] \/ \E f \in Docs : store'[t] = Stripped(docs[f].mem)

\* A navigation, once the pages that it shows are known.
LEMMA ShiftsKeeps ==
  ASSUME IInv, Types', CallShape', Pages', Shifts
  PROVE  IInv'
<1>1. /\ Grants' = Grants
      /\ \A g \in Grants :
           /\ grants'[g].chain = grants[g].chain /\ grants'[g].from = grants[g].from
           /\ grants'[g].shown = grants[g].shown
           /\ grants[g].cut => grants'[g].cut
      /\ \A e \in Docs : GoesOn(e) \/ IsNew(e)
  BY DEF Shifts
<1>2. Facts
  BY Spelt DEF IInv
<1>3. \A t \in Tabs : \/ store'[t] = store[t]
                      \/ store'[t].ref = 0 /\ \E f \in Docs : store'[t].acc = docs[f].mem.acc
  BY <1>2, Strips DEF Shifts, Facts
<1>4. \A e \in Docs :
        /\ docs'[e].forgot \subseteq docs[e].forgot
        /\ docs'[e].mem.acc = 0 \/ \E f \in Docs : docs'[e].mem.acc = docs[f].mem.acc
        /\ docs'[e].mem.ref \in {0, docs'[e].mem.acc}
        /\ docs'[e].mem.ref \in {0, docs[e].mem.ref}
  BY <1>1 DEF GoesOn, IsNew, IInv, Named, Holds
<1>7. \A c \in Calls : calls'[c].kind = "refresh" =>
        /\ calls[c].kind = "refresh" /\ calls[c].tok = calls'[c].tok /\ calls[c].tok \in Grants
        /\ calls'[c].doc \in {calls[c].doc, "none"} /\ (Out(calls'[c]) => Out(calls[c]))
  BY Traces DEF Shifts
<1>8. \A c \in Calls : Won(calls'[c]) =>
        /\ Won(calls[c]) /\ calls[c].tok = calls'[c].tok /\ calls[c].tok \in Grants
        /\ calls[c].kind = calls'[c].kind
  BY Traces DEF Shifts
<1>9. \A c \in Calls : calls'[c].kind = "login" =>
        calls'[c].doc \in Docs /\ calls[c].kind = "login" /\ calls[c].doc = calls'[c].doc
  BY Traces DEF Shifts
<1>n. Named'
  <2>1. \A e \in Docs : Holds(docs'[e].mem, Grants) /\ docs'[e].forgot \subseteq Grants
    BY <1>4 DEF IInv, Named, Holds
  <2>2. \A t \in Tabs : Holds(store'[t], Grants) /\ store'[t].ref = 0
    BY <1>3 DEF IInv, Named, Holds
  <2>3. \A g \in Grants : grants'[g].chain \in Grants /\ grants'[g].from \in Grants \cup {0}
    BY <1>1 DEF IInv, Named
  <2> QED
    BY <1>1, <2>1, <2>2, <2>3 DEF Named
<1>f. Flights'
  <2>1. ASSUME NEW e \in Docs, docs'[e].flight # 0
        PROVE  LET k == calls'[docs'[e].flight] IN k.kind = "refresh" /\ k.doc = e /\ ~ k.moved
    <3> DEFINE c == docs[e].flight
    <3>1. GoesOn(e) /\ docs'[e].flight = c /\ c # 0
      BY <1>1, <2>1 DEF GoesOn, IsNew
    <3>2. c \in Calls /\ calls[c].kind = "refresh" /\ calls[c].doc = e /\ ~ calls[c].moved
      BY <1>2, <3>1 DEF IInv, Flights, Facts
    <3> QED
      BY <3>1, <3>2 DEF GoesOn
  <2>3. ASSUME NEW c \in Calls, calls'[c].kind = "refresh", calls'[c].doc \in Docs, ~ calls'[c].moved
        PROVE  LET e == calls'[c].doc
               IN  docs'[e].flight = c /\ grants'[calls'[c].tok].chain \notin docs'[e].forgot
    <3>0. PICK e \in Docs : e = calls'[c].doc
      BY <2>3
    <3>1. GoesOn(e) /\ calls'[c] = calls[c]
      BY <1>1, <3>0 DEF GoesOn, IsNew
    <3>2. docs[e].flight = c /\ grants[calls[c].tok].chain \notin docs[e].forgot
      BY <2>3, <3>0, <3>1 DEF IInv, Flights, ChainOf
    <3>3. calls[c].tok \in Grants
      BY <1>7, <2>3
    <3> QED
      BY <1>1, <3>0, <3>1, <3>2, <3>3 DEF GoesOn
  <2> QED
    BY <2>1, <2>3 DEF Flights, ChainOf
<1>u. Unique'
  <2>1. \A e, f \in Docs : docs'[e].mem.ref # 0 /\ docs'[e].mem.ref = docs'[f].mem.ref => e = f
    BY <1>4 DEF IInv, Unique
  <2>2. ASSUME NEW c \in Calls, Won(calls'[c])
        PROVE  /\ grants'[calls'[c].tok].shown = 0
               /\ \A e \in Docs : docs'[e].mem.ref # calls'[c].tok
    <3>1. /\ Won(calls[c]) /\ calls[c].tok = calls'[c].tok /\ calls[c].tok \in Grants
      BY <1>8, <2>2
    <3>2. calls[c].tok # 0
      BY <1>2, <3>1 DEF Facts
    <3> QED
      BY <1>1, <1>4, <3>1, <3>2 DEF IInv, Unique
  <2>3. \A b, c \in Calls : Won(calls'[b]) /\ Won(calls'[c]) /\ calls'[b].tok = calls'[c].tok => b = c
    BY <1>8 DEF IInv, Unique
  <2> QED
    BY <2>1, <2>2, <2>3 DEF Unique
<1>c. NewChain'
  <2> SUFFICES ASSUME NEW c \in Calls, calls'[c].kind = "login", Won(calls'[c])
               PROVE  NewTo(ChainOf(calls[c].tok), c)'
    BY DEF NewChain
  <2> DEFINE n == grants[calls[c].tok].chain
  <2>1. n = grants'[calls'[c].tok].chain /\ NewTo(n, c)
    BY <1>1, <1>8 DEF IInv, NewChain, ChainOf
  <2> HIDE DEF n
  <2>2. \A e \in Docs : n \notin docs'[e].forgot /\ (docs'[e].mem.acc # 0 => grants'[docs'[e].mem.acc].chain # n)
    BY <1>1, <1>4, <2>1 DEF NewTo, ChainOf, IInv, Named, Holds
  <2>3. \A t \in Tabs : store'[t].acc # 0 => grants'[store'[t].acc].chain # n
    BY <1>1, <1>3, <2>1 DEF NewTo, ChainOf, IInv, Named, Holds
  <2>4. \A b \in Calls \ {c} : calls'[b].kind = "refresh" \/ Won(calls'[b]) => grants'[calls'[b].tok].chain # n
    BY <1>1, <1>7, <1>8, <2>1 DEF NewTo, ChainOf
  <2> QED
    BY <2>1, <2>2, <2>3, <2>4 DEF NewTo, ChainOf
<1>s. Shows'
  <2>0. \A g \in Grants : HasSuccessor(g)' <=> HasSuccessor(g)
    BY <1>1 DEF HasSuccessor
  <2>1. \A g \in Grants : OnceOr(g)'
    BY <1>1, <2>0 DEF IInv, Shows, OnceOr
  <2>2. ASSUME NEW e \in Docs PROVE Seen(e)'
    <3>1. CASE GoesOn(e)
      BY <1>1, <3>1 DEF GoesOn, IInv, Shows, Seen, Named, Holds
    <3>2. CASE IsNew(e)
      BY <1>1, <3>2 DEF IsNew, IInv, Shows, Seen, Named, Holds
    <3> QED
      BY <1>1, <3>1, <3>2
  <2>3. \A c \in Calls : Out(calls'[c]) => Counted(c)'
    BY <1>1, <1>7 DEF IInv, Shows, Counted, HasSuccessor, Out
  <2>4. \A c \in Calls : calls'[c].out = "reused" => grants'[calls'[c].tok].cut
    BY <1>1 DEF Shifts, IInv, Shows, OnceOr, Quiet, CallShape, Shape
  <2> QED
    BY <1>1, <2>1, <2>2, <2>3, <2>4 DEF Shows
<1>r. Forgotten'
  BY <1>1 DEF GoesOn, IsNew, IInv, Forgotten, ChainOf, Named, Holds
<1> QED
  BY <1>n, <1>f, <1>u, <1>c, <1>s, <1>r DEF IInv

\* A reload.
LEMMA ReloadedKeeps ==
  ASSUME IInv, Types', CallShape', NEW d \in Docs, Reloaded(d)
  PROVE  IInv'
<1>1. /\ \A e \in Docs \ {d} : docs'[e] = docs[e]
      /\ \A t \in Tabs : store'[t] = store[t]
      /\ docs'[d].at = "shown" /\ docs'[d].mem = docs[d].mem /\ docs'[d].flight = 0
      /\ docs'[d].forgot = {} /\ docs[d].at = "shown"
  BY DEF Reloaded, SameDocs, SameTabs, Starts, Shown
<1>2. \A c \in Calls : /\ Quiet(c) /\ calls'[c].doc \in {calls[c].doc, "none"} \ {d}
                       /\ calls[c].doc # d => calls'[c] = calls[c]
  BY DEF Reloaded, Orphaning
<1>3. Grants' = Grants /\ \A g \in Grants :
        /\ grants'[g].chain = grants[g].chain /\ grants'[g].from = grants[g].from
        /\ grants'[g].shown = grants[g].shown
        /\ grants[g].cut => grants'[g].cut
        /\ docs[d].mem.ref = g /\ docs[d].flight # 0 => grants'[g].cut
  BY DEF Reloaded
<1>4. Facts
  BY Spelt DEF IInv
<1>5. \A e \in Docs : GoesOn(e) \/ IsNew(e)
  <2>1. ASSUME NEW e \in Docs \ {d} PROVE GoesOn(e)
    <3>1. \A c \in Calls : calls[c].doc = e \/ calls'[c].doc = e => calls'[c] = calls[c]
      BY <1>2, <1>4, <2>1 DEF Facts
    <3> QED
      BY <1>1, <3>1 DEF GoesOn
  <2>2. IsNew(d)
    BY <1>1, <1>2, <1>3 DEF IsNew, IInv, Named, Holds
  <2> QED
    BY <2>1, <2>2
<1>6. Shifts
  BY <1>1, <1>2, <1>3, <1>5 DEF Shifts
<1>p. Pages'
  BY <1>1, Constants DEF IInv, Pages, Shown, Docs
<1> QED
  BY <1>6, <1>p, ShiftsKeeps

\* Another document of the tab is shown, the old one cached or gone.
LEMMA MovedKeeps ==
  ASSUME IInv, Types', CallShape', NEW d \in Docs, NEW e \in Docs, Moved(d, e)
  PROVE  IInv'
<1>0. <<d, e>> \in {<<"first", "second">>, <<"second", "first">>} /\ d # e
  BY DEF Moved
<1>1. /\ \A f \in Docs \ {d, e} : docs'[f] = docs[f]
      /\ \A t \in Tabs : store'[t] = store[t]
      /\ docs'[e].at = "shown" /\ docs'[e].mem = Stripped(docs[d].mem) /\ docs'[e].flight = 0
      /\ docs'[e].forgot = {} /\ docs[d].at = "shown"
      /\ Grants' = Grants /\ \A g \in Grants : SameRow(g)
  BY DEF Moved, SameDocs, SameTabs, SameRows, Starts, Shown
<1>2. \/ /\ docs'[d].at = "cached" /\ docs'[d].mem = docs[d].mem /\ Orphaning({e})
         /\ docs'[d].flight = docs[d].flight /\ docs'[d].forgot = docs[d].forgot
      \/ docs'[d] = NoDoc /\ Orphaning({d, e})
  BY DEF Moved
<1>4. Facts
  BY Spelt DEF IInv
<1>3. /\ docs'[e].mem.acc = docs[d].mem.acc /\ docs'[e].mem.ref = 0
      /\ docs'[e].mem = Stripped(docs'[e].mem)
  BY <1>1, <1>4, Strips DEF Facts
<1>5. \A c \in Calls : /\ Quiet(c) /\ calls'[c].doc \in {calls[c].doc, "none"} \ {e}
                       /\ calls[c].doc \notin {d, e} => calls'[c] = calls[c]
  BY <1>2 DEF Orphaning
<1>6. \A f \in Docs : GoesOn(f) \/ IsNew(f)
  <2>1. ASSUME NEW f \in Docs \ {d, e} PROVE GoesOn(f)
    BY <1>1, <1>4, <1>5 DEF GoesOn, Facts
  <2>2. IsNew(e)
    BY <1>1, <1>3, <1>5 DEF IsNew
  <2>3. CASE docs'[d].at = "cached" /\ docs'[d].mem = docs[d].mem /\ Orphaning({e})
             /\ docs'[d].flight = docs[d].flight /\ docs'[d].forgot = docs[d].forgot
    <3>1. GoesOn(d)
      BY <1>0, <1>4, <2>3 DEF GoesOn, Orphaning, Facts
    <3> QED
      BY <2>1, <2>2, <3>1
  <2>4. CASE docs'[d] = NoDoc /\ Orphaning({d, e})
    <3>1. NoDoc.flight = 0 /\ NoDoc.forgot = {} /\ NoDoc.mem.acc = 0 /\ NoDoc.mem.ref = 0
      BY Constants DEF NoDoc
    <3>2. \A c \in Calls : calls'[c].doc # d
      BY <2>4 DEF Orphaning
    <3> QED
      BY <2>1, <2>2, <2>4, <3>1, <3>2 DEF IsNew
  <2> QED
    BY <1>2, <2>1, <2>2, <2>3, <2>4
<1>7. Shifts
  BY <1>1, <1>5, <1>6 DEF Shifts, SameRow
<1>p. Pages'
  <2>1. docs'[d].at # "shown" /\ (docs'[d].at = "none" => docs'[d] = NoDoc)
    BY <1>2 DEF NoDoc
  <2>2. store[TabOf(d)] = Stripped(docs[d].mem) /\ TabOf(d) = TabOf(e) /\ TabOf(d) \in Tabs
    BY <1>0, <1>1, Siblings, Constants DEF IInv, Pages, Shown, Docs
  <2>3. ASSUME NEW f \in Docs, docs'[f].at = "shown" PROVE store'[TabOf(f)] = Stripped(docs'[f].mem)
    <3>1. CASE f = e
      <4>1. Stripped(docs'[e].mem) = Stripped(docs[d].mem)
        BY <1>1, <1>3
      <4> QED
        BY <1>1, <2>2, <3>1, <4>1
    <3>2. CASE f # e
      <4>1. f # d /\ docs'[f] = docs[f] /\ TabOf(f) \in Tabs
        BY <1>1, <2>1, <2>3, <3>2, Constants
      <4> QED
        BY <1>1, <2>3, <4>1 DEF IInv, Pages, Shown
    <3> QED
      BY <3>1, <3>2
  <2> QED
    BY <1>0, <1>1, <2>1, <2>3 DEF IInv, Pages, Shown, Docs
<1> QED
  BY <1>7, <1>p, ShiftsKeeps

\* A document in the cache is shown again.
LEMMA RestoredKeeps ==
  ASSUME IInv, Types', CallShape', NEW d \in Docs, NEW e \in Docs, Restored(d, e)
  PROVE  IInv'
<1>0. <<d, e>> \in {<<"first", "second">>, <<"second", "first">>} /\ d # e
  BY DEF Restored
<1>1. /\ \A f \in Docs \ {d, e} : docs'[f] = docs[f]
      /\ \A t \in Tabs \ {"tab"} : store'[t] = store[t]
      /\ docs'[d].at = "shown" /\ docs'[d].mem = docs[d].mem /\ docs'[d].flight = docs[d].flight
      /\ docs'[d].forgot = docs[d].forgot
      /\ docs'[e].at = "cached" /\ docs'[e].mem = docs[e].mem /\ docs'[e].flight = docs[e].flight
      /\ docs'[e].forgot = docs[e].forgot
      /\ store'["tab"] = Stripped(docs[d].mem)
      /\ Grants' = Grants /\ \A g \in Grants : SameRow(g)
      /\ \A c \in Calls : calls'[c] = calls[c]
  BY DEF Restored, SameDocs, SameTabs, SameRows
<1>4. Facts
  BY Spelt DEF IInv
<1>5. \A c \in Calls : Quiet(c)
  <2>1. \A c \in Calls : calls[c].out = "reused" => calls[c].kind = "refresh" /\ calls[c].tok \in Grants
    BY DEF IInv, CallShape, Shape
  <2> QED
    BY <1>1, <2>1 DEF Quiet
<1>6. \A f \in Docs : GoesOn(f)
  BY <1>1 DEF GoesOn
<1>7. Shifts
  BY <1>1, <1>5, <1>6 DEF Shifts, SameRow
<1>p. Pages'
  <2>1. \A f \in Docs \ {d, e} : TabOf(f) = "duplicate"
    BY <1>0, Siblings DEF Docs
  <2>2. TabOf(d) = "tab" /\ "duplicate" \in Tabs \ {"tab"}
    BY <1>0, Siblings DEF Tabs
  <2>3. ASSUME NEW f \in Docs, docs'[f].at = "shown" PROVE store'[TabOf(f)] = Stripped(docs'[f].mem)
    <3>1. CASE f = d
      BY <1>1, <2>2, <3>1
    <3>2. CASE f # d
      BY <1>1, <2>1, <2>2, <2>3, <3>2 DEF IInv, Pages, Shown
    <3> QED
      BY <3>1, <3>2
  <2> QED
    BY <1>0, <1>1, <2>3 DEF IInv, Pages, Shown, Docs
<1> QED
  BY <1>7, <1>p, ShiftsKeeps

\* The tab is duplicated.
LEMMA CopiedKeeps ==
  ASSUME IInv, Types', CallShape', NEW d \in Docs, Copied(d)
  PROVE  IInv'
<1>1. /\ \A f \in Docs \ {"copy"} : docs'[f] = docs[f]
      /\ \A t \in Tabs \ {"duplicate"} : store'[t] = store[t]
      /\ docs'["copy"].at = "shown" /\ docs'["copy"].mem = Stripped(docs[d].mem)
      /\ docs'["copy"].flight = 0 /\ docs'["copy"].forgot = {}
      /\ store'["duplicate"] = Stripped(docs[d].mem)
      /\ Grants' = Grants /\ \A g \in Grants : SameRow(g)
      /\ \A c \in Calls : calls'[c] = calls[c]
      /\ docs["copy"].at = "none" /\ d \in {"first", "second"} /\ "copy" \in Docs
  BY DEF Copied, SameDocs, SameTabs, SameRows, Starts, Docs
<1>2. Facts
  BY Spelt DEF IInv
<1>3. /\ docs'["copy"].mem.acc = docs[d].mem.acc /\ docs'["copy"].mem.ref = 0
      /\ docs'["copy"].mem = Stripped(docs'["copy"].mem)
  BY <1>1, <1>2, Strips DEF Facts
<1>5. \A c \in Calls : Quiet(c)
  <2>1. \A c \in Calls : calls[c].out = "reused" => calls[c].kind = "refresh" /\ calls[c].tok \in Grants
    BY DEF IInv, CallShape, Shape
  <2> QED
    BY <1>1, <2>1 DEF Quiet
<1>6. \A f \in Docs : GoesOn(f) \/ IsNew(f)
  <2>1. \A f \in Docs \ {"copy"} : GoesOn(f)
    BY <1>1 DEF GoesOn
  <2>2. \A c \in Calls : calls[c].doc # "copy"
    BY <1>1 DEF IInv, CallShape, Shape
  <2>3. IsNew("copy")
    BY <1>1, <1>3, <2>2 DEF IsNew
  <2> QED
    BY <2>1, <2>3
<1>7. Shifts
  BY <1>1, <1>5, <1>6 DEF Shifts, SameRow, Tabs
<1>p. Pages'
  <2>1. ASSUME NEW f \in Docs, docs'[f].at = "shown" PROVE store'[TabOf(f)] = Stripped(docs'[f].mem)
    <3>1. CASE f = "copy"
      <4>1. Stripped(docs'["copy"].mem) = Stripped(docs[d].mem) /\ TabOf("copy") = "duplicate"
        BY <1>1, <1>3, Siblings
      <4> QED
        BY <1>1, <3>1, <4>1
    <3>2. CASE f # "copy"
      <4>1. docs'[f] = docs[f] /\ TabOf(f) \in Tabs \ {"duplicate"}
        BY <1>1, <3>2, Siblings DEF Docs, Tabs
      <4> QED
        BY <1>1, <2>1, <4>1 DEF IInv, Pages, Shown
    <3> QED
      BY <3>1, <3>2
  <2> QED
    BY <1>1, <2>1 DEF IInv, Pages, Shown, Docs
<1> QED
  BY <1>7, <1>p, ShiftsKeeps

\* Every kind of step keeps the invariant.
LEMMA KindsKeep ==
  ASSUME IInv, Types', CallShape', Kinds
  PROVE  IInv'
BY CalmKeeps, LeavesKeeps, SignsKeeps, FlownKeeps, MintsKeeps, ReloadedKeeps, MovedKeeps,
   RestoredKeeps, CopiedKeeps
   DEF Kinds

-----------------------------------------------------------------------------
(* The steps of the server, and of the net.                                *)

\* Rows that keep their types are a sequence again.
LEMMA Rewrites ==
  ASSUME Types, grants' \in [Grants -> RowType]
  PROVE  grants' \in Seq(RowType) /\ Grants' = Grants
<1>1. Grants = 1 .. Len(grants) /\ Len(grants) \in Nat
  BY LenProperties DEF Types, Grants
<1>2. grants' \in Seq(RowType)
  BY <1>1, SeqDef
<1>3. Grants' = Grants
  BY DEF Grants
<1> QED
  BY <1>2, <1>3

\* A row as it was minted.
LEMMA Rows == Types => \A g \in Grants : grants[g] \in RowType
BY ElementOfSeq, LenProperties DEF Types, Grants

\* An expiry changes the age of one row alone.
LEMMA Ages ==
  ASSUME Types, NEW g \in Grants, NEW a \in {"fresh", "stale", "dead"},
         grants' = [grants EXCEPT ![g].age = a]
  PROVE  grants' \in Seq(RowType) /\ SameRows
<1>1. \A h \in Grants : grants[h] \in RowType
  BY Rows
<1>2. \A h \in Grants : grants'[h] = IF h = g THEN [grants[h] EXCEPT !.age = a] ELSE grants[h]
  BY DEF Grants
<1>3. \A h \in Grants : grants'[h] \in RowType /\ SameRow(h)
  BY <1>1, <1>2 DEF RowType, SameRow
<1>4. grants' \in [Grants -> RowType]
  <2>1. grants' = [h \in Grants |-> grants'[h]]
    BY DEF Grants
  <2> QED
    BY <1>3, <2>1
<1> QED
  BY <1>3, <1>4, Rewrites DEF SameRows

\* A revocation changes no chain and no count.
LEMMA Revokes ==
  ASSUME Types, NEW S, grants' = Revoked(S)
  PROVE  grants' \in Seq(RowType) /\ SameRows
<1>1. \A h \in Grants : grants[h] \in RowType
  BY Rows
<1>2. \A h \in Grants : grants'[h] = IF h \in S THEN [grants[h] EXCEPT !.revoked = TRUE] ELSE grants[h]
  BY DEF Revoked
<1>3. \A h \in Grants : grants'[h] \in RowType /\ SameRow(h)
  BY <1>1, <1>2 DEF RowType, SameRow
<1>4. grants' \in [Grants -> RowType]
  <2>1. grants' = [h \in Grants |-> grants'[h]]
    BY DEF Revoked
  <2> QED
    BY <1>3, <2>1
<1> QED
  BY <1>3, <1>4, Rewrites DEF SameRows

\* So do the two chains of a refresh token that was reused.
LEMMA RevokesChain ==
  ASSUME Types, NEW g, grants' = revoke_review_chain(g)
  PROVE  grants' \in Seq(RowType) /\ SameRows
BY Revokes DEF revoke_review_chain

\* And a judgement, whatever the verdict.
LEMMA Judges ==
  ASSUME Types, NEW c \in Calls, calls[c].tok \in Grants, NEW v, Judged(c, v, grants')
  PROVE  grants' \in Seq(RowType) /\ SameRows
<1> DEFINE g == calls[c].tok
<1>1. CASE grants' = [grants EXCEPT ![g].age = IF @ = "dead" THEN @ ELSE "stale"]
  <2> DEFINE a == IF grants[g].age = "dead" THEN grants[g].age ELSE "stale"
  <2>1. grants' = [grants EXCEPT ![g].age = a]
    BY <1>1
  <2>2. a \in {"fresh", "stale", "dead"}
    OBVIOUS
  <2> HIDE DEF a, g
  <2>3. g \in Grants
    BY DEF g
  <2> QED
    BY <2>1, <2>2, <2>3, Ages
<1>2. CASE grants' = grants
  BY <1>2 DEF Types, SameRows, SameRow, Grants
<1> QED
  BY <1>1, <1>2 DEF Judged

\* A request that a step leaves alone.
LEMMA LeftAlone ==
  ASSUME IInv, NEW c \in Calls, calls'[c] = calls[c]
  PROVE  Quiet(c) /\ StillOut(c)
BY DEF Quiet, StillOut, IInv, CallShape, Shape

(* A request with its answer.                                              *)
AsAnswer(x, out, g) == [x EXCEPT !.at = "answered", !.out = out, !.tok = g]

\* The fields of an answer.
LEMMA NewAnswer ==
  ASSUME NEW x \in CallType, NEW out \in Outs,
         NEW g \in Toks
  PROVE  /\ AsAnswer(x, out, g) \in CallType
         /\ AsAnswer(x, out, g).kind = x.kind /\ AsAnswer(x, out, g).doc = x.doc
         /\ AsAnswer(x, out, g).moved = x.moved /\ AsAnswer(x, out, g).tok = g
         /\ AsAnswer(x, out, g).at = "answered" /\ AsAnswer(x, out, g).out = out
BY DEF CallType, AsAnswer

\* What an answer makes of the request.
LEMMA Replies ==
  ASSUME Types, NEW c \in Calls, NEW out \in Outs,
         NEW g \in Toks, Reply(c, out, g)
  PROVE  /\ calls' \in [Calls -> CallType]
         /\ \A e \in Calls \ {c} : calls'[e] = calls[e]
         /\ calls[c].doc = "none" => calls'[c] = Idle
         /\ calls[c].doc # "none" =>
              /\ calls'[c].kind = calls[c].kind /\ calls'[c].doc = calls[c].doc
              /\ calls'[c].moved = calls[c].moved /\ calls'[c].tok = g
              /\ calls'[c].at = "answered" /\ calls'[c].out = out
<1>1. calls \in [Calls -> CallType]
  BY Fields DEF Types, Browser
<1>2. PICK x \in CallType : x = calls[c]
  BY <1>1
<1> DEFINE k == AsAnswer(x, out, g)
<1>3. /\ k \in CallType /\ k.kind = x.kind /\ k.doc = x.doc
      /\ k.moved = x.moved /\ k.tok = g /\ k.at = "answered" /\ k.out = out
  BY NewAnswer
<1>4. calls' = [calls EXCEPT ![c] = IF calls[c].doc = "none" THEN Idle ELSE k]
  BY <1>2 DEF Reply, AsAnswer
<1> HIDE DEF k
<1> QED
  BY <1>1, <1>2, <1>3, <1>4, Constants

(* A step of one of the kinds, that keeps the types and the shapes.        *)
Proper == Types' /\ CallShape' /\ Kinds

\* The shapes of the requests, after an answer.
LEMMA RepliesShape ==
  ASSUME IInv, NEW c \in Calls, NEW out \in Outs, NEW g \in Toks, Reply(c, out, g),
         docs' = docs, store' = store, turns' \in Nat,
         grants' \in Seq(RowType), Grants \subseteq Grants',
         calls[c].kind # "idle", out = "reused" => calls[c].kind = "refresh",
         g \in Grants' \/ (calls[c].kind = "login" /\ out # "ok")
  PROVE  Types' /\ CallShape'
<1>1. /\ calls' \in [Calls -> CallType]
      /\ \A e \in Calls \ {c} : calls'[e] = calls[e]
      /\ calls[c].doc = "none" => calls'[c] = Idle
      /\ calls[c].doc # "none" =>
           /\ calls'[c].kind = calls[c].kind /\ calls'[c].doc = calls[c].doc
           /\ calls'[c].moved = calls[c].moved /\ calls'[c].tok = g
           /\ calls'[c].at = "answered" /\ calls'[c].out = out
  BY Replies DEF IInv
<1>2. Types'
  <2>1. Browser' = [docs |-> docs, store |-> store, calls |-> calls'] /\ Browser \in Browsers
    BY DEF Browser, IInv, Types
  <2>2. Browser' \in Browsers
    BY <1>1, <2>1, Fields DEF Browsers, Browser
  <2> QED
    BY <2>2 DEF Types
<1>3. \A k \in CallType : Shape(k, docs, Grants) => Shape(k, docs', Grants')
  BY DEF Shape
<1>4. \A e \in Calls : calls[e] \in CallType /\ calls[e].doc \in Docs \cup {"none"}
  <2>1. \A e \in Calls : calls[e] \in CallType
    BY Spelt DEF IInv, Facts
  <2> QED
    BY <2>1 DEF CallType
<1>5. ASSUME NEW e \in Calls PROVE Shape(calls'[e], docs', Grants')
  <2>1. CASE e # c
    BY <1>1, <1>3, <1>4, <2>1 DEF IInv, CallShape
  <2>2. CASE e = c /\ calls[c].doc = "none"
    BY <1>1, <2>2 DEF Shape, Idle, Won, Docs
  <2>3. CASE e = c /\ calls[c].doc # "none"
    <3>1. Shape(calls[c], docs, Grants) /\ calls[c].doc \in Docs
      BY <1>4, <2>3 DEF IInv, CallShape
    <3> QED
      BY <1>1, <2>3, <3>1 DEF Shape, Won
  <2> QED
    BY <2>1, <2>2, <2>3
<1>6. ASSUME NEW e \in Calls PROVE WaitsFor(calls'[e], calls')
  <2>1. CASE e # c
    <3>1. /\ calls'[e] = calls[e] /\ Shape(calls[e], docs, Grants)
          /\ WaitsFor(calls[e], calls)
      BY <1>1, <2>1 DEF IInv, CallShape
    <3>2. "none" \notin Docs
      BY DEF Docs
    <3> QED
      BY <1>1, <3>1, <3>2 DEF WaitsFor, Shape
  <2>2. CASE e = c
    BY <1>1, <2>2 DEF WaitsFor, Idle
  <2> QED
    BY <2>1, <2>2
<1> QED
  BY <1>2, <1>5, <1>6 DEF CallShape

\* An answer that wins nothing is calm.
LEMMA CalmReply ==
  ASSUME IInv, NEW c \in Calls, NEW out \in Outs, Reply(c, out, calls[c].tok),
         docs' = docs, store' = store, turns' \in Nat, grants' \in Seq(RowType), SameRows,
         calls[c].kind # "idle", calls[c].at # "waits",
         calls[c].kind \in {"login", "refresh"} => out # "ok",
         out = "reused" => calls[c].kind = "refresh" /\ grants[calls[c].tok].shown > 1
  PROVE  Proper
<1>1. calls[c].tok \in Toks /\ calls[c] \in CallType
  BY Spelt DEF IInv, Facts, CallType
<1>2. calls[c].tok \in Grants \/ calls[c].kind = "login"
  BY <1>1 DEF IInv, CallShape, Shape, CallType
<1>3. Types' /\ CallShape'
  BY <1>1, <1>2, RepliesShape DEF SameRows
<1>4. /\ \A e \in Calls \ {c} : calls'[e] = calls[e]
      /\ calls[c].doc = "none" => calls'[c] = Idle
      /\ calls[c].doc # "none" =>
           /\ calls'[c].kind = calls[c].kind /\ calls'[c].doc = calls[c].doc
           /\ calls'[c].moved = calls[c].moved /\ calls'[c].tok = calls[c].tok
           /\ calls'[c].at = "answered" /\ calls'[c].out = out
  BY <1>1, Replies DEF IInv
<1>5. Idle.kind = "idle" /\ Idle.out = "ok"
  BY DEF Idle
<1>6. Quiet(c) /\ StillOut(c)
  BY <1>2, <1>4, <1>5 DEF Quiet, StillOut, Out, Won, Docs
<1>7. \A e \in Calls : Quiet(e) /\ StillOut(e)
  BY <1>4, <1>6, LeftAlone
<1>8. Calm
  BY <1>7 DEF Calm, SameDocs, SameTabs
<1> QED
  BY <1>3, <1>8 DEF Proper, Kinds

\* A row is appended.
LEMMA Appends ==
  ASSUME Types, NEW r \in RowType, grants' = Append(grants, r)
  PROVE  LET n == Len(grants) + 1
         IN  /\ n \in Nat /\ n # 0 /\ n \notin Grants
             /\ grants' \in Seq(RowType) /\ Len(grants') = n
             /\ Grants' = Grants \cup {n} /\ grants'[n] = r /\ \A g \in Grants : SameRow(g)
<1>1. Grants = 1 .. Len(grants) /\ Len(grants) \in Nat /\ grants \in Seq(RowType)
  BY LenProperties DEF Types, Grants
<1>2. /\ grants' \in Seq(RowType) /\ Len(grants') = Len(grants) + 1
      /\ \A i \in 1 .. Len(grants) : grants'[i] = grants[i]
      /\ grants'[Len(grants) + 1] = r
  BY <1>1, AppendProperties
<1>3. Grants' = 1 .. Len(grants) + 1
  BY <1>2, LenProperties DEF Grants
<1>4. \A g \in Grants : SameRow(g)
  BY <1>1, <1>2 DEF SameRow
<1> QED
  BY <1>1, <1>2, <1>3, <1>4

\* A grant as it is minted.
LEMMA Granted ==
  ASSUME NEW chain \in Nat, NEW from \in Nat
  PROVE  /\ Grant(chain, from) \in RowType
         /\ Grant(chain, from).chain = chain /\ Grant(chain, from).from = from
         /\ Grant(chain, from).shown = 0 /\ Grant(chain, from).cut = FALSE
BY DEF Grant, RowType

\* The grants are numbers from 1.
LEMMA Numbers == Types => Grants \subseteq Nat \cap Toks
BY LenProperties DEF Types, Grants, Toks

\* The answer that carries a new grant.
LEMMA MintingReply ==
  ASSUME IInv, NEW c \in Calls, NEW r \in RowType, grants' = Append(grants, r),
         Reply(c, "ok", Len(grants) + 1), UNCHANGED <<docs, store, turns>>,
         calls[c].kind # "idle", r.shown = 0, r.cut = FALSE
  PROVE  Types' /\ CallShape' /\ Mints(c, Len(grants) + 1)
<1>1. PICK n \in Nat : n = Len(grants) + 1
  BY Appends DEF IInv
<1>2. /\ n # 0 /\ n \notin Grants
      /\ grants' \in Seq(RowType) /\ Len(grants') = n
      /\ Grants' = Grants \cup {n} /\ grants'[n] = r /\ \A g \in Grants : SameRow(g)
  BY <1>1, Appends DEF IInv
<1>3. n \in Toks /\ "ok" \in Outs /\ turns' \in Nat /\ docs' = docs /\ store' = store
  BY DEF Toks, Outs, IInv, Types
<1>4. Types' /\ CallShape'
  BY <1>1, <1>2, <1>3, RepliesShape
<1>5. /\ \A e \in Calls \ {c} : calls'[e] = calls[e]
      /\ calls[c].doc = "none" => calls'[c] = Idle
      /\ calls[c].doc # "none" =>
           /\ calls'[c].kind = calls[c].kind /\ calls'[c].doc = calls[c].doc
           /\ calls'[c].moved = calls[c].moved /\ calls'[c].tok = n
           /\ calls'[c].at = "answered" /\ calls'[c].out = "ok"
  BY <1>1, <1>3, Replies DEF IInv
<1>6. Mints(c, n)
  BY <1>2, <1>3, <1>5 DEF Mints, SameDocs, SameTabs
<1> QED
  BY <1>1, <1>4, <1>6

\* The server signs a document in.
LEMMA Step_review_login ==
  ASSUME IInv, NEW c \in Calls, review_login(c)
  PROVE  Proper
<1>1. PICK n \in Nat : n = Len(grants) + 1
  BY LenProperties DEF IInv, Types
<1>2. /\ calls[c].kind = "login" /\ calls[c].at = "sent"
      /\ grants' = Append(grants, Grant(n, 0)) /\ Reply(c, "ok", n)
      /\ UNCHANGED <<docs, store, turns>>
  BY <1>1 DEF review_login
<1>3. /\ Grant(n, 0) \in RowType /\ Grant(n, 0).shown = 0 /\ Grant(n, 0).cut = FALSE
      /\ Grant(n, 0).chain = n /\ Grant(n, 0).from = 0
  BY DEF Grant, RowType
<1>4. Types' /\ CallShape' /\ Mints(c, n)
  BY <1>1, <1>2, <1>3, MintingReply
<1>5. grants'[n] = Grant(n, 0)
  BY <1>1, <1>2, <1>3, Appends DEF IInv
<1>6. MintsLogin(c, n)
  BY <1>2, <1>3, <1>4, <1>5 DEF MintsLogin
<1> QED
  BY <1>4, <1>6 DEF Proper, Kinds

\* The server answers a page request.
LEMMA Step_review_page ==
  ASSUME IInv, NEW c \in Calls, review_page(c)
  PROVE  Proper
<1>1. /\ calls[c].kind = "page" /\ calls[c].at = "sent" /\ calls[c].tok \in Grants
      /\ docs' = docs /\ store' = store /\ turns' = turns /\ turns \in Nat
  BY DEF review_page, IInv, Types, CallShape, Shape
<1>2. PICK v \in {"ok", "revoked", "expired"} :
        /\ Judged(c, v, grants')
        /\ IF v = "ok" THEN calls' = [calls EXCEPT ![c] = Idle]
                       ELSE Reply(c, v, calls[c].tok)
  BY DEF review_page
<1>3. grants' \in Seq(RowType) /\ SameRows
  BY <1>1, <1>2, Judges DEF IInv
<1>4. CASE v # "ok"
  <2>1. v \in Outs /\ v # "reused" /\ Reply(c, v, calls[c].tok)
    BY <1>2, <1>4 DEF Outs
  <2> QED
    BY <1>1, <1>3, <2>1, CalmReply
<1>5. CASE v = "ok"
  <2>1. calls' = [calls EXCEPT ![c] = Idle] /\ calls \in [Calls -> CallType]
    BY <1>2, <1>5, Fields DEF IInv, Types, Browser
  <2>2. calls'[c] = Idle /\ \A e \in Calls \ {c} : calls'[e] = calls[e]
    BY <2>1
  <2>3. Types'
    <3>1. Browser' = [docs |-> docs, store |-> store, calls |-> calls'] /\ Browser \in Browsers
      BY <1>1 DEF Browser, IInv, Types
    <3>2. calls' \in [Calls -> CallType]
      BY <2>1, Constants
    <3>3. Browser' \in Browsers
      BY <3>1, <3>2, Fields DEF Browsers, Browser
    <3> QED
      BY <1>1, <1>3, <3>3 DEF Types
  <2>4. CallShape'
    <3>1. ASSUME NEW e \in Calls PROVE Shape(calls'[e], docs', Grants')
      BY <1>1, <1>3, <2>2 DEF IInv, CallShape, Shape, SameRows, Idle, Won, Docs
    <3>2. ASSUME NEW e \in Calls PROVE WaitsFor(calls'[e], calls')
      BY <1>1, <2>2 DEF IInv, CallShape, WaitsFor, Idle
    <3> QED
      BY <3>1, <3>2 DEF CallShape
  <2>5. Quiet(c) /\ StillOut(c)
    BY <1>1, <2>2 DEF Quiet, StillOut, Idle
  <2>6. Calm
    BY <1>1, <1>3, <2>2, <2>5, LeftAlone DEF Calm, SameDocs, SameTabs
  <2> QED
    BY <2>3, <2>4, <2>6 DEF Proper, Kinds
<1> QED
  BY <1>4, <1>5

\* The server answers a logout.
LEMMA Step_review_logout ==
  ASSUME IInv, NEW c \in Calls, review_logout(c)
  PROVE  Proper
<1>1. /\ calls[c].kind = "logout" /\ calls[c].at = "sent" /\ calls[c].tok \in Grants
      /\ docs' = docs /\ store' = store /\ turns' = turns /\ turns \in Nat
  BY DEF review_logout, IInv, Types, CallShape, Shape
<1>2. PICK v \in {"ok", "revoked", "expired"} :
        /\ IF v = "ok" THEN Judged(c, v, grants) /\ grants' = revoke_review_chain(calls[c].tok)
                       ELSE Judged(c, v, grants')
        /\ Reply(c, v, calls[c].tok)
  BY DEF review_logout
<1>3. grants' \in Seq(RowType) /\ SameRows
  BY <1>1, <1>2, Judges, RevokesChain DEF IInv
<1>4. v \in Outs /\ v # "reused"
  BY DEF Outs
<1> QED
  BY <1>1, <1>2, <1>3, <1>4, CalmReply

\* The server reads the grant of a refresh.
LEMMA Step_RefreshReads ==
  ASSUME IInv, NEW c \in Calls, RefreshReads(c)
  PROVE  Proper
<1>0. PICK g \in Grants : g = calls[c].tok
  BY DEF RefreshReads, IInv, CallShape, Shape
<1>1. /\ calls[c].kind = "refresh" /\ calls[c].at = "sent"
      /\ docs' = docs /\ store' = store /\ turns' \in Nat
  BY DEF RefreshReads, Turn, IInv, Types
<1>2. \/ Reply(c, "revoked", g) /\ UNCHANGED grants
      \/ HasSuccessor(g) /\ grants' = revoke_review_chain(g) /\ Reply(c, "reused", g)
      \/ grants' = [grants EXCEPT ![g].age = "dead"] /\ Reply(c, "expired", g)
      \/ calls' = [calls EXCEPT ![c].at = "read"] /\ UNCHANGED grants
  BY <1>0 DEF RefreshReads, _reject_reused_refresh
<1>o. {"revoked", "reused", "expired"} \subseteq Outs
  BY DEF Outs
<1>s. grants' = grants => grants' \in Seq(RowType) /\ SameRows
  BY DEF IInv, Types, SameRows, SameRow, Grants
<1>3. CASE Reply(c, "revoked", g) /\ UNCHANGED grants
  BY <1>0, <1>1, <1>3, <1>o, <1>s, CalmReply
<1>4. CASE HasSuccessor(g) /\ grants' = revoke_review_chain(g) /\ Reply(c, "reused", g)
  <2>1. grants' \in Seq(RowType) /\ SameRows
    BY <1>4, RevokesChain DEF IInv
  <2>2. grants[g].shown > 1
    BY <1>0, <1>1, <1>4 DEF IInv, Shows, Counted, Out
  <2> QED
    BY <1>0, <1>1, <1>4, <1>o, <2>1, <2>2, CalmReply
<1>5. CASE grants' = [grants EXCEPT ![g].age = "dead"] /\ Reply(c, "expired", g)
  <2>1. grants' \in Seq(RowType) /\ SameRows
    BY <1>5, Ages DEF IInv
  <2> QED
    BY <1>0, <1>1, <1>5, <1>o, <2>1, CalmReply
<1>6. CASE calls' = [calls EXCEPT ![c].at = "read"] /\ UNCHANGED grants
  <2>1. calls \in [Calls -> CallType]
    BY Fields DEF IInv, Types, Browser
  <2> DEFINE k == [calls[c] EXCEPT !.at = "read"]
  <2>2. calls' = [calls EXCEPT ![c] = k]
    BY <1>6
  <2>3. /\ k \in CallType /\ k.kind = calls[c].kind /\ k.doc = calls[c].doc /\ k.tok = calls[c].tok
        /\ k.out = calls[c].out /\ k.moved = calls[c].moved /\ k.at = "read"
    BY <2>1 DEF CallType
  <2> HIDE DEF k
  <2>4. calls' \in [Calls -> CallType] /\ calls'[c] = k /\ \A e \in Calls \ {c} : calls'[e] = calls[e]
    BY <2>1, <2>2, <2>3
  <2>5. Types'
    <3>1. Browser' = [docs |-> docs, store |-> store, calls |-> calls'] /\ Browser \in Browsers
      BY <1>1 DEF Browser, IInv, Types
    <3>2. Browser' \in Browsers
      BY <2>4, <3>1, Fields DEF Browsers, Browser
    <3> QED
      BY <1>1, <1>6, <3>2 DEF IInv, Types
  <2>6. Grants' = Grants
    BY <1>6 DEF Grants
  <2>7. CallShape'
    <3>1. ASSUME NEW e \in Calls PROVE Shape(calls'[e], docs', Grants')
      BY <1>1, <2>3, <2>4, <2>6 DEF IInv, CallShape, Shape, Won
    <3>2. ASSUME NEW e \in Calls PROVE WaitsFor(calls'[e], calls')
      BY <1>1, <2>3, <2>4 DEF IInv, CallShape, WaitsFor
    <3> QED
      BY <3>1, <3>2 DEF CallShape
  <2>8. Quiet(c) /\ StillOut(c)
    BY <1>1, <2>3, <2>4 DEF Quiet, StillOut, Out, Won, IInv, CallShape, Shape
  <2>9. Calm
    BY <1>1, <1>6, <1>s, <2>4, <2>8, LeftAlone DEF Calm, SameDocs, SameTabs
  <2> QED
    BY <2>5, <2>7, <2>9 DEF Proper, Kinds
<1> QED
  BY <1>2, <1>3, <1>4, <1>5, <1>6

\* The server mints the successor, or rejects the reuse.
LEMMA Step_RefreshMints ==
  ASSUME IInv, NEW c \in Calls, RefreshMints(c)
  PROVE  Proper
<1>0. PICK g \in Grants : g = calls[c].tok
  BY DEF RefreshMints, IInv, CallShape, Shape
<1>1. /\ calls[c].kind = "refresh" /\ calls[c].at = "read" /\ Out(calls[c])
      /\ UNCHANGED <<docs, store, turns>> /\ turns \in Nat
  BY DEF RefreshMints, IInv, Types, Out
<1>2. \/ HasSuccessor(g) /\ grants' = revoke_review_chain(g) /\ Reply(c, "reused", g)
      \/ /\ ~ HasSuccessor(g) /\ grants' = Append(grants, Grant(ChainOf(g), g))
         /\ Reply(c, "ok", Len(grants'))
  BY <1>0 DEF RefreshMints, _reject_reused_refresh
<1>3. CASE HasSuccessor(g) /\ grants' = revoke_review_chain(g) /\ Reply(c, "reused", g)
  <2>1. grants' \in Seq(RowType) /\ SameRows
    BY <1>3, RevokesChain DEF IInv
  <2>2. grants[g].shown > 1
    BY <1>0, <1>1, <1>3 DEF IInv, Shows, Counted
  <2>3. "reused" \in Outs /\ turns' \in Nat /\ docs' = docs /\ store' = store
    BY <1>1 DEF Outs
  <2> QED
    BY <1>0, <1>1, <1>3, <2>1, <2>2, <2>3, CalmReply
<1>4. CASE /\ ~ HasSuccessor(g) /\ grants' = Append(grants, Grant(ChainOf(g), g))
           /\ Reply(c, "ok", Len(grants'))
  <2>1. PICK n \in Nat : n = Len(grants) + 1
    BY LenProperties DEF IInv, Types
  <2>2. PICK m \in Nat : m = ChainOf(g)
    BY Spelt DEF IInv, Facts, ChainOf
  <2>3. g \in Nat
    BY Numbers DEF IInv
  <2>4. /\ Grant(m, g) \in RowType /\ Grant(m, g).shown = 0 /\ Grant(m, g).cut = FALSE
        /\ Grant(m, g).chain = m /\ Grant(m, g).from = g
    BY <2>3, Granted
  <2>5. Len(grants') = n /\ grants'[n] = Grant(m, g)
    BY <1>4, <2>1, <2>2, <2>4, Appends DEF IInv
  <2>6. Types' /\ CallShape' /\ Mints(c, n)
    BY <1>1, <1>4, <2>1, <2>2, <2>4, <2>5, MintingReply
  <2>7. MintsRefresh(c, n)
    BY <1>0, <1>1, <1>4, <2>2, <2>4, <2>5, <2>6 DEF MintsRefresh
  <2> QED
    BY <2>6, <2>7 DEF Proper, Kinds
<1> QED
  BY <1>2, <1>3, <1>4

\* The request or its answer is lost.
LEMMA Step_FetchFails ==
  ASSUME IInv, NEW c \in Calls, FetchFails(c)
  PROVE  Proper
<1>1. /\ calls[c].kind \in {"login", "logout", "refresh"} /\ calls[c].at \in {"sent", "answered"}
      /\ docs' = docs /\ store' = store /\ turns' \in Nat /\ grants' = grants
      /\ Reply(c, "failed", calls[c].tok)
  BY DEF FetchFails, Turn, IInv, Types
<1>2. grants' \in Seq(RowType) /\ SameRows
  BY <1>1 DEF IInv, Types, SameRows, SameRow, Grants
<1>3. "failed" \in Outs
  BY DEF Outs
<1> QED
  BY <1>1, <1>2, <1>3, CalmReply

\* The operator revokes every grant.
LEMMA Step_review_revoke ==
  ASSUME IInv, review_revoke
  PROVE  Proper
<1>1. /\ docs' = docs /\ store' = store /\ calls' = calls /\ turns' \in Nat
      /\ grants' = Revoked(Grants)
  BY DEF review_revoke, Turn, IInv, Types
<1>2. grants' \in Seq(RowType) /\ SameRows
  BY <1>1, Revokes DEF IInv
<1>3. Types' /\ CallShape'
  BY <1>1, <1>2 DEF IInv, Types, CallShape, SameRows, Browser
<1>4. Calm
  BY <1>1, <1>2, LeftAlone DEF Calm, SameDocs, SameTabs
<1> QED
  BY <1>3, <1>4 DEF Proper, Kinds

-----------------------------------------------------------------------------
(* The steps of the documents.                                             *)

\* What the browser holds.
LEMMA HeldNow ==
  ASSUME IInv
  PROVE  /\ Browser \in Browsers
         /\ Browser.docs = docs /\ Browser.store = store /\ Browser.calls = calls
         /\ \A d \in Docs : Known(Browser, d) \subseteq Nat
<1>1. Browser \in Browsers /\ Browser.docs = docs /\ Browser.store = store /\ Browser.calls = calls
  BY DEF IInv, Types, Browser
<1>2. \A d \in Docs : docs[d].mem.acc # 0 => docs[d].mem.acc \in Grants
  BY DEF IInv, Named, Holds
<1>3. \A d \in Docs : Known(Browser, d) \subseteq Nat
  BY <1>1, <1>2, Spelt DEF Known, IInv, Facts, ChainOf
<1> QED
  BY <1>1, <1>3

\* What it becomes.
LEMMA Became ==
  ASSUME NEW r \in Browsers, Becomes(r), grants' \in Seq(RowType), turns' \in Nat
  PROVE  Types' /\ docs' = r.docs /\ store' = r.store /\ calls' = r.calls
<1>1. docs' = r.docs /\ store' = r.store /\ calls' = r.calls
  BY DEF Becomes
<1>2. Browser' = r
  BY <1>1 DEF Browser, Browsers
<1> QED
  BY <1>1, <1>2 DEF Types

\* Nothing happens to the rows.
LEMMA RowsStay ==
  ASSUME IInv, grants' = grants
  PROVE  grants' \in Seq(RowType) /\ SameRows /\ Grants' = Grants
BY DEF IInv, Types, SameRows, SameRow, Grants

\* The fields of a request that a clear has crossed.
LEMMA Crosses ==
  ASSUME NEW k \in CallType, NEW d \in Docs
  PROVE  /\ Crossed(k, d).kind = k.kind /\ Crossed(k, d).doc = k.doc /\ Crossed(k, d).tok = k.tok
         /\ Crossed(k, d).at = k.at /\ Crossed(k, d).out = k.out
         /\ k.moved => Crossed(k, d).moved
         /\ k.kind = "refresh" /\ k.doc = d => Crossed(k, d).moved
         /\ k.kind # "refresh" \/ k.doc # d => Crossed(k, d) = k
BY DEF Crossed, CallType

\* Requests outside of S that go on, are crossed by a clear of document d,
\* or end; none of those that a logout waits for ends.
LEMMA Lessened ==
  ASSUME IInv, NEW d \in Docs, NEW S,
         \A e \in Calls \ S : calls'[e] \in {calls[e], Idle, Crossed(calls[e], d)},
         \A e \in Calls \ S, f \in Calls :
           calls'[e].at = "waits" /\ calls[e].tok = f => calls'[f] \in {calls[f], Crossed(calls[f], d)},
         Grants' = Grants,
         \A f \in Docs : docs[f].at # "none" => docs'[f].at # "none"
  PROVE  \A e \in Calls \ S :
           /\ Shape(calls'[e], docs', Grants') /\ WaitsFor(calls'[e], calls') /\ Quiet(e)
           /\ calls[e].doc # d /\ (calls'[e] # Idle \/ calls[e].kind # "refresh") => StillOut(e)
<1>1. \A e \in Calls : /\ calls[e] \in CallType
                       /\ Shape(calls[e], docs, Grants) /\ WaitsFor(calls[e], calls)
  BY Spelt DEF IInv, CallShape, Facts
<1>2. /\ Idle.kind = "idle" /\ Idle.doc = "none" /\ Idle.at = "sent" /\ Idle.out = "ok"
      /\ "none" \notin Docs /\ ~ Won(Idle) /\ ~ Out(Idle)
  BY DEF Idle, Docs, Won, Out
<1> SUFFICES ASSUME NEW e \in Calls \ S
             PROVE  /\ Shape(calls'[e], docs', Grants') /\ WaitsFor(calls'[e], calls') /\ Quiet(e)
                    /\ calls[e].doc # d /\ (calls'[e] # Idle \/ calls[e].kind # "refresh") => StillOut(e)
  OBVIOUS
<1>3. CASE calls'[e] = Idle
  BY <1>2, <1>3 DEF Shape, WaitsFor, Quiet, StillOut
<1>4. CASE calls'[e] # Idle
  <2>1. /\ calls'[e].kind = calls[e].kind /\ calls'[e].doc = calls[e].doc
        /\ calls'[e].tok = calls[e].tok /\ calls'[e].at = calls[e].at /\ calls'[e].out = calls[e].out
        /\ calls[e].moved => calls'[e].moved
        /\ calls[e].kind # "refresh" \/ calls[e].doc # d => calls'[e] = calls[e]
    BY <1>1, <1>4, Crosses
  <2>2. Shape(calls'[e], docs', Grants')
    BY <1>1, <1>2, <1>4, <2>1 DEF Shape, Won
  <2>3. Quiet(e)
    BY <1>1, <2>1 DEF Quiet, Won, Out, Shape
  <2>4. calls[e].doc # d => StillOut(e)
    BY <2>1 DEF StillOut
  <2>5. ASSUME calls'[e].at = "waits"
        PROVE  /\ calls'[e].tok \in Calls /\ calls'[calls'[e].tok].kind = "refresh"
               /\ calls'[calls'[e].tok].doc = calls'[e].doc
    <3>1. PICK f \in Calls : f = calls[e].tok
      BY <1>1, <2>1, <2>5 DEF WaitsFor
    <3>2. calls[f].kind = "refresh" /\ calls[f].doc = calls[e].doc
      BY <1>1, <2>1, <2>5, <3>1 DEF WaitsFor
    <3>3. calls'[f] \in {calls[f], Crossed(calls[f], d)}
      BY <2>5, <3>1
    <3>4. calls'[f].kind = calls[f].kind /\ calls'[f].doc = calls[f].doc
      BY <1>1, <3>3, Crosses
    <3> QED
      BY <2>1, <3>1, <3>2, <3>4
  <2> QED
    BY <2>2, <2>3, <2>4, <2>5 DEF WaitsFor
<1> QED
  BY <1>3, <1>4

\* A browser that differs from the present one in requests and in the flight
\* of document d, when d is cleared.
LEMMA ClearStep ==
  ASSUME IInv, NEW b \in Browsers, NEW d \in Docs, b.store = store,
         \A e \in Docs \ {d} : b.docs[e] = docs[e],
         b.docs[d].at = docs[d].at, b.docs[d].mem = docs[d].mem, b.docs[d].forgot = docs[d].forgot
  PROVE  LET r == clearReviewSession(b, d)
         IN  /\ r \in Browsers
             /\ \A e \in Docs \ {d} : r.docs[e] = docs[e]
             /\ \A t \in Tabs \ {TabOf(d)} : r.store[t] = store[t]
             /\ r.docs[d].at = docs[d].at /\ r.docs[d].mem = NoLogin /\ r.docs[d].flight = 0
             /\ r.docs[d].forgot = docs[d].forgot \cup Known(Browser, d)
             /\ r.store[TabOf(d)] = NoLogin
             /\ \A c \in Calls : r.calls[c] = Crossed(b.calls[c], d)
<1>1. Known(b, d) = Known(Browser, d) /\ Known(b, d) \subseteq Nat
  BY HeldNow DEF Known
<1> DEFINE r == clearReviewSession(b, d)
<1>2. /\ r \in Browsers /\ Puts(r, b, d, Emptied(b.docs[d], Known(b, d)), NoLogin)
      /\ \A c \in Calls : r.calls[c] = Crossed(b.calls[c], d)
  BY <1>1, Clears
<1>3. b.docs[d] \in DocType
  BY Fields
<1>4. LET y == Emptied(b.docs[d], Known(b, d))
      IN  /\ y.at = b.docs[d].at /\ y.mem = NoLogin /\ y.flight = 0
          /\ y.forgot = b.docs[d].forgot \cup Known(b, d)
  BY <1>1, <1>3, Empties
<1> QED
  BY <1>1, <1>2, <1>4 DEF Puts

\* A login by other means: the review login is cleared.
LEMMA Step_leaveReview ==
  ASSUME IInv, NEW d \in Docs, leaveReview(d)
  PROVE  Proper
<1> DEFINE r == clearReviewSession(Browser, d)
<1>1. Shown(d) /\ Becomes(r) /\ grants' = grants /\ turns' \in Nat
  BY DEF leaveReview, Keeps, IInv, Types
<1>2. /\ r \in Browsers
      /\ \A e \in Docs \ {d} : r.docs[e] = docs[e]
      /\ \A t \in Tabs \ {TabOf(d)} : r.store[t] = store[t]
      /\ r.docs[d].at = docs[d].at /\ r.docs[d].mem = NoLogin /\ r.docs[d].flight = 0
      /\ r.docs[d].forgot = docs[d].forgot \cup Known(Browser, d)
      /\ r.store[TabOf(d)] = NoLogin
      /\ \A c \in Calls : r.calls[c] = Crossed(calls[c], d)
  BY HeldNow, ClearStep
<1> HIDE DEF r
<1>3. grants' \in Seq(RowType) /\ SameRows /\ Grants' = Grants
  BY <1>1, RowsStay
<1>4. Types' /\ docs' = r.docs /\ store' = r.store /\ calls' = r.calls
  BY <1>1, <1>2, <1>3, Became
<1>5. \A c \in Calls : calls'[c] = Crossed(calls[c], d)
  BY <1>2, <1>4
<1>6. \A e \in Calls :
        /\ Shape(calls'[e], docs', Grants') /\ WaitsFor(calls'[e], calls') /\ Quiet(e)
        /\ calls[e].doc # d /\ (calls'[e] # Idle \/ calls[e].kind # "refresh") => StillOut(e)
  <2>1. \A f \in Docs : docs[f].at # "none" => docs'[f].at # "none"
    BY <1>2, <1>4
  <2>2. \A e \in Calls \ {} : calls'[e] \in {calls[e], Idle, Crossed(calls[e], d)}
    BY <1>5
  <2>3. \A e \in Calls \ {}, f \in Calls :
          calls'[e].at = "waits" /\ calls[e].tok = f => calls'[f] \in {calls[f], Crossed(calls[f], d)}
    BY <1>5
  <2> QED
    BY <1>3, <2>1, <2>2, <2>3, Lessened
<1>7. CallShape'
  BY <1>6 DEF CallShape
<1>8. ASSUME NEW c \in Calls
      PROVE  /\ calls[c].doc # d => StillOut(c)
             /\ calls'[c].kind = "refresh" /\ calls'[c].doc = d => calls'[c].moved
  <2>1. calls[c] \in CallType /\ calls'[c] = Crossed(calls[c], d)
    BY <1>5, Spelt DEF IInv, Facts
  <2>2. /\ calls'[c].kind = "refresh" /\ calls'[c].doc = d => calls'[c].moved
        /\ calls[c].doc # d => calls'[c] = calls[c]
    BY <2>1, Crosses
  <2> QED
    BY <2>2, LeftAlone
<1>9. Leaves(d, 0)
  BY <1>1, <1>2, <1>3, <1>4, <1>6, <1>8, ReviewAssumption DEF Leaves, SameDocs, SameTabs, ReviewAssumption
<1> QED
  BY <1>4, <1>7, <1>9 DEF Proper, Kinds

\* A login by review code: the old one is cleared before the request.
LEMMA Step_reviewLogin ==
  ASSUME IInv, NEW d \in Docs, reviewLogin(d)
  PROVE  Proper
<1> DEFINE r == clearReviewSession(Browser, d)
<1>1. PICK s \in Slots : Becomes(InSlot(r, s, Call("login", d, 0)))
  BY DEF reviewLogin
<1>0. Shown(d) /\ grants' = grants /\ turns' \in Nat /\ s \in Calls /\ calls[s].kind = "idle"
  BY DEF reviewLogin, Turn, IInv, Types, Slots
<1>2. /\ r \in Browsers
      /\ \A e \in Docs \ {d} : r.docs[e] = docs[e]
      /\ \A t \in Tabs \ {TabOf(d)} : r.store[t] = store[t]
      /\ r.docs[d].at = docs[d].at /\ r.docs[d].mem = NoLogin /\ r.docs[d].flight = 0
      /\ r.docs[d].forgot = docs[d].forgot \cup Known(Browser, d)
      /\ r.store[TabOf(d)] = NoLogin
      /\ \A c \in Calls : r.calls[c] = Crossed(calls[c], d)
  BY HeldNow, ClearStep
<1> HIDE DEF r
<1>3. grants' \in Seq(RowType) /\ SameRows /\ Grants' = Grants
  BY <1>0, RowsStay
<1>k. /\ Call("login", d, 0) \in CallType /\ Call("login", d, 0).kind = "login"
      /\ Call("login", d, 0).doc = d /\ Call("login", d, 0).at = "sent"
      /\ Call("login", d, 0).out = "ok"
  BY DEF Call, Idle, CallType, Toks, Outs
<1>i. /\ InSlot(r, s, Call("login", d, 0)) \in Browsers
      /\ InSlot(r, s, Call("login", d, 0)).docs = r.docs /\ InSlot(r, s, Call("login", d, 0)).store = r.store
      /\ InSlot(r, s, Call("login", d, 0)).calls[s] = Call("login", d, 0)
      /\ \A e \in Calls \ {s} : InSlot(r, s, Call("login", d, 0)).calls[e] = r.calls[e]
  BY <1>0, <1>2, <1>k, Slotted
<1>4. /\ Types' /\ docs' = r.docs /\ store' = r.store
      /\ calls'[s] = Call("login", d, 0) /\ \A e \in Calls \ {s} : calls'[e] = Crossed(calls[e], d)
  BY <1>0, <1>1, <1>2, <1>3, <1>i, Became
<1>6. \A e \in Calls \ {s} :
        /\ Shape(calls'[e], docs', Grants') /\ WaitsFor(calls'[e], calls') /\ Quiet(e)
        /\ calls[e].doc # d /\ (calls'[e] # Idle \/ calls[e].kind # "refresh") => StillOut(e)
  <2>1. \A f \in Docs : docs[f].at # "none" => docs'[f].at # "none"
    BY <1>2, <1>4
  <2>2. \A e \in Calls \ {s} : calls'[e] \in {calls[e], Idle, Crossed(calls[e], d)}
    BY <1>4
  <2>3. ASSUME NEW e \in Calls \ {s}, NEW f \in Calls, calls'[e].at = "waits", calls[e].tok = f
        PROVE  calls'[f] \in {calls[f], Crossed(calls[f], d)}
    <3>1. calls[e] \in CallType /\ calls'[e] = Crossed(calls[e], d)
      BY <1>4, Spelt DEF IInv, Facts
    <3>2. calls[e].at = "waits"
      BY <2>3, <3>1, Crosses
    <3>3. f # s
      BY <1>0, <2>3, <3>2 DEF IInv, CallShape, WaitsFor
    <3> QED
      BY <1>4, <3>3
  <2> QED
    BY <1>3, <2>1, <2>2, <2>3, Lessened
<1>7. CallShape'
  <2>1. Shape(calls'[s], docs', Grants') /\ WaitsFor(calls'[s], calls')
    BY <1>0, <1>2, <1>4, <1>k DEF Shape, WaitsFor, Won, Shown
  <2> QED
    BY <1>6, <2>1 DEF CallShape
<1>8. ASSUME NEW c \in Calls \ {s}
      PROVE  /\ calls[c].doc # d => StillOut(c)
             /\ calls'[c].kind = "refresh" /\ calls'[c].doc = d => calls'[c].moved
  <2>1. calls[c] \in CallType /\ calls'[c] = Crossed(calls[c], d)
    BY <1>4, Spelt DEF IInv, Facts
  <2>2. /\ calls'[c].kind = "refresh" /\ calls'[c].doc = d => calls'[c].moved
        /\ calls[c].doc # d => calls'[c] = calls[c]
    BY <2>1, Crosses
  <2> QED
    BY <2>2, LeftAlone
<1>9. Leaves(d, s)
  BY <1>0, <1>2, <1>3, <1>4, <1>6, <1>8 DEF Leaves, SameDocs, SameTabs
<1> QED
  BY <1>0, <1>4, <1>7, <1>9 DEF Proper, Kinds

\* A document that is shown and signed in reads nothing from storage; nor
\* does one that is not signed in, for then nothing is stored.
LEMMA ReadsNoMore ==
  ASSUME IInv, NEW b \in Browsers, NEW d \in Docs, Shown(d), b.docs = docs, b.store = store
  PROVE  readReviewSession(b, d) = b
<1>1. docs[d].mem \in LoginType /\ store[TabOf(d)] = Stripped(docs[d].mem)
  BY Spelt DEF IInv, Pages, Facts
<1>2. docs[d].mem = NoLogin => store[TabOf(d)] = NoLogin
  BY <1>1, Strips, Constants
<1> QED
  BY <1>2, ReadsNothing

\* Nothing happens to the documents, and request c, which is no refresh,
\* becomes k, which is no login either.
LEMMA CalmSlot ==
  ASSUME IInv, NEW c \in Calls, NEW r \in Browsers, Becomes(r), r.docs = docs, r.store = store,
         \A e \in Calls \ {c} : r.calls[e] = calls[e],
         grants' = grants, turns' \in Nat,
         calls[c].kind # "refresh", r.calls[c].kind \notin {"login", "refresh"},
         r.calls[c].out = "ok", Shape(r.calls[c], docs, Grants), WaitsFor(r.calls[c], calls)
  PROVE  Proper
<1>2. grants' \in Seq(RowType) /\ SameRows /\ Grants' = Grants
  BY RowsStay
<1>3. /\ Types' /\ docs' = docs /\ store' = store
      /\ calls'[c] = r.calls[c] /\ \A e \in Calls \ {c} : calls'[e] = calls[e]
  BY <1>2, Became
<1>4. CallShape'
  <2>1. ASSUME NEW e \in Calls PROVE Shape(calls'[e], docs', Grants')
    BY <1>2, <1>3 DEF IInv, CallShape
  <2>2. ASSUME NEW e \in Calls PROVE WaitsFor(calls'[e], calls')
    BY <1>3 DEF IInv, CallShape, WaitsFor
  <2> QED
    BY <2>1, <2>2 DEF CallShape
<1>5. Quiet(c) /\ StillOut(c)
  BY <1>3 DEF Quiet, StillOut
<1>6. Calm
  BY <1>2, <1>3, <1>5, LeftAlone DEF Calm, SameDocs, SameTabs
<1> QED
  BY <1>3, <1>4, <1>6 DEF Proper, Kinds

\* A new request in a free slot.
LEMMA CalmRequest ==
  ASSUME IInv, NEW c \in Calls, NEW k \in CallType, Becomes(InSlot(Browser, c, k)),
         grants' = grants, turns' \in Nat, calls[c].kind # "refresh",
         k.kind \notin {"login", "refresh"}, k.out = "ok", Shape(k, docs, Grants), k.at # "waits"
  PROVE  Proper
<1> DEFINE r == InSlot(Browser, c, k)
<1>1. /\ r \in Browsers /\ r.docs = docs /\ r.store = store
      /\ r.calls[c] = k /\ \A e \in Calls \ {c} : r.calls[e] = calls[e]
  BY HeldNow, Slotted
<1>2. WaitsFor(k, calls)
  BY DEF WaitsFor
<1> HIDE DEF r
<1>3. Becomes(r)
  BY DEF r
<1> QED
  BY <1>1, <1>2, <1>3, CalmSlot

\* A request of a page.
LEMMA Step_fetchPage ==
  ASSUME IInv, NEW d \in Docs, fetchPage(d)
  PROVE  Proper
<1>1. readReviewSession(Browser, d) = Browser
  BY HeldNow, ReadsNoMore DEF fetchPage, sends
<1>2. PICK c \in Slots : Becomes(InSlot(Browser, c, Call("page", d, docs[d].mem.acc)))
  BY <1>1, HeldNow DEF fetchPage, sends
<1>3. /\ Shown(d) /\ docs[d].mem # NoLogin /\ grants' = grants /\ turns' \in Nat
      /\ c \in Calls /\ calls[c].kind = "idle"
  BY <1>1, HeldNow DEF fetchPage, sends, Slots, Keeps, IInv, Types
<1>4. PICK g \in Grants : g = docs[d].mem.acc
  BY <1>3, Spelt, Strips DEF IInv, Facts, Named, Holds
<1>5. /\ Call("page", d, g) \in CallType /\ Call("page", d, g).kind = "page"
      /\ Call("page", d, g).doc = d /\ Call("page", d, g).tok = g
      /\ Call("page", d, g).at = "sent" /\ Call("page", d, g).out = "ok"
  <2>1. g \in Nat
    BY Numbers DEF IInv
  <2> QED
    BY <2>1 DEF Call, Idle, CallType, Toks, Outs
<1>6. Shape(Call("page", d, g), docs, Grants)
  BY <1>3, <1>5 DEF Shape, Won, Shown
<1> QED
  BY <1>2, <1>3, <1>4, <1>5, <1>6, CalmRequest

\* A logout.
LEMMA Step_reviewLogout ==
  ASSUME IInv, NEW d \in Docs, reviewLogout(d)
  PROVE  Proper
<1>1. readReviewSession(Browser, d) = Browser
  BY HeldNow, ReadsNoMore DEF reviewLogout, sends
<1>2. PICK c \in Slots : Becomes(InSlot(Browser, c, Call("logout", d, docs[d].mem.acc)))
  BY <1>1, HeldNow DEF reviewLogout, sends
<1>3. /\ Shown(d) /\ docs[d].mem # NoLogin /\ grants' = grants /\ turns' \in Nat
      /\ c \in Calls /\ calls[c].kind = "idle"
  BY <1>1, HeldNow DEF reviewLogout, sends, Slots, Keeps, IInv, Types
<1>4. PICK g \in Grants : g = docs[d].mem.acc
  BY <1>3, Spelt, Strips DEF IInv, Facts, Named, Holds
<1>5. /\ Call("logout", d, g) \in CallType /\ Call("logout", d, g).kind = "logout"
      /\ Call("logout", d, g).doc = d /\ Call("logout", d, g).tok = g
      /\ Call("logout", d, g).at = "sent" /\ Call("logout", d, g).out = "ok"
  <2>1. g \in Nat
    BY Numbers DEF IInv
  <2> QED
    BY <2>1 DEF Call, Idle, CallType, Toks, Outs
<1>6. Shape(Call("logout", d, g), docs, Grants)
  BY <1>3, <1>5 DEF Shape, Won, Shown
<1> QED
  BY <1>2, <1>3, <1>4, <1>5, <1>6, CalmRequest

\* A slot that is given back.
LEMMA Frees ==
  ASSUME IInv, NEW c \in Calls
  PROVE  /\ Done(Browser, c) \in Browsers
         /\ Done(Browser, c).docs = docs /\ Done(Browser, c).store = store
         /\ Done(Browser, c).calls[c] = Idle
         /\ \A e \in Calls \ {c} : Done(Browser, c).calls[e] = calls[e]
BY HeldNow, Constants, Slotted DEF Done

\* An answer of no consequence.
LEMMA CalmEnd ==
  ASSUME IInv, NEW c \in Calls, Becomes(Done(Browser, c)), grants' = grants, turns' \in Nat,
         calls[c].kind # "refresh"
  PROVE  Proper
<1> DEFINE r == Done(Browser, c)
<1>1. /\ r \in Browsers /\ r.docs = docs /\ r.store = store
      /\ r.calls[c] = Idle /\ \A e \in Calls \ {c} : r.calls[e] = calls[e]
  BY Frees
<1>2. /\ Shape(Idle, docs, Grants) /\ WaitsFor(Idle, calls)
      /\ Idle.kind \notin {"login", "refresh"} /\ Idle.out = "ok"
  BY DEF Shape, WaitsFor, Idle, Won, Docs
<1> HIDE DEF r
<1>3. Becomes(r)
  BY DEF r
<1> QED
  BY <1>1, <1>2, <1>3, CalmSlot

\* An answer that clears the document.
LEMMA ClearingEnd ==
  ASSUME IInv, NEW c \in Calls, NEW d \in Docs, Shown(d),
         Becomes(clearReviewSession(Done(Browser, c), d)),
         grants' = grants, turns' \in Nat, calls[c].kind # "refresh"
  PROVE  Proper
<1> DEFINE b == Done(Browser, c)
           r == clearReviewSession(b, d)
<1>1. /\ b \in Browsers /\ b.docs = docs /\ b.store = store
      /\ b.calls[c] = Idle /\ \A e \in Calls \ {c} : b.calls[e] = calls[e]
  BY Frees
<1> HIDE DEF b
<1>2. /\ r \in Browsers
      /\ \A e \in Docs \ {d} : r.docs[e] = docs[e]
      /\ \A t \in Tabs \ {TabOf(d)} : r.store[t] = store[t]
      /\ r.docs[d].at = docs[d].at /\ r.docs[d].mem = NoLogin /\ r.docs[d].flight = 0
      /\ r.docs[d].forgot = docs[d].forgot \cup Known(Browser, d)
      /\ r.store[TabOf(d)] = NoLogin
      /\ \A e \in Calls : r.calls[e] = Crossed(b.calls[e], d)
  BY <1>1, ClearStep
<1>b. Becomes(r)
  BY DEF b
<1> HIDE DEF r
<1>3. grants' \in Seq(RowType) /\ SameRows /\ Grants' = Grants
  BY RowsStay
<1>5. Idle.kind = "idle" /\ Crossed(Idle, d) = Idle
  BY DEF Idle, Crossed
<1>4. /\ Types' /\ docs' = r.docs /\ store' = r.store
      /\ calls'[c] = Idle /\ \A e \in Calls \ {c} : calls'[e] = Crossed(calls[e], d)
  BY <1>1, <1>2, <1>3, <1>5, <1>b, Became
<1>6. \A e \in Calls :
        /\ Shape(calls'[e], docs', Grants') /\ WaitsFor(calls'[e], calls') /\ Quiet(e)
        /\ calls[e].doc # d /\ (calls'[e] # Idle \/ calls[e].kind # "refresh") => StillOut(e)
  <2>0. PICK S : S = {}
    OBVIOUS
  <2>1. \A f \in Docs : docs[f].at # "none" => docs'[f].at # "none"
    BY <1>2, <1>4
  <2>2. \A e \in Calls \ S : calls'[e] \in {calls[e], Idle, Crossed(calls[e], d)}
    BY <1>4
  <2>3. \A e \in Calls \ S, f \in Calls :
          calls'[e].at = "waits" /\ calls[e].tok = f => calls'[f] \in {calls[f], Crossed(calls[f], d)}
    <3> SUFFICES ASSUME NEW e \in Calls, NEW f \in Calls, calls'[e].at = "waits", calls[e].tok = f
                 PROVE  calls'[f] \in {calls[f], Crossed(calls[f], d)}
      OBVIOUS
    <3>0. Idle.at = "sent"
      BY DEF Idle
    <3>1. calls[e] \in CallType /\ calls'[e] = Crossed(calls[e], d)
      BY <1>4, <3>0, Spelt DEF IInv, Facts
    <3>2. calls[e].at = "waits"
      BY <3>1, Crosses
    <3>3. f # c
      BY <3>2 DEF IInv, CallShape, WaitsFor
    <3> QED
      BY <1>4, <3>3
  <2>4. \A e \in Calls \ S :
          /\ Shape(calls'[e], docs', Grants') /\ WaitsFor(calls'[e], calls') /\ Quiet(e)
          /\ calls[e].doc # d /\ (calls'[e] # Idle \/ calls[e].kind # "refresh") => StillOut(e)
    BY <1>3, <2>1, <2>2, <2>3, Lessened
  <2> QED
    BY <2>0, <2>4
<1>7. CallShape'
  BY <1>6 DEF CallShape
<1>8. ASSUME NEW e \in Calls
      PROVE  /\ calls[e].doc # d => StillOut(e)
             /\ calls'[e].kind = "refresh" /\ calls'[e].doc = d => calls'[e].moved
  <2>1. CASE e = c
    BY <1>4, <1>5, <2>1 DEF StillOut
  <2>2. CASE e # c
    <3>1. calls[e] \in CallType /\ calls'[e] = Crossed(calls[e], d)
      BY <1>4, <2>2, Spelt DEF IInv, Facts
    <3>2. /\ calls'[e].kind = "refresh" /\ calls'[e].doc = d => calls'[e].moved
          /\ calls[e].doc # d => calls'[e] = calls[e]
      BY <3>1, Crosses
    <3> QED
      BY <3>2, LeftAlone
  <2> QED
    BY <2>1, <2>2
<1>9. Leaves(d, 0)
  BY <1>2, <1>3, <1>4, <1>6, <1>8, ReviewAssumption DEF Leaves, SameDocs, SameTabs, ReviewAssumption
<1> QED
  BY <1>4, <1>7, <1>9 DEF Proper, Kinds

\* A page or a logout is answered.
LEMMA Step_FetchAnswered ==
  ASSUME IInv, NEW c \in Calls, FetchAnswered(c)
  PROVE  Proper
<1>1. PICK d \in Docs : d = calls[c].doc
  BY DEF FetchAnswered, Answered, IInv, CallShape, Shape
<1>2. /\ Shown(d) /\ calls[c].kind # "refresh" /\ grants' = grants /\ turns' \in Nat
  BY <1>1 DEF FetchAnswered, Answered, Keeps, IInv, Types
<1>3. \/ Becomes(clearReviewSession(Done(Browser, c), d))
      \/ Becomes(Done(Browser, c))
  BY <1>1 DEF FetchAnswered, dropUnrecoverableReviewSession
<1> QED
  BY <1>2, <1>3, CalmEnd, ClearingEnd

\* A document whose refresh has come to its end, and what it becomes when it
\* is signed in.
LEMMA SignStep ==
  ASSUME IInv, NEW b \in Browsers, NEW d \in Docs, NEW g \in Nat, b.store = store,
         \A e \in Docs \ {d} : b.docs[e] = docs[e],
         b.docs[d].at = docs[d].at, b.docs[d].forgot = docs[d].forgot
  PROVE  LET r == rememberReviewSession(b, d, g)
         IN  /\ r \in Browsers /\ r.calls = b.calls
             /\ \A e \in Docs \ {d} : r.docs[e] = docs[e]
             /\ \A t \in Tabs \ {TabOf(d)} : r.store[t] = store[t]
             /\ r.docs[d].at = docs[d].at /\ r.docs[d].mem = Login(g) /\ r.docs[d].flight = b.docs[d].flight
             /\ r.docs[d].forgot = docs[d].forgot
             /\ r.store[TabOf(d)] = Stripped(Login(g))
<1> DEFINE r == rememberReviewSession(b, d, g)
           y == [b.docs[d] EXCEPT !.mem = Login(g)]
<1>1. /\ r \in Browsers /\ r.calls = b.calls
      /\ Puts(r, b, d, y, Stripped(Login(g)))
  BY Remembers
<1>2. /\ y.mem = Login(g) /\ y.at = b.docs[d].at /\ y.flight = b.docs[d].flight
      /\ y.forgot = b.docs[d].forgot
  BY Fields, Logins, Takes
<1> HIDE DEF y
<1> QED
  BY <1>1, <1>2 DEF Puts

\* The answer of a login.
LEMMA Step_LoginAnswered ==
  ASSUME IInv, NEW c \in Calls, LoginAnswered(c)
  PROVE  Proper
<1>1. PICK d \in Docs : d = calls[c].doc
  BY DEF LoginAnswered, Answered, IInv, CallShape, Shape
<1>2. /\ Shown(d) /\ calls[c].kind = "login" /\ calls[c].at = "answered"
      /\ grants' = grants /\ turns' \in Nat
  BY <1>1 DEF LoginAnswered, Answered, Keeps, IInv, Types
<1>3. CASE calls[c].out # "ok"
  BY <1>2, <1>3, CalmEnd DEF LoginAnswered
<1>4. CASE calls[c].out = "ok"
  <2>1. Won(calls[c])
    BY <1>2, <1>4 DEF Won
  <2>2. PICK g \in Grants : g = calls[c].tok
    BY <2>1 DEF IInv, CallShape, Shape
  <2>3. g \in Nat
    BY Numbers DEF IInv
  <2> DEFINE b == Done(Browser, c)
             r == rememberReviewSession(b, d, g)
  <2>5. /\ b \in Browsers /\ b.docs = docs /\ b.store = store
        /\ b.calls[c] = Idle /\ \A e \in Calls \ {c} : b.calls[e] = calls[e]
    BY Frees
  <2>b. Becomes(r)
    BY <1>1, <1>4, <2>2 DEF LoginAnswered
  <2> HIDE DEF b
  <2>6. /\ r \in Browsers /\ r.calls = b.calls
        /\ \A e \in Docs \ {d} : r.docs[e] = docs[e]
        /\ \A t \in Tabs \ {TabOf(d)} : r.store[t] = store[t]
        /\ r.docs[d].at = docs[d].at /\ r.docs[d].mem = Login(g) /\ r.docs[d].flight = docs[d].flight
        /\ r.docs[d].forgot = docs[d].forgot
        /\ r.store[TabOf(d)] = Stripped(Login(g))
    BY <2>3, <2>5, SignStep
  <2> HIDE DEF r
  <2>7. grants' \in Seq(RowType) /\ SameRows /\ Grants' = Grants
    BY <1>2, RowsStay
  <2>8. /\ Types' /\ docs' = r.docs /\ store' = r.store
        /\ calls'[c] = Idle /\ \A e \in Calls \ {c} : calls'[e] = calls[e]
    BY <1>2, <2>5, <2>6, <2>7, <2>b, Became
  <2>9. CallShape'
    <3>0. \A f \in Docs : docs'[f].at = docs[f].at
      BY <2>6, <2>8
    <3>1. ASSUME NEW e \in Calls PROVE Shape(calls'[e], docs', Grants')
      BY <2>7, <2>8, <3>0 DEF IInv, CallShape, Shape, Idle, Won, Docs
    <3>2. ASSUME NEW e \in Calls PROVE WaitsFor(calls'[e], calls')
      BY <1>2, <2>8 DEF IInv, CallShape, WaitsFor, Idle
    <3> QED
      BY <3>1, <3>2 DEF CallShape
  <2>10. Signs(d, c)
    BY <1>1, <1>2, <2>1, <2>2, <2>6, <2>7, <2>8, LeftAlone DEF Signs, SameDocs, SameTabs
  <2> QED
    BY <2>8, <2>9, <2>10 DEF Proper, Kinds
<1> QED
  BY <1>3, <1>4

\* A refresh token is presented to the server.
LEMMA Presented ==
  ASSUME Types, NEW g \in Grants, Presents(g)
  PROVE  /\ grants' \in Seq(RowType) /\ Grants' = Grants /\ \A h \in Grants \ {g} : SameRow(h)
         /\ grants'[g].chain = grants[g].chain /\ grants'[g].from = grants[g].from
         /\ grants'[g].cut = grants[g].cut
         /\ grants'[g].shown = IF grants[g].shown < 2 THEN grants[g].shown + 1 ELSE grants[g].shown
<1> DEFINE n == IF grants[g].shown < 2 THEN grants[g].shown + 1 ELSE grants[g].shown
           x == [grants[g] EXCEPT !.shown = n]
<1>1. \A h \in Grants : grants[h] \in RowType
  BY Rows
<1>2. n \in 0 .. 2
  BY <1>1 DEF RowType
<1>3. grants' = [grants EXCEPT ![g] = x]
  BY DEF Presents
<1> HIDE DEF n
<1>4. /\ x \in RowType /\ x.chain = grants[g].chain /\ x.from = grants[g].from
      /\ x.cut = grants[g].cut /\ x.shown = n
  BY <1>1, <1>2 DEF RowType
<1> HIDE DEF x
<1>5. \A h \in Grants : grants'[h] = IF h = g THEN x ELSE grants[h]
  BY <1>3 DEF Grants
<1>6. grants' \in [Grants -> RowType]
  <2>1. grants' = [h \in Grants |-> grants'[h]]
    BY <1>3 DEF Grants
  <2> QED
    BY <1>1, <1>4, <1>5, <2>1
<1>7. grants' \in Seq(RowType) /\ Grants' = Grants
  BY <1>6, Rewrites
<1> QED
  BY <1>4, <1>5, <1>7 DEF n, SameRow

\* The flight of a refresh in slot s, asked for by request c.
LEMMA FlownStep ==
  ASSUME IInv, NEW d \in Docs, NEW s \in Calls, NEW c \in Calls, NEW r \in Browsers, Becomes(r),
         Presents(docs[d].mem.ref), turns' \in Nat, docs[d].mem.ref # 0, docs[d].flight = 0,
         Shown(d), calls[s].kind \notin {"login", "refresh"}, calls[c].kind \in {"page", "logout"},
         r.store = store, \A e \in Docs \ {d} : r.docs[e] = docs[e],
         r.docs[d] = [docs[d] EXCEPT !.flight = s],
         r.calls[s] = Call("refresh", d, docs[d].mem.ref),
         \A e \in Calls \ {s, c} : r.calls[e] = calls[e],
         c # s => /\ r.calls[c].kind = "logout" /\ r.calls[c].at = "waits" /\ r.calls[c].tok = s
                  /\ r.calls[c].doc = d /\ r.calls[c].out = "ok"
  PROVE  Proper
<1>0. PICK g \in Grants : g = docs[d].mem.ref
  BY DEF IInv, Named, Holds
<1>1. /\ grants' \in Seq(RowType) /\ Grants' = Grants /\ \A h \in Grants \ {g} : SameRow(h)
      /\ grants'[g].chain = grants[g].chain /\ grants'[g].from = grants[g].from
      /\ grants'[g].cut = grants[g].cut
      /\ grants'[g].shown = IF grants[g].shown < 2 THEN grants[g].shown + 1 ELSE grants[g].shown
  BY <1>0, Presented DEF IInv
<1>2. Types' /\ docs' = r.docs /\ store' = r.store /\ calls' = r.calls
  BY <1>1, Became
<1>3. /\ docs'[d].at = docs[d].at /\ docs'[d].mem = docs[d].mem /\ docs'[d].flight = s
      /\ docs'[d].forgot = docs[d].forgot
  <2>1. docs[d] \in DocType
    BY HeldNow, Fields
  <2>2. LET y == [docs[d] EXCEPT !.flight = s]
        IN  y.at = docs[d].at /\ y.mem = docs[d].mem /\ y.flight = s /\ y.forgot = docs[d].forgot
    BY <2>1 DEF DocType
  <2> QED
    BY <1>2, <2>2
<1>4. /\ Call("refresh", d, g).kind = "refresh" /\ Call("refresh", d, g).doc = d
      /\ Call("refresh", d, g).tok = g /\ Call("refresh", d, g).at = "sent"
      /\ Call("refresh", d, g).out = "ok" /\ ~ Call("refresh", d, g).moved
  BY DEF Call, Idle
<1>5. /\ calls'[s] = Call("refresh", d, g) /\ \A e \in Calls \ {s, c} : calls'[e] = calls[e]
      /\ c # s => /\ calls'[c].kind = "logout" /\ calls'[c].at = "waits" /\ calls'[c].tok = s
                  /\ calls'[c].doc = d /\ calls'[c].out = "ok"
  BY <1>0, <1>2
<1>6. \A f \in Docs : docs'[f].at = docs[f].at
  BY <1>2, <1>3
<1>7. CallShape'
  <2>1. ASSUME NEW e \in Calls PROVE Shape(calls'[e], docs', Grants')
    <3>1. CASE e = s
      BY <1>1, <1>3, <1>4, <1>5, <3>1 DEF Shape, Won, Shown
    <3>2. CASE e = c /\ c # s
      BY <1>3, <1>5, <3>2 DEF Shape, Won, Shown
    <3>3. CASE e \notin {s, c}
      BY <1>1, <1>5, <1>6, <3>3 DEF IInv, CallShape, Shape
    <3> QED
      BY <3>1, <3>2, <3>3
  <2>2. ASSUME NEW e \in Calls PROVE WaitsFor(calls'[e], calls')
    <3>1. CASE e = s
      BY <1>4, <1>5, <3>1 DEF WaitsFor
    <3>2. CASE e = c /\ c # s
      BY <1>4, <1>5, <3>2 DEF WaitsFor
    <3>3. CASE e \notin {s, c}
      BY <1>5, <3>3 DEF IInv, CallShape, WaitsFor
    <3> QED
      BY <3>1, <3>2, <3>3
  <2> QED
    BY <2>1, <2>2 DEF CallShape
<1>8. \A e \in Calls \ {s} : Quiet(e) /\ StillOut(e)
  <2>1. c # s => Quiet(c) /\ StillOut(c)
    BY <1>5 DEF Quiet, StillOut
  <2> QED
    BY <1>5, <2>1, LeftAlone
<1>9. Flown(d, s)
  BY <1>0, <1>1, <1>2, <1>3, <1>5, <1>8 DEF Flown, SameDocs, SameTabs
<1> QED
  BY <1>2, <1>7, <1>9 DEF Proper, Kinds

\* The fields of a document with a flight.
LEMMA Lifts ==
  ASSUME NEW x \in DocType, NEW f \in Calls \cup {0}
  PROVE  LET y == [x EXCEPT !.flight = f]
         IN  /\ y \in DocType /\ y.flight = f
             /\ y.at = x.at /\ y.reload = x.reload /\ y.mem = x.mem /\ y.forgot = x.forgot
             /\ x.flight = f => y = x
BY DEF DocType

\* A flight of document d in slot s.
LEMMA FliesTo ==
  ASSUME NEW b \in Browsers, NEW d \in Docs, NEW s \in Calls, b.docs[d].mem.ref \in Toks
  PROVE  LET r == Flies(b, d, s)
         IN  /\ r \in Browsers /\ r.store = b.store
             /\ \A e \in Docs \ {d} : r.docs[e] = b.docs[e]
             /\ r.docs[d] = [b.docs[d] EXCEPT !.flight = s]
             /\ r.calls[s] = Call("refresh", d, b.docs[d].mem.ref)
             /\ \A e \in Calls \ {s} : r.calls[e] = b.calls[e]
<1> DEFINE y == [b.docs[d] EXCEPT !.flight = s]
           m == InPlace(b, d, y)
           k == Call("refresh", d, b.docs[d].mem.ref)
           r == InSlot(m, s, k)
<1>1. y \in DocType
  BY Fields, Lifts
<1>2. k \in CallType
  BY DEF Call, Idle, CallType, Outs
<1>3. Flies(b, d, s) = r
  BY DEF Flies
<1> HIDE DEF y, k
<1>4. /\ m \in Browsers /\ m.calls = b.calls /\ m.store = b.store
      /\ m.docs[d] = y /\ \A e \in Docs \ {d} : m.docs[e] = b.docs[e]
  BY <1>1, Placed
<1> HIDE DEF m
<1>5. /\ r \in Browsers /\ r.docs = m.docs /\ r.store = m.store
      /\ r.calls[s] = k /\ \A e \in Calls \ {s} : r.calls[e] = m.calls[e]
  BY <1>2, <1>4, Slotted
<1>6. /\ r \in Browsers /\ r.store = b.store
      /\ \A e \in Docs \ {d} : r.docs[e] = b.docs[e]
      /\ r.docs[d] = y /\ r.calls[s] = k
      /\ \A e \in Calls \ {s} : r.calls[e] = b.calls[e]
  BY <1>4, <1>5
<1> QED
  BY <1>3, <1>6 DEF y, k

\* A logout that waits in slot c.
LEMMA WaitsTo ==
  ASSUME NEW b \in Browsers, NEW d \in Docs, NEW c \in Calls, NEW f \in Calls,
         calls[c].kind = "logout"
  PROVE  LET r == Waits(b, d, c, f)
         IN  /\ r \in Browsers /\ r.store = b.store /\ r.docs = b.docs
             /\ r.calls[c].kind = "logout" /\ r.calls[c].doc = d /\ r.calls[c].tok = f
             /\ r.calls[c].at = "waits" /\ r.calls[c].out = "ok"
             /\ \A e \in Calls \ {c} : r.calls[e] = b.calls[e]
<1> DEFINE k == [Call("logout", d, f) EXCEPT !.at = "waits"]
           r == InSlot(b, c, k)
<1>1. /\ k \in CallType /\ k.kind = "logout" /\ k.doc = d /\ k.tok = f
      /\ k.at = "waits" /\ k.out = "ok"
  BY NewWaiting
<1>2. Waits(b, d, c, f) = r
  BY DEF Waits
<1> HIDE DEF k
<1>3. /\ r \in Browsers /\ r.docs = b.docs /\ r.store = b.store
      /\ r.calls[c] = k /\ \A e \in Calls \ {c} : r.calls[e] = b.calls[e]
  BY <1>1, Slotted
<1> HIDE DEF r
<1> QED
  BY <1>1, <1>2, <1>3

\* An expired access token: a new flight, a flight under way, or the end.
LEMMA Step_FetchExpired ==
  ASSUME IInv, NEW c \in Calls, FetchExpired(c)
  PROVE  Proper
<1>1. PICK d \in Docs : d = calls[c].doc
  BY DEF FetchExpired, Answered, IInv, CallShape, Shape
<1>2. Shown(d) /\ calls[c].kind \in {"page", "logout"} /\ turns' \in Nat
  BY <1>1 DEF FetchExpired, Answered, IInv, Types
<1> DEFINE b == Done(Browser, c)
           g == docs[d].mem.ref
<1>3. /\ b \in Browsers /\ b.docs = docs /\ b.store = store
      /\ b.calls[c] = Idle /\ \A e \in Calls \ {c} : b.calls[e] = calls[e]
  BY Frees
<1>4. readReviewSession(b, d) = b
  BY <1>2, <1>3, ReadsNoMore
<1>5. \/ Becomes(clearReviewSession(Done(Browser, c), d)) /\ UNCHANGED grants
      \/ g # 0 /\ docs[d].flight # 0 /\ Becomes(Waits(b, d, c, docs[d].flight)) /\ UNCHANGED grants
      \/ /\ g # 0 /\ docs[d].flight = 0 /\ Presents(g)
         /\ \/ calls[c].kind = "page" /\ Becomes(Flies(b, d, c))
            \/ calls[c].kind = "logout" /\ \E f \in Slots : Becomes(Waits(Flies(b, d, f), d, c, f))
  BY <1>1, <1>3, <1>4 DEF FetchExpired, refreshReviewSession, dropUnrecoverableReviewSession
<1>6. CASE Becomes(clearReviewSession(Done(Browser, c), d)) /\ UNCHANGED grants
  BY <1>2, <1>6, ClearingEnd
<1>7. CASE g # 0 /\ docs[d].flight # 0 /\ Becomes(Waits(b, d, c, docs[d].flight)) /\ UNCHANGED grants
  <2>1. CASE calls[c].kind = "page"
    <3>1. Becomes(Done(Browser, c))
      BY <1>7, <2>1 DEF Waits
    <3> QED
      BY <1>2, <1>7, <3>1, CalmEnd
  <2>2. CASE calls[c].kind = "logout"
    <3>1. PICK f \in Calls : f = docs[d].flight
      BY <1>7, Spelt DEF IInv, Facts
    <3>2. calls[f].kind = "refresh" /\ calls[f].doc = d
      BY <1>7, <3>1 DEF IInv, Flights
    <3> DEFINE r == Waits(b, d, c, f)
    <3>3. /\ r \in Browsers /\ r.store = store /\ r.docs = docs
          /\ r.calls[c].kind = "logout" /\ r.calls[c].doc = d /\ r.calls[c].tok = f
          /\ r.calls[c].at = "waits" /\ r.calls[c].out = "ok"
          /\ \A e \in Calls \ {c} : r.calls[e] = calls[e]
      BY <1>3, <2>2, WaitsTo
    <3>4. Becomes(r)
      BY <1>7, <3>1
    <3> HIDE DEF r
    <3>5. Shape(r.calls[c], docs, Grants) /\ WaitsFor(r.calls[c], calls)
      BY <1>2, <3>2, <3>3 DEF Shape, WaitsFor, Won, Shown
    <3> QED
      BY <1>2, <1>7, <3>3, <3>4, <3>5, CalmSlot
  <2> QED
    BY <1>2, <2>1, <2>2
<1>8. CASE /\ g # 0 /\ docs[d].flight = 0 /\ Presents(g)
           /\ \/ calls[c].kind = "page" /\ Becomes(Flies(b, d, c))
              \/ calls[c].kind = "logout" /\ \E f \in Slots : Becomes(Waits(Flies(b, d, f), d, c, f))
  <2>1. docs[d].mem.ref \in Toks
    BY <1>8, Numbers DEF IInv, Named, Holds
  <2>2. CASE calls[c].kind = "page" /\ Becomes(Flies(b, d, c))
    <3> DEFINE r == Flies(b, d, c)
    <3>1. /\ r \in Browsers /\ r.store = store
          /\ \A e \in Docs \ {d} : r.docs[e] = docs[e]
          /\ r.docs[d] = [docs[d] EXCEPT !.flight = c]
          /\ r.calls[c] = Call("refresh", d, docs[d].mem.ref)
          /\ \A e \in Calls \ {c} : r.calls[e] = calls[e]
      BY <1>3, <2>1, FliesTo
    <3>2. Becomes(r)
      BY <2>2
    <3> HIDE DEF r
    <3> QED
      BY <1>2, <1>8, <2>2, <3>1, <3>2, FlownStep
  <2>3. CASE calls[c].kind = "logout" /\ \E f \in Slots : Becomes(Waits(Flies(b, d, f), d, c, f))
    <3>1. PICK f \in Slots : Becomes(Waits(Flies(b, d, f), d, c, f))
      BY <2>3
    <3>2. f \in Calls /\ calls[f].kind = "idle" /\ f # c
      BY <2>3 DEF Slots
    <3> DEFINE m == Flies(b, d, f)
               r == Waits(m, d, c, f)
    <3>3. /\ m \in Browsers /\ m.store = store
          /\ \A e \in Docs \ {d} : m.docs[e] = docs[e]
          /\ m.docs[d] = [docs[d] EXCEPT !.flight = f]
          /\ m.calls[f] = Call("refresh", d, docs[d].mem.ref)
          /\ \A e \in Calls \ {f} : m.calls[e] = b.calls[e]
      BY <1>3, <2>1, <3>2, FliesTo
    <3>b. Becomes(r)
      BY <3>1
    <3> HIDE DEF m
    <3>4. /\ r \in Browsers /\ r.store = m.store /\ r.docs = m.docs
          /\ r.calls[c].kind = "logout" /\ r.calls[c].doc = d /\ r.calls[c].tok = f
          /\ r.calls[c].at = "waits" /\ r.calls[c].out = "ok"
          /\ \A e \in Calls \ {c} : r.calls[e] = m.calls[e]
      BY <2>3, <3>2, <3>3, WaitsTo
    <3> HIDE DEF r
    <3>5. /\ r.store = store /\ \A e \in Docs \ {d} : r.docs[e] = docs[e]
          /\ r.docs[d] = [docs[d] EXCEPT !.flight = f]
          /\ r.calls[f] = Call("refresh", d, docs[d].mem.ref)
          /\ \A e \in Calls \ {f, c} : r.calls[e] = calls[e]
      BY <1>3, <3>2, <3>3, <3>4
    <3> QED
      BY <1>2, <1>8, <3>2, <3>4, <3>5, <3>b, FlownStep
  <2> QED
    BY <1>8, <2>2, <2>3
<1> QED
  BY <1>5, <1>6, <1>7, <1>8

\* A refresh that a clear has crossed ends, and changes nothing.
LEMMA LateAnswer ==
  ASSUME IInv, NEW c \in Calls, NEW b \in Browsers, Becomes(Resumed(b, c, FALSE)),
         calls[c].kind = "refresh", calls[c].moved, grants' = grants, turns' \in Nat,
         b.docs = docs, b.store = store, b.calls[c] = Idle,
         \A e \in Calls \ {c} : b.calls[e] = calls[e]
  PROVE  Proper
<1> DEFINE r == Resumed(b, c, FALSE)
<1>1. /\ r \in Browsers /\ r.docs = docs /\ r.store = store
      /\ \A e \in Calls : r.calls[e] = Over(b.calls[e], c)
  BY Ends
<1>b. Becomes(r)
  OBVIOUS
<1> HIDE DEF r
<1>2. grants' \in Seq(RowType) /\ SameRows /\ Grants' = Grants
  BY RowsStay
<1>3. Idle.at = "sent" /\ Over(Idle, c) = Idle /\ Idle.kind = "idle"
  BY DEF Over, Idle
<1>4. /\ Types' /\ docs' = docs /\ store' = store
      /\ calls'[c] = Idle /\ \A e \in Calls \ {c} : calls'[e] = Over(calls[e], c)
  BY <1>1, <1>2, <1>3, <1>b, Became
<1>5. PICK S : S = {}
  OBVIOUS
<1>6. PICK d \in Docs : TRUE
  BY DEF Docs
<1>7. \A e \in Calls \ S : calls'[e] \in {calls[e], Idle, Crossed(calls[e], d)}
  BY <1>4 DEF Over
<1>8. \A e \in Calls \ S, f \in Calls :
        calls'[e].at = "waits" /\ calls[e].tok = f => calls'[f] \in {calls[f], Crossed(calls[f], d)}
  <2> SUFFICES ASSUME NEW e \in Calls, NEW f \in Calls, calls'[e].at = "waits", calls[e].tok = f
               PROVE  calls'[f] \in {calls[f], Crossed(calls[f], d)}
    OBVIOUS
  <2>1. e # c /\ calls[e].at = "waits" /\ f # c
    BY <1>3, <1>4 DEF Over
  <2>2. calls[f].kind = "refresh" /\ calls[f].at # "waits"
    BY <2>1 DEF IInv, CallShape, WaitsFor, Shape
  <2> QED
    BY <1>4, <2>1, <2>2 DEF Over
<1>9. \A e \in Calls \ S :
        /\ Shape(calls'[e], docs', Grants') /\ WaitsFor(calls'[e], calls') /\ Quiet(e)
        /\ calls[e].doc # d /\ (calls'[e] # Idle \/ calls[e].kind # "refresh") => StillOut(e)
  <2>1. \A f \in Docs : docs[f].at # "none" => docs'[f].at # "none"
    BY <1>4
  <2> QED
    BY <1>2, <1>7, <1>8, <2>1, Lessened
<1>10. CallShape' /\ \A e \in Calls : Quiet(e)
  BY <1>5, <1>9 DEF CallShape
<1>11. ASSUME NEW e \in Calls PROVE StillOut(e)
  <2>1. CASE e = c
    BY <2>1 DEF StillOut
  <2>2. CASE e # c
    BY <1>4, <2>2 DEF StillOut, Over, IInv, CallShape, Shape
  <2> QED
    BY <2>1, <2>2
<1>12. Calm
  BY <1>2, <1>4, <1>10, <1>11 DEF Calm, SameDocs, SameTabs
<1> QED
  BY <1>4, <1>10, <1>12 DEF Proper, Kinds

\* A refresh that is rejected clears the document.
LEMMA RejectedAnswer ==
  ASSUME IInv, NEW c \in Calls, NEW d \in Docs, NEW b \in Browsers,
         Becomes(Resumed(clearReviewSession(b, d), c, FALSE)),
         Shown(d), calls[c].kind = "refresh", calls[c].doc = d, grants' = grants, turns' \in Nat,
         b.store = store, \A e \in Docs \ {d} : b.docs[e] = docs[e],
         b.docs[d].at = docs[d].at, b.docs[d].mem = docs[d].mem, b.docs[d].forgot = docs[d].forgot,
         b.calls[c] = Idle, \A e \in Calls \ {c} : b.calls[e] = calls[e]
  PROVE  Proper
<1> DEFINE m == clearReviewSession(b, d)
           r == Resumed(m, c, FALSE)
<1>1. /\ m \in Browsers
      /\ \A e \in Docs \ {d} : m.docs[e] = docs[e]
      /\ \A t \in Tabs \ {TabOf(d)} : m.store[t] = store[t]
      /\ m.docs[d].at = docs[d].at /\ m.docs[d].mem = NoLogin /\ m.docs[d].flight = 0
      /\ m.docs[d].forgot = docs[d].forgot \cup Known(Browser, d)
      /\ m.store[TabOf(d)] = NoLogin
      /\ \A e \in Calls : m.calls[e] = Crossed(b.calls[e], d)
  BY ClearStep
<1>b. Becomes(r)
  OBVIOUS
<1> HIDE DEF m
<1>2. /\ r \in Browsers /\ r.docs = m.docs /\ r.store = m.store
      /\ \A e \in Calls : r.calls[e] = Over(m.calls[e], c)
  BY <1>1, Ends
<1> HIDE DEF r
<1>3. grants' \in Seq(RowType) /\ SameRows /\ Grants' = Grants
  BY RowsStay
<1>4. Idle.at = "sent" /\ Idle.kind = "idle" /\ Over(Crossed(Idle, d), c) = Idle
  BY DEF Over, Idle, Crossed
<1>5. /\ Types' /\ docs' = m.docs /\ store' = m.store
      /\ calls'[c] = Idle
      /\ \A e \in Calls \ {c} : calls'[e] = Over(Crossed(calls[e], d), c)
  BY <1>1, <1>2, <1>3, <1>4, <1>b, Became
<1>6. ASSUME NEW e \in Calls \ {c}
      PROVE  /\ calls[e] \in CallType /\ Crossed(calls[e], d).at = calls[e].at
             /\ Crossed(calls[e], d).tok = calls[e].tok
             /\ calls'[e] = IF calls[e].at # "waits" \/ calls[e].tok # c THEN Crossed(calls[e], d) ELSE Idle
  <2>1. calls[e] \in CallType
    BY Spelt DEF IInv, Facts
  <2>2. Crossed(calls[e], d).at = calls[e].at /\ Crossed(calls[e], d).tok = calls[e].tok
    BY <2>1, Crosses
  <2> QED
    BY <1>5, <2>1, <2>2 DEF Over
<1>7. PICK S : S = {}
  OBVIOUS
<1>8. \A e \in Calls \ S : calls'[e] \in {calls[e], Idle, Crossed(calls[e], d)}
  BY <1>5, <1>6
<1>9. \A e \in Calls \ S, f \in Calls :
        calls'[e].at = "waits" /\ calls[e].tok = f => calls'[f] \in {calls[f], Crossed(calls[f], d)}
  <2> SUFFICES ASSUME NEW e \in Calls, NEW f \in Calls, calls'[e].at = "waits", calls[e].tok = f
               PROVE  calls'[f] \in {calls[f], Crossed(calls[f], d)}
    OBVIOUS
  <2>1. e # c
    BY <1>4, <1>5
  <2>2. calls[e].at = "waits" /\ f # c
    BY <1>4, <1>6, <2>1
  <2>3. calls[f].kind = "refresh" /\ calls[f].at # "waits"
    BY <2>2 DEF IInv, CallShape, WaitsFor, Shape
  <2> QED
    BY <1>6, <2>2, <2>3
<1>10. \A e \in Calls \ S :
        /\ Shape(calls'[e], docs', Grants') /\ WaitsFor(calls'[e], calls') /\ Quiet(e)
        /\ calls[e].doc # d /\ (calls'[e] # Idle \/ calls[e].kind # "refresh") => StillOut(e)
  <2>1. \A f \in Docs : docs[f].at # "none" => docs'[f].at # "none"
    BY <1>1, <1>5
  <2> QED
    BY <1>3, <1>8, <1>9, <2>1, Lessened
<1>11. CallShape' /\ \A e \in Calls : Quiet(e)
  BY <1>7, <1>10 DEF CallShape
<1>12. ASSUME NEW e \in Calls
       PROVE  /\ calls[e].doc # d => StillOut(e)
              /\ calls'[e].kind = "refresh" /\ calls'[e].doc = d => calls'[e].moved
  <2>1. CASE e = c
    BY <1>4, <1>5, <2>1
  <2>2. CASE e # c
    <3>1. CASE calls'[e] = Idle
      <4>1. calls[e].kind = "refresh" => calls[e].at # "waits"
        BY DEF IInv, CallShape, Shape
      <4>2. calls[e].kind = "refresh" => calls'[e] = Crossed(calls[e], d)
        BY <1>6, <2>2, <4>1
      <4>3. calls[e].kind # "refresh"
        BY <1>4, <1>6, <2>2, <3>1, <4>2, Crosses
      <4> QED
        BY <1>4, <3>1, <4>3 DEF StillOut
    <3>2. CASE calls'[e] # Idle
      <4>1. calls[e] \in CallType /\ calls'[e] = Crossed(calls[e], d)
        BY <1>6, <2>2, <3>2
      <4>2. /\ calls'[e].kind = "refresh" /\ calls'[e].doc = d => calls'[e].moved
            /\ calls[e].doc # d => calls'[e] = calls[e]
        BY <4>1, Crosses
      <4> QED
        BY <4>2, LeftAlone
    <3> QED
      BY <3>1, <3>2
  <2> QED
    BY <2>1, <2>2
<1>13. Leaves(d, 0)
  BY <1>1, <1>3, <1>5, <1>11, <1>12, ReviewAssumption DEF Leaves, SameDocs, SameTabs, ReviewAssumption
<1> QED
  BY <1>5, <1>11, <1>13 DEF Proper, Kinds

\* A refresh that is granted signs the document in again, and the logout that
\* waited for it is sent with the new token.
LEMMA GrantedAnswer ==
  ASSUME IInv, NEW c \in Calls, NEW d \in Docs, NEW g \in Grants, NEW b \in Browsers,
         Becomes(Resumed(rememberReviewSession(b, d, g), c, TRUE)),
         Shown(d), calls[c].kind = "refresh", calls[c].doc = d, calls[c].tok = g,
         Won(calls[c]), ~ calls[c].moved, grants' = grants, turns' \in Nat,
         b.store = store, \A e \in Docs \ {d} : b.docs[e] = docs[e],
         b.docs[d].at = docs[d].at, b.docs[d].flight = 0, b.docs[d].forgot = docs[d].forgot,
         b.calls[c] = Idle, \A e \in Calls \ {c} : b.calls[e] = calls[e]
  PROVE  Proper
<1>0. g \in Nat /\ Login(g).acc = g
  BY Numbers, Logins DEF IInv
<1> DEFINE m == rememberReviewSession(b, d, g)
           r == Resumed(m, c, TRUE)
<1>1. /\ m \in Browsers /\ m.calls = b.calls
      /\ \A e \in Docs \ {d} : m.docs[e] = docs[e]
      /\ \A t \in Tabs \ {TabOf(d)} : m.store[t] = store[t]
      /\ m.docs[d].at = docs[d].at /\ m.docs[d].mem = Login(g) /\ m.docs[d].flight = 0
      /\ m.docs[d].forgot = docs[d].forgot
      /\ m.store[TabOf(d)] = Stripped(Login(g))
  BY <1>0, SignStep
<1>b. Becomes(r)
  OBVIOUS
<1> HIDE DEF m
<1>2. Idle.at = "sent" /\ Idle.kind = "idle" /\ Again(Idle, c, m.docs) = Idle
  BY DEF Again, Idle
<1>3. \A e \in Calls : /\ calls[e].at = "waits" => calls[e].kind = "logout" /\ calls[e].doc \in Docs
                       /\ calls[e].at = "waits" /\ calls[e].tok = c => calls[e].doc = d
  BY DEF IInv, CallShape, Shape, WaitsFor
<1>4. \A e \in Calls : m.calls[e].at = "waits" => m.calls[e].doc \in Docs
  BY <1>1, <1>2, <1>3
<1>5. /\ r \in Browsers /\ r.docs = m.docs /\ r.store = m.store
      /\ \A e \in Calls : r.calls[e] = Again(m.calls[e], c, m.docs)
  BY <1>1, <1>4, Resumes
<1> HIDE DEF r
<1>6. grants' \in Seq(RowType) /\ SameRows /\ Grants' = Grants
  BY RowsStay
<1>7. /\ Types' /\ docs' = m.docs /\ store' = m.store
      /\ calls'[c] = Idle
      /\ \A e \in Calls \ {c} : calls'[e] = Again(calls[e], c, m.docs)
  BY <1>1, <1>2, <1>5, <1>6, <1>b, Became
<1> DEFINE S == {e \in Calls : calls[e].at = "waits" /\ calls[e].tok = c}
           k == LastLogout(d, g)
<1>8. /\ k.kind = "logout" /\ k.doc = d /\ k.tok = g /\ k.at = "sent" /\ k.out = "ok"
  BY <1>0, NewLast
<1>s. c \notin S /\ \A e \in S : calls'[e] = k
  <2>1. c \notin S
    BY DEF Won
  <2>2. ASSUME NEW e \in S PROVE calls'[e] = k
    BY <1>0, <1>1, <1>3, <1>7, <2>1 DEF Again
  <2> QED
    BY <2>1, <2>2
<1> HIDE DEF k
<1>9. \A e \in Calls \ S : calls'[e] = IF e = c THEN Idle ELSE calls[e]
  BY <1>7 DEF Again
<1>10. \A e \in Calls \ S, f \in Calls :
         calls'[e].at = "waits" /\ calls[e].tok = f => calls'[f] \in {calls[f], Crossed(calls[f], d)}
  <2> SUFFICES ASSUME NEW e \in Calls \ S, NEW f \in Calls, calls'[e].at = "waits", calls[e].tok = f
               PROVE  calls'[f] \in {calls[f], Crossed(calls[f], d)}
    OBVIOUS
  <2>1. calls[e].at = "waits" /\ f # c
    BY <1>2, <1>9
  <2>2. calls[f].kind = "refresh" /\ calls[f].at # "waits"
    BY <2>1 DEF IInv, CallShape, WaitsFor, Shape
  <2> QED
    BY <1>9, <2>1, <2>2
<1>11. \A e \in Calls \ S :
         /\ Shape(calls'[e], docs', Grants') /\ WaitsFor(calls'[e], calls') /\ Quiet(e)
         /\ calls[e].doc # d /\ (calls'[e] # Idle \/ calls[e].kind # "refresh") => StillOut(e)
  <2>1. \A f \in Docs : docs[f].at # "none" => docs'[f].at # "none"
    BY <1>1, <1>7
  <2>2. \A e \in Calls \ S : calls'[e] \in {calls[e], Idle, Crossed(calls[e], d)}
    BY <1>9
  <2> HIDE DEF S
  <2> QED
    BY <1>6, <1>10, <2>1, <2>2, Lessened
<1>12. \A e \in S : /\ Shape(calls'[e], docs', Grants') /\ WaitsFor(calls'[e], calls')
                    /\ Quiet(e) /\ StillOut(e)
  BY <1>1, <1>3, <1>6, <1>7, <1>8, <1>s DEF Shape, WaitsFor, Won, Quiet, StillOut, Shown
<1>13. CallShape'
  BY <1>11, <1>12 DEF CallShape
<1>14. \A e \in Calls \ {c} : Quiet(e) /\ StillOut(e)
  <2>1. \A e \in Calls \ (S \cup {c}) : StillOut(e)
    BY <1>9, LeftAlone
  <2> QED
    BY <1>11, <1>12, <2>1
<1>15. Signs(d, c)
  BY <1>1, <1>6, <1>7, <1>14 DEF Signs, SameDocs, SameTabs
<1> QED
  BY <1>7, <1>13, <1>15 DEF Proper, Kinds

\* The answer of a refresh.
LEMMA Step_RefreshAnswered ==
  ASSUME IInv, NEW c \in Calls, RefreshAnswered(c)
  PROVE  Proper
<1>1. PICK d \in Docs : d = calls[c].doc
  BY DEF RefreshAnswered, Answered, IInv, CallShape, Shape
<1>2. /\ Shown(d) /\ calls[c].kind = "refresh" /\ calls[c].at = "answered"
      /\ grants' = grants /\ turns' \in Nat
  BY <1>1 DEF RefreshAnswered, Answered, Keeps, IInv, Types
<1>3. PICK f \in Calls \cup {0} : f = IF docs[d].flight = c THEN 0 ELSE docs[d].flight
  BY Spelt DEF IInv, Facts
<1> DEFINE y == [docs[d] EXCEPT !.flight = f]
           b == InPlace(Done(Browser, c), d, y)
<1>4. \/ calls[c].moved /\ Becomes(Resumed(b, c, FALSE))
      \/ ~ calls[c].moved /\ calls[c].out = "ok"
         /\ Becomes(Resumed(rememberReviewSession(b, d, calls[c].tok), c, TRUE))
      \/ Becomes(Resumed(clearReviewSession(b, d), c, FALSE))
  BY <1>1, <1>3 DEF RefreshAnswered, dropUnrecoverableReviewSession
<1>5. docs[d] \in DocType
  BY HeldNow, Fields
<1>6. /\ y \in DocType /\ y.flight = f /\ y.at = docs[d].at /\ y.mem = docs[d].mem
      /\ y.forgot = docs[d].forgot /\ (docs[d].flight = f => y = docs[d])
  BY <1>5, Lifts
<1> HIDE DEF y
<1>7. /\ b \in Browsers /\ b.store = store
      /\ b.docs[d] = y /\ \A e \in Docs \ {d} : b.docs[e] = docs[e]
      /\ b.calls[c] = Idle /\ \A e \in Calls \ {c} : b.calls[e] = calls[e]
  <2>1. /\ Done(Browser, c) \in Browsers
        /\ Done(Browser, c).docs = docs /\ Done(Browser, c).store = store
        /\ Done(Browser, c).calls[c] = Idle
        /\ \A e \in Calls \ {c} : Done(Browser, c).calls[e] = calls[e]
    BY Frees
  <2> QED
    BY <1>6, <2>1, Placed
<1> HIDE DEF b
<1>8. CASE calls[c].moved /\ Becomes(Resumed(b, c, FALSE))
  <2>1. docs[d].flight # c
    BY <1>8, ReviewAssumption DEF IInv, Flights, ReviewAssumption
  <2>2. \A e \in Docs : b.docs[e] = docs[e]
    BY <1>3, <1>6, <1>7, <2>1
  <2>3. b.docs = docs
    <3>1. b.docs \in [Docs -> DocType] /\ docs \in [Docs -> DocType]
      BY <1>7, HeldNow, Fields
    <3> QED
      BY <2>2, <3>1
  <2> QED
    BY <1>2, <1>7, <1>8, <2>3, LateAnswer
<1>9. CASE ~ calls[c].moved /\ calls[c].out = "ok"
           /\ Becomes(Resumed(rememberReviewSession(b, d, calls[c].tok), c, TRUE))
  <2>1. Won(calls[c])
    BY <1>2, <1>9 DEF Won
  <2>2. PICK g \in Grants : g = calls[c].tok
    BY <2>1 DEF IInv, CallShape, Shape
  <2>3. docs[d].flight = c
    BY <1>1, <1>2, <1>9 DEF IInv, Flights
  <2> QED
    BY <1>1, <1>2, <1>3, <1>6, <1>7, <1>9, <2>1, <2>2, <2>3, GrantedAnswer
<1>10. CASE Becomes(Resumed(clearReviewSession(b, d), c, FALSE))
  BY <1>1, <1>2, <1>6, <1>7, <1>10, RejectedAnswer
<1> QED
  BY <1>4, <1>8, <1>9, <1>10

-----------------------------------------------------------------------------
(* Navigation.                                                             *)

\* A document that starts after a reload takes the stored login whole.
LEMMA BootsAgain ==
  ASSUME NEW b \in Browsers, NEW d \in Docs
  PROVE  LET r == Boots(b, d, TRUE)
             s == b.store[TabOf(d)]
         IN  /\ r \in Browsers /\ r.calls = b.calls
             /\ \A e \in Docs \ {d} : r.docs[e] = b.docs[e]
             /\ \A t \in Tabs \ {TabOf(d)} : r.store[t] = b.store[t]
             /\ r.docs[d].at = "shown" /\ r.docs[d].mem = s /\ r.docs[d].flight = 0
             /\ r.docs[d].forgot = {} /\ r.store[TabOf(d)] = Stripped(s)
<1> DEFINE s == b.store[TabOf(d)]
           x == [NoDoc EXCEPT !.at = "shown", !.reload = TRUE]
           m == InPlace(b, d, x)
           r == readReviewSession(m, d)
<1>0. s \in LoginType
  BY Fields, Constants
<1>1. /\ x \in DocType /\ x.at = "shown" /\ x.mem = NoLogin /\ x.flight = 0 /\ x.forgot = {}
      /\ x.reload = TRUE
  BY Constants DEF NoDoc, DocType
<1>2. Boots(b, d, TRUE) = r
  BY DEF Boots
<1> HIDE DEF x
<1>3. /\ m \in Browsers /\ m.calls = b.calls /\ m.store = b.store
      /\ m.docs[d] = x /\ \A e \in Docs \ {d} : m.docs[e] = b.docs[e]
  BY <1>1, Placed
<1> HIDE DEF m
<1>4. CASE s = NoLogin
  <2>1. r = m
    BY <1>3, <1>4, ReadsNothing
  <2>2. Stripped(NoLogin) = NoLogin
    BY Strips, Constants
  <2> QED
    BY <1>1, <1>2, <1>3, <1>4, <2>1, <2>2
<1>5. CASE s # NoLogin
  <2> DEFINE y == [x EXCEPT !.mem = s]
  <2>1. /\ r \in Browsers /\ r.calls = m.calls
        /\ Puts(r, m, d, y, Stripped(s))
    <3>1. m.docs[d].mem = NoLogin /\ m.store[TabOf(d)] # NoLogin /\ m.docs[d].reload = TRUE
      BY <1>1, <1>3, <1>5
    <3> DEFINE l == IF m.docs[d].reload THEN m.store[TabOf(d)] ELSE Stripped(m.store[TabOf(d)])
    <3>2. /\ r \in Browsers /\ r.calls = m.calls
          /\ Puts(r, m, d, [m.docs[d] EXCEPT !.mem = l], Stripped(m.store[TabOf(d)]))
      BY <1>3, <3>1, Reads
    <3>3. l = s
      BY <1>3, <3>1
    <3> HIDE DEF r, l
    <3> QED
      BY <1>3, <3>2, <3>3
  <2>2. y.mem = s /\ y.at = x.at /\ y.flight = x.flight /\ y.forgot = x.forgot
    BY <1>0, <1>1, Takes
  <2> HIDE DEF y, r
  <2> QED
    BY <1>1, <1>2, <1>3, <2>1, <2>2 DEF Puts
<1> QED
  BY <1>4, <1>5

\* Any other document that starts takes it without the refresh token.
LEMMA BootsFresh ==
  ASSUME NEW b \in Browsers, NEW d \in Docs
  PROVE  LET r == Boots(b, d, FALSE)
             s == b.store[TabOf(d)]
         IN  /\ r \in Browsers /\ r.calls = b.calls
             /\ \A e \in Docs \ {d} : r.docs[e] = b.docs[e]
             /\ \A t \in Tabs \ {TabOf(d)} : r.store[t] = b.store[t]
             /\ r.docs[d].at = "shown" /\ r.docs[d].mem = Stripped(s) /\ r.docs[d].flight = 0
             /\ r.docs[d].forgot = {} /\ r.store[TabOf(d)] = Stripped(s)
<1> DEFINE s == b.store[TabOf(d)]
           x == [NoDoc EXCEPT !.at = "shown", !.reload = FALSE]
           m == InPlace(b, d, x)
           r == readReviewSession(m, d)
<1>0. s \in LoginType /\ Stripped(s) \in LoginType
  BY Fields, Constants, Strips
<1>1. /\ x \in DocType /\ x.at = "shown" /\ x.mem = NoLogin /\ x.flight = 0 /\ x.forgot = {}
      /\ x.reload = FALSE
  BY Constants DEF NoDoc, DocType
<1>2. Boots(b, d, FALSE) = r
  BY DEF Boots
<1> HIDE DEF x
<1>3. /\ m \in Browsers /\ m.calls = b.calls /\ m.store = b.store
      /\ m.docs[d] = x /\ \A e \in Docs \ {d} : m.docs[e] = b.docs[e]
  BY <1>1, Placed
<1> HIDE DEF m
<1>4. CASE s = NoLogin
  <2>1. r = m
    BY <1>3, <1>4, ReadsNothing
  <2>2. Stripped(NoLogin) = NoLogin
    BY Strips, Constants
  <2> QED
    BY <1>1, <1>2, <1>3, <1>4, <2>1, <2>2
<1>5. CASE s # NoLogin
  <2> DEFINE y == [x EXCEPT !.mem = Stripped(s)]
  <2>1. /\ r \in Browsers /\ r.calls = m.calls
        /\ Puts(r, m, d, y, Stripped(s))
    <3>1. m.docs[d].mem = NoLogin /\ m.store[TabOf(d)] # NoLogin /\ m.docs[d].reload = FALSE
      BY <1>1, <1>3, <1>5
    <3> DEFINE l == IF m.docs[d].reload THEN m.store[TabOf(d)] ELSE Stripped(m.store[TabOf(d)])
    <3>2. /\ r \in Browsers /\ r.calls = m.calls
          /\ Puts(r, m, d, [m.docs[d] EXCEPT !.mem = l], Stripped(m.store[TabOf(d)]))
      BY <1>3, <3>1, Reads
    <3>3. l = Stripped(s)
      BY <1>3, <3>1
    <3> HIDE DEF r, l
    <3> QED
      BY <1>3, <3>2, <3>3
  <2>2. y.mem = Stripped(s) /\ y.at = x.at /\ y.flight = x.flight /\ y.forgot = x.forgot
    BY <1>0, <1>1, Takes
  <2> HIDE DEF y, r
  <2> QED
    BY <1>1, <1>2, <1>3, <2>1, <2>2 DEF Puts
<1> QED
  BY <1>4, <1>5

\* The requests of documents that are gone.
LEMMA OrphansShape ==
  ASSUME IInv, NEW S \in SUBSET Docs, \A c \in Calls : calls'[c] = Orphan(calls[c], S),
         Grants' = Grants, \A f \in Docs \ S : docs[f].at # "none" => docs'[f].at # "none"
  PROVE  CallShape' /\ Orphaning(S)
<1>1. \A c \in Calls : /\ calls[c] \in CallType
                       /\ Shape(calls[c], docs, Grants) /\ WaitsFor(calls[c], calls)
  BY Spelt DEF IInv, CallShape, Facts
<1>2. /\ Idle.kind = "idle" /\ Idle.doc = "none" /\ Idle.at = "sent" /\ Idle.out = "ok"
      /\ "none" \notin Docs
  BY DEF Idle, Docs
<1>3. \A c \in Calls :
        LET k == calls[c]
            n == calls'[c]
        IN  \/ k.doc \notin S /\ n = k
            \/ k.doc \in S /\ n = Idle
            \/ /\ k.doc \in S /\ n.doc = "none" /\ n.kind = k.kind /\ n.tok = k.tok
               /\ n.at = k.at /\ n.out = k.out /\ n.moved = k.moved
               /\ k.at \notin {"waits", "answered"} /\ k.kind \notin {"page", "login"}
  <2> SUFFICES ASSUME NEW c \in Calls
               PROVE  LET k == calls[c]
                          n == calls'[c]
                      IN  \/ k.doc \notin S /\ n = k
                          \/ k.doc \in S /\ n = Idle
                          \/ /\ k.doc \in S /\ n.doc = "none" /\ n.kind = k.kind /\ n.tok = k.tok
                             /\ n.at = k.at /\ n.out = k.out /\ n.moved = k.moved
                             /\ k.at \notin {"waits", "answered"} /\ k.kind \notin {"page", "login"}
    OBVIOUS
  <2>1. PICK k \in CallType : k = calls[c]
    BY <1>1
  <2>2. LET n == [k EXCEPT !.doc = "none"]
        IN  /\ n.doc = "none" /\ n.kind = k.kind /\ n.tok = k.tok
            /\ n.at = k.at /\ n.out = k.out /\ n.moved = k.moved
    BY DEF CallType
  <2> QED
    BY <2>1, <2>2 DEF Orphan
<1>4. ASSUME NEW c \in Calls PROVE Shape(calls'[c], docs', Grants')
  BY <1>1, <1>2, <1>3 DEF Shape, Won
<1>5. ASSUME NEW c \in Calls PROVE WaitsFor(calls'[c], calls')
  <2> SUFFICES ASSUME calls'[c].at = "waits" PROVE WaitsFor(calls'[c], calls')
    BY DEF WaitsFor
  <2>1. calls[c].doc \notin S /\ calls'[c] = calls[c]
    BY <1>2, <1>3
  <2>2. PICK f \in Calls : f = calls[c].tok
    BY <1>1, <2>1 DEF WaitsFor
  <2>3. calls[f].kind = "refresh" /\ calls[f].doc = calls[c].doc
    BY <1>1, <2>1, <2>2 DEF WaitsFor
  <2>4. calls'[f] = calls[f]
    BY <1>3, <2>1, <2>3
  <2> QED
    BY <2>1, <2>2, <2>3, <2>4 DEF WaitsFor
<1>6. ASSUME NEW c \in Calls
      PROVE  /\ Quiet(c) /\ calls'[c].doc \in {calls[c].doc, "none"} \ S
             /\ calls[c].doc \notin S => calls'[c] = calls[c]
  <2>1. Quiet(c)
    <3>1. calls[c].doc \notin S => Quiet(c)
      BY <1>3, LeftAlone
    <3> QED
      BY <1>1, <1>2, <1>3, <3>1 DEF Quiet, Shape, Out, Won
  <2> QED
    BY <1>2, <1>3, <2>1
<1> QED
  BY <1>4, <1>5, <1>6 DEF CallShape, Orphaning

\* What a reload, or what leaves the page, finds in storage.
LEMMA ParksNow ==
  ASSUME IInv, NEW d \in Docs, Shown(d)
  PROVE  LET r == parkReviewRefreshForReload(Browser, d)
         IN  /\ r \in Browsers /\ r.calls = calls /\ r.docs = docs
             /\ r.store[TabOf(d)] = docs[d].mem
             /\ \A t \in Tabs \ {TabOf(d)} : r.store[t] = store[t]
<1> DEFINE r == parkReviewRefreshForReload(Browser, d)
<1>1. store[TabOf(d)] = Stripped(docs[d].mem)
  BY DEF IInv, Pages
<1>2. r \in Browsers /\ r.calls = calls /\ Puts(r, Browser, d, docs[d], docs[d].mem)
  BY <1>1, HeldNow, Parks
<1> HIDE DEF r
<1>3. /\ r.docs \in [Docs -> DocType] /\ docs \in [Docs -> DocType]
      /\ \A e \in Docs : r.docs[e] = docs[e]
  BY <1>2, HeldNow, Fields DEF Puts
<1>4. r.docs = docs
  BY <1>3
<1> QED
  BY <1>2, <1>4, HeldNow DEF Puts, r

\* A reload marks the token that was out.
LEMMA CutsRows ==
  ASSUME IInv, NEW d \in Docs,
         grants' = [g \in Grants |-> [grants[g] EXCEPT !.cut = @ \/
                      \E c \in Calls : calls[c].doc = d /\ calls[c].kind = "refresh" /\ docs[d].mem.ref = g]]
  PROVE  /\ grants' \in Seq(RowType) /\ Grants' = Grants
         /\ \A g \in Grants :
              /\ grants'[g].chain = grants[g].chain /\ grants'[g].from = grants[g].from
              /\ grants'[g].shown = grants[g].shown
              /\ \/ grants'[g].cut <=> grants[g].cut
                 \/ grants'[g].cut /\ docs[d].mem.ref = g
              /\ docs[d].mem.ref = g /\ docs[d].flight # 0 => grants'[g].cut
<1>1. \A g \in Grants : grants[g] \in RowType
  BY Rows DEF IInv
<1> SUFFICES ASSUME TRUE
             PROVE  /\ grants' \in [Grants -> RowType]
                    /\ \A g \in Grants :
                         /\ grants'[g].chain = grants[g].chain /\ grants'[g].from = grants[g].from
                         /\ grants'[g].shown = grants[g].shown
                         /\ \/ grants'[g].cut <=> grants[g].cut
                            \/ grants'[g].cut /\ docs[d].mem.ref = g
                         /\ docs[d].mem.ref = g /\ docs[d].flight # 0 => grants'[g].cut
  BY Rewrites DEF IInv
<1>2. ASSUME NEW g \in Grants
      PROVE  /\ grants'[g] \in RowType
             /\ grants'[g].chain = grants[g].chain /\ grants'[g].from = grants[g].from
             /\ grants'[g].shown = grants[g].shown
             /\ grants'[g].cut = (grants[g].cut \/
                  \E c \in Calls : calls[c].doc = d /\ calls[c].kind = "refresh" /\ docs[d].mem.ref = g)
  <2>1. PICK x \in BOOLEAN : x = (grants[g].cut \/
          \E c \in Calls : calls[c].doc = d /\ calls[c].kind = "refresh" /\ docs[d].mem.ref = g)
    OBVIOUS
  <2>2. grants'[g] = [grants[g] EXCEPT !.cut = x]
    BY <2>1
  <2>3. LET y == [grants[g] EXCEPT !.cut = x]
        IN  /\ y \in RowType /\ y.chain = grants[g].chain /\ y.from = grants[g].from
            /\ y.shown = grants[g].shown /\ y.cut = x
    BY <1>1 DEF RowType
  <2> QED
    BY <2>1, <2>2, <2>3
<1>3. grants' \in [Grants -> RowType]
  <2>1. grants' = [g \in Grants |-> grants'[g]]
    OBVIOUS
  <2> QED
    BY <1>2, <2>1
<1>4. docs[d].flight # 0 => \E c \in Calls : calls[c].doc = d /\ calls[c].kind = "refresh"
  BY Spelt DEF IInv, Flights, Facts
<1>5. \A g \in Grants : grants[g].cut \in BOOLEAN
  BY <1>1 DEF RowType
<1> QED
  BY <1>2, <1>3, <1>4, <1>5


\* A turn is spent.
LEMMA Turned ==
  ASSUME IInv, Turn
  PROVE  turns' \in Nat
BY DEF IInv, Types, Turn

\* A document is reloaded: what it parked comes back to it, whole.
LEMMA Step_Reload ==
  ASSUME IInv, NEW d \in Docs, Reload(d)
  PROVE  Proper
<1> DEFINE p == parkReviewRefreshForReload(Browser, d)
           b == Orphaned(p, {d})
           r == Boots(b, d, TRUE)
<1>1. Shown(d) /\ Turn /\ Becomes(r)
  BY DEF Reload
<1>2. /\ grants' \in Seq(RowType) /\ Grants' = Grants
      /\ \A g \in Grants :
           /\ grants'[g].chain = grants[g].chain /\ grants'[g].from = grants[g].from
           /\ grants'[g].shown = grants[g].shown
           /\ \/ grants'[g].cut <=> grants[g].cut
              \/ grants'[g].cut /\ docs[d].mem.ref = g
           /\ docs[d].mem.ref = g /\ docs[d].flight # 0 => grants'[g].cut
  BY CutsRows DEF Reload
<1>3. /\ p \in Browsers /\ p.calls = calls /\ p.docs = docs
      /\ p.store[TabOf(d)] = docs[d].mem
      /\ \A t \in Tabs \ {TabOf(d)} : p.store[t] = store[t]
  BY <1>1, ParksNow
<1> HIDE DEF p
<1>4. /\ b \in Browsers /\ b.docs = p.docs /\ b.store = p.store
      /\ \A c \in Calls : b.calls[c] = Orphan(p.calls[c], {d})
  BY <1>3, Orphans
<1> HIDE DEF b
<1>5. /\ r \in Browsers /\ r.calls = b.calls
      /\ \A e \in Docs \ {d} : r.docs[e] = b.docs[e]
      /\ \A t \in Tabs \ {TabOf(d)} : r.store[t] = b.store[t]
      /\ r.docs[d].at = "shown" /\ r.docs[d].mem = b.store[TabOf(d)] /\ r.docs[d].flight = 0
      /\ r.docs[d].forgot = {} /\ r.store[TabOf(d)] = Stripped(b.store[TabOf(d)])
  BY <1>4, BootsAgain
<1> HIDE DEF r
<1>6. Types' /\ docs' = r.docs /\ store' = r.store /\ calls' = r.calls
  BY <1>1, <1>2, <1>5, Became, Turned
<1>7. SameDocs({d}) /\ Starts(d, docs[d].mem)
  BY <1>3, <1>4, <1>5, <1>6 DEF SameDocs, Starts
<1>8. SameTabs({})
  <2>1. store[TabOf(d)] = Stripped(docs[d].mem)
    BY <1>1 DEF IInv, Pages
  <2> QED
    BY <1>3, <1>4, <1>5, <1>6, <2>1 DEF SameTabs
<1>9. CallShape' /\ Orphaning({d})
  <2>1. \A c \in Calls : calls'[c] = Orphan(calls[c], {d})
    BY <1>3, <1>4, <1>5, <1>6
  <2>2. \A f \in Docs \ {d} : docs[f].at # "none" => docs'[f].at # "none"
    BY <1>7 DEF SameDocs
  <2> QED
    BY <1>2, <2>1, <2>2, OrphansShape
<1>10. Reloaded(d)
  BY <1>1, <1>2, <1>7, <1>8, <1>9 DEF Reloaded
<1> QED
  BY <1>6, <1>9, <1>10 DEF Proper, Kinds

(* A browser that is about to leave document d, without the requests of S. *)
Leaving(b, d, S) ==
  /\ b \in Browsers /\ b.docs = docs
  /\ b.store["tab"] = docs[d].mem /\ \A t \in Tabs \ {"tab"} : b.store[t] = store[t]
  /\ \A c \in Calls : b.calls[c] = Orphan(calls[c], S)

\* The present browser moves from document d to document e of its tab, where
\* d becomes x and the documents of S lose their requests.
LEMMA MoveStep ==
  ASSUME IInv, NEW d \in Docs, NEW e \in Docs, NEW S \in SUBSET Docs, NEW x \in DocType,
         <<d, e>> \in {<<"first", "second">>, <<"second", "first">>}, Shown(d), Turn,
         UNCHANGED grants,
         NEW b, Leaving(b, d, S),
         Becomes(Boots(InPlace(b, d, x), e, FALSE)),
         x.at # "none" \/ d \in S
  PROVE  /\ Types' /\ CallShape' /\ Orphaning(S)
         /\ SameDocs({d, e}) /\ SameTabs({}) /\ SameRows
         /\ docs'[d] = x /\ Starts(e, Stripped(docs[d].mem))
<1> DEFINE m == InPlace(b, d, x)
           r == Boots(m, e, FALSE)
<1>0. /\ TabOf(d) = "tab" /\ TabOf(e) = "tab" /\ d # e /\ "tab" \in Tabs
      /\ grants' \in Seq(RowType) /\ SameRows /\ Grants' = Grants
  BY Siblings, RowsStay DEF Tabs
<1>1. Becomes(r)
  OBVIOUS
<1>b. /\ b \in Browsers /\ b.docs = docs
      /\ b.store["tab"] = docs[d].mem /\ \A t \in Tabs \ {"tab"} : b.store[t] = store[t]
      /\ \A c \in Calls : b.calls[c] = Orphan(calls[c], S)
  BY DEF Leaving
<1>2. /\ m \in Browsers /\ m.calls = b.calls /\ m.store = b.store
      /\ m.docs[d] = x /\ \A f \in Docs \ {d} : m.docs[f] = b.docs[f]
  BY <1>b, Placed
<1> HIDE DEF m
<1>3. /\ r \in Browsers /\ r.calls = m.calls
      /\ \A f \in Docs \ {e} : r.docs[f] = m.docs[f]
      /\ \A t \in Tabs \ {TabOf(e)} : r.store[t] = m.store[t]
      /\ r.docs[e].at = "shown" /\ r.docs[e].mem = Stripped(m.store[TabOf(e)])
      /\ r.docs[e].flight = 0 /\ r.docs[e].forgot = {}
      /\ r.store[TabOf(e)] = Stripped(m.store[TabOf(e)])
  BY <1>2, BootsFresh
<1> HIDE DEF r
<1>4. Types' /\ docs' = r.docs /\ store' = r.store /\ calls' = r.calls
  BY <1>0, <1>1, <1>3, Became, Turned
<1>5. docs'[d] = x /\ SameDocs({d, e}) /\ Starts(e, Stripped(docs[d].mem))
  BY <1>0, <1>2, <1>3, <1>4, <1>b DEF SameDocs, Starts
<1>6. SameTabs({})
  <2>1. store[TabOf(d)] = Stripped(docs[d].mem)
    BY DEF IInv, Pages
  <2> QED
    BY <1>0, <1>2, <1>3, <1>4, <1>b, <2>1 DEF SameTabs
<1>7. CallShape' /\ Orphaning(S)
  <2>1. \A c \in Calls : calls'[c] = Orphan(calls[c], S)
    BY <1>2, <1>3, <1>4, <1>b
  <2>2. \A f \in Docs \ S : docs[f].at # "none" => docs'[f].at # "none"
    BY <1>5 DEF SameDocs, Starts
  <2> QED
    BY <1>0, <2>1, <2>2, OrphansShape
<1> QED
  BY <1>0, <1>4, <1>5, <1>6, <1>7

\* Another document of the app in the same tab.
LEMMA Step_Navigate ==
  ASSUME IInv, NEW d \in Docs, Navigate(d)
  PROVE  Proper
<1>1. PICK e \in Docs : e = Sibling(d) /\ <<d, e>> \in {<<"first", "second">>, <<"second", "first">>}
  BY Siblings DEF Docs, Navigate
<1> DEFINE p == parkReviewRefreshForReload(Browser, d)
           b == Orphaned(p, {e})
           o == Orphaned(b, {d})
<1>2. Shown(d) /\ Turn /\ UNCHANGED grants /\ TabOf(d) = "tab" /\ d # e
  BY <1>1 DEF Navigate
<1>3. \/ Becomes(Boots(InPlace(b, d, [docs[d] EXCEPT !.at = "cached"]), e, FALSE))
      \/ Becomes(Boots(InPlace(o, d, NoDoc), e, FALSE))
  BY <1>1 DEF Navigate
<1>4. /\ p \in Browsers /\ p.calls = calls /\ p.docs = docs
      /\ p.store["tab"] = docs[d].mem
      /\ \A t \in Tabs \ {"tab"} : p.store[t] = store[t]
  BY <1>2, ParksNow
<1> HIDE DEF p
<1>5. /\ b \in Browsers /\ b.docs = p.docs /\ b.store = p.store
      /\ \A c \in Calls : b.calls[c] = Orphan(p.calls[c], {e})
  BY <1>4, Orphans
<1> HIDE DEF b
<1>6. /\ o \in Browsers /\ o.docs = b.docs /\ o.store = b.store
      /\ \A c \in Calls : o.calls[c] = Orphan(b.calls[c], {d})
  BY <1>5, Orphans
<1> HIDE DEF o
<1>7. CASE Becomes(Boots(InPlace(b, d, [docs[d] EXCEPT !.at = "cached"]), e, FALSE))
  <2> DEFINE x == [docs[d] EXCEPT !.at = "cached"]
  <2>1. docs[d] \in DocType
    BY HeldNow, Fields DEF IInv
  <2>2. /\ x \in DocType /\ x.at = "cached" /\ x.mem = docs[d].mem
        /\ x.flight = docs[d].flight /\ x.forgot = docs[d].forgot
    BY <2>1 DEF DocType
  <2>3. Becomes(Boots(InPlace(b, d, x), e, FALSE))
    BY <1>7
  <2> HIDE DEF x
  <2>s. PICK S \in SUBSET Docs : S = {e}
    OBVIOUS
  <2>b. Leaving(b, d, S)
    BY <1>4, <1>5, <2>s DEF Leaving
  <2>h. x.at # "none" \/ d \in S
    BY <2>2
  <2>m. /\ Types' /\ CallShape' /\ Orphaning(S)
        /\ SameDocs({d, e}) /\ SameTabs({}) /\ SameRows
        /\ docs'[d] = x /\ Starts(e, Stripped(docs[d].mem))
    BY <1>1, <1>2, <2>2, <2>3, <2>b, <2>h, MoveStep
  <2>4. /\ Types' /\ CallShape' /\ Orphaning({e})
        /\ SameDocs({d, e}) /\ SameTabs({}) /\ SameRows
        /\ docs'[d] = x /\ Starts(e, Stripped(docs[d].mem))
    BY <2>s, <2>m
  <2>5. Moved(d, e)
    BY <1>1, <1>2, <2>2, <2>4 DEF Moved
  <2> QED
    BY <2>4, <2>5 DEF Proper, Kinds
<1>8. CASE Becomes(Boots(InPlace(o, d, NoDoc), e, FALSE))
  <2>1. \A c \in Calls : o.calls[c] = Orphan(calls[c], {d, e})
    <3> SUFFICES ASSUME NEW c \in Calls PROVE Orphan(Orphan(calls[c], {e}), {d}) = Orphan(calls[c], {d, e})
      BY <1>4, <1>5, <1>6
    <3>1. PICK k \in CallType : k = calls[c]
      BY HeldNow, Fields
    <3>2. [k EXCEPT !.doc = "none"].doc = "none" /\ Idle.doc = "none" /\ "none" \notin Docs
      BY DEF CallType, Idle, Docs
    <3> QED
      BY <3>1, <3>2 DEF Orphan
  <2>s. PICK S \in SUBSET Docs : S = {d, e}
    OBVIOUS
  <2>x. PICK x \in DocType : x = NoDoc
    BY Constants
  <2>b. Leaving(o, d, S)
    BY <1>4, <1>5, <1>6, <2>1, <2>s DEF Leaving
  <2>h. x.at # "none" \/ d \in S
    BY <2>s
  <2>3. Becomes(Boots(InPlace(o, d, x), e, FALSE))
    BY <1>8, <2>x
  <2>m. /\ Types' /\ CallShape' /\ Orphaning(S)
        /\ SameDocs({d, e}) /\ SameTabs({}) /\ SameRows
        /\ docs'[d] = x /\ Starts(e, Stripped(docs[d].mem))
    BY <1>1, <1>2, <2>3, <2>b, <2>h, MoveStep
  <2>2. /\ Types' /\ CallShape' /\ Orphaning({d, e})
        /\ SameDocs({d, e}) /\ SameTabs({}) /\ SameRows
        /\ docs'[d] = NoDoc /\ Starts(e, Stripped(docs[d].mem))
    BY <2>s, <2>x, <2>m
  <2>4. Moved(d, e)
    BY <1>1, <1>2, <2>2 DEF Moved
  <2> QED
    BY <2>2, <2>4 DEF Proper, Kinds
<1> QED
  BY <1>3, <1>7, <1>8


\* Nothing happens to the requests, and no document is left.
LEMMA CallsStay ==
  ASSUME IInv, \A c \in Calls : calls'[c] = calls[c], Grants' = Grants,
         \A f \in Docs : docs[f].at # "none" => docs'[f].at # "none"
  PROVE  CallShape'
<1>1. \A c \in Calls : Shape(calls[c], docs, Grants) /\ WaitsFor(calls[c], calls)
  BY DEF IInv, CallShape
<1>2. \A c \in Calls : Shape(calls[c], docs', Grants')
  BY <1>1 DEF Shape
<1>3. \A c \in Calls : WaitsFor(calls'[c], calls')
  BY <1>1 DEF WaitsFor
<1> QED
  BY <1>2, <1>3 DEF CallShape

\* Back or forward to a document in the cache, which has a login or finds none.
LEMMA Step_Restore ==
  ASSUME IInv, NEW d \in Docs, Restore(d), ~ foundLogin'
  PROVE  Proper
<1>1. docs[d].at = "cached" /\ Turn /\ UNCHANGED grants
  BY DEF Restore
<1>2. PICK e \in Docs : /\ e = Sibling(d) /\ Shown(e) /\ d # e
                        /\ <<d, e>> \in {<<"first", "second">>, <<"second", "first">>}
  BY <1>1, Siblings DEF IInv, Pages, Shown, Docs
<1>0. /\ TabOf(d) = "tab" /\ TabOf(e) = "tab" /\ "tab" \in Tabs
      /\ grants' \in Seq(RowType) /\ SameRows /\ Grants' = Grants
  BY <1>1, <1>2, Siblings, RowsStay DEF Tabs
<1> DEFINE p == parkReviewRefreshForReload(Browser, e)
           x == [docs[e] EXCEPT !.at = "cached"]
           y == [docs[d] EXCEPT !.at = "shown"]
           b == InPlace(p, e, x)
           m == InPlace(b, d, y)
           r == unparkReviewRefresh(m, d)
<1>3. Becomes(r) /\ (docs[d].mem = NoLogin => b.store["tab"] = NoLogin)
  BY <1>2 DEF Restore
<1>4. docs[d] \in DocType /\ docs[e] \in DocType
  BY HeldNow, Fields
<1>5. /\ x \in DocType /\ x.at = "cached" /\ x.mem = docs[e].mem
      /\ x.flight = docs[e].flight /\ x.forgot = docs[e].forgot
      /\ y \in DocType /\ y.at = "shown" /\ y.mem = docs[d].mem
      /\ y.flight = docs[d].flight /\ y.forgot = docs[d].forgot
  BY <1>4 DEF DocType
<1> HIDE DEF x, y
<1>6. /\ p \in Browsers /\ p.calls = calls /\ p.docs = docs
      /\ \A t \in Tabs \ {"tab"} : p.store[t] = store[t]
  BY <1>0, <1>2, ParksNow
<1> HIDE DEF p
<1>7. /\ b \in Browsers /\ b.calls = p.calls /\ b.store = p.store
      /\ b.docs[e] = x /\ \A f \in Docs \ {e} : b.docs[f] = p.docs[f]
  BY <1>5, <1>6, Placed
<1> HIDE DEF b
<1>8. /\ m \in Browsers /\ m.calls = b.calls /\ m.store = b.store
      /\ m.docs[d] = y /\ \A f \in Docs \ {d} : m.docs[f] = b.docs[f]
  BY <1>5, <1>7, Placed
<1> HIDE DEF m
<1>9. r \in Browsers /\ r.calls = m.calls /\ Puts(r, m, d, m.docs[d], Stripped(m.docs[d].mem))
  <2>1. CASE docs[d].mem # NoLogin
    BY <1>5, <1>8, <2>1, Unparks
  <2>2. CASE docs[d].mem = NoLogin
    <3>1. r = m
      BY <1>5, <1>8, <2>2 DEF unparkReviewRefresh
    <3>2. m.store["tab"] = NoLogin /\ Stripped(m.docs[d].mem) = NoLogin
      BY <1>3, <1>5, <1>8, <2>2, Strips, Constants
    <3> QED
      BY <1>0, <1>8, <3>1, <3>2 DEF Puts
  <2> QED
    BY <2>1, <2>2
<1> HIDE DEF r
<1>10. Types' /\ docs' = r.docs /\ store' = r.store /\ calls' = r.calls
  BY <1>0, <1>1, <1>3, <1>9, Became, Turned
<1>11. /\ docs'[d] = y /\ docs'[e] = x /\ SameDocs({d, e}) /\ calls' = calls
  BY <1>2, <1>6, <1>7, <1>8, <1>9, <1>10 DEF Puts, SameDocs
<1>12. store'["tab"] = Stripped(docs[d].mem) /\ SameTabs({"tab"})
  BY <1>0, <1>5, <1>6, <1>7, <1>8, <1>9, <1>10 DEF Puts, SameTabs
<1>13. CallShape'
  <2>1. \A f \in Docs : docs[f].at # "none" => docs'[f].at # "none"
    BY <1>5, <1>11 DEF SameDocs
  <2> QED
    BY <1>0, <1>11, <2>1, CallsStay
<1>14. Restored(d, e)
  BY <1>0, <1>1, <1>2, <1>5, <1>11, <1>12 DEF Restored
<1> QED
  BY <1>10, <1>13, <1>14 DEF Proper, Kinds

\* The tab is duplicated.
LEMMA Step_Duplicate ==
  ASSUME IInv, NEW d \in Docs, Duplicate(d)
  PROVE  Proper
<1>1. /\ Shown(d) /\ TabOf(d) = "tab" /\ docs["copy"].at = "none" /\ Turn /\ UNCHANGED grants
      /\ d \in {"first", "second"} /\ "copy" \in Docs /\ "tab" \in Tabs /\ "duplicate" \in Tabs
      /\ TabOf("copy") = "duplicate"
  BY Siblings DEF Duplicate, Docs, Tabs
<1>0. grants' \in Seq(RowType) /\ SameRows /\ Grants' = Grants
  BY <1>1, RowsStay
<1> DEFINE u == [store EXCEPT !["duplicate"] = store["tab"]]
           b == [docs |-> docs, store |-> u, calls |-> calls]
           r == Boots(b, "copy", FALSE)
<1>2. Becomes(r)
  <2>1. [Browser EXCEPT !.store["duplicate"] = store["tab"]] = b
    BY DEF Browser
  <2> QED
    BY <2>1 DEF Duplicate
<1>3. store["tab"] = Stripped(docs[d].mem) /\ docs[d].mem \in LoginType
  BY <1>1, HeldNow, Fields DEF IInv, Pages
<1>4. Stripped(Stripped(docs[d].mem)) = Stripped(docs[d].mem)
  BY <1>3, Strips
<1>5. /\ u \in [Tabs -> LoginType] /\ u["duplicate"] = store["tab"]
      /\ \A t \in Tabs \ {"duplicate"} : u[t] = store[t]
  BY <1>1, HeldNow, Fields
<1> HIDE DEF u
<1>6. b \in Browsers /\ b.docs = docs /\ b.store = u /\ b.calls = calls
  BY <1>5, HeldNow, Fields DEF Browsers
<1> HIDE DEF b
<1>7. /\ r \in Browsers /\ r.calls = b.calls
      /\ \A e \in Docs \ {"copy"} : r.docs[e] = b.docs[e]
      /\ \A t \in Tabs \ {TabOf("copy")} : r.store[t] = b.store[t]
      /\ r.docs["copy"].at = "shown" /\ r.docs["copy"].mem = Stripped(b.store[TabOf("copy")])
      /\ r.docs["copy"].flight = 0
      /\ r.docs["copy"].forgot = {} /\ r.store[TabOf("copy")] = Stripped(b.store[TabOf("copy")])
  BY <1>1, <1>6, BootsFresh
<1> HIDE DEF r
<1>8. Types' /\ docs' = r.docs /\ store' = r.store /\ calls' = r.calls
  BY <1>0, <1>1, <1>2, <1>7, Became, Turned
<1>9. /\ SameDocs({"copy"}) /\ Starts("copy", Stripped(docs[d].mem)) /\ calls' = calls
      /\ SameTabs({"duplicate"}) /\ store'["duplicate"] = Stripped(docs[d].mem)
  BY <1>1, <1>3, <1>4, <1>5, <1>6, <1>7, <1>8 DEF SameDocs, SameTabs, Starts
<1>10. CallShape'
  <2>1. \A f \in Docs : docs[f].at # "none" => docs'[f].at # "none"
    BY <1>9 DEF SameDocs, Starts
  <2> QED
    BY <1>0, <1>9, <2>1, CallsStay
<1>11. Copied(d)
  BY <1>0, <1>1, <1>9 DEF Copied
<1> QED
  BY <1>8, <1>10, <1>11 DEF Proper, Kinds


-----------------------------------------------------------------------------
(* The theorems.                                                           *)

\* The first document has signed in, and nothing is on its way.
LEMMA Starting == Init => IInv
<1> SUFFICES ASSUME Init PROVE IInv
  OBVIOUS
<1> DEFINE row == Grant(1, 0)
           x == [NoDoc EXCEPT !.at = "shown", !.mem = Login(1)]
<1>1. row \in RowType /\ row.chain = 1 /\ row.from = 0 /\ row.shown = 0 /\ ~ row.cut
  BY DEF Grant, RowType
<1>2. grants = <<row>> /\ calls = [c \in Calls |-> Idle] /\ turns = MaxTurns
  BY DEF Init
<1> HIDE DEF row
<1>3. grants \in Seq(RowType) /\ Grants = {1} /\ grants[1] = row
  BY <1>1, <1>2 DEF Grants
<1>4. Login(1) \in LoginType /\ Login(1).acc = 1 /\ Login(1).ref = 1
  BY Logins
<1>5. /\ x \in DocType /\ x.at = "shown" /\ x.mem = Login(1) /\ x.flight = 0 /\ x.forgot = {}
  BY <1>4, Constants DEF NoDoc, DocType
<1>6. /\ NoDoc \in DocType /\ NoDoc.at = "none" /\ NoDoc.mem = NoLogin
      /\ NoDoc.flight = 0 /\ NoDoc.forgot = {}
  BY Constants DEF NoDoc
<1>7. docs = [d \in Docs |-> IF d = "first" THEN x ELSE NoDoc]
  BY DEF Init
<1> HIDE DEF x
<1>8. /\ docs \in [Docs -> DocType] /\ docs["first"] = x
      /\ docs["second"] = NoDoc /\ docs["copy"] = NoDoc
      /\ \A d \in Docs : d # "first" => docs[d] = NoDoc
  BY <1>5, <1>6, <1>7 DEF Docs
<1>9. Stripped(Login(1)) \in LoginType /\ Stripped(Login(1)).acc = 1 /\ Stripped(Login(1)).ref = 0
  BY <1>4, Strips
<1>10. /\ store \in [Tabs -> LoginType] /\ store["tab"] = Stripped(Login(1))
       /\ \A t \in Tabs : t # "tab" => store[t] = NoLogin
  BY <1>9, Constants DEF Init, Tabs
<1>11. /\ calls \in [Calls -> CallType] /\ \A c \in Calls : calls[c] = Idle
       /\ Idle.kind = "idle" /\ Idle.at = "sent" /\ Idle.out = "ok" /\ Idle.doc = "none"
       /\ "none" \notin Docs
  BY <1>2, Constants DEF Idle, Docs
<1>12. Types
  <2>1. Browser \in Browsers
    BY <1>8, <1>10, <1>11 DEF Browser, Browsers
  <2> QED
    BY <1>2, <1>3, <2>1, ReviewAssumption DEF Types, ReviewAssumption
<1>13. Named
  BY <1>1, <1>3, <1>4, <1>5, <1>6, <1>8, <1>9, <1>10, Constants DEF Named, Holds
<1>14. CallShape
  BY <1>11 DEF CallShape, Shape, WaitsFor, Won
<1>15. Pages
  BY <1>5, <1>6, <1>8, <1>10, Siblings DEF Pages, Shown, Docs
<1>16. Flights
  BY <1>5, <1>6, <1>8, <1>11 DEF Flights
<1>17. Unique /\ NewChain
  BY <1>4, <1>5, <1>6, <1>8, <1>11, Constants DEF Unique, NewChain, Won
<1>18. Shows
  <2>1. \A g \in Grants : OnceOr(g)
    BY <1>1, <1>3 DEF OnceOr, HasSuccessor
  <2>2. \A d \in Docs : Seen(d)
    BY <1>1, <1>3, <1>4, <1>5, <1>6, <1>8, Constants DEF Seen
  <2> QED
    BY <1>11, <2>1, <2>2 DEF Shows, Out
<1>19. Forgotten
  BY <1>4, <1>5, <1>6, <1>8, Constants DEF Forgotten
<1> QED
  BY <1>12, <1>13, <1>14, <1>15, <1>16, <1>17, <1>18, <1>19 DEF IInv

\* The invariant depends on the variables alone.
LEMMA Stuttering ==
  ASSUME IInv, UNCHANGED vars
  PROVE  IInv'
BY DEF vars, IInv, Types, Browser, Named, CallShape, Pages, Flights, Unique, NewChain,
       Shows, Forgotten, Grants, Holds, Shape, WaitsFor, Won, Out, Shown, ChainOf, NewTo, OnceOr, Seen,
       Counted, HasSuccessor

(* The invariant, until such a return.                                     *)
Until == foundLogin \/ IInv

\* Every step keeps the invariant, and nothing takes such a return back.
LEMMA Stepping ==
  ASSUME Until, [Next]_vars
  PROVE  Until'
<1>1. CASE UNCHANGED vars
  BY <1>1, Stuttering DEF Until, vars
<1>2. CASE Next
  <2>1. ASSUME foundLogin PROVE foundLogin'
    BY <1>2, <2>1 DEF Next, Restore
  <2>2. ASSUME IInv, ~ foundLogin' PROVE IInv'
    <3>1. ASSUME NEW d \in Docs,
                 \/ reviewLogin(d) \/ leaveReview(d) \/ fetchPage(d) \/ reviewLogout(d)
                 \/ Reload(d) \/ Navigate(d) \/ Restore(d) \/ Duplicate(d)
          PROVE  Proper
      BY <2>2, <3>1, Step_reviewLogin, Step_leaveReview, Step_fetchPage, Step_reviewLogout,
         Step_Reload, Step_Restore, Step_Navigate, Step_Duplicate
    <3>2. ASSUME NEW c \in Calls,
                 \/ LoginAnswered(c) \/ FetchAnswered(c) \/ FetchExpired(c) \/ RefreshAnswered(c)
                 \/ review_login(c) \/ review_page(c) \/ review_logout(c)
                 \/ RefreshReads(c) \/ RefreshMints(c) \/ FetchFails(c)
          PROVE  Proper
      BY <2>2, <3>2, Step_LoginAnswered, Step_FetchAnswered, Step_FetchExpired,
         Step_RefreshAnswered, Step_review_login, Step_review_page, Step_review_logout,
         Step_RefreshReads, Step_RefreshMints, Step_FetchFails
    <3>3. ASSUME review_revoke PROVE Proper
      BY <2>2, <3>3, Step_review_revoke
    <3>4. Proper
      BY <1>2, <3>1, <3>2, <3>3 DEF Next
    <3> QED
      BY <2>2, <3>4, KindsKeep DEF Proper
  <2> QED
    BY <2>1, <2>2 DEF Until
<1> QED
  BY <1>1, <1>2

\* The invariant holds until a document without a login is given back to a tab
\* that stores one.
THEOREM ReviewInvariant == Spec => []Until
<1>1. Init => Until
  BY Starting DEF Until
<1>2. Until /\ [Next]_vars => Until'
  BY Stepping
<1> QED
  BY <1>1, <1>2, PTL DEF Spec

\* One refresh token is in one place: two documents never hold the same one,
\* and the tab of a document that is shown stores none.
THEOREM OneHolderCorrect == Spec => []OneHolder
<1>1. Until => OneHolder
  <2>1. ASSUME IInv PROVE \A d \in Docs : Shown(d) => store[TabOf(d)].ref = 0
    BY <2>1, Constants DEF IInv, Named
  <2> QED
    BY <2>1 DEF Until, OneHolder, IInv, Unique
<1> QED
  BY <1>1, ReviewInvariant, PTL

\* The server takes a refresh token for stolen, and revokes its chain, only
\* after a reload that cut a refresh off.
THEOREM ReuseCorrect == Spec => []ReuseNeedsReload
<1>1. Until => ReuseNeedsReload
  BY DEF Until, IInv, Shows, OnceOr, ReuseNeedsReload
<1> QED
  BY <1>1, ReviewInvariant, PTL

\* A login that a document has cleared does not come back to it.
THEOREM ClearedForGood == Spec => []NeverResurrected
<1>1. Until => NeverResurrected
  <2> SUFFICES ASSUME IInv, NEW d \in Docs, docs[d].mem # NoLogin
               PROVE  ChainOf(docs[d].mem.acc) \notin docs[d].forgot
    BY DEF Until, NeverResurrected
  <2>1. docs[d].mem \in LoginType /\ docs[d].mem.ref \in {0, docs[d].mem.acc}
    BY Spelt DEF IInv, Facts, Named, Holds
  <2>2. docs[d].mem.acc # 0
    BY <2>1, Strips
  <2> QED
    BY <2>2 DEF IInv, Forgotten
<1> QED
  BY <1>1, ReviewInvariant, PTL
=============================================================================

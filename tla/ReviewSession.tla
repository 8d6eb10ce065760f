--------------------------- MODULE ReviewSession ---------------------------
(***************************************************************************)
(* The review login of the teacher app (packages/shared/src/               *)
(* reviewSession.ts, apps/teacher/src/api.ts and App.tsx) against the      *)
(* grant chains of the server (main.py review-login, review-refresh,       *)
(* review-logout, review-revoke).                                          *)
(*                                                                         *)
(* One tab with two history entries, each a document of the app that the   *)
(* back/forward cache may keep, and a second tab made by "Duplicate tab".  *)
(* Each document has its own memory; a tab has one sessionStorage.  A      *)
(* grant is a number: it stands for its access token and for its refresh   *)
(* token, both named by it.  Time is abstract: a token may expire whenever. *)
(* One session; requests whose token the document does not know pass        *)
(* through authorizedReviewFetch and are left out.                         *)
(***************************************************************************)
EXTENDS Naturals, FiniteSets, Sequences

CONSTANTS
  MaxGrants,    \* bound on the grants minted
  Calls,        \* requests that may be in flight at once
  MaxTurns      \* bound on further logins, navigations, lost answers, expiries of a
                \* grant and operator revokes, taken together

ASSUME ReviewAssumption ==
  /\ {MaxGrants, MaxTurns} \subseteq Nat
  /\ 0 \notin Calls    \* flight = 0: none

VARIABLES
  docs,    \* Docs -> a document: its memory and its refresh flight
  store,   \* Tabs -> the login in sessionStorage
  calls,   \* Calls -> a request of a document
  grants,  \* the review_grants rows, in the order they were minted
  turns,   \* what is left of MaxTurns
  foundLogin \* history: the back/forward cache has given a document without a login back
           \* to a tab whose sessionStorage held the login of the other document

vars == <<docs, store, calls, grants, turns, foundLogin>>

Docs     == {"first", "second", "copy"}
Tabs     == {"tab", "duplicate"}
TabOf(d) == IF d = "copy" THEN "duplicate" ELSE "tab"
Sibling(d) == CHOOSE e \in Docs : TabOf(e) = TabOf(d) /\ e # d
Grants   == DOMAIN grants

NoLogin   == [acc |-> 0, ref |-> 0]
Login(g)  == [acc |-> g, ref |-> g]
Stripped(l) == [l EXCEPT !.ref = 0]

(* forgot is history: the chains this document has cleared.                *)
NoDoc == [at |-> "none", reload |-> FALSE, mem |-> NoLogin, flight |-> 0, forgot |-> {}]
Idle  == [kind |-> "idle", doc |-> "none", tok |-> 0, at |-> "sent", out |-> "ok",
          moved |-> FALSE, last |-> FALSE]

Call(kind, d, g) == [Idle EXCEPT !.kind = kind, !.doc = d, !.tok = g]

ChainOf(g) == grants[g].chain
Shown(d)   == docs[d].at = "shown"
Slots      == {c \in Calls : calls[c].kind = "idle"}

-----------------------------------------------------------------------------
(* The functions of reviewSession.ts, on the record b of what a browser    *)
(* holds: [docs, store, calls].                                            *)

Browser    == [docs |-> docs, store |-> store, calls |-> calls]
Becomes(b) == docs' = b.docs /\ store' = b.store /\ calls' = b.calls

InPlace(b, d, x) == [b EXCEPT !.docs[d] = x]
InSlot(b, c, k)  == [b EXCEPT !.calls[c] = k]

persistReview(b, d, refresh) ==
  [b EXCEPT !.store[TabOf(d)] = IF refresh THEN b.docs[d].mem ELSE Stripped(b.docs[d].mem)]

rememberReviewSession(b, d, g) ==
  persistReview([b EXCEPT !.docs[d].mem = Login(g)], d, FALSE)

(* Any navigation may take what pagehide has parked.                       *)
claimOnAny(b, d)               == TRUE
shouldClaimParkedRefresh(b, d) == b.docs[d].reload

readReviewSession(b, d) ==
  LET stored == b.store[TabOf(d)]
      held   == IF shouldClaimParkedRefresh(b, d) THEN stored ELSE Stripped(stored)
  IN  IF b.docs[d].mem # NoLogin \/ stored = NoLogin THEN b
      ELSE persistReview([b EXCEPT !.docs[d].mem = held], d, FALSE)

(* The chain of the login that a document holds, if any.                   *)
Known(b, d) == IF b.docs[d].mem.acc = 0 THEN {} ELSE {ChainOf(b.docs[d].mem.acc)}

Emptied(x, chains) == [x EXCEPT !.mem = NoLogin, !.flight = 0, !.forgot = @ \cup chains]

Forgets(b, d) ==
  [b EXCEPT !.docs[d] = Emptied(@, Known(b, d)), !.store[TabOf(d)] = NoLogin]

(* The memory goes, and the refresh in flight is not told.                 *)
clearSilently(b, d) == Forgets(b, d)

(* A clear moves the epoch: a refresh still in flight sees that it moved.  *)
clearReviewSession(b, d) ==
  [Forgets(b, d) EXCEPT !.calls = [c \in Calls |->
     IF b.calls[c].doc = d /\ b.calls[c].kind = "refresh" THEN [@[c] EXCEPT !.moved = TRUE]
                                                          ELSE @[c]]]

(* A 401 that the refresh token cannot mend, and the one that it can.      *)
isUnrecoverableReviewDetail(out) == out \in {"revoked", "reused"}
isExpiredReviewDetail(out)       == out = "expired"

(* The credentials go, and the page returns to the login form.             *)
dropUnrecoverableReviewSession(b, d) == clearReviewSession(b, d)

parkReviewRefreshForReload(b, d) ==
  IF b.docs[d].mem.ref = 0 THEN b ELSE persistReview(b, d, TRUE)

unparkReviewRefresh(b, d) ==
  IF b.docs[d].mem = NoLogin THEN b ELSE persistReview(b, d, FALSE)

-----------------------------------------------------------------------------
(* What the teacher does in a document that is shown.                      *)

Keeps == UNCHANGED <<grants, turns>>
Turn == turns > 0 /\ turns' = turns - 1

(* loadSession in review_code mode: the old login goes before the request. *)
(* logout() and a dropped login free the form while a login is still out.  *)
reviewLogin(d) ==
  /\ Shown(d)
  /\ \E c \in Slots :
       Becomes(InSlot(clearReviewSession(Browser, d), c, Call("login", d, 0)))
  /\ Turn /\ UNCHANGED grants

(* loadSession with a join code or a Bearer token, or a logout() that finds *)
(* no login: no word to the server.                                        *)
leaveReview(d) ==
  /\ Shown(d)
  /\ Becomes(clearReviewSession(Browser, d)) /\ Keeps

(* Every request, reviewLogout too, sends the latest access token.         *)
sends(kind, d) ==
  LET b == readReviewSession(Browser, d)
  IN  /\ Shown(d) /\ b.docs[d].mem # NoLogin
      /\ \E c \in Slots : Becomes(InSlot(b, c, Call(kind, d, b.docs[d].mem.acc)))
      /\ Keeps

(* The session, its timeline, rubric, clips and logs, in any order and at  *)
(* any time, on loading and later.                                         *)
fetchPage(d) == sends("page", d)

reviewLogout(d) ==
  /\ \A c \in Calls : calls[c].kind = "logout" => calls[c].doc # d    \* logoutPending
  /\ sends("logout", d)

-----------------------------------------------------------------------------
(* Answers at the document that asked.                                     *)

Answered(c, kinds) == calls[c].kind \in kinds /\ calls[c].at = "answered" /\ Shown(calls[c].doc)
Done(b, c)         == InSlot(b, c, Idle)

(* The answer signs in whatever happened since: no epoch is compared.      *)
LoginAnswered(c) ==
  LET b == Done(Browser, c)
  IN  /\ Answered(c, {"login"})
      /\ Becomes(IF calls[c].out = "ok" THEN rememberReviewSession(b, calls[c].doc, calls[c].tok)
                                        ELSE b)
      /\ Keeps

(* A revoked token drops the login; a logout answered 401 is a logout.     *)
FetchAnswered(c) ==
  LET b == Done(Browser, c)
  IN  /\ Answered(c, {"page", "logout"})
      /\ ~ isExpiredReviewDetail(calls[c].out) \/ calls[c].last
      /\ Becomes(CASE isUnrecoverableReviewDetail(calls[c].out) ->
                        dropUnrecoverableReviewSession(b, calls[c].doc)
                   [] calls[c].kind = "logout" /\ calls[c].out \in {"ok", "expired"} ->
                        clearReviewSession(b, calls[c].doc)
                   [] OTHER -> b)
      /\ Keeps

(* refreshReviewSession: one flight per document; a logout waits for it    *)
(* and is sent once more, a page request is sent again and ends there.     *)
Flies(b, d, c) ==
  InSlot(InPlace(b, d, [b.docs[d] EXCEPT !.flight = c]), c, Call("refresh", d, b.docs[d].mem.ref))
Waits(b, d, c, flight) ==
  IF calls[c].kind = "page" THEN b
  ELSE InSlot(b, c, [Call("logout", d, flight) EXCEPT !.at = "waits"])

Presents(g) == grants' = [grants EXCEPT ![g].shown = IF @ < 2 THEN @ + 1 ELSE @]

(* Every expired answer starts a refresh of its own.                       *)
refreshAlways(c) ==
  LET d == calls[c].doc
      b == readReviewSession(Done(Browser, c), d)
  IN  /\ b.docs[d].mem.ref # 0
      /\ Becomes(Flies(b, d, c)) /\ Presents(b.docs[d].mem.ref)

refreshReviewSession(c) ==
  LET d == calls[c].doc
      b == readReviewSession(Done(Browser, c), d)
  IN  \/ /\ b.docs[d].mem.ref = 0
         /\ Becomes(dropUnrecoverableReviewSession(b, d)) /\ UNCHANGED grants
      \/ /\ b.docs[d].mem.ref # 0 /\ docs[d].flight # 0
         /\ Becomes(Waits(b, d, c, docs[d].flight)) /\ UNCHANGED grants
      \/ /\ b.docs[d].mem.ref # 0 /\ docs[d].flight = 0
         /\ \/ /\ calls[c].kind = "page"
               /\ Becomes(Flies(b, d, c))
            \/ /\ calls[c].kind = "logout"
               /\ \E f \in Slots : Becomes(Waits(Flies(b, d, f), d, c, f))
         /\ Presents(b.docs[d].mem.ref)

FetchExpired(c) ==
  /\ Answered(c, {"page", "logout"}) /\ isExpiredReviewDetail(calls[c].out) /\ ~ calls[c].last
  /\ refreshReviewSession(c)
  /\ UNCHANGED turns

(* Those that waited for flight c: sent again with the new token, or over. *)
Resumed(b, c, again) ==
  [b EXCEPT !.calls = [e \in Calls |->
     IF @[e].at # "waits" \/ @[e].tok # c THEN @[e]
     ELSE IF again THEN [Call("logout", @[e].doc, b.docs[@[e].doc].mem.acc) EXCEPT !.last = TRUE]
     ELSE Idle]]

(* A late answer of a login that was cleared is thrown away.               *)
RefreshAnswered(c) ==
  LET d == calls[c].doc
      b == InPlace(Done(Browser, c), d, [docs[d] EXCEPT !.flight = IF @ = c THEN 0 ELSE @])
  IN  /\ Answered(c, {"refresh"})
      /\ Becomes(CASE calls[c].moved -> Resumed(b, c, FALSE)
                   [] ~ calls[c].moved /\ calls[c].out = "ok" ->
                        Resumed(rememberReviewSession(b, d, calls[c].tok), c, TRUE)
                   [] OTHER -> Resumed(dropUnrecoverableReviewSession(b, d), c, FALSE))
      /\ Keeps

-----------------------------------------------------------------------------
(* The server.                                                             *)

Reply(c, out, g) ==
  calls' = [calls EXCEPT ![c] = IF @.doc = "none" THEN Idle
                                ELSE [@ EXCEPT !.at = "answered", !.out = out, !.tok = g]]

Grant(chain, from) ==
  [chain |-> chain, from |-> from, revoked |-> FALSE, age |-> "fresh", shown |-> 0, cut |-> FALSE]

Revoked(S) == [g \in Grants |-> IF g \in S THEN [grants[g] EXCEPT !.revoked = TRUE] ELSE grants[g]]
revoke_review_chain(g) == Revoked({h \in Grants : ChainOf(h) = ChainOf(g)})

HasSuccessor(g) == \E h \in Grants : grants[h].from = g

review_login(c) ==
  /\ calls[c].kind = "login" /\ calls[c].at = "sent" /\ Len(grants) < MaxGrants
  /\ LET g == Len(grants) + 1
     IN  grants' = Append(grants, Grant(g, 0)) /\ Reply(c, "ok", g)
  /\ UNCHANGED <<docs, store, turns>>

(* The exp claim is read before the grant row.  A token in use may have    *)
(* expired by the time it is judged, and stays expired.                    *)
Judged(c, verdict, gs) ==
  LET g == calls[c].tok
  IN  \/ /\ verdict = "expired"
         /\ gs = [grants EXCEPT ![g].age = IF @ = "dead" THEN @ ELSE "stale"]
      \/ /\ verdict = (IF grants[g].revoked THEN "revoked" ELSE "ok")
         /\ grants[g].age = "fresh" /\ gs = grants

(* An answer that is not 401 changes nothing in the document.              *)
review_page(c) ==
  /\ calls[c].kind = "page" /\ calls[c].at = "sent"
  /\ \E verdict \in {"ok", "revoked", "expired"} :
       /\ Judged(c, verdict, grants')
       /\ IF verdict = "ok" THEN calls' = [calls EXCEPT ![c] = Idle]
                            ELSE Reply(c, verdict, calls[c].tok)
  /\ UNCHANGED <<docs, store, turns>>

review_logout(c) ==
  /\ calls[c].kind = "logout" /\ calls[c].at = "sent"
  /\ \E verdict \in {"ok", "revoked", "expired"} :
       /\ IF verdict = "ok" THEN Judged(c, verdict, grants) /\ grants' = revoke_review_chain(calls[c].tok)
                            ELSE Judged(c, verdict, grants')
       /\ Reply(c, verdict, calls[c].tok)
  /\ UNCHANGED <<docs, store, turns>>

(* review_refresh reads the grant, and mints in a transaction of its own;  *)
(* rotated_from is unique, so the second of two mints is a reuse as well.  *)
_reject_reused_refresh(c) ==
  /\ grants' = revoke_review_chain(calls[c].tok)
  /\ Reply(c, "reused", calls[c].tok)

RefreshReads(c) ==
  LET g == calls[c].tok
  IN  /\ calls[c].kind = "refresh" /\ calls[c].at = "sent"
      /\ \/ /\ grants[g].revoked
            /\ Reply(c, "revoked", g) /\ UNCHANGED <<grants, turns>>
         \/ /\ ~ grants[g].revoked /\ HasSuccessor(g)
            /\ _reject_reused_refresh(c) /\ UNCHANGED turns
         \/ /\ ~ grants[g].revoked /\ ~ HasSuccessor(g)
            /\ IF grants[g].age = "dead" THEN UNCHANGED turns ELSE Turn
            /\ grants' = [grants EXCEPT ![g].age = "dead"]
            /\ Reply(c, "expired", g)
         \/ /\ ~ grants[g].revoked /\ ~ HasSuccessor(g) /\ grants[g].age # "dead"
            /\ calls' = [calls EXCEPT ![c].at = "read"] /\ UNCHANGED <<grants, turns>>
      /\ UNCHANGED <<docs, store>>

RefreshMints(c) ==
  LET g == calls[c].tok
  IN  /\ calls[c].kind = "refresh" /\ calls[c].at = "read"
      /\ \/ /\ HasSuccessor(g)
            /\ _reject_reused_refresh(c)
         \/ /\ ~ HasSuccessor(g) /\ Len(grants) < MaxGrants
            /\ grants' = Append(grants, Grant(ChainOf(g), g))
            /\ Reply(c, "ok", Len(grants'))
      /\ UNCHANGED <<docs, store, turns>>

review_revoke ==
  /\ Turn /\ grants' = Revoked(Grants)
  /\ UNCHANGED <<docs, store, calls>>

(* The request or its answer is lost, or a login is refused: it rejects.   *)
FetchFails(c) ==
  /\ calls[c].kind \in {"login", "logout", "refresh"} /\ calls[c].doc # "none"
  /\ calls[c].out # "failed"
  /\ calls[c].at \in {"sent", "answered"} /\ Turn
  /\ Reply(c, "failed", calls[c].tok)
  /\ UNCHANGED <<docs, store, grants>>

-----------------------------------------------------------------------------
(* Navigation.  The calls of a document that is gone go on at the server,  *)
(* where a page request changes nothing and a login mints what nobody has. *)

Orphaned(b, S) ==
  [b EXCEPT !.calls = [c \in Calls |->
     IF @[c].doc \notin S THEN @[c]
     ELSE IF @[c].at \in {"waits", "answered"} \/ @[c].kind \in {"page", "login"} THEN Idle
     ELSE [@[c] EXCEPT !.doc = "none"]]]

(* A document starts: the first render reads the stored login.  Of the     *)
(* navigation types only "reload" matters; every browser reports one.      *)
Boots(b, d, reload) ==
  readReviewSession(InPlace(b, d, [NoDoc EXCEPT !.at = "shown", !.reload = reload]), d)

(* cut is history: a reload while the token was out for a refresh.         *)
Reload(d) ==
  /\ Shown(d) /\ Turn
  /\ Becomes(Boots(Orphaned(parkReviewRefreshForReload(Browser, d), {d}), d, TRUE))
  /\ grants' = [g \in Grants |-> [grants[g] EXCEPT !.cut = @ \/
                  \E c \in Calls : calls[c].doc = d /\ calls[c].kind = "refresh" /\ docs[d].mem.ref = g]]

(* Another document of the app in the same tab; the old one is kept in the *)
(* back/forward cache or not, what lay ahead in the history is gone.       *)
Navigate(d) ==
  /\ Shown(d) /\ TabOf(d) = "tab" /\ Turn
  /\ LET e == Sibling(d)
         b == Orphaned(parkReviewRefreshForReload(Browser, d), {e})
     IN  \/ Becomes(Boots(InPlace(b, d, [docs[d] EXCEPT !.at = "cached"]), e, FALSE))
         \/ Becomes(Boots(InPlace(Orphaned(b, {d}), d, NoDoc), e, FALSE))
  /\ UNCHANGED grants

(* Back or forward to a document in the cache.                             *)
Restore(d) ==
  /\ docs[d].at = "cached" /\ Turn
  /\ LET e == Sibling(d)
         b == InPlace(parkReviewRefreshForReload(Browser, e), e, [docs[e] EXCEPT !.at = "cached"])
     IN  /\ Becomes(unparkReviewRefresh(InPlace(b, d, [docs[d] EXCEPT !.at = "shown"]), d))
         /\ foundLogin' = (foundLogin \/ (docs[d].mem = NoLogin /\ b.store["tab"] # NoLogin))
  /\ UNCHANGED grants

(* "Duplicate tab" copies sessionStorage and no memory.                    *)
Duplicate(d) ==
  /\ Shown(d) /\ TabOf(d) = "tab" /\ docs["copy"].at = "none" /\ Turn
  /\ Becomes(Boots([Browser EXCEPT !.store["duplicate"] = store["tab"]], "copy", FALSE))
  /\ UNCHANGED grants

-----------------------------------------------------------------------------
(* The first document has just signed in.                                  *)
Init ==
  /\ docs = [d \in Docs |-> IF d = "first" THEN [NoDoc EXCEPT !.at = "shown", !.mem = Login(1)]
                                           ELSE NoDoc]
  /\ store = [t \in Tabs |-> IF t = "tab" THEN Stripped(Login(1)) ELSE NoLogin]
  /\ calls = [c \in Calls |-> Idle]
  /\ grants = <<Grant(1, 0)>>
  /\ turns = MaxTurns /\ foundLogin = FALSE

Next ==
  \/ \E d \in Docs : Restore(d)
  \/ /\ \/ \E d \in Docs :
             \/ reviewLogin(d) \/ leaveReview(d) \/ fetchPage(d) \/ reviewLogout(d)
             \/ Reload(d) \/ Navigate(d) \/ Duplicate(d)
        \/ \E c \in Calls :
             \/ LoginAnswered(c) \/ FetchAnswered(c) \/ FetchExpired(c) \/ RefreshAnswered(c)
             \/ review_login(c) \/ review_page(c) \/ review_logout(c)
             \/ RefreshReads(c) \/ RefreshMints(c) \/ FetchFails(c)
        \/ review_revoke
     /\ UNCHANGED foundLogin

Spec == Init /\ [][Next]_vars

-----------------------------------------------------------------------------
(* The code's comment at reviewSession.ts:5-10 promises more than it does: *)
(* a document whose login was cleared before the back/forward cache took   *)
(* it reads, given back, what its sibling left in sessionStorage.  Each    *)
(* property below is of what has happened until such a return.             *)

\* A refresh token is in one place: in the memory of one document, over reloads,
\* duplicated tabs and the back/forward cache, and in sessionStorage only while no
\* document of that tab is shown, until the cache gives a document without a login
\* back to a tab that stores one (reviewSession.ts:225-230 leaves it stored).
OneHolder ==
  foundLogin \/
    /\ \A d, e \in Docs : docs[d].mem.ref # 0 /\ docs[d].mem.ref = docs[e].mem.ref => d = e
    /\ \A d \in Docs : Shown(d) => store[TabOf(d)].ref = 0

\* The server sees a refresh token twice, and then revokes the chain, only
\* after a reload that cut the document off from the answer to the first, until
\* the cache gives a document without a login back to a tab that stores one: if a
\* reload had loaded it, it claims the token that the other document holds.
ReuseNeedsReload ==
  foundLogin \/
    /\ \A g \in Grants : grants[g].shown > 1 => grants[g].cut
    /\ \A c \in Calls : calls[c].out = "reused" => grants[calls[c].tok].cut

\* What a document has cleared does not come back to it, however late the
\* answers of its refreshes are, until the cache gives a document without a login
\* back to a tab that stores one: that login may be the one it has cleared.
NeverResurrected ==
  foundLogin \/
    \A d \in Docs : docs[d].mem # NoLogin => ChainOf(docs[d].mem.acc) \notin docs[d].forgot
=============================================================================

------------------------------- MODULE Session --------------------------------
(***************************************************************************)
(* AuthContext.tsx, session-fetch.ts, LogoutControls.tsx and the sign-in   *)
(* pages in several tabs of one browser, which share the session cookie.   *)
(* Tabs read the session when they are loaded, shown again or told of a    *)
(* logout; answers come late, in any order, or not at all.  StaffAccess    *)
(* has the steps of the server's sign-in, here one a request.              *)
(***************************************************************************)
EXTENDS Naturals, Sequences, FiniteSets

CONSTANTS
  Tab,         \* tabs of the browser
  User,        \* accounts
  Staff,       \* those with the staff role; the others are administrators
  MaxSessions, \* bound on the sign-ins
  MaxReads,    \* by tab, bound on the requests it waits for
  Address      \* addresses that tabs are loaded at

VARIABLES
  sessions, \* the users signed in, in order: sessions go by their position
  cookie,   \* the session of the browser's cookie, 0 when there is none that the server accepts
  mail,     \* tabs that have not heard of a logout yet
  tabs      \* by tab, what its page keeps

vars == <<sessions, cookie, mail, tabs>>

IsStaff(s) == sessions[s] \in Staff

(* A request, and what the server finds that its cookie is worth.          *)
(* current: is the user that revalidateSession set out with, by identity,  *)
(* still the one of userRef?                                               *)
Read(kind) == [kind |-> kind, answer |-> cookie, current |-> TRUE]
Loading(at) ==
  [at |-> at, status |-> "checking", user |-> 0, notice |-> "none", signedOutPath |-> "none",
   reads |-> {Read("initial")}, signing |-> {}, leaving |-> FALSE]

Init ==
  /\ sessions = <<>> /\ cookie = 0 /\ mail = {}
  /\ tabs = [t \in Tab |-> Loading("admin")]

-----------------------------------------------------------------------------
(* Where a tab is once it is rendered.                                     *)

HomeOf(s) == IF IsStaff(s) THEN "pos" ELSE "admin"
SignInOf(home) == IF home = "pos" THEN "staffSignIn" ELSE "signIn"

(* ProtectedRoute, the effects of the sign-in pages, and SessionNotice,    *)
(* which consumes the notice that the tab was sent there with.             *)
Rendered(p) ==
  CASE p.status = "authenticated" /\ (p.at \in {"pos", "admin"} \/ p.at = SignInOf(HomeOf(p.user))) ->
         [p EXCEPT !.at = HomeOf(p.user)]
    [] p.status = "signedOut" /\ p.at \in {"pos", "admin"} ->
         [p EXCEPT !.at = IF p.notice # "none" THEN p.signedOutPath ELSE SignInOf(p.at),
                   !.notice = "none", !.signedOutPath = "none"]
    [] OTHER -> p

Show(t, p) == tabs' = [tabs EXCEPT ![t] = Rendered(p)]

(* setAuthenticated: userRef is another object from here on.               *)
Authenticated(p, s) ==
  [p EXCEPT !.status = "authenticated", !.user = s, !.notice = "none", !.signedOutPath = "none",
            !.reads = {[r EXCEPT !.current = FALSE] : r \in @}]

(* signInPathFor                                                           *)
PathFor(p) == IF p.user # 0 /\ IsStaff(p.user) THEN "staffSignIn" ELSE "signIn"

(* transitionToSignedOut                                                   *)
SignedOut(p, notice) ==
  [p EXCEPT !.status = "signedOut", !.user = 0, !.notice = notice, !.signedOutPath = PathFor(p),
            !.reads = {[r EXCEPT !.current = FALSE] : r \in @}]

Tell(t) == mail' = Tab \ {t}

-----------------------------------------------------------------------------
(* Requests for the session and, from the page itself, for data.           *)

(* The tab is loaded, or loaded again, at some address.                    *)
Load(t, at) ==
  /\ tabs' = [tabs EXCEPT ![t] = Loading(at)] /\ mail' = mail \ {t}
  /\ UNCHANGED <<sessions, cookie>>

Ask(t, kind) ==
  /\ Cardinality(tabs[t].reads) < MaxReads[t]
  /\ tabs' = [tabs EXCEPT ![t].reads = @ \cup {Read(kind)}]

(* revalidateSession, when the tab is shown, and for a logout elsewhere    *)
Revalidate(t) ==
  /\ tabs[t].status = "authenticated" /\ Ask(t, "session")
  /\ mail' \in {mail, mail \ {t}} /\ UNCHANGED <<sessions, cookie>>

Ignore(t) ==
  /\ t \in mail /\ tabs[t].status # "authenticated" /\ mail' = mail \ {t}
  /\ UNCHANGED <<sessions, cookie, tabs>>

(* sessionFetch of a page that is only shown to its role.                  *)
Fetch(t) ==
  /\ tabs[t].status = "authenticated" /\ tabs[t].at = HomeOf(tabs[t].user) /\ Ask(t, "data")
  /\ UNCHANGED <<sessions, cookie, mail>>

Drop(t, r) == [tabs[t] EXCEPT !.reads = @ \ {r}]

(* checkInitialSession                                                     *)
InitialAnswered(t, r) ==
  /\ r.kind = "initial" /\ UNCHANGED mail
  /\ Show(t, IF r.answer # 0 THEN Authenticated(Drop(t, r), r.answer)
             ELSE [Drop(t, r) EXCEPT !.status = "signedOut"])

(* Mutant: an answer is used by whoever is signed in by now.               *)
IsSignedIn(t, r) == tabs[t].status = "authenticated"

IsForThisUser(t, r) == tabs[t].status = "authenticated" /\ r.current

SessionAnswered(t, r) ==
  /\ r.kind = "session" /\ UNCHANGED mail
  /\ Show(t, IF ~IsForThisUser(t, r) THEN Drop(t, r)
             ELSE IF r.answer # 0 THEN Authenticated(Drop(t, r), r.answer)
             ELSE SignedOut(Drop(t, r), "sessionEnded"))

(* The handler of setUnauthorizedHandler, whoever is signed in by now.     *)
DataAnswered(t, r) ==
  /\ r.kind = "data"
  /\ IF r.answer = 0 /\ tabs[t].status = "authenticated"
     THEN Show(t, SignedOut(Drop(t, r), "sessionEnded")) /\ Tell(t)
     ELSE Show(t, Drop(t, r)) /\ UNCHANGED mail

(* No answer: a tab that is being loaded asks again after a while, any     *)
(* other goes on as it is.                                                 *)
Lost(t, r) ==
  /\ tabs' = [tabs EXCEPT ![t] = [Drop(t, r) EXCEPT !.reads = IF r.kind = "initial" THEN {Read("initial")}
                                  ELSE @]]
  /\ UNCHANGED mail

-----------------------------------------------------------------------------
(* Signing in and out.                                                     *)

(* handleSubmit of SignInPage, handlePasswordSubmit and handlePinSubmit    *)
SignIn(t, u) ==
  /\ tabs[t].status # "checking" /\ tabs[t].signing = {}
  /\ tabs[t].at = IF u \in Staff THEN "staffSignIn" ELSE "signIn"
  /\ tabs' = [tabs EXCEPT ![t].signing = {u}] /\ UNCHANGED <<sessions, cookie, mail>>

(* completeLogin.  The cookie comes with the answer.                       *)
SignInAnswered(t) == \E u \in tabs[t].signing :
  /\ Len(sessions) < MaxSessions /\ sessions' = Append(sessions, u) /\ cookie' = Len(sessions')
  /\ LET p == Authenticated([tabs[t] EXCEPT !.signing = {}], cookie') IN
       tabs' = [tabs EXCEPT ![t] = [p EXCEPT !.at = IF u \in Staff THEN "pos" ELSE "admin"]]
  /\ UNCHANGED mail

(* recordFailure: the form locks for a while, which StaffAccess has.       *)
SignInRefused(t) ==
  /\ tabs[t].signing # {} /\ tabs' = [tabs EXCEPT ![t].signing = {}]
  /\ UNCHANGED <<sessions, cookie, mail>>

(* signOut of AdminLogoutControl and StaffLogoutControl                    *)
SignOut(t) ==
  /\ tabs[t].status = "authenticated" /\ tabs[t].at = HomeOf(tabs[t].user) /\ ~tabs[t].leaving
  /\ tabs' = [tabs EXCEPT ![t].leaving = TRUE] /\ UNCHANGED <<sessions, cookie, mail>>

(* completeLogout, also when the tab was signed out meanwhile.             *)
SignOutAnswered(t) ==
  /\ tabs[t].leaving /\ cookie' = 0 /\ Tell(t)
  /\ Show(t, SignedOut([tabs[t] EXCEPT !.leaving = FALSE], "signedOut"))
  /\ UNCHANGED sessions

SignOutFailed(t) ==
  /\ tabs[t].leaving /\ tabs' = [tabs EXCEPT ![t].leaving = FALSE]
  /\ UNCHANGED <<sessions, cookie, mail>>

(* The session runs out, or its account is deactivated.                    *)
End == cookie # 0 /\ cookie' = 0 /\ UNCHANGED <<sessions, mail, tabs>>

Next ==
  \/ End
  \/ \E t \in Tab :
       \/ \E at \in Address : Load(t, at)
       \/ Revalidate(t) \/ Ignore(t) \/ Fetch(t)
       \/ /\ UNCHANGED <<sessions, cookie>>
          /\ \E r \in tabs[t].reads :
               InitialAnswered(t, r) \/ SessionAnswered(t, r) \/ DataAnswered(t, r) \/ Lost(t, r)
       \/ \E u \in User : SignIn(t, u)
       \/ SignInAnswered(t) \/ SignInRefused(t)
       \/ SignOut(t) \/ SignOutAnswered(t) \/ SignOutFailed(t)
Spec == Init /\ [][Next]_vars

-----------------------------------------------------------------------------

(* A tab has a user if and only if it says that it is authenticated.       *)
TypeOK ==
  /\ cookie \in 0 .. Len(sessions) /\ mail \subseteq Tab
  /\ \A t \in Tab :
       tabs[t].user \in 0 .. Len(sessions) /\ (tabs[t].user # 0 <=> tabs[t].status = "authenticated")

(* However late an answer is, it never gives a tab an earlier session than *)
(* the one it shows: the user who signed in last is not replaced by the    *)
(* one before.                                                             *)
SessionsNeverGoBack ==
  [][\A t \in Tab : tabs[t].user # 0 /\ tabs'[t].user # 0 => tabs'[t].user >= tabs[t].user]_vars

(* Once signed out, a tab stays so until somebody signs in in this tab: no *)
(* answer to a question from before brings the user back.                  *)
SignedOutUntilSignIn ==
  [][\A t \in Tab :
       tabs[t].status = "signedOut" /\ tabs'[t].status = "authenticated"
         => tabs[t].signing # {} /\ sessions' # sessions]_vars

(* A member of the staff who is signed out, by a click, by another tab or  *)
(* by the server, is sent to the staff's own sign-in page.                 *)
StaffStayOnTheirSide ==
  [][\A t \in Tab :
       tabs[t].at = "pos" /\ tabs[t].status = "authenticated" /\ tabs'[t].status = "signedOut"
         => tabs'[t].at = "staffSignIn"]_vars

(* The parts above, for the run of all the pages.                           *)
SessionsAreCurrent == SessionsNeverGoBack /\ SignedOutUntilSignIn /\ StaffStayOnTheirSide
==============================================================================

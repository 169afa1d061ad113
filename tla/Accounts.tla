------------------------------ MODULE Accounts ------------------------------
(***************************************************************************)
(* The account of one e-mail address and the sessions of its owner:        *)
(* apps/api/src/auth/auth.service.ts, auth.controller.ts and               *)
(* account-linking.ts, the part of admin/admin.service.ts that suspends    *)
(* and bans, and, in the browser, apps/web/src/lib/auth.ts and             *)
(* hooks/useAuth.tsx.                                                      *)
(*                                                                         *)
(* A call is an HTTP request from the moment the page sends it, with the   *)
(* cookie of that moment, until its answer reaches the page; the server    *)
(* works on it one statement of the database at a time.  A browser holds   *)
(* one page, and its refresh token is a cookie; the access token, which    *)
(* the page keeps in memory and which decides nothing here, is left out.   *)
(* Whether a password is right, a token expired or Google vouches for the  *)
(* address is left open.  Nothing in the API deletes a user, so deletedAt  *)
(* is left out, as are names, limits and mail that only informs.           *)
(***************************************************************************)
EXTENDS Naturals, FiniteSets, TLC

CONSTANTS
    Browsers,
    Identities,   \* Google accounts that carry the address
    Tokens,       \* refresh tokens; one that nobody holds may be issued anew
    Calls,        \* bound: requests at once
    None

ASSUME AccountsAssumption ==
    /\ None \notin Browsers \cup Tokens \cup Identities
    /\ Tokens \cap Identities = {}

VARIABLES
    account,      \* the row of the user
    mail,         \* purposes of the links in the mailbox that still work
    linked,       \* oAuthAccount: the identities that open the account
    tokens,       \* the rows of refreshToken
    calls,
    pages

vars == <<account, mail, linked, tokens, calls, pages>>
server == <<account, mail, linked, tokens>>

Nobody == [exists |-> FALSE, password |-> FALSE, verified |-> FALSE, active |-> TRUE]

Request(what, b) ==
    [what |-> what, from |-> b, step |-> "read", token |-> None, new |-> None,
     saw |-> TRUE,      \* the account was active when it was read
     heard |-> TRUE,    \* the page that asked still waits
     sure |-> TRUE]     \* no answer with a token was lost before

Page == [cookie |-> None, lost |-> FALSE, here |-> TRUE,
         status |-> "anonimo", timer |-> FALSE, pending |-> FALSE, waiters |-> {}]

Init ==
    /\ account = Nobody
    /\ mail = {}
    /\ linked = {}
    /\ tokens = [t \in Tokens |-> "free"]
    /\ calls = [c \in Calls |-> None]
    /\ pages = [b \in Browsers |-> Page]

Under(c, what, step) == calls[c] # None /\ calls[c].what \in what /\ calls[c].step = step

Goes(c, step) == calls' = [calls EXCEPT ![c].step = step]

\* The answer leaves, and what the server kept for it goes.  Nobody reads the
\* answer to a page that is gone.
Answer(e, step, t) ==
    IF e.heard /\ e.from # None
    THEN [Request(e.what, e.from) EXCEPT !.step = step, !.new = t]
    ELSE None

Ends(c, step) == calls' = [calls EXCEPT ![c] = Answer(@, step, @.new)]

-----------------------------------------------------------------------------
(* Sessions, at the server.                                                *)

Unused(t) ==
    /\ \A b \in Browsers : pages[b].cookie # t
    /\ \A c \in Calls : calls[c] # None => t \notin {calls[c].token, calls[c].new}

\* issueSession.  A refresh goes on to replace the token it came with.
Issue(c, t) ==
    /\ Under(c, {"refresh", "login", "register", "google"}, "issue")
    /\ Unused(t)
    /\ tokens' = [tokens EXCEPT ![t] = "live"]
    /\ calls' = [calls EXCEPT ![c] =
           IF @.what = "refresh" THEN [@ EXCEPT !.new = t, !.step = "replace"]
           ELSE Answer(@, "ok", t)]
    /\ UNCHANGED <<account, mail, linked, pages>>

\* revokeAllFor, and the same statement of admin.service.
RevokedAll == [t \in Tokens |-> IF tokens[t] = "live" THEN "revoked" ELSE tokens[t]]

Revoke(c) ==
    /\ Under(c, {"refresh", "login", "google", "ban"}, "revoke")
    /\ tokens' = RevokedAll
    /\ Ends(c, "no")
    /\ UNCHANGED <<account, mail, linked, pages>>

Standing(t) == IF t = None THEN "none" ELSE tokens[t]

\* refresh, up to issueSession: the record and its user are read at once.
RefreshRead(c) ==
    /\ Under(c, {"refresh"}, "read")
    /\ LET standing == Standing(calls[c].token)
       IN  \/ /\ standing \in {"none", "live"}       \* no cookie, or it expired
              /\ Ends(c, "no")
           \/ /\ standing \in {"revoked", "replaced"}
              /\ Goes(c, "revoke")
           \/ /\ standing = "live"
              /\ Goes(c, IF account.active THEN "issue" ELSE "revoke")
    /\ UNCHANGED <<server, pages>>

\* The end of refresh, whatever the token became meanwhile.
Replace(c) ==
    /\ Under(c, {"refresh"}, "replace")
    /\ tokens' = [tokens EXCEPT ![calls[c].token] = "replaced"]
    /\ Ends(c, "ok")
    /\ UNCHANGED <<account, mail, linked, pages>>

Logout(c) ==
    /\ Under(c, {"logout"}, "read")
    /\ tokens' = [t \in Tokens |-> IF t = calls[c].token /\ tokens[t] = "live" THEN "revoked" ELSE tokens[t]]
    /\ Ends(c, "ok")
    /\ UNCHANGED <<account, mail, linked, pages>>

LoginRead(c) ==
    /\ Under(c, {"login"}, "read")
    /\ \/ Ends(c, "no")                            \* no such account, or wrong password
       \/ /\ account.exists /\ account.password
          /\ Goes(c, IF account.active THEN "issue" ELSE "revoke")
    /\ UNCHANGED <<server, pages>>

-----------------------------------------------------------------------------
(* The account, at the server.                                             *)

RegisterRead(c) ==
    /\ Under(c, {"register"}, "read")
    /\ IF account.exists THEN Ends(c, "no") ELSE Goes(c, "create")
    /\ UNCHANGED <<server, pages>>

\* createUser, in a transaction that fails when the address is taken.
RegisterCreate(c) ==
    /\ Under(c, {"register"}, "create")
    /\ IF account.exists
       THEN /\ Ends(c, "no")
            /\ UNCHANGED server
       ELSE /\ account' = [Nobody EXCEPT !.exists = TRUE, !.password = TRUE]
            /\ mail' = mail \cup {"VERIFY"}
            /\ Goes(c, "issue")
            /\ UNCHANGED <<linked, tokens>>
    /\ UNCHANGED pages

\* resolveGoogleUser: who has this identity, before who has this address.
GoogleRead(c) ==
    /\ Under(c, {"google"}, "read")
    /\ IF calls[c].token \in linked
       THEN calls' = [calls EXCEPT ![c].step = IF account.active THEN "issue" ELSE "revoke"]
       ELSE Goes(c, "byEmail")
    /\ UNCHANGED <<server, pages>>

\* Mutant of MayLink: an address nobody confirmed is taken for its owner's.
MayLinkAny(user) == user.exists

\* decideAccountLink, of an identity that opens no account yet.
MayLink(user) == user.exists /\ user.verified

MayCreate(user) == ~user.exists

GoogleByEmail(c) ==
    /\ Under(c, {"google"}, "byEmail")
    /\ \/ Ends(c, "no")                            \* Google does not vouch
       \/ /\ MayLink(account)
          /\ calls' = [calls EXCEPT ![c].step = "link", ![c].saw = account.active]
       \/ /\ MayCreate(account)
          /\ Goes(c, "create")
       \/ /\ ~MayLink(account) /\ ~MayCreate(account)
          /\ Ends(c, "no")
    /\ UNCHANGED <<server, pages>>

GoogleLink(c) ==
    /\ Under(c, {"google"}, "link")
    /\ IF calls[c].token \in linked
       THEN Ends(c, "no") /\ UNCHANGED linked
       ELSE /\ linked' = linked \cup {calls[c].token}
            /\ Goes(c, IF calls[c].saw THEN "issue" ELSE "revoke")
    /\ UNCHANGED <<account, mail, tokens, pages>>

\* One transaction: the user and the link, or neither.
GoogleCreate(c) ==
    /\ Under(c, {"google"}, "create")
    /\ IF account.exists
       THEN Ends(c, "no") /\ UNCHANGED <<account, linked>>
       ELSE /\ account' = [Nobody EXCEPT !.exists = TRUE, !.verified = TRUE]
            /\ linked' = linked \cup {calls[c].token}
            /\ Goes(c, "issue")
    /\ UNCHANGED <<mail, tokens, pages>>

Free(c) == calls[c] = None

\* A link of the mailbox is opened, and found good by consumeEmailToken.
LinkOpened(c, purpose) ==
    /\ Free(c)
    /\ purpose \in mail
    /\ calls' = [calls EXCEPT ![c] = [Request(purpose, None) EXCEPT !.step = "use"]]
    /\ UNCHANGED <<server, pages>>

\* The second statement of consumeEmailToken.
LinkUsed(c) ==
    /\ Under(c, {"VERIFY", "RESET"}, "use")
    /\ mail' = mail \ {calls[c].what}
    /\ Goes(c, "set")
    /\ UNCHANGED <<account, linked, tokens, pages>>

VerifyEmail(c) ==
    /\ Under(c, {"VERIFY"}, "set")
    /\ account' = [account EXCEPT !.verified = TRUE]
    /\ Ends(c, "ok")
    /\ UNCHANGED <<mail, linked, tokens, pages>>

\* resetPassword: one transaction.
ResetPassword(c) ==
    /\ Under(c, {"RESET"}, "set")
    /\ account' = [account EXCEPT !.password = TRUE, !.verified = TRUE]
    /\ tokens' = RevokedAll
    /\ Ends(c, "ok")
    /\ UNCHANGED <<mail, linked, pages>>

ForgotPassword ==
    /\ account.exists /\ account.active
    /\ mail' = mail \cup {"RESET"}
    /\ UNCHANGED <<account, linked, tokens, calls, pages>>

\* updateUser of admin.service: the status, and then the sessions.
Suspend(c) ==
    /\ Free(c)
    /\ account.exists
    /\ account' = [account EXCEPT !.active = FALSE]
    /\ calls' = [calls EXCEPT ![c] = [Request("ban", None) EXCEPT !.step = "revoke"]]
    /\ UNCHANGED <<mail, linked, tokens, pages>>

Reinstate ==
    /\ account.exists /\ ~account.active
    /\ account' = [account EXCEPT !.active = TRUE]
    /\ UNCHANGED <<mail, linked, tokens, calls, pages>>

-----------------------------------------------------------------------------
(* The page.                                                               *)

\* What is sent with the cookie of the page p.
WithCookie(what, b, p) ==
    [Request(what, b) EXCEPT !.token = p.cookie, !.sure = ~p.lost]

\* Mutant of RefreshSession: the renewal under way is not shared.
RefreshSessionAlone(b, p, waiter) ==
    \E c \in Calls :
        /\ Free(c)
        /\ calls' = [calls EXCEPT ![c] = WithCookie("refresh", b, p)]
        /\ pages' = [pages EXCEPT ![b] = [p EXCEPT !.pending = TRUE, !.waiters = @ \cup waiter]]

\* refreshSession, by the page p: whoever asks during a renewal waits for that one.
RefreshSession(b, p, waiter) ==
    IF p.pending
    THEN /\ pages' = [pages EXCEPT ![b] = [p EXCEPT !.waiters = @ \cup waiter]]
         /\ UNCHANGED calls
    ELSE \E c \in Calls :
             /\ Free(c)
             /\ calls' = [calls EXCEPT ![c] = WithCookie("refresh", b, p)]
             /\ pages' = [pages EXCEPT ![b] = [p EXCEPT !.pending = TRUE, !.waiters = waiter]]

\* reload of useAuth, by the page of the way back from Google too.
Reload(b) ==
    /\ pages[b].here
    /\ RefreshSession(b, pages[b], {"reload"})
    /\ UNCHANGED server

RenewTimeout(b) ==
    /\ pages[b].timer
    /\ RefreshSession(b, [pages[b] EXCEPT !.timer = FALSE], {"timer"})
    /\ UNCHANGED server

\* authedFetch was told 401, perhaps of a token that was good when it was sent.
FetchUnauthorized(b) ==
    /\ pages[b].here
    /\ ~pages[b].pending
    /\ RefreshSession(b, pages[b], {})
    /\ UNCHANGED server

\* signIn, signUp and signOut, up to their await.
Submits(b, c, what) ==
    /\ pages[b].here
    /\ Free(c)
    /\ calls' = [calls EXCEPT ![c] =
           IF what = "logout" THEN WithCookie(what, b, pages[b]) ELSE Request(what, b)]
    /\ UNCHANGED <<server, pages>>

\* What the page sent is not waited for any more.
Unheard(b) ==
    [c \in Calls |->
        IF calls[c] = None \/ calls[c].from # b THEN calls[c]
        ELSE IF calls[c].step \in {"ok", "no"} THEN None
        ELSE [calls[c] EXCEPT !.heard = FALSE]]

\* A renewal may have replaced the cookie, and its answer will not be read.
Gone(b) ==
    [Page EXCEPT !.cookie = pages[b].cookie, !.lost = pages[b].lost \/ pages[b].pending]

\* The page is loaded again, and AuthProvider mounts.
PageLoaded(b) ==
    /\ LET left == Unheard(b)
           p == [Gone(b) EXCEPT !.status = "carregando", !.pending = TRUE, !.waiters = {"reload"}]
       IN  \E c \in Calls :
               /\ left[c] = None
               /\ calls' = [left EXCEPT ![c] = WithCookie("refresh", b, p)]
               /\ pages' = [pages EXCEPT ![b] = p]
    /\ UNCHANGED server

\* To Google and back, to the callback of the API: a navigation of the page.
ThroughGoogle(b, g) ==
    /\ pages[b].here
    /\ LET left == Unheard(b)
       IN  \E c \in Calls :
               /\ left[c] = None
               /\ calls' = [left EXCEPT ![c] = [Request("google", b) EXCEPT !.token = g]]
               /\ pages' = [pages EXCEPT ![b] = [Gone(b) EXCEPT !.here = FALSE]]
    /\ UNCHANGED server

Kept(p, token) == [p EXCEPT !.cookie = token, !.lost = FALSE]

Signed(p) == [p EXCEPT !.status = "autenticado", !.timer = TRUE]

\* Mutant of Renewed: a renewal the timeout asked for does not set the next one.
RenewedOnce(p) ==
    [p EXCEPT !.pending = FALSE, !.waiters = {},
              !.timer = @ \/ "reload" \in p.waiters,
              !.status = IF "reload" \in p.waiters THEN "autenticado" ELSE @]

\* refreshSession and whoever waits for it, after the answer.
Renewed(p) ==
    [p EXCEPT !.pending = FALSE, !.waiters = {},
              !.timer = @ \/ p.waiters # {},
              !.status = IF "reload" \in p.waiters THEN "autenticado" ELSE @]

NotRenewed(p) ==
    [p EXCEPT !.pending = FALSE, !.waiters = {},
              !.status = IF p.waiters # {} THEN "anonimo" ELSE @]

SignedOut(p) == [p EXCEPT !.timer = FALSE, !.status = "anonimo"]

\* The controller sends the cookie with the answer, and clears it with a renewal
\* that fails and with every logout.
Answered(p, e) ==
    LET ok == e.step = "ok"
    IN  CASE e.what = "refresh" -> IF ok THEN Renewed(Kept(p, e.new)) ELSE NotRenewed(Kept(p, None))
          [] e.what = "logout"  -> SignedOut(Kept(p, None))
          [] e.what \in {"login", "register"} -> IF ok THEN Signed(Kept(p, e.new)) ELSE p
          [] e.what = "google"  ->
                 [(IF ok THEN Kept(p, e.new) ELSE p)
                     EXCEPT !.here = TRUE, !.status = "carregando", !.pending = TRUE, !.waiters = {"reload"}]

AnswerArrives(c) ==
    /\ calls[c] # None /\ calls[c].step \in {"ok", "no"}
    /\ LET b == calls[c].from
           p == Answered(pages[b], calls[c])
       IN  /\ pages' = [pages EXCEPT ![b] = p]
           /\ calls' = [calls EXCEPT ![c] =
                  IF @.what = "google"     \* the page loads, and renews
                  THEN WithCookie("refresh", b, p)
                  ELSE None]
    /\ UNCHANGED server

\* The network fails a request, at any time: what the page does then.
AnswerLost(c) ==
    /\ calls[c] # None /\ calls[c].heard /\ calls[c].from # None /\ calls[c].what # "google"
    /\ LET b == calls[c].from
           p == pages[b]
       IN  pages' = [pages EXCEPT ![b] =
                CASE calls[c].what = "refresh" -> NotRenewed([p EXCEPT !.lost = TRUE])
                  [] calls[c].what = "logout"  -> SignedOut(p)
                  [] OTHER -> p]
    /\ calls' = [calls EXCEPT ![c] = IF @.step \in {"ok", "no"} THEN None ELSE [@ EXCEPT !.heard = FALSE]]
    /\ UNCHANGED server

-----------------------------------------------------------------------------

Served(c) ==
    \/ RefreshRead(c) \/ Replace(c) \/ Revoke(c) \/ Logout(c) \/ LoginRead(c)
    \/ RegisterRead(c) \/ RegisterCreate(c)
    \/ GoogleRead(c) \/ GoogleByEmail(c) \/ GoogleLink(c) \/ GoogleCreate(c)
    \/ LinkUsed(c) \/ VerifyEmail(c) \/ ResetPassword(c)
    \/ \E t \in Tokens : Issue(c, t)

Next ==
    \/ \E c \in Calls :
          \/ Served(c) \/ AnswerArrives(c) \/ AnswerLost(c) \/ Suspend(c)
          \/ \E purpose \in {"VERIFY", "RESET"} : LinkOpened(c, purpose)
    \/ ForgotPassword \/ Reinstate
    \/ \E b \in Browsers :
          \/ Reload(b) \/ RenewTimeout(b) \/ FetchUnauthorized(b) \/ PageLoaded(b)
          \/ \E g \in Identities : ThroughGoogle(b, g)
          \/ \E c \in Calls, what \in {"login", "register", "logout"} : Submits(b, c, what)

Spec == Init /\ [][Next]_vars

-----------------------------------------------------------------------------

Whats == {"refresh", "login", "register", "logout", "google", "VERIFY", "RESET", "ban"}
Steps == {"read", "create", "byEmail", "link", "use", "set", "issue", "replace", "revoke", "ok", "no"}

Users == [exists : BOOLEAN, password : BOOLEAN, verified : BOOLEAN, active : BOOLEAN]

Requests ==
    [what : Whats, from : Browsers \cup {None}, step : Steps,
     token : Tokens \cup Identities \cup {None}, new : Tokens \cup {None},
     saw : BOOLEAN, heard : BOOLEAN, sure : BOOLEAN]

Pages ==
    [cookie : Tokens \cup {None}, lost : BOOLEAN, here : BOOLEAN,
     status : {"carregando", "autenticado", "anonimo"},
     timer : BOOLEAN, pending : BOOLEAN, waiters : SUBSET {"reload", "timer"}]

TypeOK ==
    /\ account \in Users
    /\ mail \subseteq {"VERIFY", "RESET"}
    /\ linked \subseteq Identities
    /\ tokens \in [Tokens -> {"free", "live", "revoked", "replaced"}]
    /\ calls \in [Calls -> Requests \cup {None}]
    /\ pages \in [Browsers -> Pages]

\* decideAccountLink, account-linking.ts:45-79, and register, auth.service.ts:213
\* "e essa marca que impede o Google de adotar a conta depois": whatever
\* registers, links, creates and confirms at once, an identity of Google opens
\* only an account whose address was confirmed.
LinkedIsVerified ==
    /\ TypeOK
    /\ linked # {} => account.exists /\ account.verified

\* refreshSession, web/src/lib/auth.ts:30-38 "a segunda apresentaria um token ja
\* substituido, o servidor leria como reuso": of a page that lost no answer, the
\* token of a renewal under way is never one that another renewal has replaced.
RenewalIsNoReuse ==
    \A c \in Calls :
        /\ calls[c] # None /\ calls[c].what = "refresh"
        /\ calls[c].heard /\ calls[c].sure
        /\ calls[c].step \in {"read", "issue", "replace"}
        => Standing(calls[c].token) # "replaced"

\* scheduleRenew and reload, web/src/hooks/useAuth.tsx:51-83: a page that shows
\* somebody signed in has a renewal set or under way that will tell it otherwise.
RenewalNeverStops ==
    \A b \in Browsers :
        pages[b].status = "autenticado" =>
            pages[b].timer \/ (pages[b].pending /\ pages[b].waiters # {})
=============================================================================

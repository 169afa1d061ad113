--------------------------- MODULE AccountsProofs ---------------------------
(***************************************************************************)
(* Proofs about Accounts, for every set of browsers, identities, tokens    *)
(* and requests.                                                           *)
(***************************************************************************)
EXTENDS Accounts, TLAPS

Confirmed(user) == user.exists /\ user.verified

\* What a request may be.  An identity is about to be linked only to an account
\* that was confirmed when it was read, and is still.
Sound(e, user) ==
    e # None =>
        /\ e.from = None <=> e.what \in {"VERIFY", "RESET", "ban"}
        /\ e.step \in {"ok", "no"} => e.from # None
        /\ e.what = "google" /\ e.step \in {"read", "byEmail", "create", "link"} => e.token \in Identities
        /\ e.what = "google" /\ e.step = "link" => Confirmed(user)

CallsAreSound == \A c \in Calls : Sound(calls[c], account)

\* The inductive invariant.
Inv == LinkedIsVerified /\ CallsAreSound

-----------------------------------------------------------------------------
(* One request changes, or none.                                           *)

LEMMA CallChanges ==
    ASSUME TypeOK, CallsAreSound, NEW c \in Calls, NEW x \in Requests \cup {None},
           calls' = [calls EXCEPT ![c] = x],
           Sound(x, account'),
           Confirmed(account) => Confirmed(account')
    PROVE  calls' \in [Calls -> Requests \cup {None}] /\ CallsAreSound'
  <1>1. calls' \in [Calls -> Requests \cup {None}]
    BY DEF TypeOK
  <1>2. ASSUME NEW d \in Calls PROVE Sound(calls'[d], account')
    <2>1. CASE d = c
      BY <2>1 DEF TypeOK
    <2>2. CASE d # c
      BY <2>2 DEF TypeOK, CallsAreSound, Sound
    <2>3. QED
      BY <2>1, <2>2
  <1>3. QED
    BY <1>1, <1>2 DEF CallsAreSound

LEMMA RequestType ==
    ASSUME NEW what \in Whats, NEW b \in Browsers \cup {None}
    PROVE  Request(what, b) \in Requests
  BY DEF Request, Requests, Steps

LEMMA AnswerSound ==
    ASSUME TypeOK, CallsAreSound, NEW c \in Calls, calls[c] # None,
           NEW step \in {"ok", "no"}, NEW t \in Tokens \cup {None}, NEW user
    PROVE  /\ Answer(calls[c], step, t) \in Requests \cup {None}
           /\ Sound(Answer(calls[c], step, t), user)
  <1> DEFINE e == calls[c]
  <1>1. e \in Requests /\ Sound(e, account)
    BY DEF TypeOK, CallsAreSound
  <1>2. Request(e.what, e.from) \in Requests
    BY <1>1, RequestType DEF Requests
  <1>3. [Request(e.what, e.from) EXCEPT !.step = step, !.new = t] \in Requests
    BY <1>2 DEF Requests, Steps
  <1>4. e.from # None => Sound([Request(e.what, e.from) EXCEPT !.step = step, !.new = t], user)
    BY <1>1 DEF Sound, Request
  <1>5. QED
    BY <1>3, <1>4 DEF Answer, Sound

\* A request that goes from step to step.
LEMMA StepSound ==
    ASSUME TypeOK, CallsAreSound, NEW c \in Calls, calls[c] # None,
           NEW step \in Steps \ {"ok", "no", "read", "byEmail", "create", "link"}, NEW user
    PROVE  /\ [calls[c] EXCEPT !.step = step] \in Requests
           /\ Sound([calls[c] EXCEPT !.step = step], user)
  <1>1. calls[c] \in Requests /\ Sound(calls[c], account)
    BY DEF TypeOK, CallsAreSound
  <1>2. QED
    BY <1>1 DEF Requests, Sound

LEMMA InitInv == Init => Inv
  <1> SUFFICES ASSUME Init PROVE Inv
    OBVIOUS
  <1>1. account \in Users /\ mail \subseteq {"VERIFY", "RESET"} /\ linked \subseteq Identities
    BY DEF Init, Nobody, Users
  <1>2. tokens \in [Tokens -> {"free", "live", "revoked", "replaced"}]
    BY DEF Init
  <1>3. calls \in [Calls -> Requests \cup {None}] /\ CallsAreSound
    BY DEF Init, CallsAreSound, Sound
  <1>4. pages \in [Browsers -> Pages]
    BY DEF Init, Page, Pages
  <1>5. QED
    BY <1>1, <1>2, <1>3, <1>4 DEF Inv, LinkedIsVerified, TypeOK, Init

-----------------------------------------------------------------------------
(* The actions.                                                            *)

\* What an action owes for Inv' when it changes one request.
LEMMA OneCall ==
    ASSUME Inv, NEW c \in Calls, NEW x \in Requests \cup {None},
           calls' = [calls EXCEPT ![c] = x],
           Sound(x, account'),
           account' \in Users,
           Confirmed(account) => Confirmed(account'),
           mail' \subseteq {"VERIFY", "RESET"},
           linked' \subseteq Identities,
           linked' = linked \/ Confirmed(account'),
           tokens' \in [Tokens -> {"free", "live", "revoked", "replaced"}],
           pages' \in [Browsers -> Pages]
    PROVE  Inv'
  <1>1. calls' \in [Calls -> Requests \cup {None}] /\ CallsAreSound'
    BY CallChanges DEF Inv, LinkedIsVerified
  <1>2. linked' # {} => account'.exists /\ account'.verified
    BY DEF Inv, LinkedIsVerified, Confirmed
  <1>3. QED
    BY <1>1, <1>2 DEF Inv, LinkedIsVerified, TypeOK

LEMMA RevokedAllType ==
    ASSUME TypeOK PROVE RevokedAll \in [Tokens -> {"free", "live", "revoked", "replaced"}]
  BY DEF TypeOK, RevokedAll

\* Of the steps of a request that leave the account and the links alone.
LEMMA SessionsInv ==
    ASSUME Inv, NEW c \in Calls,
           \/ RefreshRead(c) \/ Replace(c) \/ Revoke(c) \/ Logout(c) \/ LoginRead(c)
           \/ \E t \in Tokens : Issue(c, t)
    PROVE  Inv'
  <1> USE DEF Under
  <1>0. TypeOK /\ CallsAreSound
    BY DEF Inv, LinkedIsVerified
  <1>1. calls[c] # None /\ calls[c] \in Requests /\ Sound(calls[c], account)
    BY <1>0 DEF TypeOK, CallsAreSound, RefreshRead, Replace, Revoke, Logout, LoginRead, Issue
  <1>2. UNCHANGED <<account, mail, linked, pages>>
    BY DEF RefreshRead, Replace, Revoke, Logout, LoginRead, Issue, server
  <1>3. tokens' \in [Tokens -> {"free", "live", "revoked", "replaced"}]
    <2>1. CASE RefreshRead(c) \/ LoginRead(c)
      BY <2>1, <1>0 DEF RefreshRead, LoginRead, server, TypeOK
    <2>2. CASE Replace(c)
      BY <2>2, <1>0 DEF Replace, TypeOK
    <2>3. CASE Revoke(c)
      BY <2>3, <1>0, RevokedAllType DEF Revoke
    <2>4. CASE Logout(c)
      BY <2>4, <1>0 DEF Logout, TypeOK
    <2>5. CASE \E t \in Tokens : Issue(c, t)
      BY <2>5, <1>0 DEF Issue, TypeOK
    <2>6. QED
      BY <2>1, <2>2, <2>3, <2>4, <2>5
  <1>4. \E x \in Requests \cup {None} :
            calls' = [calls EXCEPT ![c] = x] /\ Sound(x, account')
    <2>1. ASSUME NEW step \in {"ok", "no"}, Ends(c, step)
          PROVE  \E x \in Requests \cup {None} :
                     calls' = [calls EXCEPT ![c] = x] /\ Sound(x, account')
      <3>1. calls' = [calls EXCEPT ![c] = Answer(calls[c], step, calls[c].new)]
        BY <2>1, <1>0 DEF Ends, TypeOK
      <3>2. calls[c].new \in Tokens \cup {None}
        BY <1>1 DEF Requests
      <3>3. QED
        BY <3>1, <3>2, <1>0, <1>1, AnswerSound
    <2>2. ASSUME NEW step \in {"issue", "revoke"}, Goes(c, step)
          PROVE  \E x \in Requests \cup {None} :
                     calls' = [calls EXCEPT ![c] = x] /\ Sound(x, account')
      <3>1. calls' = [calls EXCEPT ![c] = [calls[c] EXCEPT !.step = step]]
        BY <2>2, <1>0 DEF Goes, TypeOK
      <3>2. QED
        BY <3>1, <1>0, <1>1, StepSound DEF Steps
    <2>3. CASE RefreshRead(c)
      BY <2>1, <2>2, <2>3 DEF RefreshRead
    <2>4. CASE LoginRead(c)
      BY <2>1, <2>2, <2>4 DEF LoginRead
    <2>5. CASE Replace(c) \/ Revoke(c) \/ Logout(c)
      BY <2>1, <2>5 DEF Replace, Revoke, Logout
    <2>6. ASSUME NEW t \in Tokens, Issue(c, t)
          PROVE  \E x \in Requests \cup {None} :
                     calls' = [calls EXCEPT ![c] = x] /\ Sound(x, account')
      <3>1. CASE calls[c].what = "refresh"
        <4>1. calls' = [calls EXCEPT ![c] = [calls[c] EXCEPT !.new = t, !.step = "replace"]]
          BY <2>6, <3>1, <1>0 DEF Issue, TypeOK
        <4>2. [calls[c] EXCEPT !.new = t, !.step = "replace"] \in Requests
          BY <1>1 DEF Requests, Steps
        <4>3. Sound([calls[c] EXCEPT !.new = t, !.step = "replace"], account')
          BY <1>1, <3>1 DEF Requests, Sound
        <4>4. QED
          BY <4>1, <4>2, <4>3
      <3>2. CASE calls[c].what # "refresh"
        <4>1. calls' = [calls EXCEPT ![c] = Answer(calls[c], "ok", t)]
          BY <2>6, <3>2, <1>0 DEF Issue, TypeOK
        <4>2. QED
          BY <4>1, <1>0, <1>1, AnswerSound
      <3>3. QED
        BY <3>1, <3>2
    <2>7. QED
      BY <2>3, <2>4, <2>5, <2>6
  <1>5. QED
    <2>1. PICK x \in Requests \cup {None} :
              calls' = [calls EXCEPT ![c] = x] /\ Sound(x, account')
      BY <1>4
    <2>2. QED
      BY <1>0, <1>2, <1>3, <2>1, OneCall DEF TypeOK

\* What becomes of one request, in Inv.
Becomes(c, user) ==
    \E x \in Requests \cup {None} : calls' = [calls EXCEPT ![c] = x] /\ Sound(x, user)

LEMMA EndsSound ==
    ASSUME TypeOK, CallsAreSound, NEW c \in Calls, calls[c] # None,
           NEW step \in {"ok", "no"}, Ends(c, step), NEW user
    PROVE  Becomes(c, user)
  <1>1. calls' = [calls EXCEPT ![c] = Answer(calls[c], step, calls[c].new)]
    BY DEF Ends, TypeOK
  <1>2. calls[c].new \in Tokens \cup {None}
    BY DEF TypeOK, Requests
  <1>3. QED
    BY <1>1, <1>2, AnswerSound DEF Becomes

LEMMA GoesSound ==
    ASSUME TypeOK, CallsAreSound, NEW c \in Calls, calls[c] # None,
           NEW step \in Steps \ {"ok", "no", "link"}, Goes(c, step), NEW user,
           calls[c].what # "google" \/ calls[c].step \in {"read", "byEmail", "create", "link"}
                \/ step \notin {"read", "byEmail", "create"}
    PROVE  Becomes(c, user)
  <1>1. calls' = [calls EXCEPT ![c] = [calls[c] EXCEPT !.step = step]]
    BY DEF Goes, TypeOK
  <1>2. calls[c] \in Requests /\ Sound(calls[c], account)
    BY DEF TypeOK, CallsAreSound
  <1>3. [calls[c] EXCEPT !.step = step] \in Requests
    BY <1>2 DEF Requests
  <1>4. Sound([calls[c] EXCEPT !.step = step], user)
    BY <1>2 DEF Requests, Sound
  <1>5. QED
    BY <1>1, <1>3, <1>4 DEF Becomes

\* Of the steps of a request that may change the account or the links.
LEMMA AccountInv ==
    ASSUME Inv, NEW c \in Calls,
           \/ RegisterRead(c) \/ RegisterCreate(c)
           \/ GoogleRead(c) \/ GoogleByEmail(c) \/ GoogleLink(c) \/ GoogleCreate(c)
           \/ LinkUsed(c) \/ VerifyEmail(c) \/ ResetPassword(c)
    PROVE  Inv'
  <1> USE DEF Under
  <1>0. TypeOK /\ CallsAreSound /\ (linked # {} => Confirmed(account))
    BY DEF Inv, LinkedIsVerified, Confirmed
  <1>1. calls[c] # None /\ calls[c] \in Requests /\ Sound(calls[c], account)
    BY <1>0 DEF TypeOK, CallsAreSound, RegisterRead, RegisterCreate, GoogleRead, GoogleByEmail,
        GoogleLink, GoogleCreate, LinkUsed, VerifyEmail, ResetPassword
  <1>2. SUFFICES /\ Becomes(c, account')
                 /\ account' \in Users
                 /\ Confirmed(account) => Confirmed(account')
                 /\ mail' \subseteq {"VERIFY", "RESET"}
                 /\ linked' \subseteq Identities
                 /\ linked' = linked \/ Confirmed(account')
                 /\ tokens' \in [Tokens -> {"free", "live", "revoked", "replaced"}]
                 /\ UNCHANGED pages
    <2>1. PICK x \in Requests \cup {None} :
              calls' = [calls EXCEPT ![c] = x] /\ Sound(x, account')
      BY DEF Becomes
    <2>2. QED
      BY <1>0, <2>1, OneCall DEF TypeOK
  <1>3. CASE RegisterRead(c)
    <2>1. UNCHANGED <<server, pages>>
      BY <1>3 DEF RegisterRead
    <2>2. Becomes(c, account')
      BY <1>3, <1>0, <1>1, EndsSound, GoesSound DEF RegisterRead, Steps
    <2>3. QED
      BY <1>0, <2>1, <2>2 DEF server, TypeOK
  <1>4. CASE RegisterCreate(c)
    <2>1. CASE account.exists
      <3>1. UNCHANGED <<server, pages>> /\ Becomes(c, account')
        BY <1>4, <2>1, <1>0, <1>1, EndsSound DEF RegisterCreate
      <3>2. QED
        BY <1>0, <3>1 DEF server, TypeOK
    <2>2. CASE ~account.exists
      <3>1. Becomes(c, account')
        BY <1>4, <2>2, <1>0, <1>1, GoesSound DEF RegisterCreate, Steps
      <3>2. account' \in Users
        BY <1>4, <2>2 DEF RegisterCreate, Nobody, Users
      <3>3. mail' \subseteq {"VERIFY", "RESET"} /\ UNCHANGED <<linked, tokens, pages>>
        BY <1>4, <2>2, <1>0 DEF RegisterCreate, TypeOK
      <3>4. ~Confirmed(account)
        BY <2>2 DEF Confirmed
      <3>5. QED
        BY <1>0, <3>1, <3>2, <3>3, <3>4 DEF TypeOK
    <2>3. QED
      BY <2>1, <2>2
  <1>5. CASE GoogleRead(c)
    <2>1. UNCHANGED <<server, pages>>
      BY <1>5 DEF GoogleRead
    <2>2. CASE calls[c].token \in linked
      <3>1. Goes(c, IF account.active THEN "issue" ELSE "revoke")
        BY <1>5, <2>2 DEF GoogleRead, Goes
      <3>2. Becomes(c, account')
        BY <3>1, <1>0, <1>1, GoesSound DEF Steps
      <3>3. QED
        BY <1>0, <2>1, <3>2 DEF server, TypeOK
    <2>3. CASE calls[c].token \notin linked
      <3>1. Becomes(c, account')
        BY <1>5, <2>3, <1>0, <1>1, GoesSound DEF GoogleRead, Steps
      <3>2. QED
        BY <1>0, <2>1, <3>1 DEF server, TypeOK
    <2>4. QED
      BY <2>2, <2>3
  <1>6. CASE GoogleByEmail(c)
    <2>1. UNCHANGED <<server, pages>>
      BY <1>6 DEF GoogleByEmail
    <2>2. CASE Ends(c, "no")
      BY <2>2, <1>0, <1>1, <2>1, EndsSound DEF server, TypeOK
    <2>3. CASE Goes(c, "create")
      BY <1>6, <2>3, <1>0, <1>1, <2>1, GoesSound DEF GoogleByEmail, server, TypeOK, Steps
    <2>4. CASE /\ MayLink(account)
               /\ calls' = [calls EXCEPT ![c].step = "link", ![c].saw = account.active]
      <3>1. calls' = [calls EXCEPT ![c] = [calls[c] EXCEPT !.step = "link", !.saw = account.active]]
        BY <2>4, <1>0 DEF TypeOK
      <3>2. [calls[c] EXCEPT !.step = "link", !.saw = account.active] \in Requests
        BY <1>0, <1>1 DEF TypeOK, Requests, Steps, Users
      <3>3. Sound([calls[c] EXCEPT !.step = "link", !.saw = account.active], account')
        BY <1>6, <1>1, <2>1, <2>4 DEF GoogleByEmail, Requests, Sound, MayLink, Confirmed, server
      <3>4. Becomes(c, account')
        BY <3>1, <3>2, <3>3 DEF Becomes
      <3>5. QED
        BY <1>0, <2>1, <3>4 DEF server, TypeOK
    <2>5. QED
      BY <1>6, <2>2, <2>3, <2>4 DEF GoogleByEmail
  <1>7. CASE GoogleLink(c)
    <2>1. UNCHANGED <<account, mail, tokens, pages>>
      BY <1>7 DEF GoogleLink
    <2>2. calls[c].token \in Identities /\ Confirmed(account)
      BY <1>7, <1>1 DEF GoogleLink, Sound
    <2>3. linked' \subseteq Identities
      BY <1>7, <1>0, <2>2 DEF GoogleLink, TypeOK
    <2>4. Becomes(c, account')
      BY <1>7, <1>0, <1>1, EndsSound, GoesSound DEF GoogleLink, Steps
    <2>5. QED
      BY <1>0, <2>1, <2>2, <2>3, <2>4 DEF TypeOK
  <1>8. CASE GoogleCreate(c)
    <2>1. UNCHANGED <<mail, tokens, pages>>
      BY <1>8 DEF GoogleCreate
    <2>2. CASE account.exists
      <3>1. UNCHANGED <<account, linked>> /\ Becomes(c, account')
        BY <1>8, <2>2, <1>0, <1>1, EndsSound DEF GoogleCreate
      <3>2. QED
        BY <1>0, <2>1, <3>1 DEF TypeOK
    <2>3. CASE ~account.exists
      <3>1. Becomes(c, account')
        BY <1>8, <2>3, <1>0, <1>1, GoesSound DEF GoogleCreate, Steps
      <3>2. account' \in Users /\ Confirmed(account')
        BY <1>8, <2>3 DEF GoogleCreate, Nobody, Users, Confirmed
      <3>3. calls[c].token \in Identities
        BY <1>8, <1>1 DEF GoogleCreate, Sound
      <3>4. linked' \subseteq Identities
        BY <1>8, <2>3, <1>0, <3>3 DEF GoogleCreate, TypeOK
      <3>5. QED
        BY <1>0, <2>1, <3>1, <3>2, <3>4 DEF TypeOK
    <2>4. QED
      BY <2>2, <2>3
  <1>9. CASE LinkUsed(c)
    <2>1. UNCHANGED <<account, linked, tokens, pages>> /\ mail' \subseteq {"VERIFY", "RESET"}
      BY <1>9, <1>0 DEF LinkUsed, TypeOK
    <2>2. Becomes(c, account')
      BY <1>9, <1>0, <1>1, GoesSound DEF LinkUsed, Steps
    <2>3. QED
      BY <1>0, <2>1, <2>2 DEF TypeOK
  <1>10. CASE VerifyEmail(c)
    <2>1. UNCHANGED <<mail, linked, tokens, pages>> /\ Becomes(c, account')
      BY <1>10, <1>0, <1>1, EndsSound DEF VerifyEmail
    <2>2. account' \in Users /\ (Confirmed(account) => Confirmed(account'))
      BY <1>10, <1>0 DEF VerifyEmail, TypeOK, Users, Confirmed
    <2>3. QED
      BY <1>0, <2>1, <2>2 DEF TypeOK
  <1>11. CASE ResetPassword(c)
    <2>1. UNCHANGED <<mail, linked, pages>> /\ Becomes(c, account')
      BY <1>11, <1>0, <1>1, EndsSound DEF ResetPassword
    <2>2. account' \in Users /\ (Confirmed(account) => Confirmed(account'))
      BY <1>11, <1>0 DEF ResetPassword, TypeOK, Users, Confirmed
    <2>3. tokens' \in [Tokens -> {"free", "live", "revoked", "replaced"}]
      BY <1>11, <1>0, RevokedAllType DEF ResetPassword
    <2>4. QED
      BY <1>0, <2>1, <2>2, <2>3 DEF TypeOK
  <1>12. QED
    BY <1>3, <1>4, <1>5, <1>6, <1>7, <1>8, <1>9, <1>10, <1>11

\* A request that begins, from a browser, a link of the mailbox or an administrator.
LEMMA RequestSound ==
    ASSUME NEW what \in Whats, NEW b \in Browsers \cup {None}, NEW user,
           b = None <=> what \in {"VERIFY", "RESET", "ban"},
           what # "google"
    PROVE  Sound(Request(what, b), user)
  BY DEF Sound, Request

\* Of what the mailbox and the administrator do.
LEMMA OthersInv ==
    ASSUME Inv,
           \/ ForgotPassword \/ Reinstate
           \/ \E c \in Calls : Suspend(c)
           \/ \E c \in Calls, purpose \in {"VERIFY", "RESET"} : LinkOpened(c, purpose)
    PROVE  Inv'
  <1>0. TypeOK /\ CallsAreSound
    BY DEF Inv, LinkedIsVerified
  <1>1. CASE ForgotPassword
    BY <1>0, <1>1 DEF ForgotPassword, Inv, LinkedIsVerified, TypeOK, CallsAreSound
  <1>2. CASE Reinstate
    <2>1. account' \in Users /\ (Confirmed(account) => Confirmed(account'))
      BY <1>0, <1>2 DEF Reinstate, TypeOK, Users, Confirmed
    <2>2. CallsAreSound'
      BY <1>0, <1>2, <2>1 DEF Reinstate, CallsAreSound, Sound
    <2>3. QED
      BY <1>0, <1>2, <2>1, <2>2 DEF Reinstate, Inv, LinkedIsVerified, TypeOK, Confirmed
  <1>3. ASSUME NEW c \in Calls, Suspend(c) PROVE Inv'
    <2> DEFINE x == [Request("ban", None) EXCEPT !.step = "revoke"]
    <2>1. x \in Requests
      BY RequestType DEF Whats, Requests, Steps
    <2>2. Sound(x, account')
      BY DEF Sound, Request
    <2>3. account' \in Users /\ (Confirmed(account) => Confirmed(account'))
      BY <1>0, <1>3 DEF Suspend, TypeOK, Users, Confirmed
    <2>4. calls' = [calls EXCEPT ![c] = x] /\ UNCHANGED <<mail, linked, tokens, pages>>
      BY <1>3 DEF Suspend
    <2> HIDE DEF x
    <2>5. QED
      BY <1>0, <2>1, <2>2, <2>3, <2>4, OneCall DEF TypeOK
  <1>4. ASSUME NEW c \in Calls, NEW purpose \in {"VERIFY", "RESET"}, LinkOpened(c, purpose)
        PROVE  Inv'
    <2> DEFINE x == [Request(purpose, None) EXCEPT !.step = "use"]
    <2>1. x \in Requests
      BY RequestType DEF Whats, Requests, Steps
    <2>2. Sound(x, account')
      BY DEF Sound, Request
    <2>3. calls' = [calls EXCEPT ![c] = x] /\ UNCHANGED <<server, pages>>
      BY <1>4 DEF LinkOpened
    <2> HIDE DEF x
    <2>4. QED
      BY <1>0, <2>1, <2>2, <2>3, OneCall DEF TypeOK, server
  <1>5. QED
    BY <1>1, <1>2, <1>3, <1>4

-----------------------------------------------------------------------------
(* The page.                                                               *)

\* RenewalNeverStops, of one page.
Renewing(p) == p.status = "autenticado" => p.timer \/ (p.pending /\ p.waiters # {})

\* What a step of the page b leaves there.
PageBecomes(b) ==
    \E p \in Pages :
        /\ pages' = [pages EXCEPT ![b] = p]
        /\ Renewing(pages[b]) => Renewing(p)

LEMMA WithCookieSound ==
    ASSUME NEW what \in {"refresh", "logout"}, NEW b \in Browsers, NEW p \in Pages, NEW user,
           AccountsAssumption
    PROVE  /\ WithCookie(what, b, p) \in Requests
           /\ Sound(WithCookie(what, b, p), user)
  <1>1. Request(what, b) \in Requests
    BY RequestType DEF Whats
  <1>2. WithCookie(what, b, p) \in Requests
    BY <1>1 DEF WithCookie, Requests, Pages
  <1>3. Sound(WithCookie(what, b, p), user)
    BY AccountsAssumption DEF WithCookie, Sound, Request
  <1>4. QED
    BY <1>2, <1>3

\* The answer that arrives leaves a page whose renewals go on.
LEMMA AnsweredSound ==
    ASSUME NEW p \in Pages, NEW e \in Requests, e # None, NEW user, Sound(e, user),
           e.step \in {"ok", "no"}
    PROVE  /\ Answered(p, e) \in Pages
           /\ Renewing(p) => Renewing(Answered(p, e))
  <1>1. e.what \in {"refresh", "logout", "login", "register", "google"}
    BY DEF Sound, Requests, Whats
  <1> USE DEF Kept, Pages, Requests, Renewing
  <1>2. CASE e.what = "refresh"
    BY <1>2 DEF Answered, Renewed, NotRenewed
  <1>3. CASE e.what = "logout"
    BY <1>3 DEF Answered, SignedOut
  <1>4. CASE e.what \in {"login", "register"}
    BY <1>4 DEF Answered, Signed
  <1>5. CASE e.what = "google"
    BY <1>5 DEF Answered
  <1>6. QED
    BY <1>1, <1>2, <1>3, <1>4, <1>5

LEMMA UnheardSound ==
    ASSUME TypeOK, CallsAreSound, NEW b \in Browsers, NEW d \in Calls
    PROVE  Unheard(b)[d] \in Requests \cup {None} /\ Sound(Unheard(b)[d], account)
  <1>1. calls[d] \in Requests \cup {None} /\ Sound(calls[d], account)
    BY DEF TypeOK, CallsAreSound
  <1>2. calls[d] # None => [calls[d] EXCEPT !.heard = FALSE] \in Requests
    BY <1>1 DEF Requests
  <1>3. calls[d] # None => Sound([calls[d] EXCEPT !.heard = FALSE], account)
    BY <1>1 DEF Requests, Sound
  <1>4. Unheard(b)[d] \in {calls[d], None, [calls[d] EXCEPT !.heard = FALSE]}
    BY DEF Unheard
  <1>5. QED
    BY <1>1, <1>2, <1>3, <1>4 DEF Unheard, Sound

LEMMA PageType ==
    ASSUME TypeOK, NEW b \in Browsers, PageBecomes(b)
    PROVE  pages' \in [Browsers -> Pages] /\ (RenewalNeverStops => RenewalNeverStops')
  <1>1. PICK p \in Pages : pages' = [pages EXCEPT ![b] = p] /\ (Renewing(pages[b]) => Renewing(p))
    BY DEF PageBecomes
  <1>2. pages' \in [Browsers -> Pages]
    BY <1>1 DEF TypeOK
  <1>3. ASSUME RenewalNeverStops, NEW d \in Browsers PROVE Renewing(pages'[d])
    BY <1>1, <1>3 DEF TypeOK, RenewalNeverStops, Renewing
  <1>4. QED
    BY <1>2, <1>3 DEF RenewalNeverStops, Renewing

\* What the page of a browser does, at once: its page, and the requests.
PageSteps(b) ==
    \/ Reload(b) \/ RenewTimeout(b) \/ FetchUnauthorized(b) \/ PageLoaded(b)
    \/ \E g \in Identities : ThroughGoogle(b, g)
    \/ \E c \in Calls, what \in {"login", "register", "logout"} : Submits(b, c, what)

\* refreshSession sends a request of its own, or none.
LEMMA RefreshSound ==
    ASSUME TypeOK, CallsAreSound, AccountsAssumption,
           NEW b \in Browsers, NEW p \in Pages, NEW waiter \in SUBSET {"reload", "timer"},
           RefreshSession(b, p, waiter)
    PROVE  /\ \/ UNCHANGED calls
              \/ \E c \in Calls : Becomes(c, account)
           /\ \E q \in Pages :
                /\ pages' = [pages EXCEPT ![b] = q]
                /\ q.status = p.status /\ q.timer = p.timer /\ q.pending
                /\ waiter \subseteq q.waiters
                /\ p.pending => p.waiters \subseteq q.waiters
  <1>1. CASE p.pending
    <2> DEFINE q == [p EXCEPT !.waiters = p.waiters \cup waiter]
    <2>1. pages' = [pages EXCEPT ![b] = q] /\ UNCHANGED calls
      BY <1>1 DEF RefreshSession
    <2>2. q \in Pages
      BY DEF Pages
    <2>3. q.status = p.status /\ q.timer = p.timer /\ q.pending /\ q.waiters = p.waiters \cup waiter
      BY <1>1 DEF Pages
    <2>4. QED
      BY <2>1, <2>2, <2>3
  <1>2. CASE ~p.pending
    <2> DEFINE q == [p EXCEPT !.pending = TRUE, !.waiters = waiter]
    <2>1. PICK c \in Calls : /\ calls' = [calls EXCEPT ![c] = WithCookie("refresh", b, p)]
                             /\ pages' = [pages EXCEPT ![b] = q]
      BY <1>2 DEF RefreshSession
    <2>2. q \in Pages
      BY DEF Pages
    <2>3. q.status = p.status /\ q.timer = p.timer /\ q.pending /\ q.waiters = waiter
      BY DEF Pages
    <2>4. Becomes(c, account)
      BY <2>1, WithCookieSound DEF Becomes
    <2>5. QED
      BY <1>2, <2>1, <2>2, <2>3, <2>4
  <1>3. QED
    BY <1>1, <1>2 DEF Pages

\* The requests that a change of page leaves, and their account.
LEMMA CallsOfPages ==
    ASSUME Inv, UNCHANGED server, pages' \in [Browsers -> Pages],
           calls' \in [Calls -> Requests \cup {None}],
           \A d \in Calls : Sound(calls'[d], account)
    PROVE  Inv'
  BY DEF Inv, LinkedIsVerified, TypeOK, CallsAreSound, server, Sound

LEMMA PageInv ==
    ASSUME Inv, AccountsAssumption, NEW b \in Browsers, PageSteps(b)
    PROVE  Inv' /\ PageBecomes(b)
  <1>0. TypeOK /\ CallsAreSound /\ pages[b] \in Pages
    BY DEF Inv, LinkedIsVerified, TypeOK
  <1>1. UNCHANGED server
    BY DEF PageSteps, Reload, RenewTimeout, FetchUnauthorized, PageLoaded, ThroughGoogle, Submits
  <1>2. ASSUME PageBecomes(b), UNCHANGED calls \/ \E c \in Calls : Becomes(c, account)
        PROVE  Inv'
    <2>1. pages' \in [Browsers -> Pages]
      BY <1>0, <1>2, PageType
    <2>2. CASE UNCHANGED calls
      BY <1>0, <1>1, <2>1, <2>2, CallsOfPages DEF TypeOK, CallsAreSound
    <2>3. ASSUME NEW c \in Calls, Becomes(c, account) PROVE Inv'
      <3>1. PICK x \in Requests \cup {None} :
                calls' = [calls EXCEPT ![c] = x] /\ Sound(x, account)
        BY <2>3 DEF Becomes
      <3>2. calls' \in [Calls -> Requests \cup {None}]
        BY <1>0, <3>1 DEF TypeOK
      <3>3. ASSUME NEW d \in Calls PROVE Sound(calls'[d], account)
        <4>1. CASE d = c
          BY <1>0, <3>1, <4>1 DEF TypeOK
        <4>2. CASE d # c
          BY <1>0, <3>1, <4>2 DEF TypeOK, CallsAreSound
        <4>3. QED
          BY <4>1, <4>2
      <3>4. QED
        BY <1>1, <2>1, <3>2, <3>3, CallsOfPages
    <2>4. QED
      BY <1>2, <2>2, <2>3
  <1>3. ASSUME NEW p \in Pages, NEW c \in Calls, NEW x \in Requests \cup {None}, Sound(x, account),
               calls' = [Unheard(b) EXCEPT ![c] = x],
               pages' = [pages EXCEPT ![b] = p], Renewing(p)
        PROVE  Inv' /\ PageBecomes(b)
    <2>1. PageBecomes(b)
      BY <1>3 DEF PageBecomes
    <2>2. pages' \in [Browsers -> Pages]
      BY <1>0, <2>1, PageType
    <2>3. Unheard(b) \in [Calls -> Requests \cup {None}]
      BY <1>0, UnheardSound DEF Unheard
    <2>4. calls' \in [Calls -> Requests \cup {None}]
      BY <1>3, <2>3
    <2>5. ASSUME NEW d \in Calls PROVE Sound(calls'[d], account)
      <3>1. CASE d = c
        BY <1>3, <2>3, <3>1
      <3>2. CASE d # c
        BY <1>0, <1>3, <2>3, <3>2, UnheardSound
      <3>3. QED
        BY <3>1, <3>2
    <2>6. QED
      BY <1>1, <2>1, <2>2, <2>4, <2>5, CallsOfPages
  <1>4. CASE Reload(b)
    <2>1. RefreshSession(b, pages[b], {"reload"})
      BY <1>4 DEF Reload
    <2>2. PageBecomes(b) /\ (UNCHANGED calls \/ \E c \in Calls : Becomes(c, account))
      BY <1>0, <2>1, RefreshSound DEF PageBecomes, Renewing
    <2>3. QED
      BY <1>2, <2>2
  <1>5. CASE RenewTimeout(b)
    <2> DEFINE p == [pages[b] EXCEPT !.timer = FALSE]
    <2>1. RefreshSession(b, p, {"timer"})
      BY <1>5 DEF RenewTimeout
    <2>2. p \in Pages /\ p.status = pages[b].status
      BY <1>0 DEF Pages
    <2>3. PageBecomes(b) /\ (UNCHANGED calls \/ \E c \in Calls : Becomes(c, account))
      BY <1>0, <2>1, <2>2, RefreshSound DEF PageBecomes, Renewing
    <2>4. QED
      BY <1>2, <2>3
  <1>6. CASE FetchUnauthorized(b)
    <2>1. RefreshSession(b, pages[b], {}) /\ ~pages[b].pending
      BY <1>6 DEF FetchUnauthorized
    <2>2. PageBecomes(b) /\ (UNCHANGED calls \/ \E c \in Calls : Becomes(c, account))
      BY <1>0, <2>1, RefreshSound DEF PageBecomes, Renewing
    <2>3. QED
      BY <1>2, <2>2
  <1>7. CASE PageLoaded(b)
    <2> DEFINE p == [Gone(b) EXCEPT !.status = "carregando", !.pending = TRUE, !.waiters = {"reload"}]
    <2>1. p \in Pages /\ Renewing(p)
      BY <1>0 DEF Gone, Page, Pages, Renewing
    <2>2. PICK c \in Calls : /\ calls' = [Unheard(b) EXCEPT ![c] = WithCookie("refresh", b, p)]
                             /\ pages' = [pages EXCEPT ![b] = p]
      BY <1>7 DEF PageLoaded
    <2> HIDE DEF p
    <2>3. QED
      BY <1>3, <2>1, <2>2, WithCookieSound
  <1>8. ASSUME NEW g \in Identities, ThroughGoogle(b, g) PROVE Inv' /\ PageBecomes(b)
    <2> DEFINE p == [Gone(b) EXCEPT !.here = FALSE]
               x == [Request("google", b) EXCEPT !.token = g]
    <2>1. p \in Pages /\ Renewing(p)
      BY <1>0 DEF Gone, Page, Pages, Renewing
    <2>2. x \in Requests
      BY RequestType DEF Whats, Requests
    <2>3. Sound(x, account)
      BY AccountsAssumption DEF Sound, Request
    <2>4. PICK c \in Calls : calls' = [Unheard(b) EXCEPT ![c] = x] /\ pages' = [pages EXCEPT ![b] = p]
      BY <1>8 DEF ThroughGoogle
    <2> HIDE DEF p, x
    <2>5. QED
      BY <1>3, <2>1, <2>2, <2>3, <2>4
  <1>9. ASSUME NEW c \in Calls, NEW what \in {"login", "register", "logout"}, Submits(b, c, what)
        PROVE  Inv' /\ PageBecomes(b)
    <2>1. PageBecomes(b)
      <3>1. pages' = [pages EXCEPT ![b] = pages[b]]
        BY <1>0, <1>9 DEF Submits, TypeOK
      <3>2. QED
        BY <1>0, <3>1 DEF PageBecomes
    <2>2. Becomes(c, account)
      <3>1. CASE what = "logout"
        BY <1>0, <1>9, <3>1, WithCookieSound DEF Submits, Becomes
      <3>2. CASE what # "logout"
        <4>1. calls' = [calls EXCEPT ![c] = Request(what, b)]
          BY <1>9, <3>2 DEF Submits
        <4>2. b # None
          BY AccountsAssumption
        <4>3. Request(what, b) \in Requests /\ Sound(Request(what, b), account)
          BY <4>2, RequestType, RequestSound DEF Whats
        <4>4. QED
          BY <4>1, <4>3 DEF Becomes
      <3>3. QED
        BY <3>1, <3>2
    <2>3. QED
      BY <1>2, <2>1, <2>2
  <1>10. QED
    BY <1>4, <1>5, <1>6, <1>7, <1>8, <1>9 DEF PageSteps

\* What reaches a page, or does not.
LEMMA NetworkInv ==
    ASSUME Inv, AccountsAssumption, NEW c \in Calls, AnswerArrives(c) \/ AnswerLost(c)
    PROVE  Inv' /\ \E b \in Browsers : PageBecomes(b)
  <1> DEFINE e == calls[c]
             b == e.from
  <1>0. TypeOK /\ CallsAreSound
    BY DEF Inv, LinkedIsVerified
  <1>1. e # None /\ e \in Requests /\ Sound(e, account) /\ UNCHANGED server
    BY <1>0 DEF TypeOK, CallsAreSound, AnswerArrives, AnswerLost
  <1>2. b \in Browsers /\ pages[b] \in Pages
    BY <1>0, <1>1 DEF AnswerArrives, AnswerLost, Sound, Requests, TypeOK
  <1>3. ASSUME NEW p \in Pages, NEW x \in Requests \cup {None}, Sound(x, account),
               calls' = [calls EXCEPT ![c] = x],
               pages' = [pages EXCEPT ![b] = p],
               Renewing(pages[b]) => Renewing(p)
        PROVE  Inv' /\ PageBecomes(b)
    <2>1. PageBecomes(b)
      BY <1>3 DEF PageBecomes
    <2>2. pages' \in [Browsers -> Pages]
      BY <1>0, <1>2, <2>1, PageType
    <2>3. Sound(x, account')
      BY <1>1, <1>3 DEF server
    <2>4. QED
      BY <1>0, <1>1, <1>3, <2>1, <2>2, <2>3, OneCall DEF server, TypeOK
  <1>4. CASE AnswerArrives(c)
    <2> DEFINE p == Answered(pages[b], e)
               x == IF e.what = "google" THEN WithCookie("refresh", b, p) ELSE None
    <2>1. p \in Pages /\ (Renewing(pages[b]) => Renewing(p))
      BY <1>1, <1>2, <1>4, AnsweredSound DEF AnswerArrives
    <2>2. pages' = [pages EXCEPT ![b] = p] /\ calls' = [calls EXCEPT ![c] = x]
      BY <1>0, <1>4 DEF AnswerArrives, TypeOK
    <2> HIDE DEF p
    <2>3. x \in Requests \cup {None} /\ Sound(x, account)
      BY <1>2, <2>1, WithCookieSound DEF Sound
    <2> HIDE DEF x, b
    <2>4. QED
      BY <1>2, <1>3, <2>1, <2>2, <2>3
  <1>5. CASE AnswerLost(c)
    <2> DEFINE p == CASE e.what = "refresh" -> NotRenewed([pages[b] EXCEPT !.lost = TRUE])
                      [] e.what = "logout"  -> SignedOut(pages[b])
                      [] OTHER -> pages[b]
               x == IF e.step \in {"ok", "no"} THEN None ELSE [e EXCEPT !.heard = FALSE]
    <2>1. p \in Pages /\ (Renewing(pages[b]) => Renewing(p))
      BY <1>2 DEF NotRenewed, SignedOut, Pages, Renewing
    <2>2. pages' = [pages EXCEPT ![b] = p] /\ calls' = [calls EXCEPT ![c] = x]
      BY <1>0, <1>5 DEF AnswerLost, TypeOK
    <2>3. x \in Requests \cup {None}
      BY <1>1 DEF Requests
    <2>4. Sound(x, account)
      BY <1>1 DEF Requests, Sound
    <2> HIDE DEF p, x, b
    <2>5. QED
      BY <1>2, <1>3, <2>1, <2>2, <2>3, <2>4
  <1>6. QED
    BY <1>2, <1>4, <1>5

-----------------------------------------------------------------------------
(* The theorems.                                                           *)

\* A step leaves a page alone, or what PageBecomes allows.
LEMMA StepInv ==
    ASSUME Inv, AccountsAssumption, [Next]_vars
    PROVE  Inv' /\ (RenewalNeverStops => RenewalNeverStops')
  <1>0. TypeOK
    BY DEF Inv, LinkedIsVerified
  <1>1. ASSUME UNCHANGED pages PROVE RenewalNeverStops => RenewalNeverStops'
    BY <1>1 DEF RenewalNeverStops
  <1>2. CASE UNCHANGED vars
    BY <1>1, <1>2 DEF vars, Inv, LinkedIsVerified, TypeOK, CallsAreSound, Sound, RenewalNeverStops
  <1>3. ASSUME NEW c \in Calls, Served(c) PROVE Inv' /\ UNCHANGED pages
    <2>1. CASE \/ RefreshRead(c) \/ Replace(c) \/ Revoke(c) \/ Logout(c) \/ LoginRead(c)
               \/ \E t \in Tokens : Issue(c, t)
      <3>1. UNCHANGED pages
        BY <2>1 DEF RefreshRead, Replace, Revoke, Logout, LoginRead, Issue
      <3>2. QED
        BY <2>1, <3>1, SessionsInv
    <2>2. CASE \/ RegisterRead(c) \/ RegisterCreate(c)
               \/ GoogleRead(c) \/ GoogleByEmail(c) \/ GoogleLink(c) \/ GoogleCreate(c)
               \/ LinkUsed(c) \/ VerifyEmail(c) \/ ResetPassword(c)
      <3>1. UNCHANGED pages
        BY <2>2 DEF RegisterRead, RegisterCreate, GoogleRead, GoogleByEmail, GoogleLink, GoogleCreate,
            LinkUsed, VerifyEmail, ResetPassword
      <3>2. QED
        BY <2>2, <3>1, AccountInv
    <2>3. QED
      BY <1>3, <2>1, <2>2 DEF Served
  <1>4. CASE \/ ForgotPassword \/ Reinstate
             \/ \E c \in Calls : Suspend(c)
             \/ \E c \in Calls, purpose \in {"VERIFY", "RESET"} : LinkOpened(c, purpose)
    <2>1. UNCHANGED pages
      BY <1>4 DEF ForgotPassword, Reinstate, Suspend, LinkOpened
    <2>2. QED
      BY <1>1, <1>4, <2>1, OthersInv
  <1>5. ASSUME NEW b \in Browsers, PageSteps(b) PROVE Inv' /\ (RenewalNeverStops => RenewalNeverStops')
    BY <1>0, <1>5, PageInv, PageType
  <1>6. ASSUME NEW c \in Calls, AnswerArrives(c) \/ AnswerLost(c)
        PROVE  Inv' /\ (RenewalNeverStops => RenewalNeverStops')
    BY <1>0, <1>6, NetworkInv, PageType
  <1>7. QED
    BY <1>1, <1>2, <1>3, <1>4, <1>5, <1>6 DEF Next, PageSteps

LEMMA InvHolds == Spec => []Inv
  <1>1. Inv /\ [Next]_vars => Inv'
    BY StepInv, AccountsAssumption
  <1>2. QED
    BY InitInv, <1>1, PTL DEF Spec

\* Whatever registers, links, creates, confirms and resets at once, in any number
\* of requests: an identity of Google opens only an account whose address was
\* confirmed (decideAccountLink, account-linking.ts:45-79).
THEOREM GoogleOpensOnlyConfirmed == Spec => []LinkedIsVerified
  <1>1. Inv => LinkedIsVerified
    BY DEF Inv
  <1>2. QED
    BY InvHolds, <1>1, PTL

\* A page that shows somebody signed in has a renewal set, or under way with
\* somebody who will look at its end (web/src/hooks/useAuth.tsx:51-83).
THEOREM RenewalGoesOn == Spec => []RenewalNeverStops
  <1>1. Init => RenewalNeverStops
    BY DEF Init, RenewalNeverStops, Page
  <1>2. Inv /\ RenewalNeverStops /\ [Next]_vars => RenewalNeverStops'
    BY StepInv, AccountsAssumption
  <1>3. QED
    BY InvHolds, <1>1, <1>2, PTL DEF Spec
-----------------------------------------------------------------------------
(* A renewal is never taken for a reuse (RenewalIsNoReuse).  The parts of  *)
(* the invariant are operators of what they read - the requests k, the     *)
(* tokens t, the pages p - so that a step that changes several of them can *)
(* be taken in turns.                                                      *)


\* A renewal that the server has not answered.
Renews(e) == e # None /\ e.what = "refresh" /\ e.step \in {"read", "issue", "replace"}

\* A renewal, or a way through Google, whose page still waits.
HeardRefresh(e) == e # None /\ e.what = "refresh" /\ e.heard
HeardGoogle(e) == e # None /\ e.what = "google" /\ e.heard

\* A refresh token is in the cookie of one browser, and so are the requests that
\* came with it.
Owned(k, p) ==
    /\ \A b, d \in Browsers : p[b].cookie # None /\ p[b].cookie = p[d].cookie => b = d
    /\ \A b \in Browsers, c \in Calls :
          k[c] # None /\ k[c].token # None /\ k[c].token = p[b].cookie => k[c].from = b

\* A token on its way to a browser is nowhere else, and not replaced.
FreshNews(k, t, p) ==
    \A c \in Calls : k[c] # None /\ k[c].new # None =>
        /\ k[c].new \in Tokens /\ t[k[c].new] # "replaced"
        /\ \A b \in Browsers : p[b].cookie # k[c].new
        /\ \A d \in Calls : k[d] # None =>
              k[d].token # k[c].new /\ (k[d].new = k[c].new => d = c)

\* One renewal of a page at a time, while the page lives.
OneRenewal(k, p) ==
    /\ \A c \in Calls : HeardRefresh(k[c]) => k[c].from \in Browsers /\ p[k[c].from].pending
    /\ \A c, d \in Calls :
          HeardRefresh(k[c]) /\ HeardRefresh(k[d]) /\ k[c].from = k[d].from => c = d

\* Who went to Google has no page, and waits for nothing else.
AtGoogle(k, p) ==
    \A c \in Calls : HeardGoogle(k[c]) =>
        /\ k[c].from \in Browsers
        /\ ~p[k[c].from].pending /\ ~p[k[c].from].here /\ ~p[k[c].from].timer
        /\ \A d \in Calls : k[d] # None /\ k[d].heard /\ k[d].from = k[c].from => d = c

\* Only who waits is answered.
AnswersAreHeard(k) ==
    \A c \in Calls : k[c] # None /\ k[c].step \in {"ok", "no"} => k[c].heard

\* The cookie of a page that lost no answer and renews nothing is good to renew with.
CleanPages(k, t, p) ==
    \A b \in Browsers : ~p[b].lost /\ ~p[b].pending /\ p[b].cookie # None =>
        /\ p[b].cookie \in Tokens /\ t[p[b].cookie] # "replaced"
        /\ \A c \in Calls : Renews(k[c]) => k[c].token # p[b].cookie

\* So is what a renewal came with.
CleanRenewals(k, t) ==
    \A c \in Calls : Renews(k[c]) /\ k[c].heard /\ k[c].sure /\ k[c].token # None =>
        /\ k[c].token \in Tokens /\ t[k[c].token] # "replaced"
        /\ \A d \in Calls : Renews(k[d]) /\ k[d].token = k[c].token => d = c

Renewals(k, t, p) ==
    /\ Owned(k, p)
    /\ FreshNews(k, t, p)
    /\ OneRenewal(k, p)
    /\ AtGoogle(k, p)
    /\ AnswersAreHeard(k)
    /\ CleanPages(k, t, p)
    /\ CleanRenewals(k, t)

RInv == Renewals(calls, tokens, pages)

-----------------------------------------------------------------------------
(* What a step may do to the parts.                                        *)

\* A request that goes on asks for nothing it did not ask for before.
GoesOn(x, e) ==
    x # None =>
        /\ e # None /\ x.what = e.what /\ x.from = e.from
        /\ x.token \in {e.token, None} /\ x.new \in {e.new, None}
        /\ x.heard => e.heard
        /\ x.step \in {"ok", "no"} => x.heard
        /\ Renews(x) => Renews(e) /\ (x.sure => e.sure)

\* What the cookie and the renewals see of a page.
SamePage(q, p) ==
    /\ q.cookie = p.cookie /\ q.lost = p.lost /\ q.pending = p.pending
    /\ q.here = p.here /\ (q.timer => p.timer)

NoneReplaced(u, t) == \A x \in Tokens : u[x] = "replaced" => t[x] = "replaced"

\* k and k2 differ in one request.
Differ(k2, k, c) == \A d \in Calls : d # c => k2[d] = k[d]

\* p and p2 differ in one page.
PagesDiffer(p2, p, b) == \A d \in Browsers : d # b => p2[d] = p[d]

\* The browser b waits for no renewal and is not at Google; or waits for nothing.
Idle(k, b) ==
    \A d \in Calls : k[d] # None /\ k[d].from = b => ~HeardRefresh(k[d]) /\ ~HeardGoogle(k[d])

WaitsForNothing(k, b) == \A d \in Calls : k[d] # None /\ k[d].from = b => ~k[d].heard

LEMMA RequestsGoOn ==
    ASSUME NEW k, NEW k2, NEW t, NEW t2, NEW p, NEW p2, Renewals(k, t, p),
           \A c \in Calls : GoesOn(k2[c], k[c]),
           NoneReplaced(t2, t),
           \A b \in Browsers : SamePage(p2[b], p[b])
    PROVE  Renewals(k2, t2, p2)
  <1> USE DEF Renewals, GoesOn, SamePage, NoneReplaced
  <1>1. Owned(k2, p2)
    BY DEF Owned
  <1>2. FreshNews(k2, t2, p2)
    BY DEF FreshNews
  <1>3. OneRenewal(k2, p2)
    BY DEF OneRenewal, HeardRefresh
  <1>4. AtGoogle(k2, p2)
    BY DEF AtGoogle, HeardGoogle
  <1>5. AnswersAreHeard(k2)
    BY DEF AnswersAreHeard
  <1>6. CleanPages(k2, t2, p2)
    BY DEF CleanPages, Renews
  <1>7. CleanRenewals(k2, t2)
    BY DEF CleanRenewals, Renews
  <1>8. QED
    BY <1>1, <1>2, <1>3, <1>4, <1>5, <1>6, <1>7

\* issueSession: the new token was nowhere.
LEMMA TokenIssued ==
    ASSUME NEW k, NEW k2, NEW t, NEW t2, NEW p, NEW c \in Calls, NEW x, NEW u \in Tokens,
           AccountsAssumption, Renewals(k, t, p),
           k2[c] = x, Differ(k2, k, c),
           k[c] # None, x # None, x.new = u,
           \A b \in Browsers : p[b].cookie # u,
           \A d \in Calls : k[d] # None => u \notin {k[d].token, k[d].new},
           t2[u] = "live", \A v \in Tokens : v # u => t2[v] = t[v],
           x.token \in {k[c].token, None}, x.what = k[c].what, x.from = k[c].from,
           x.heard => k[c].heard, x.step \in {"ok", "no"} => x.heard,
           Renews(x) => Renews(k[c]) /\ (x.sure => k[c].sure)
    PROVE  Renewals(k2, t2, p)
  <1> USE DEF Renewals, Differ
  <1>1. Owned(k2, p)
    BY DEF Owned
  <1>2. FreshNews(k2, t2, p)
    BY AccountsAssumption DEF FreshNews
  <1>3. OneRenewal(k2, p)
    BY DEF OneRenewal, HeardRefresh
  <1>4. AtGoogle(k2, p)
    BY DEF AtGoogle, HeardGoogle
  <1>5. AnswersAreHeard(k2)
    BY DEF AnswersAreHeard
  <1>6. CleanPages(k2, t2, p)
    BY DEF CleanPages, Renews
  <1>7. CleanRenewals(k2, t2)
    BY DEF CleanRenewals, Renews
  <1>8. QED
    BY <1>1, <1>2, <1>3, <1>4, <1>5, <1>6, <1>7

\* The end of refresh: nobody else that matters came with the token it replaces.
LEMMA TokenReplaced ==
    ASSUME NEW k, NEW k2, NEW t, NEW t2, NEW p, NEW c \in Calls,
           Renewals(k, t, p),
           Differ(k2, k, c), GoesOn(k2[c], k[c]), ~Renews(k2[c]), Renews(k[c]),
           \A v \in Tokens : v # k[c].token => t2[v] = t[v]
    PROVE  Renewals(k2, t2, p)
  <1> USE DEF Renewals, Differ, GoesOn
  <1>1. Owned(k2, p)
    BY DEF Owned
  <1>2. FreshNews(k2, t2, p)
    BY DEF FreshNews, Renews
  <1>3. OneRenewal(k2, p)
    BY DEF OneRenewal, HeardRefresh
  <1>4. AtGoogle(k2, p)
    BY DEF AtGoogle, HeardGoogle
  <1>5. AnswersAreHeard(k2)
    BY DEF AnswersAreHeard
  <1>6. CleanPages(k2, t2, p)
    BY DEF CleanPages, Renews
  <1>7. CleanRenewals(k2, t2)
    BY DEF CleanRenewals, Renews
  <1>8. QED
    BY <1>1, <1>2, <1>3, <1>4, <1>5, <1>6, <1>7

\* A request that is neither a renewal nor a way through Google begins.
LEMMA RequestBegins ==
    ASSUME NEW k, NEW k2, NEW t, NEW p, NEW c \in Calls, NEW x,
           Renewals(k, t, p),
           Differ(k2, k, c), k[c] = None, k2[c] = x,
           x.what \notin {"refresh", "google"}, x.new = None, x.step \notin {"ok", "no"},
           \/ x.token = None
           \/ x.from \in Browsers /\ x.token = p[x.from].cookie,
           x.from \in Browsers => p[x.from].here
    PROVE  Renewals(k2, t, p)
  <1> USE DEF Renewals, Differ
  <1>1. Owned(k2, p)
    BY DEF Owned
  <1>2. FreshNews(k2, t, p)
    BY DEF FreshNews
  <1>3. OneRenewal(k2, p)
    BY DEF OneRenewal, HeardRefresh
  <1>4. AtGoogle(k2, p)
    BY DEF AtGoogle, HeardGoogle
  <1>5. AnswersAreHeard(k2)
    BY DEF AnswersAreHeard
  <1>6. CleanPages(k2, t, p)
    BY DEF CleanPages, Renews
  <1>7. CleanRenewals(k2, t)
    BY DEF CleanRenewals, Renews
  <1>8. QED
    BY <1>1, <1>2, <1>3, <1>4, <1>5, <1>6, <1>7

\* A renewal begins, of a page that renews nothing and is not at Google.
LEMMA RenewalBegins ==
    ASSUME NEW k, NEW k2, NEW t, NEW p, NEW p2, NEW c \in Calls, NEW b \in Browsers,
           Renewals(k, t, p),
           Differ(k2, k, c), k[c] = None,
           k2[c].what = "refresh", k2[c].from = b, k2[c].token = p[b].cookie, k2[c].new = None, k2[c].step = "read",
           k2[c].sure => ~p[b].lost /\ ~p[b].pending,
           PagesDiffer(p2, p, b), p2[b].cookie = p[b].cookie, p2[b].pending,
           Idle(k, b)
    PROVE  Renewals(k2, t, p2)
  <1> USE DEF Renewals, Differ, PagesDiffer, Idle
  <1>1. Owned(k2, p2)
    BY DEF Owned
  <1>2. FreshNews(k2, t, p2)
    BY DEF FreshNews
  <1>3. OneRenewal(k2, p2)
    BY DEF OneRenewal, HeardRefresh
  <1>4. AtGoogle(k2, p2)
    BY DEF AtGoogle, HeardGoogle
  <1>5. AnswersAreHeard(k2)
    BY DEF AnswersAreHeard
  <1>6. CleanPages(k2, t, p2)
    BY DEF CleanPages, Renews, Owned
  <1>7. CleanRenewals(k2, t)
    BY DEF CleanRenewals, Renews, Owned, CleanPages, HeardRefresh
  <1>8. QED
    BY <1>1, <1>2, <1>3, <1>4, <1>5, <1>6, <1>7

\* A token reaches its browser.
LEMMA NewsArrive ==
    ASSUME NEW k, NEW k2, NEW t, NEW p, NEW p2, NEW c \in Calls, NEW b \in Browsers,
           Renewals(k, t, p), None \notin Tokens,
           Differ(k2, k, c), k2[c] = None,
           k[c] # None, k[c].from = b, k[c].heard, k[c].new # None,
           PagesDiffer(p2, p, b), p2[b].cookie = k[c].new,
           HeardRefresh(k[c]) \/ (p2[b].pending <=> p[b].pending)
    PROVE  Renewals(k2, t, p2)
  <1> USE DEF Renewals, Differ, PagesDiffer
  <1>1. Owned(k2, p2)
    BY DEF Owned, FreshNews
  <1>2. FreshNews(k2, t, p2)
    BY DEF FreshNews
  <1>3. OneRenewal(k2, p2)
    BY DEF OneRenewal, HeardRefresh
  <1>4. AtGoogle(k2, p2)
    BY DEF AtGoogle, HeardGoogle
  <1>5. AnswersAreHeard(k2)
    BY DEF AnswersAreHeard
  <1>6. CleanPages(k2, t, p2)
    BY DEF CleanPages, Renews, FreshNews
  <1>7. CleanRenewals(k2, t)
    BY DEF CleanRenewals, Renews
  <1>8. QED
    BY <1>1, <1>2, <1>3, <1>4, <1>5, <1>6, <1>7

\* A page stops waiting for a request, and is told nothing, or nothing good.
LEMMA NothingArrives ==
    ASSUME NEW k, NEW k2, NEW t, NEW p, NEW p2, NEW c \in Calls, NEW b \in Browsers,
           Renewals(k, t, p),
           Differ(k2, k, c), GoesOn(k2[c], k[c]), k2[c] # None => ~k2[c].heard,
           k[c] # None, k[c].from = b, k[c].heard,
           PagesDiffer(p2, p, b), p2[b].cookie \in {p[b].cookie, None},
           HeardRefresh(k[c]) \/ (p2[b].pending <=> p[b].pending),
           p2[b].cookie # None /\ ~p2[b].lost /\ ~p2[b].pending => ~p[b].lost /\ ~p[b].pending
    PROVE  Renewals(k2, t, p2)
  <1> USE DEF Renewals, Differ, PagesDiffer, GoesOn
  <1>1. Owned(k2, p2)
    BY DEF Owned
  <1>2. FreshNews(k2, t, p2)
    BY DEF FreshNews
  <1>3. OneRenewal(k2, p2)
    BY DEF OneRenewal, HeardRefresh
  <1>4. AtGoogle(k2, p2)
    BY DEF AtGoogle, HeardGoogle
  <1>5. AnswersAreHeard(k2)
    BY DEF AnswersAreHeard
  <1>6. CleanPages(k2, t, p2)
    BY DEF CleanPages, Renews
  <1>7. CleanRenewals(k2, t)
    BY DEF CleanRenewals, Renews
  <1>8. QED
    BY <1>1, <1>2, <1>3, <1>4, <1>5, <1>6, <1>7

\* A page goes to Google, and nothing of what it sent is waited for.
LEMMA GoogleBegins ==
    ASSUME NEW k, NEW k2, NEW t, NEW p, NEW p2, NEW c \in Calls, NEW b \in Browsers,
           AccountsAssumption, Renewals(k, t, p),
           Differ(k2, k, c), k[c] = None,
           k2[c].what = "google", k2[c].from = b, k2[c].token \in Identities, k2[c].new = None, k2[c].step = "read",
           \A d \in Browsers : p[d].cookie \in Tokens \cup {None},
           PagesDiffer(p2, p, b), p2[b].cookie = p[b].cookie,
           ~p2[b].pending, ~p2[b].here, ~p2[b].timer,
           ~p2[b].lost => ~p[b].lost /\ ~p[b].pending,
           WaitsForNothing(k, b)
    PROVE  Renewals(k2, t, p2)
  <1> USE AccountsAssumption DEF Renewals, Differ, PagesDiffer, WaitsForNothing, AccountsAssumption
  <1>1. Owned(k2, p2)
    BY DEF Owned
  <1>2. FreshNews(k2, t, p2)
    BY DEF FreshNews
  <1>3. OneRenewal(k2, p2)
    BY DEF OneRenewal, HeardRefresh
  <1>4. AtGoogle(k2, p2)
    BY DEF AtGoogle, HeardGoogle
  <1>5. AnswersAreHeard(k2)
    BY DEF AnswersAreHeard
  <1>6. CleanPages(k2, t, p2)
    BY DEF CleanPages, Renews
  <1>7. CleanRenewals(k2, t)
    BY DEF CleanRenewals, Renews
  <1>8. QED
    BY <1>1, <1>2, <1>3, <1>4, <1>5, <1>6, <1>7

-----------------------------------------------------------------------------
(* The actions of the server.                                              *)

LEMMA AnswerGoesOn ==
    ASSUME NEW e, NEW step \in {"ok", "no"}, e # None
    PROVE  GoesOn(Answer(e, step, e.new), e) /\ ~Renews(Answer(e, step, e.new))
  BY DEF GoesOn, Answer, Request, Renews

LEMMA StepGoesOn ==
    ASSUME NEW e \in Requests, e # None, NEW step, step \notin {"ok", "no"},
           step \in {"read", "issue", "replace"} => e.what # "refresh" \/ Renews(e)
    PROVE  GoesOn([e EXCEPT !.step = step], e)
  BY DEF GoesOn, Renews, Requests

\* The others go on as they were.
LEMMA OneGoesOn ==
    ASSUME TypeOK, RInv, NEW c \in Calls, NEW x, GoesOn(x, calls[c]),
           calls' = [calls EXCEPT ![c] = x],
           NoneReplaced(tokens', tokens), UNCHANGED pages
    PROVE  RInv'
  <1>1. ASSUME NEW d \in Calls PROVE GoesOn(calls'[d], calls[d])
    BY DEF TypeOK, GoesOn, RInv, Renewals, AnswersAreHeard
  <1>2. \A b \in Browsers : SamePage(pages'[b], pages[b])
    BY DEF SamePage
  <1>3. QED
    BY <1>1, <1>2, RequestsGoOn DEF RInv

LEMMA NoneReplacedInfers ==
    ASSUME TypeOK, UNCHANGED tokens \/ tokens' = RevokedAll
    PROVE  NoneReplaced(tokens', tokens)
  BY DEF TypeOK, NoneReplaced, RevokedAll

\* Of the steps of a request that neither issue nor replace a token.
LEMMA ServedRenewals ==
    ASSUME Inv, RInv, NEW c \in Calls,
           \/ RefreshRead(c) \/ Revoke(c) \/ Logout(c) \/ LoginRead(c)
           \/ RegisterRead(c) \/ RegisterCreate(c)
           \/ GoogleRead(c) \/ GoogleByEmail(c) \/ GoogleLink(c) \/ GoogleCreate(c)
           \/ LinkUsed(c) \/ VerifyEmail(c) \/ ResetPassword(c)
    PROVE  RInv'
  <1> USE DEF Under
  <1> DEFINE e == calls[c]
             Moves == \E x : calls' = [calls EXCEPT ![c] = x] /\ GoesOn(x, e)
  <1>0. TypeOK
    BY DEF Inv, LinkedIsVerified
  <1>1. e # None /\ e \in Requests
    BY <1>0 DEF TypeOK, RefreshRead, Revoke, Logout, LoginRead, RegisterRead, RegisterCreate,
        GoogleRead, GoogleByEmail, GoogleLink, GoogleCreate, LinkUsed, VerifyEmail, ResetPassword
  <1>2. UNCHANGED pages
    BY DEF RefreshRead, Revoke, Logout, LoginRead, RegisterRead, RegisterCreate,
        GoogleRead, GoogleByEmail, GoogleLink, GoogleCreate, LinkUsed, VerifyEmail, ResetPassword
  <1>3. ASSUME NEW step \in {"ok", "no"}, Ends(c, step) PROVE Moves
    BY <1>0, <1>1, <1>3, AnswerGoesOn DEF Ends, TypeOK
  <1>4. ASSUME NEW step, Goes(c, step), step \notin {"ok", "no"},
               step \in {"read", "issue", "replace"} => e.what # "refresh" \/ Renews(e)
        PROVE  Moves
    BY <1>0, <1>1, <1>4, StepGoesOn DEF Goes, TypeOK
  <1>5. SUFFICES Moves /\ NoneReplaced(tokens', tokens)
    BY <1>0, <1>2, OneGoesOn
  <1> HIDE DEF Moves
  <1>6. CASE RefreshRead(c)
    <2>1. Renews(e)
      BY <1>1, <1>6 DEF RefreshRead, Renews
    <2>2. Moves
      BY <1>3, <1>4, <1>6, <2>1 DEF RefreshRead
    <2>3. QED
      BY <1>0, <1>6, <2>2, NoneReplacedInfers DEF RefreshRead, server
  <1>7. CASE Revoke(c)
    BY <1>0, <1>3, <1>7, NoneReplacedInfers DEF Revoke
  <1>8. CASE Logout(c)
    <2>1. NoneReplaced(tokens', tokens)
      BY <1>0, <1>8 DEF Logout, TypeOK, NoneReplaced
    <2>2. QED
      BY <1>3, <1>8, <2>1 DEF Logout
  <1>9. CASE LoginRead(c) \/ RegisterRead(c)
    <2>1. NoneReplaced(tokens', tokens)
      BY <1>0, <1>9, NoneReplacedInfers DEF LoginRead, RegisterRead, server
    <2>2. QED
      BY <1>3, <1>4, <1>9, <2>1 DEF LoginRead, RegisterRead
  <1>10. CASE RegisterCreate(c) \/ GoogleLink(c) \/ GoogleCreate(c)
    <2>1. NoneReplaced(tokens', tokens)
      BY <1>0, <1>10, NoneReplacedInfers DEF RegisterCreate, GoogleLink, GoogleCreate, server
    <2>2. QED
      BY <1>3, <1>4, <1>10, <2>1 DEF RegisterCreate, GoogleLink, GoogleCreate
  <1>11. CASE GoogleRead(c)
    <2>1. NoneReplaced(tokens', tokens)
      BY <1>0, <1>11, NoneReplacedInfers DEF GoogleRead, server
    <2>2. \/ Goes(c, IF account.active THEN "issue" ELSE "revoke")
          \/ Goes(c, "byEmail")
      BY <1>11 DEF GoogleRead, Goes
    <2>3. QED
      BY <1>4, <1>11, <2>1, <2>2 DEF GoogleRead
  <1>12. CASE GoogleByEmail(c)
    <2>1. NoneReplaced(tokens', tokens)
      BY <1>0, <1>12, NoneReplacedInfers DEF GoogleByEmail, server
    <2>2. CASE calls' = [calls EXCEPT ![c].step = "link", ![c].saw = account.active]
      <3>1. calls' = [calls EXCEPT ![c] = [e EXCEPT !.step = "link", !.saw = account.active]]
        BY <1>0, <2>2 DEF TypeOK
      <3>2. GoesOn([e EXCEPT !.step = "link", !.saw = account.active], e)
        BY <1>1 DEF GoesOn, Requests, Renews
      <3>3. QED
        BY <2>1, <3>1, <3>2 DEF Moves
    <2>3. QED
      BY <1>3, <1>4, <1>12, <2>1, <2>2 DEF GoogleByEmail
  <1>13. CASE LinkUsed(c) \/ VerifyEmail(c)
    <2>1. NoneReplaced(tokens', tokens)
      BY <1>0, <1>13, NoneReplacedInfers DEF LinkUsed, VerifyEmail
    <2>2. QED
      BY <1>3, <1>4, <1>13, <2>1 DEF LinkUsed, VerifyEmail
  <1>14. CASE ResetPassword(c)
    BY <1>0, <1>3, <1>14, NoneReplacedInfers DEF ResetPassword
  <1>15. QED
    BY <1>6, <1>7, <1>8, <1>9, <1>10, <1>11, <1>12, <1>13, <1>14

LEMMA IssueRenewals ==
    ASSUME Inv, RInv, AccountsAssumption, NEW c \in Calls, NEW u \in Tokens, Issue(c, u)
    PROVE  RInv'
  <1> DEFINE e == calls[c]
             x == IF e.what = "refresh" THEN [e EXCEPT !.new = u, !.step = "replace"]
                  ELSE Answer(e, "ok", u)
  <1>0. TypeOK
    BY DEF Inv, LinkedIsVerified
  <1>1. e # None /\ e \in Requests /\ e.step = "issue"
    BY <1>0 DEF Issue, Under, TypeOK
  <1>2. calls' = [calls EXCEPT ![c] = x] /\ tokens' = [tokens EXCEPT ![u] = "live"] /\ UNCHANGED pages
    BY <1>0 DEF Issue, TypeOK
  <1>3. (\A b \in Browsers : pages[b].cookie # u)
        /\ \A d \in Calls : calls[d] # None => u \notin {calls[d].token, calls[d].new}
    BY DEF Issue, Unused
  <1>4. CASE x = None
    <2>1. NoneReplaced(tokens', tokens)
      BY <1>0, <1>2 DEF TypeOK, NoneReplaced
    <2>2. QED
      BY <1>0, <1>2, <1>4, <2>1, OneGoesOn DEF GoesOn
  <1>5. CASE x # None
    <2>1. /\ x.new = u /\ x.token \in {e.token, None} /\ x.what = e.what /\ x.from = e.from
          /\ x.heard => e.heard
          /\ x.step \in {"ok", "no"} => x.heard
          /\ Renews(x) => Renews(e) /\ (x.sure => e.sure)
      BY <1>1, <1>5 DEF Requests, Answer, Request, Renews
    <2>2. calls'[c] = x /\ Differ(calls', calls, c)
      BY <1>0, <1>2 DEF TypeOK, Differ
    <2>3. tokens'[u] = "live" /\ \A v \in Tokens : v # u => tokens'[v] = tokens[v]
      BY <1>0, <1>2 DEF TypeOK
    <2> HIDE DEF x
    <2>4. Renewals(calls', tokens', pages)
      BY <1>1, <1>3, <1>5, <2>1, <2>2, <2>3, TokenIssued DEF RInv
    <2>5. QED
      BY <1>2, <2>4 DEF RInv
  <1>6. QED
    BY <1>4, <1>5

LEMMA ReplaceRenewals ==
    ASSUME Inv, RInv, NEW c \in Calls, Replace(c)
    PROVE  RInv'
  <1> DEFINE e == calls[c]
             x == Answer(e, "ok", e.new)
  <1>0. TypeOK
    BY DEF Inv, LinkedIsVerified
  <1>1. e # None /\ Renews(e)
    BY <1>0 DEF Replace, Under, Renews
  <1>2. calls' = [calls EXCEPT ![c] = x] /\ tokens' = [tokens EXCEPT ![e.token] = "replaced"] /\ UNCHANGED pages
    BY <1>0 DEF Replace, Ends, TypeOK
  <1>3. calls'[c] = x /\ Differ(calls', calls, c)
    BY <1>0, <1>2 DEF TypeOK, Differ
  <1>4. GoesOn(x, e) /\ ~Renews(x)
    BY <1>1, AnswerGoesOn
  <1>5. \A v \in Tokens : v # e.token => tokens'[v] = tokens[v]
    BY <1>0, <1>2 DEF TypeOK
  <1> HIDE DEF x
  <1>6. Renewals(calls', tokens', pages)
    BY <1>1, <1>3, <1>4, <1>5, TokenReplaced DEF RInv
  <1>7. QED
    BY <1>2, <1>6 DEF RInv

\* Of what the mailbox and the administrator do.
LEMMA OthersRenewals ==
    ASSUME Inv, RInv, AccountsAssumption,
           \/ ForgotPassword \/ Reinstate
           \/ \E c \in Calls : Suspend(c)
           \/ \E c \in Calls, purpose \in {"VERIFY", "RESET"} : LinkOpened(c, purpose)
    PROVE  RInv'
  <1>0. TypeOK
    BY DEF Inv, LinkedIsVerified
  <1>1. CASE ForgotPassword \/ Reinstate
    BY <1>1 DEF ForgotPassword, Reinstate, RInv
  <1>2. ASSUME NEW c \in Calls, NEW x, calls[c] = None,
               calls' = [calls EXCEPT ![c] = x], UNCHANGED <<tokens, pages>>,
               x.what \in {"ban", "VERIFY", "RESET"}, x.new = None, x.token = None,
               x.step \in {"use", "revoke"}, x.from = None
        PROVE  RInv'
    <2>1. calls'[c] = x /\ Differ(calls', calls, c)
      BY <1>0, <1>2 DEF TypeOK, Differ
    <2>2. Renewals(calls', tokens, pages)
      BY <1>2, <2>1, RequestBegins, AccountsAssumption DEF RInv, AccountsAssumption
    <2>3. QED
      BY <1>2, <2>2 DEF RInv
  <1>3. ASSUME NEW c \in Calls, Suspend(c) PROVE RInv'
    <2> DEFINE x == [Request("ban", None) EXCEPT !.step = "revoke"]
    <2>1. calls[c] = None /\ calls' = [calls EXCEPT ![c] = x] /\ UNCHANGED <<tokens, pages>>
      BY <1>3 DEF Suspend, Free
    <2>2. x.what = "ban" /\ x.new = None /\ x.token = None /\ x.step = "revoke" /\ x.from = None
      BY DEF Request
    <2> HIDE DEF x
    <2>3. QED
      BY <1>2, <2>1, <2>2
  <1>4. ASSUME NEW c \in Calls, NEW purpose \in {"VERIFY", "RESET"}, LinkOpened(c, purpose)
        PROVE  RInv'
    <2> DEFINE x == [Request(purpose, None) EXCEPT !.step = "use"]
    <2>1. calls[c] = None /\ calls' = [calls EXCEPT ![c] = x] /\ UNCHANGED <<tokens, pages>>
      BY <1>4 DEF LinkOpened, Free, server
    <2>2. x.what = purpose /\ x.new = None /\ x.token = None /\ x.step = "use" /\ x.from = None
      BY DEF Request
    <2> HIDE DEF x
    <2>3. QED
      BY <1>2, <2>1, <2>2
  <1>5. QED
    BY <1>1, <1>3, <1>4

-----------------------------------------------------------------------------
(* The actions of the page.                                                *)

\* refreshSession, by a page that has not gone to Google.
LEMMA RefreshRenewals ==
    ASSUME Inv, RInv, NEW b \in Browsers, NEW p \in Pages, NEW waiter \in SUBSET {"reload", "timer"},
           p.cookie = pages[b].cookie, p.lost = pages[b].lost, p.pending = pages[b].pending,
           p.here = pages[b].here, p.timer => pages[b].timer,
           pages[b].here \/ pages[b].timer,
           RefreshSession(b, p, waiter), UNCHANGED tokens
    PROVE  RInv'
  <1>0. TypeOK
    BY DEF Inv, LinkedIsVerified
  <1>1. CASE p.pending
    <2>1. pages' = [pages EXCEPT ![b] = [p EXCEPT !.waiters = p.waiters \cup waiter]] /\ UNCHANGED calls
      BY <1>1 DEF RefreshSession
    <2>2. ASSUME NEW d \in Browsers PROVE SamePage(pages'[d], pages[d])
      BY <1>0, <2>1 DEF SamePage, TypeOK, Pages
    <2>3. \A c \in Calls : GoesOn(calls'[c], calls[c])
      BY <2>1 DEF GoesOn, RInv, Renewals, AnswersAreHeard
    <2>4. NoneReplaced(tokens', tokens)
      BY DEF NoneReplaced
    <2>5. QED
      BY <2>2, <2>3, <2>4, RequestsGoOn DEF RInv
  <1>2. CASE ~p.pending
    <2> DEFINE q == [p EXCEPT !.pending = TRUE, !.waiters = waiter]
    <2>1. PICK c \in Calls : /\ calls[c] = None
                             /\ calls' = [calls EXCEPT ![c] = WithCookie("refresh", b, p)]
                             /\ pages' = [pages EXCEPT ![b] = q]
      BY <1>2 DEF RefreshSession, Free
    <2> DEFINE x == WithCookie("refresh", b, p)
    <2>2. /\ x.what = "refresh" /\ x.from = b /\ x.token = pages[b].cookie /\ x.new = None /\ x.step = "read"
          /\ x.sure => ~pages[b].lost /\ ~pages[b].pending
      BY <1>2 DEF WithCookie, Request
    <2>3. calls'[c] = x /\ Differ(calls', calls, c)
      BY <1>0, <2>1 DEF TypeOK, Differ
    <2>4. PagesDiffer(pages', pages, b) /\ pages'[b].cookie = pages[b].cookie /\ pages'[b].pending
      BY <1>0, <2>1 DEF TypeOK, PagesDiffer, Pages
    <2>5. Idle(calls, b)
      BY <1>2 DEF Idle, HeardRefresh, HeardGoogle, RInv, Renewals, OneRenewal, AtGoogle
    <2> HIDE DEF x
    <2>6. /\ Renewals(calls, tokens, pages)
          /\ Differ(calls', calls, c) /\ calls[c] = None
          /\ calls'[c].what = "refresh" /\ calls'[c].from = b /\ calls'[c].token = pages[b].cookie
          /\ calls'[c].new = None /\ calls'[c].step = "read"
      BY <2>1, <2>2, <2>3 DEF RInv
    <2>7. calls'[c].sure => ~pages[b].lost /\ ~pages[b].pending
      BY <2>2, <2>3
    <2>8. PagesDiffer(pages', pages, b) /\ pages'[b].cookie = pages[b].cookie /\ pages'[b].pending
      BY <2>4
    <2>9. Renewals(calls', tokens, pages')
      BY <2>5, <2>6, <2>7, <2>8, RenewalBegins
    <2>10. QED
      BY <2>9 DEF RInv
  <1>3. QED
    BY <1>1, <1>2

\* What a page leaves when it goes.
LEMMA Leaves ==
    ASSUME Inv, RInv, NEW b \in Browsers
    PROVE  /\ Renewals(Unheard(b), tokens, pages)
           /\ WaitsForNothing(Unheard(b), b)
  <1>0. TypeOK
    BY DEF Inv, LinkedIsVerified
  <1>1. ASSUME NEW d \in Calls
        PROVE  /\ GoesOn(Unheard(b)[d], calls[d])
               /\ Unheard(b)[d] # None /\ Unheard(b)[d].from = b => ~Unheard(b)[d].heard
    <2>1. AnswersAreHeard(calls)
      BY DEF RInv, Renewals
    <2>2. CASE calls[d] = None \/ calls[d].from # b
      <3>1. Unheard(b)[d] = calls[d]
        BY <2>2 DEF Unheard
      <3>2. QED
        BY <2>1, <2>2, <3>1 DEF GoesOn, AnswersAreHeard
    <2>3. CASE calls[d] # None /\ calls[d].from = b /\ calls[d].step \in {"ok", "no"}
      BY <2>3 DEF Unheard, GoesOn
    <2>4. CASE calls[d] # None /\ calls[d].from = b /\ calls[d].step \notin {"ok", "no"}
      <3>1. Unheard(b)[d] = [calls[d] EXCEPT !.heard = FALSE]
        BY <2>4 DEF Unheard
      <3>2. calls[d] \in Requests
        BY <1>0, <2>4 DEF TypeOK
      <3>3. QED
        BY <2>4, <3>1, <3>2 DEF GoesOn, Requests, Renews
    <2>5. QED
      BY <2>2, <2>3, <2>4
  <1>2. NoneReplaced(tokens, tokens) /\ \A d \in Browsers : SamePage(pages[d], pages[d])
    BY DEF NoneReplaced, SamePage
  <1>3. QED
    BY <1>1, <1>2, RequestsGoOn DEF RInv, WaitsForNothing

LEMMA PageRenewals ==
    ASSUME Inv, RInv, AccountsAssumption, NEW b \in Browsers, PageSteps(b)
    PROVE  RInv'
  <1>0. TypeOK /\ pages[b] \in Pages
    BY DEF Inv, LinkedIsVerified, TypeOK
  <1>1. UNCHANGED tokens
    BY DEF PageSteps, Reload, RenewTimeout, FetchUnauthorized, PageLoaded, ThroughGoogle, Submits, server
  <1>2. CASE Reload(b) \/ FetchUnauthorized(b)
    <2>1. PICK waiter \in SUBSET {"reload", "timer"} : RefreshSession(b, pages[b], waiter) /\ pages[b].here
      BY <1>2 DEF Reload, FetchUnauthorized
    <2>2. QED
      BY <1>0, <1>1, <2>1, RefreshRenewals
  <1>3. CASE RenewTimeout(b)
    <2> DEFINE p == [pages[b] EXCEPT !.timer = FALSE]
    <2>1. RefreshSession(b, p, {"timer"}) /\ pages[b].timer
      BY <1>3 DEF RenewTimeout
    <2>2. /\ p \in Pages /\ p.cookie = pages[b].cookie /\ p.lost = pages[b].lost
          /\ p.pending = pages[b].pending /\ p.here = pages[b].here /\ ~p.timer
      BY <1>0 DEF Pages
    <2> HIDE DEF p
    <2>3. QED
      BY <1>1, <2>1, <2>2, RefreshRenewals
  <1> DEFINE left == Unheard(b)
  <1>4. Renewals(left, tokens, pages) /\ WaitsForNothing(left, b)
    BY Leaves
  <1>5. CASE PageLoaded(b)
    <2> DEFINE p == [Gone(b) EXCEPT !.status = "carregando", !.pending = TRUE, !.waiters = {"reload"}]
               x == WithCookie("refresh", b, p)
    <2>1. PICK c \in Calls : /\ left[c] = None
                             /\ calls' = [left EXCEPT ![c] = x]
                             /\ pages' = [pages EXCEPT ![b] = p]
      BY <1>5 DEF PageLoaded
    <2>2. p.cookie = pages[b].cookie /\ p.pending /\ (p.lost <=> pages[b].lost \/ pages[b].pending)
      BY <1>0 DEF Gone, Page, Pages
    <2>3. /\ x.what = "refresh" /\ x.from = b /\ x.token = pages[b].cookie /\ x.new = None /\ x.step = "read"
          /\ x.sure => ~pages[b].lost /\ ~pages[b].pending
      BY <2>2 DEF WithCookie, Request
    <2>4. calls'[c] = x /\ Differ(calls', left, c)
      BY <2>1 DEF Unheard, Differ
    <2>5. PagesDiffer(pages', pages, b) /\ pages'[b] = p
      BY <1>0, <2>1 DEF TypeOK, PagesDiffer
    <2>6. pages'[b].cookie = pages[b].cookie /\ pages'[b].pending
      BY <2>2, <2>5
    <2>7. Idle(left, b)
      BY <1>4 DEF Idle, WaitsForNothing, HeardRefresh, HeardGoogle
    <2> HIDE DEF x, p, left
    <2>8. /\ Differ(calls', left, c) /\ left[c] = None
          /\ calls'[c].what = "refresh" /\ calls'[c].from = b /\ calls'[c].token = pages[b].cookie
          /\ calls'[c].new = None /\ calls'[c].step = "read"
      BY <2>1, <2>3, <2>4
    <2>9. calls'[c].sure => ~pages[b].lost /\ ~pages[b].pending
      BY <2>3, <2>4
    <2>10. PagesDiffer(pages', pages, b)
      BY <2>5
    <2>11. Renewals(calls', tokens, pages')
      BY <1>4, <2>6, <2>7, <2>8, <2>9, <2>10, RenewalBegins
    <2>12. QED
      BY <1>1, <2>11 DEF RInv
  <1>6. ASSUME NEW g \in Identities, ThroughGoogle(b, g) PROVE RInv'
    <2> DEFINE p == [Gone(b) EXCEPT !.here = FALSE]
               x == [Request("google", b) EXCEPT !.token = g]
    <2>1. PICK c \in Calls : /\ left[c] = None
                             /\ calls' = [left EXCEPT ![c] = x]
                             /\ pages' = [pages EXCEPT ![b] = p]
      BY <1>6 DEF ThroughGoogle
    <2>2. /\ p.cookie = pages[b].cookie /\ (p.lost <=> pages[b].lost \/ pages[b].pending)
          /\ ~p.pending /\ ~p.here /\ ~p.timer
      BY <1>0 DEF Gone, Page, Pages
    <2>3. x.what = "google" /\ x.from = b /\ x.token = g /\ x.new = None /\ x.step = "read"
      BY DEF Request
    <2>4. calls'[c] = x /\ Differ(calls', left, c)
      BY <2>1 DEF Unheard, Differ
    <2>5. PagesDiffer(pages', pages, b) /\ pages'[b] = p
      BY <1>0, <2>1 DEF TypeOK, PagesDiffer
    <2>6. \A d \in Browsers : pages[d].cookie \in Tokens \cup {None}
      BY <1>0 DEF TypeOK, Pages
    <2>7. /\ pages'[b].cookie = pages[b].cookie
          /\ ~pages'[b].pending /\ ~pages'[b].here /\ ~pages'[b].timer
          /\ ~pages'[b].lost => ~pages[b].lost /\ ~pages[b].pending
      BY <2>2, <2>5
    <2> HIDE DEF x, p, left
    <2>8. /\ Differ(calls', left, c) /\ left[c] = None
          /\ calls'[c].what = "google" /\ calls'[c].from = b /\ calls'[c].token \in Identities
          /\ calls'[c].new = None /\ calls'[c].step = "read"
      BY <2>1, <2>3, <2>4
    <2>9. PagesDiffer(pages', pages, b)
      BY <2>5
    <2>10. Renewals(calls', tokens, pages')
      BY <1>4, <2>6, <2>7, <2>8, <2>9, GoogleBegins
    <2>11. QED
      BY <1>1, <2>10 DEF RInv
  <1>7. ASSUME NEW c \in Calls, NEW what \in {"login", "register", "logout"}, Submits(b, c, what)
        PROVE  RInv'
    <2> DEFINE x == IF what = "logout" THEN WithCookie(what, b, pages[b]) ELSE Request(what, b)
    <2>1. calls[c] = None /\ calls' = [calls EXCEPT ![c] = x] /\ UNCHANGED pages /\ pages[b].here
      BY <1>7 DEF Submits, Free
    <2>2. /\ x.what = what /\ x.from = b /\ x.token \in {None, pages[b].cookie} /\ x.new = None
          /\ x.step = "read"
      BY DEF WithCookie, Request
    <2>3. calls'[c] = x /\ Differ(calls', calls, c)
      BY <1>0, <2>1 DEF TypeOK, Differ
    <2> HIDE DEF x
    <2>4. Renewals(calls', tokens, pages)
      BY <2>1, <2>2, <2>3, RequestBegins DEF RInv
    <2>5. QED
      BY <1>1, <2>1, <2>4 DEF RInv
  <1>8. QED
    BY <1>2, <1>3, <1>5, <1>6, <1>7 DEF PageSteps

LEMMA LostRenewals ==
    ASSUME Inv, RInv, NEW c \in Calls, AnswerLost(c)
    PROVE  RInv'
  <1> DEFINE e == calls[c]
             b == e.from
             q == CASE e.what = "refresh" -> NotRenewed([pages[b] EXCEPT !.lost = TRUE])
                    [] e.what = "logout"  -> SignedOut(pages[b])
                    [] OTHER -> pages[b]
             x == IF e.step \in {"ok", "no"} THEN None ELSE [e EXCEPT !.heard = FALSE]
  <1>0. TypeOK
    BY DEF Inv, LinkedIsVerified
  <1>1. e # None /\ e \in Requests /\ e.heard /\ b \in Browsers /\ pages[b] \in Pages
    BY <1>0 DEF AnswerLost, TypeOK, Requests
  <1>2. pages' = [pages EXCEPT ![b] = q] /\ calls' = [calls EXCEPT ![c] = x] /\ UNCHANGED tokens
    BY <1>0 DEF AnswerLost, TypeOK, server
  <1>3. GoesOn(x, e) /\ (x # None => ~x.heard)
    BY <1>1 DEF GoesOn, Requests, Renews
  <1>4. /\ q.cookie = pages[b].cookie
        /\ e.what = "refresh" \/ (q.pending <=> pages[b].pending)
        /\ ~q.lost => ~pages[b].lost /\ e.what # "refresh"
    BY <1>1 DEF NotRenewed, SignedOut, Pages
  <1>5. calls'[c] = x /\ Differ(calls', calls, c)
    BY <1>0, <1>2 DEF TypeOK, Differ
  <1>6. pages'[b] = q /\ PagesDiffer(pages', pages, b)
    BY <1>0, <1>1, <1>2 DEF TypeOK, PagesDiffer
  <1>7. HeardRefresh(e) \/ (q.pending <=> pages[b].pending)
    BY <1>1, <1>4 DEF HeardRefresh
  <1> HIDE DEF q, x
  <1>8. Renewals(calls', tokens, pages')
    BY <1>1, <1>3, <1>4, <1>5, <1>6, <1>7, NothingArrives DEF RInv
  <1>9. QED
    BY <1>2, <1>8 DEF RInv

LEMMA ArrivedRenewals ==
    ASSUME Inv, RInv, AccountsAssumption, NEW c \in Calls, AnswerArrives(c)
    PROVE  RInv'
  <1> DEFINE e == calls[c]
             b == e.from
             q == Answered(pages[b], e)
             left == [calls EXCEPT ![c] = None]
  <1>0. TypeOK /\ None \notin Tokens
    BY DEF Inv, LinkedIsVerified, AccountsAssumption
  <1>1. /\ e # None /\ e \in Requests /\ e.heard /\ e.step \in {"ok", "no"}
        /\ b \in Browsers /\ pages[b] \in Pages
        /\ e.what \in {"refresh", "logout", "login", "register", "google"}
    <2>1. Sound(e, account) /\ AnswersAreHeard(calls)
      BY DEF Inv, CallsAreSound, RInv, Renewals
    <2>2. e # None /\ e \in Requests /\ e.step \in {"ok", "no"} /\ e.heard
      BY <1>0, <2>1 DEF AnswerArrives, TypeOK, AnswersAreHeard
    <2>3. b \in Browsers
      BY <2>1, <2>2 DEF Sound, Requests
    <2>4. e.what \in {"refresh", "logout", "login", "register", "google"}
      BY <2>1, <2>2, <2>3 DEF Sound, Requests, Whats
    <2>5. QED
      BY <1>0, <2>2, <2>3, <2>4 DEF TypeOK
  <1>2. pages' = [pages EXCEPT ![b] = q] /\ UNCHANGED tokens
    BY DEF AnswerArrives, server
  <1>3. left[c] = None /\ Differ(left, calls, c) /\ GoesOn(left[c], e)
    BY <1>0 DEF TypeOK, Differ, GoesOn
  <1>4. HeardRefresh(e) <=> e.what = "refresh"
    BY <1>1 DEF HeardRefresh
  \* What the page is told, and what it may keep, before a page from Google renews.
  <1>5. ASSUME NEW p2, p2 \in [Browsers -> Pages], PagesDiffer(p2, pages, b),
               \/ e.new # None /\ p2[b].cookie = e.new
               \/ /\ p2[b].cookie \in {pages[b].cookie, None}
                  /\ p2[b].cookie # None => (p2[b].lost <=> pages[b].lost),
               e.what = "refresh" => p2[b].cookie # pages[b].cookie \/ p2[b].cookie = None,
               e.what # "refresh" => (p2[b].pending <=> pages[b].pending)
        PROVE  Renewals(left, tokens, p2)
    <2>1. HeardRefresh(e) \/ (p2[b].pending <=> pages[b].pending)
      BY <1>4, <1>5
    <2>2. CASE e.new # None /\ p2[b].cookie = e.new
      BY <1>0, <1>1, <1>3, <1>5, <2>1, <2>2, NewsArrive DEF RInv
    <2>3. CASE /\ p2[b].cookie \in {pages[b].cookie, None}
               /\ p2[b].cookie # None => (p2[b].lost <=> pages[b].lost)
      <3>1. p2[b].cookie # None /\ ~p2[b].lost /\ ~p2[b].pending => ~pages[b].lost /\ ~pages[b].pending
        BY <1>5, <2>3
      <3>2. QED
        BY <1>1, <1>3, <1>5, <2>1, <2>3, <3>1, NothingArrives DEF RInv
    <2>4. QED
      BY <1>5, <2>2, <2>3
  <1>6. CASE e.what # "google"
    <2>1. calls' = left
      BY <1>0, <1>6 DEF AnswerArrives, TypeOK
    <2>2. pages' \in [Browsers -> Pages] /\ PagesDiffer(pages', pages, b) /\ pages'[b] = q
      <3>1. q \in Pages
        BY <1>1, AnsweredSound DEF Inv, CallsAreSound
      <3>2. QED
        BY <1>0, <1>1, <1>2, <3>1 DEF TypeOK, PagesDiffer
    <2>3. /\ \/ e.new # None /\ q.cookie = e.new
             \/ /\ q.cookie \in {pages[b].cookie, None}
                /\ q.cookie # None => (q.lost <=> pages[b].lost)
          /\ e.what = "refresh" => q.cookie # pages[b].cookie \/ q.cookie = None
          /\ e.what # "refresh" => (q.pending <=> pages[b].pending)
      <3> USE DEF Kept, Pages
      <3>1. CASE e.what = "refresh"
        <4>1. q.cookie \in {e.new, None}
          BY <1>1, <3>1 DEF Answered, Renewed, NotRenewed
        <4>2. e.new # None => e.new # pages[b].cookie
          BY <1>1 DEF RInv, Renewals, FreshNews
        <4>3. QED
          BY <3>1, <4>1, <4>2
      <3>2. CASE e.what = "logout"
        BY <1>1, <3>2 DEF Answered, SignedOut
      <3>3. CASE e.what \in {"login", "register"} /\ e.step = "ok"
        BY <1>1, <3>3 DEF Answered, Signed
      <3>4. CASE e.what \in {"login", "register"} /\ e.step # "ok"
        BY <1>1, <3>4 DEF Answered
      <3>5. QED
        BY <1>1, <1>6, <3>1, <3>2, <3>3, <3>4
    <2> HIDE DEF q, left
    <2>4. Renewals(left, tokens, pages')
      BY <1>5, <2>2, <2>3
    <2>5. QED
      BY <1>2, <2>1, <2>4 DEF RInv
  <1>7. CASE e.what = "google"
    <2> DEFINE p == IF e.step = "ok" THEN Kept(pages[b], e.new) ELSE pages[b]
               p2 == [pages EXCEPT ![b] = p]
               x == WithCookie("refresh", b, q)
    <2>1. p \in Pages /\ q.cookie = p.cookie /\ q.lost = p.lost /\ q.pending
      BY <1>1, <1>7 DEF Answered, Kept, Pages, Requests
    <2>2. /\ \/ e.new # None /\ p.cookie = e.new
             \/ /\ p.cookie \in {pages[b].cookie, None}
                /\ p.cookie # None => (p.lost <=> pages[b].lost)
          /\ p.pending = pages[b].pending
      BY <1>1 DEF Kept, Pages
    <2>3. p2 \in [Browsers -> Pages] /\ PagesDiffer(p2, pages, b) /\ p2[b] = p
      BY <1>0, <1>1, <2>1 DEF TypeOK, PagesDiffer
    <2>4. Renewals(left, tokens, p2)
      <3> HIDE DEF p, p2, left, q
      <3>1. QED
        BY <1>5, <1>7, <2>2, <2>3
    <2>5. HeardGoogle(e) /\ ~pages[b].pending /\ Idle(left, b)
      <3>1. HeardGoogle(e)
        BY <1>1, <1>7 DEF HeardGoogle
      <3>2. ~pages[b].pending /\ \A d \in Calls : calls[d] # None /\ calls[d].heard /\ calls[d].from = b => d = c
        BY <3>1 DEF RInv, Renewals, AtGoogle
      <3>3. QED
        BY <1>0, <1>3, <3>1, <3>2 DEF Idle, HeardRefresh, HeardGoogle, TypeOK, Differ
    <2>6. calls' = [left EXCEPT ![c] = x]
      BY <1>0, <1>7 DEF AnswerArrives, TypeOK
    <2>7. calls'[c] = x /\ Differ(calls', left, c)
      BY <1>0, <2>6 DEF TypeOK, Differ
    <2>8. /\ x.what = "refresh" /\ x.from = b /\ x.token = p.cookie /\ x.new = None /\ x.step = "read"
          /\ x.sure => ~p.lost
      BY <2>1 DEF WithCookie, Request
    <2>9. /\ calls'[c].what = "refresh" /\ calls'[c].from = b /\ calls'[c].token = p2[b].cookie
          /\ calls'[c].new = None /\ calls'[c].step = "read"
      BY <2>3, <2>7, <2>8
    <2>10. calls'[c].sure => ~p2[b].lost /\ ~p2[b].pending
      BY <2>2, <2>3, <2>5, <2>7, <2>8
    <2>11. PagesDiffer(pages', p2, b) /\ pages'[b].cookie = p2[b].cookie /\ pages'[b].pending
      BY <1>0, <1>1, <1>2, <2>1, <2>3 DEF TypeOK, PagesDiffer
    <2> HIDE DEF x, p, p2, left, q, b
    <2>12. Renewals(calls', tokens, pages')
      BY <1>1, <1>3, <2>4, <2>5, <2>7, <2>9, <2>10, <2>11, RenewalBegins
    <2>13. QED
      BY <1>2, <2>12 DEF RInv
  <1>8. QED
    BY <1>6, <1>7

-----------------------------------------------------------------------------
(* The theorem.                                                            *)

LEMMA RenewalsInit ==
    Init => RInv
  BY DEF Init, Page, RInv, Renewals, Owned, FreshNews, OneRenewal, AtGoogle, AnswersAreHeard,
      CleanPages, CleanRenewals, Renews, HeardRefresh, HeardGoogle

LEMMA RenewalsStep ==
    ASSUME Inv, RInv, AccountsAssumption, [Next]_vars
    PROVE  RInv'
  <1>1. CASE UNCHANGED vars
    BY <1>1 DEF vars, RInv
  <1>2. ASSUME NEW c \in Calls, Served(c) PROVE RInv'
    BY <1>2, ServedRenewals, IssueRenewals, ReplaceRenewals DEF Served
  <1>3. CASE \/ ForgotPassword \/ Reinstate
             \/ \E c \in Calls : Suspend(c)
             \/ \E c \in Calls, purpose \in {"VERIFY", "RESET"} : LinkOpened(c, purpose)
    BY <1>3, OthersRenewals
  <1>4. ASSUME NEW b \in Browsers, PageSteps(b) PROVE RInv'
    BY <1>4, PageRenewals
  <1>5. ASSUME NEW c \in Calls, AnswerArrives(c) \/ AnswerLost(c) PROVE RInv'
    BY <1>5, ArrivedRenewals, LostRenewals
  <1>6. QED
    BY <1>1, <1>2, <1>3, <1>4, <1>5 DEF Next, PageSteps

\* Of a page that lost no answer, a renewal never comes with a token that another
\* renewal has replaced, and so is never taken for the use of a stolen one
\* (refreshSession, web/src/lib/auth.ts:73-90; refresh, auth.service.ts:518-556).
THEOREM RenewalIsSafe == Spec => []RenewalIsNoReuse
  <1>1. Inv /\ RInv /\ [Next]_vars => RInv'
    BY RenewalsStep, AccountsAssumption
  <1>2. RInv => RenewalIsNoReuse
    <2> SUFFICES ASSUME RInv, NEW c \in Calls, Renews(calls[c]), calls[c].heard, calls[c].sure
                 PROVE  Standing(calls[c].token) # "replaced"
      BY DEF RenewalIsNoReuse, Renews
    <2>1. calls[c].token # None => tokens[calls[c].token] # "replaced"
      BY DEF RInv, Renewals, CleanRenewals
    <2>2. QED
      BY <2>1 DEF Standing
  <1>3. QED
    BY InvHolds, RenewalsInit, <1>1, <1>2, PTL DEF Spec
=============================================================================

----------------------------- MODULE LoginFlow ------------------------------
(***************************************************************************)
(* The steps a user takes before there is a session: identifier and        *)
(* password, the choice among several accounts, the one-time code (Login,  *)
(* useAuth), and the routes of the BFF that relay them (auth.ts).  One     *)
(* busy flag is all that keeps two calls of the page apart; Back and Start *)
(* over ignore it, and a call in flight is never cancelled.                *)
(***************************************************************************)
EXTENDS Naturals, Sequences, FiniteSets

CONSTANTS
    Identity,      \* ID and passport numbers
    User,
    accountsOf,    \* the accounts of an identity (the upstream's table)
    NoUser,
    MaxCodes       \* bound: one-time codes sent

VARIABLES
    page,     \* the state of the mounted Login page
    calls,    \* its calls under way
    sent,     \* the accounts that the codes went to, in order
    spent,    \* the codes that have been used
    session   \* the account that is signed in, or NoUser

vars == <<page, calls, sent, spent, session>>

Code == 1 .. MaxCodes
Call == [kind: {"initiate", "otp", "login"}, from: {"credentials", "accounts", "otp"},
         id: Identity, user: User \cup {NoUser}, code: Code \cup {0}]

TypeOK ==
    /\ page \in [step: {"credentials", "accounts", "otp"}, identifier: Identity, accounts: SUBSET User,
                 userId: User \cup {NoUser}, pin: Code \cup {0}, busy: BOOLEAN]
    /\ calls \subseteq Call
    /\ sent \in Seq(User) /\ Len(sent) <= MaxCodes /\ spent \subseteq Code
    /\ session \in User \cup {NoUser}

Mounted(i) ==
    [step |-> "credentials", identifier |-> i, accounts |-> {}, userId |-> NoUser, pin |-> 0, busy |-> FALSE]

Init ==
    /\ \E i \in Identity : page = Mounted(i)
    /\ calls = {} /\ sent = <<>> /\ spent = {} /\ session = NoUser

-----------------------------------------------------------------------------
(* The page.                                                                *)

blocked == page.busy

\* Fields and the two kinds of identifier stay editable during a call.
Type(i) ==
    /\ session = NoUser /\ page.step = "credentials" /\ i # page.identifier
    /\ page' = [page EXCEPT !.identifier = i]
    /\ UNCHANGED <<calls, sent, spent, session>>

\* setBusy(true); what the handler read is fixed in its closure.
Submit(kind, user, code) ==
    /\ session = NoUser /\ ~blocked
    /\ page' = [page EXCEPT !.busy = TRUE]
    /\ calls' = calls \cup {[kind |-> kind, from |-> page.step, id |-> page.identifier,
                             user |-> user, code |-> code]}
    /\ UNCHANGED <<sent, spent, session>>

handleCredentials == page.step = "credentials" /\ Submit("initiate", NoUser, 0)

handleAccountSelect(u) ==
    page.step = "accounts" /\ u \in page.accounts /\ Submit("initiate", u, 0)

\* The user types any code received so far, for whichever account.
handleOtp(n) ==
    page.step = "otp" /\ page.userId # NoUser /\ n \in 1 .. Len(sent) /\ Submit("login", page.userId, n)

handleResend == page.step = "otp" /\ page.userId # NoUser /\ Submit("otp", page.userId, 0)

Back ==
    /\ session = NoUser /\ page.step = "accounts"
    /\ page' = [page EXCEPT !.step = "credentials"]
    /\ UNCHANGED <<calls, sent, spent, session>>

StartOver ==
    /\ session = NoUser /\ page.step = "otp"
    /\ page' = [page EXCEPT !.step = "credentials", !.userId = NoUser]
    /\ UNCHANGED <<calls, sent, spent, session>>

-----------------------------------------------------------------------------
(* The answers.  Wherever the user has gone, the handler goes on.           *)

\* A refusal by the BFF's gate or validation, by the upstream, a timeout, or a
\* lost reply.  A failed choice of an account leads back to the credentials.
Fails(c) ==
    /\ c \in calls /\ calls' = calls \ {c}
    /\ page' = [page EXCEPT !.busy = FALSE,
                            !.step = IF c.from = "accounts" THEN "credentials" ELSE @]
    /\ UNCHANGED <<sent, spent, session>>

\* A choice that is answered with a list again changes nothing.
StillSeveral(c) ==
    /\ c \in calls /\ c.kind = "initiate" /\ c.user # NoUser
    /\ calls' = calls \ {c} /\ page' = [page EXCEPT !.busy = FALSE]
    /\ UNCHANGED <<sent, spent, session>>

\* One account, given or chosen: the handler asks for its code (moveToOtp).
Resolved(c, u) ==
    /\ c \in calls /\ c.kind = "initiate"
    /\ u \in accountsOf[c.id] /\ (c.user = u \/ (c.user = NoUser /\ accountsOf[c.id] = {u}))
    /\ calls' = (calls \ {c}) \cup {[c EXCEPT !.kind = "otp", !.user = u]}
    /\ UNCHANGED <<page, sent, spent, session>>

SeveralAccounts(c) ==
    /\ c \in calls /\ c.kind = "initiate" /\ c.user = NoUser /\ Cardinality(accountsOf[c.id]) > 1
    /\ calls' = calls \ {c}
    /\ page' = [page EXCEPT !.accounts = accountsOf[c.id], !.step = "accounts", !.busy = FALSE]
    /\ UNCHANGED <<sent, spent, session>>

\* The confirmation PIN belongs to the message with the code: one number for both.
OtpSent(c) ==
    /\ c \in calls /\ c.kind = "otp" /\ Len(sent) < MaxCodes
    /\ sent' = Append(sent, c.user) /\ calls' = calls \ {c}
    /\ page' = IF c.from = "otp"
               THEN [page EXCEPT !.pin = Len(sent) + 1, !.busy = FALSE]
               ELSE [page EXCEPT !.userId = c.user, !.pin = Len(sent) + 1, !.step = "otp", !.busy = FALSE]
    /\ UNCHANGED <<spent, session>>

\* The message goes out, its reply is lost.
OtpReplyLost(c) ==
    /\ c \in calls /\ c.kind = "otp" /\ Len(sent) < MaxCodes
    /\ sent' = Append(sent, c.user) /\ calls' = calls \ {c}
    /\ page' = [page EXCEPT !.busy = FALSE,
                            !.step = IF c.from = "accounts" THEN "credentials" ELSE @]
    /\ UNCHANGED <<spent, session>>

\* The last code of an account counts, once.
Valid(u, n) == n \notin spent /\ sent[n] = u /\ \A k \in n + 1 .. Len(sent) : sent[k] # u

\* The session replaces the page.
LoginSucceeds(c) ==
    /\ c \in calls /\ c.kind = "login" /\ Valid(c.user, c.code)
    /\ spent' = spent \cup {c.code} /\ session' = c.user
    /\ page' = Mounted(c.id) /\ calls' = {}
    /\ UNCHANGED sent

\* The code is used up, the reply lost.
LoginReplyLost(c) ==
    /\ c \in calls /\ c.kind = "login" /\ Valid(c.user, c.code)
    /\ spent' = spent \cup {c.code} /\ calls' = calls \ {c}
    /\ page' = [page EXCEPT !.busy = FALSE]
    /\ UNCHANGED <<sent, session>>

\* Another tab asks for a code of the same account.
SentElsewhere(u) ==
    /\ Len(sent) < MaxCodes /\ sent' = Append(sent, u)
    /\ UNCHANGED <<page, calls, spent, session>>

Logout ==
    /\ session # NoUser /\ session' = NoUser
    /\ UNCHANGED <<page, calls, sent, spent>>

Next ==
    \/ \E i \in Identity : Type(i)
    \/ handleCredentials \/ handleResend \/ Back \/ StartOver \/ Logout
    \/ \E u \in User : handleAccountSelect(u) \/ SentElsewhere(u)
    \/ \E n \in Code : handleOtp(n)
    \/ \E c \in calls : \/ Fails(c) \/ SeveralAccounts(c) \/ StillSeveral(c) \/ OtpSent(c) \/ OtpReplyLost(c)
                        \/ LoginSucceeds(c) \/ LoginReplyLost(c)
                        \/ \E u \in User : Resolved(c, u)

Spec == Init /\ [][Next]_vars

-----------------------------------------------------------------------------
(* The gate before every auth route of the BFF.                             *)

Headers == [site: {"absent", "same-origin", "same-site", "none", "cross-site"},
            origin: {"absent", "own", "loopback", "foreign"}, cookie: BOOLEAN]

\* AUTH_ALLOWED_ORIGINS, when it is set, names the own origin.
trustedAuthOrigin(h, production, allowlist) ==
    /\ h.site # "cross-site"
    /\ IF h.origin = "absent"
       THEN h.site \in {"same-origin", "none"} \/ ~h.cookie
       ELSE h.origin = "own" \/ (h.origin = "loopback" /\ ~production /\ ~allowlist)

\* What browsers attach to a POST: current ones both headers, older ones
\* perhaps neither.
FromOwnPage == [site: {"same-origin"}, origin: {"own"}, cookie: BOOLEAN]
FromForeignPage == [site: {"cross-site", "same-site", "absent"}, origin: {"foreign", "absent"}, cookie: BOOLEAN]

-----------------------------------------------------------------------------
(* Properties.                                                              *)

\* On the step that takes the code the account is known, and the PIN beside the
\* field is one that was sent to it: neither a late answer nor a resend brings
\* the PIN of one account to the form of another.
PinOfAccount ==
    page.step = "otp" =>
        /\ page.userId # NoUser
        /\ page.pin # 0 /\ sent[page.pin] = page.userId

\* The page is busy exactly while one call of it is under way.
BusyIsOneCall ==
    /\ page.busy <=> calls # {}
    /\ \A c, d \in calls : c = d

\* A current browser on the application's own page always passes the gate; a
\* request of another site that carries cookies never does.
GateTrustsOwnPages ==
    \A production, allowlist \in BOOLEAN :
        /\ \A h \in FromOwnPage : trustedAuthOrigin(h, production, allowlist)
        /\ \A h \in FromForeignPage : h.cookie => ~trustedAuthOrigin(h, production, allowlist)
=============================================================================

------------------------------ MODULE Session ------------------------------
(***************************************************************************)
(* The authenticated session of one browser: tabs that share a cookie jar  *)
(* (src/lib/api/session.ts, httpClient.ts, hooks/useAuth.tsx) and the BFF  *)
(* that sets and clears its cookies (server/routes/auth.ts).  Login,       *)
(* refresh and logout pass through one queue per tab and one lock of all   *)
(* tabs; protected calls, clicks, page loads and messages between tabs     *)
(* pass at any time.  A step is what a tab runs between two awaits.        *)
(*                                                                         *)
(* The code compares counters it captured before an await (the session     *)
(* generation, the logout epoch) with their values after it.  Here each    *)
(* capture is a flag, lowered or raised when the counter moves: "current"  *)
(* of a call, "moved" of a tab's running operation, "void" of a queued one.*)
(***************************************************************************)
EXTENDS Naturals, Sequences, FiniteSets

CONSTANTS
    Tab,         \* tabs of the browser
    Slot,        \* protected calls a tab may have outstanding
    Sid,         \* session ids; each login draws one (a UUID)
    NoSid,       \* no session id: absent cookie, null session
    Principal,   \* verified claims of an access token, as principalKey tells them apart
    NoOne,
    MaxFaults,   \* bound: closed tabs and lost replies in a behaviour
    MaxChanges   \* bound: changes of a sid's claims in a behaviour

ASSUME NoneAssumption == NoSid \notin Sid /\ NoOne \notin Principal
ASSUME BoundsAssumption == MaxFaults \in Nat /\ MaxChanges \in Nat

VARIABLES
    sidCookie,      \* deedly_sid, which scripts may read and delete
    refreshCookie,  \* the sid inside deedly_refresh, HttpOnly
    claims,         \* upstream: the principal of each issued sid
    page,           \* "closed", "restoring" or "ready"
    session,        \* the session a tab holds in memory
    tabSids,        \* tabSessionSids
    queue,          \* authQueue: operations of a tab, the running one first
    stage,          \* of the running operation
    flight,         \* what its request presented: a sid, and the jar's refresh cookie
    reply,          \* what its response told the tab
    moved,          \* the session generation has moved since it started
    locks,          \* tabs that hold (first) or wait for the Web Lock
    inbox,          \* BroadcastChannel messages not yet handled
    call,           \* protected calls
    current,        \* calls whose captured session generation still stands
    \* History, read by properties only.
    ended,          \* sids whose logout was asked for
    overruled,      \* logins that landed after a logout was asked for, by tab
    faults,
    changes

jar    == <<sidCookie, refreshCookie, claims>>
memory == <<session, tabSids>>
auth   == <<queue, stage, flight, reply, locks>>
calls  == <<call, current>>
past   == <<ended, overruled, faults, changes>>
vars   == <<jar, page, memory, auth, moved, inbox, calls, past>>

Call        == Tab \X Slot
NoSession   == [sid |-> NoSid, who |-> NoOne]
AuthSession == [sid : Sid, who : Principal]
NoFlight    == [sid |-> NoSid, cookie |-> NoSid]
Op          == [kind : {"refresh", "login"}, sid : {NoSid}, void : BOOLEAN]
                   \cup [kind : {"logout"}, sid : Sid, void : BOOLEAN]
Message     == [kind : {"login", "logout"}, sid : Sid, who : Principal \cup {NoOne}]
Idle        == [pc |-> "idle", as |-> NoSession, retried |-> FALSE]

TypeOK ==
    /\ sidCookie \in Sid \cup {NoSid}
    /\ refreshCookie \in Sid \cup {NoSid}
    /\ claims \in [Sid -> Principal \cup {NoOne}]
    /\ page \in [Tab -> {"closed", "restoring", "ready"}]
    /\ session \in [Tab -> AuthSession \cup {NoSession}]
    /\ tabSids \in [Tab -> SUBSET Sid]
    /\ queue \in [Tab -> Seq(Op)]
    /\ stage \in [Tab -> {"waiting", "sent", "landed"}]
    /\ flight \in [Tab -> [sid : Sid \cup {NoSid}, cookie : Sid \cup {NoSid}]]
    /\ reply \in [Tab -> AuthSession \cup {NoSession}]
    /\ moved \in [Tab -> BOOLEAN]
    /\ locks \in Seq(Tab)
    /\ inbox \in [Tab -> Seq(Message)]
    /\ call \in [Call -> [pc : {"idle", "sent", "refreshing", "retry", "reading"},
                          as : AuthSession \cup {NoSession}, retried : BOOLEAN]]
    /\ current \subseteq Call
    /\ ended \subseteq Sid
    /\ overruled \subseteq Tab \X Sid
    /\ faults \in 0 .. MaxFaults
    /\ changes \in 0 .. MaxChanges

\* No tab is open; the jar may hold a session of an earlier day.
Init ==
    /\ sidCookie \in Sid \cup {NoSid}
    /\ refreshCookie = sidCookie
    /\ \E p \in Principal :
          claims = [s \in Sid |-> IF s = sidCookie THEN p ELSE NoOne]
    /\ page = [t \in Tab |-> "closed"]
    /\ session = [t \in Tab |-> NoSession]
    /\ tabSids = [t \in Tab |-> {}]
    /\ queue = [t \in Tab |-> <<>>]
    /\ stage = [t \in Tab |-> "waiting"]
    /\ flight = [t \in Tab |-> NoFlight]
    /\ reply = [t \in Tab |-> NoSession]
    /\ moved = [t \in Tab |-> FALSE]
    /\ locks = <<>>
    /\ inbox = [t \in Tab |-> <<>>]
    /\ call = [c \in Call |-> Idle]
    /\ current = {}
    /\ ended = {}
    /\ overruled = {}
    /\ faults = 0
    /\ changes = 0

-----------------------------------------------------------------------------
(* The session in memory, and the messages about it. *)

Fault == faults < MaxFaults /\ faults' = faults + 1

\* sessionGeneration++, as the calls that captured it will see it.
NextGeneration(t) == current' = {c \in current : c[1] # t}

\* The same for the operation that runs, when it is not the one that did it.
Interrupt(t) ==
    moved' = [moved EXCEPT ![t] = @ \/ (stage[t] # "waiting" /\ session'[t] # session[t])]

\* Faulty variant: the token goes, and the session stays.
ForgetsToken(t) ==
    /\ session' = [session EXCEPT ![t].who = NoOne]
    /\ tabSids' = [tabSids EXCEPT ![t] = {}]
    /\ NextGeneration(t)

clearSession(t) ==
    /\ session' = [session EXCEPT ![t] = NoSession]
    /\ tabSids' = [tabSids EXCEPT ![t] = {}]
    /\ IF session[t] # NoSession THEN NextGeneration(t) ELSE UNCHANGED current

\* A message reaches the tabs that are open.
Post(t, m) ==
    inbox' = [u \in Tab |->
        IF u = t \/ page[u] = "closed" THEN inbox[u] ELSE Append(inbox[u], m)]

\* Faulty variant: a new principal under the same sid is not a new session.
ChangesSid(t, next) == session[t].sid # next.sid

Changes(t, next) == session[t] # next

setSession(t, next) ==
    /\ session' = [session EXCEPT ![t] = next]
    /\ tabSids' = [tabSids EXCEPT ![t] = @ \cup {next.sid}]
    /\ IF Changes(t, next)
          THEN NextGeneration(t) /\ Post(t, [kind |-> "login", sid |-> next.sid, who |-> next.who])
          ELSE UNCHANGED <<current, inbox>>

\* Faulty variant: a tab trusts the messages alone.
TrustsMessages(t) == TRUE

\* What synchronizeSessionCookie requires, and clears the session without.
Synchronized(t) == session[t] # NoSession => sidCookie = session[t].sid

\* Faulty variant: the cookie waits for the BFF to clear it.
LeavesSidCookie(s) == UNCHANGED sidCookie

\* deleteSidCookieIfOurs
DeleteSidCookie(s) == sidCookie' = IF sidCookie = s THEN NoSid ELSE sidCookie

-----------------------------------------------------------------------------
(* The queue of a tab and the lock of all tabs. *)

Pending(t, kind) == \E i \in DOMAIN queue[t] : queue[t][i].kind = kind

Operation(kind, s) == [kind |-> kind, sid |-> s, void |-> FALSE]

\* The operation at the head of the queue asks for the lock when it gets there.
Enqueue(t, ops, op) ==
    /\ queue' = [queue EXCEPT ![t] = Append(ops, op)]
    /\ locks' = IF queue[t] = <<>> THEN Append(locks, t) ELSE locks

\* Faulty variant: the next operation keeps waiting for a promise nobody settles.
DropsQueue(t) ==
    /\ queue' = [queue EXCEPT ![t] = Tail(@)]
    /\ locks' = Tail(locks)
    /\ stage' = [stage EXCEPT ![t] = "waiting"]
    /\ flight' = [flight EXCEPT ![t] = NoFlight]
    /\ reply' = [reply EXCEPT ![t] = NoSession]
    /\ moved' = [moved EXCEPT ![t] = FALSE]

\* The lock is released; the tab's next operation queues for it.
Dequeue(t) ==
    /\ queue' = [queue EXCEPT ![t] = Tail(@)]
    /\ locks' = IF Len(queue[t]) = 1 THEN Tail(locks) ELSE Append(Tail(locks), t)
    /\ stage' = [stage EXCEPT ![t] = "waiting"]
    /\ flight' = [flight EXCEPT ![t] = NoFlight]
    /\ reply' = [reply EXCEPT ![t] = NoSession]
    /\ moved' = [moved EXCEPT ![t] = FALSE]

\* Faulty variant: the lock of a tab outlives it.
KeepsLock(t) == UNCHANGED locks

\* The lock of a tab that is gone, or its place in the line.
LeaveLock(t) ==
    \/ /\ \A k \in DOMAIN locks : locks[k] # t
       /\ UNCHANGED locks
    \/ \E k \in DOMAIN locks :
          /\ locks[k] = t
          /\ locks' = [i \in 1 .. (Len(locks) - 1) |-> locks[IF i < k THEN i ELSE i + 1]]

Holds(t) == locks # <<>> /\ Head(locks) = t

Running(t, kind, at) == Holds(t) /\ stage[t] = at /\ Head(queue[t]).kind = kind

-----------------------------------------------------------------------------
(* What a user does: open a page, sign in, sign out. *)

Ready(t) == page[t] = "ready"

\* AuthProvider mounts: the session is restored from the cookies.
Open(t) ==
    /\ page[t] = "closed"
    /\ page' = [page EXCEPT ![t] = "restoring"]
    /\ Enqueue(t, queue[t], Operation("refresh", NoSid))
    /\ UNCHANGED <<jar, memory, stage, flight, reply, moved, inbox, calls, past>>

\* completeLogin: the form is shown without a session, and disabled while it waits.
Login(t) ==
    /\ Ready(t) /\ session[t] = NoSession /\ ~Pending(t, "login")
    /\ Enqueue(t, queue[t], Operation("login", NoSid))
    /\ UNCHANGED <<jar, page, memory, stage, flight, reply, moved, inbox, calls, past>>

\* logoutSession: memory first, then the request waits its turn.
Logout(t) ==
    LET s == session[t].sid IN
    /\ Ready(t) /\ session[t] # NoSession
    /\ clearSession(t) /\ Interrupt(t)
    /\ Enqueue(t, [i \in DOMAIN queue[t] |-> [queue[t][i] EXCEPT !.void = TRUE]],
                  Operation("logout", s))
    /\ Post(t, [kind |-> "logout", sid |-> s, who |-> NoOne])
    /\ DeleteSidCookie(s)
    /\ ended' = ended \cup {s}
    /\ UNCHANGED <<refreshCookie, claims, page, stage, flight, reply, call, overruled, faults, changes>>

-----------------------------------------------------------------------------
(* One operation at a time: it starts, its response lands, it completes. *)

\* The sid a refresh proves: of memory, or of the cookie after a reload.
getSessionSid(t) == IF session[t] # NoSession THEN session[t].sid ELSE sidCookie

Send(t, s) ==
    /\ stage' = [stage EXCEPT ![t] = "sent"]
    /\ flight' = [flight EXCEPT ![t] = [sid |-> s, cookie |-> refreshCookie]]
    /\ UNCHANGED <<page, memory, queue, reply, locks, moved, inbox, calls, overruled, faults, changes>>

StartRefresh(t) ==
    /\ Running(t, "refresh", "waiting") /\ ~Head(queue[t]).void
    /\ Send(t, getSessionSid(t))
    /\ UNCHANGED <<jar, ended>>

StartLogin(t) ==
    /\ Running(t, "login", "waiting")
    /\ Send(t, NoSid)
    /\ UNCHANGED <<jar, ended>>

\* Faulty variant: it knows only the session it was asked for.
CallTimeSid(t) == Head(queue[t]).sid

\* The sid this logout may end: one this tab put in the jar since, or its own.
LogoutSid(t) == IF sidCookie \in tabSids[t] THEN sidCookie ELSE Head(queue[t]).sid

StartLogout(t) ==
    /\ Running(t, "logout", "waiting")
    /\ Send(t, LogoutSid(t))
    /\ DeleteSidCookie(LogoutSid(t))
    /\ ended' = ended \cup {LogoutSid(t)}
    /\ UNCHANGED <<refreshCookie, claims>>

\* The BFF refuses a sid that is not the one inside the HttpOnly cookie.
Matches(t) == flight[t].sid # NoSid /\ flight[t].sid = flight[t].cookie

setAuthCookies(s, p) ==
    /\ claims[s] = NoOne
    /\ claims' = [claims EXCEPT ![s] = p]
    /\ sidCookie' = s
    /\ refreshCookie' = s

\* Faulty variant: a logout clears whatever the jar holds.
ClearsAny(t) ==
    UNCHANGED claims /\ sidCookie' = NoSid /\ refreshCookie' = NoSid

clearAuthCookies(t) ==
    /\ UNCHANGED claims
    /\ IF Matches(t) THEN sidCookie' = NoSid /\ refreshCookie' = NoSid
                     ELSE UNCHANGED <<sidCookie, refreshCookie>>

Reply(t, r) ==
    /\ stage' = [stage EXCEPT ![t] = "landed"]
    /\ reply' = [reply EXCEPT ![t] = r]
    /\ UNCHANGED <<page, memory, queue, flight, locks, moved, inbox, calls, ended, overruled,
                   changes>>

\* A refresh sets no cookie: it returns a token with the claims of today.
LandRefresh(t) ==
    /\ Running(t, "refresh", "sent") /\ Matches(t)
    /\ Reply(t, [sid |-> flight[t].sid, who |-> claims[flight[t].sid]])
    /\ UNCHANGED <<jar, faults>>

LandLogin(t) ==
    /\ Running(t, "login", "sent")
    /\ \E s \in Sid, p \in Principal :
          setAuthCookies(s, p) /\ Reply(t, [sid |-> s, who |-> p])
    /\ UNCHANGED faults

LandLogout(t) ==
    /\ Running(t, "logout", "sent")
    /\ clearAuthCookies(t)
    /\ Reply(t, NoSession)
    /\ UNCHANGED faults

\* A mismatch, a wrong OTP, or upstream refuses or cannot be reached.
Refuse(t) ==
    /\ Running(t, "refresh", "sent") \/ Running(t, "login", "sent")
    /\ Reply(t, NoSession)
    /\ UNCHANGED <<jar, faults>>

\* The Set-Cookie of the response in flight, if the BFF gives one.
CookiesLand(t) ==
    \/ Running(t, "login", "sent") /\ \E s \in Sid, p \in Principal : setAuthCookies(s, p)
    \/ Running(t, "logout", "sent") /\ clearAuthCookies(t)

\* The connection breaks: before the headers of the response, or after.
LoseReply(t) ==
    /\ Fault
    /\ Holds(t) /\ stage[t] = "sent"
    /\ Reply(t, NoSession)
    /\ CookiesLand(t) \/ UNCHANGED jar

-----------------------------------------------------------------------------

\* Calls that waited for the shared refresh, and the page that did.
Settle(t, ok) ==
    /\ call' = [c \in Call |->
          IF c[1] # t \/ call[c].pc # "refreshing" THEN call[c]
          ELSE IF ok THEN [call[c] EXCEPT !.pc = "retry"] ELSE Idle]
    /\ page' = [page EXCEPT ![t] = "ready"]

\* A logout was asked for, or the session changed, since the operation began.
Stale(t) == Head(queue[t]).void \/ moved[t]

\* doRefresh returns before its request: a logout came first.
SkipRefresh(t) ==
    /\ Running(t, "refresh", "waiting") /\ Head(queue[t]).void
    /\ Dequeue(t)
    /\ Settle(t, FALSE)
    /\ UNCHANGED <<jar, memory, inbox, current, past>>

CompleteRefresh(t) ==
    /\ Running(t, "refresh", "landed")
    /\ Dequeue(t)
    /\ \/ /\ Stale(t)
          /\ Settle(t, FALSE)
          /\ UNCHANGED <<memory, current, inbox>>
       \/ /\ ~Stale(t) /\ reply[t] = NoSession
          /\ clearSession(t)
          /\ Settle(t, FALSE)
          /\ UNCHANGED inbox
       \/ /\ ~Stale(t) /\ reply[t] # NoSession
          /\ setSession(t, reply[t])
          /\ Settle(t, TRUE)
    /\ UNCHANGED <<jar, past>>

CompleteLogin(t) ==
    /\ Running(t, "login", "landed")
    /\ Dequeue(t)
    /\ \/ /\ reply[t] = NoSession
          /\ UNCHANGED <<memory, current, inbox, overruled>>
       \/ /\ reply[t] # NoSession /\ Stale(t)
          /\ tabSids' = [tabSids EXCEPT ![t] = @ \cup {reply[t].sid}]
          /\ overruled' = IF Head(queue[t]).void THEN overruled \cup {<<t, reply[t].sid>>}
                                                 ELSE overruled
          /\ UNCHANGED <<session, current, inbox>>
       \/ /\ reply[t] # NoSession /\ ~Stale(t)
          /\ setSession(t, reply[t])
          /\ UNCHANGED overruled
    /\ UNCHANGED <<jar, page, call, ended, faults, changes>>

CompleteLogout(t) ==
    /\ Running(t, "logout", "landed")
    /\ Dequeue(t)
    /\ UNCHANGED <<jar, page, memory, inbox, calls, past>>

-----------------------------------------------------------------------------
(* What reaches a tab at any time: messages, focus, its own end. *)

\* startSessionSync: only a tab with a session listens.
Dismisses(t, m) ==
    /\ session[t] # NoSession
    /\ \/ m.kind = "logout" /\ m.sid = session[t].sid
       \/ m.kind = "login" /\ m.sid = sidCookie /\ session[t] # [sid |-> m.sid, who |-> m.who]

HandleMessage(t) ==
    /\ inbox[t] # <<>>
    /\ inbox' = [inbox EXCEPT ![t] = Tail(@)]
    /\ IF Dismisses(t, Head(inbox[t])) THEN clearSession(t) ELSE UNCHANGED <<memory, current>>
    /\ Interrupt(t)
    /\ UNCHANGED <<jar, page, auth, call, past>>

\* The user comes back to the tab.
Focus(t) ==
    /\ ~Synchronized(t)
    /\ clearSession(t) /\ Interrupt(t)
    /\ UNCHANGED <<jar, page, auth, inbox, call, past>>

\* The tab is closed or reloaded: its memory and lock go, and its request with
\* them, unless the cookies of the response land first.
Close(t) ==
    /\ Fault
    /\ page[t] # "closed"
    /\ page' = [page EXCEPT ![t] = "closed"]
    /\ CookiesLand(t) \/ UNCHANGED jar
    /\ session' = [session EXCEPT ![t] = NoSession]
    /\ tabSids' = [tabSids EXCEPT ![t] = {}]
    /\ queue' = [queue EXCEPT ![t] = <<>>]
    /\ stage' = [stage EXCEPT ![t] = "waiting"]
    /\ flight' = [flight EXCEPT ![t] = NoFlight]
    /\ reply' = [reply EXCEPT ![t] = NoSession]
    /\ moved' = [moved EXCEPT ![t] = FALSE]
    /\ LeaveLock(t)
    /\ inbox' = [inbox EXCEPT ![t] = <<>>]
    /\ call' = [c \in Call |-> IF c[1] = t THEN Idle ELSE call[c]]
    /\ current' = {c \in current : c[1] # t}
    /\ overruled' = {o \in overruled : o[1] # t}
    /\ UNCHANGED <<ended, changes>>

\* Upstream changes what the holder of a sid may do; the next token says so.
ChangeClaims(s) ==
    /\ changes < MaxChanges /\ changes' = changes + 1
    /\ claims[s] # NoOne
    /\ \E p \in Principal \ {claims[s]} : claims' = [claims EXCEPT ![s] = p]
    /\ UNCHANGED <<sidCookie, refreshCookie, page, memory, auth, moved, inbox, calls, ended,
                   overruled, faults>>

-----------------------------------------------------------------------------
(* Protected calls: apiRequest. *)

\* assertCurrentSession: the cookie first, then the generation.
Asserts(c) == Synchronized(c[1]) /\ c \in current

\* It throws: the session may have to go, the call ends in any case.
Discard(c) ==
    /\ call' = [call EXCEPT ![c] = Idle]
    /\ IF Synchronized(c[1]) THEN current' = current \ {c} /\ UNCHANGED memory
                             ELSE clearSession(c[1])
    /\ Interrupt(c[1])
    /\ UNCHANGED <<jar, page, auth, inbox, past>>

Step(c, r) ==
    /\ call' = [call EXCEPT ![c] = r]
    /\ UNCHANGED <<jar, page, memory, moved, inbox, past>>

\* A page with a session asks for data; its token goes with the request.
Request(c) ==
    /\ Ready(c[1]) /\ session[c[1]] # NoSession /\ call[c] = Idle
    /\ Synchronized(c[1])
    /\ Step(c, [pc |-> "sent", as |-> session[c[1]], retried |-> FALSE])
    /\ current' = current \cup {c}
    /\ UNCHANGED auth

\* The session went before the request did.
RefuseRequest(c) ==
    /\ Ready(c[1]) /\ session[c[1]] # NoSession /\ call[c] = Idle
    /\ ~Synchronized(c[1])
    /\ Discard(c)

\* It went while the code awaited the answer, a refresh, or the body.
Late(c) ==
    /\ call[c].pc \in {"sent", "retry", "reading"}
    /\ ~Asserts(c)
    /\ Discard(c)

RespondOk(c) ==
    /\ call[c].pc = "sent" /\ Asserts(c)
    /\ Step(c, [call[c] EXCEPT !.pc = "reading"])
    /\ UNCHANGED <<auth, current>>

\* An error other than an expired token, or a token refused twice.
RespondError(c) ==
    /\ call[c].pc = "sent" /\ Asserts(c)
    /\ Step(c, Idle)
    /\ current' = current \ {c}
    /\ UNCHANGED auth

\* 401: refreshSession, which all the calls of the tab share.
RespondExpired(c) ==
    LET t == c[1] IN
    /\ call[c].pc = "sent" /\ Asserts(c) /\ ~call[c].retried
    /\ Step(c, [call[c] EXCEPT !.pc = "refreshing"])
    /\ IF Pending(t, "refresh") THEN UNCHANGED <<queue, locks>>
                                ELSE Enqueue(t, queue[t], Operation("refresh", NoSid))
    /\ UNCHANGED <<stage, flight, reply, current>>

Retry(c) ==
    /\ call[c].pc = "retry" /\ Asserts(c)
    /\ Step(c, [call[c] EXCEPT !.pc = "sent", !.retried = TRUE])
    /\ UNCHANGED <<auth, current>>

\* The body has been read, and the caller gets it.
Deliver(c) ==
    /\ call[c].pc = "reading" /\ Asserts(c)
    /\ Step(c, Idle)
    /\ current' = current \ {c}
    /\ UNCHANGED auth

-----------------------------------------------------------------------------

Auth(t) ==
    \/ StartRefresh(t) \/ StartLogin(t) \/ StartLogout(t)
    \/ LandRefresh(t) \/ LandLogin(t) \/ LandLogout(t) \/ Refuse(t)
    \/ SkipRefresh(t) \/ CompleteRefresh(t) \/ CompleteLogin(t) \/ CompleteLogout(t)

Answer(c) ==
    Late(c) \/ RespondOk(c) \/ RespondError(c) \/ RespondExpired(c) \/ Retry(c) \/ Deliver(c)

User(t)  == Open(t) \/ Login(t) \/ Logout(t) \/ Focus(t)
Break(t) == LoseReply(t) \/ Close(t)

Next ==
    \/ \E t \in Tab : User(t) \/ Auth(t) \/ HandleMessage(t) \/ Break(t)
    \/ \E c \in Call : Request(c) \/ RefuseRequest(c) \/ Answer(c)
    \/ \E s \in Sid : ChangeClaims(s)

Spec == Init /\ [][Next]_vars

\* Requests are answered or fail, and a tab runs what is ready to run.
Fairness ==
    /\ \A t \in Tab : WF_vars(Auth(t)) /\ WF_vars(HandleMessage(t))
    /\ \A c \in Call : WF_vars(Answer(c))

LiveSpec == Spec /\ Fairness

-----------------------------------------------------------------------------
(* Properties. *)

\* A page load never finds the sid of a session whose logout was asked for:
\* not after a login that was still in flight then, nor from another tab.
LogoutIsFinal == sidCookie \notin ended

\* No tab sends a protected call with the token of a session that any tab has
\* logged out, even before the message about it arrives.
NoRequestAfterLogout ==
    [][\A c \in Call :
          (call'[c].pc = "sent" /\ call[c].pc # "sent") => session[c[1]].sid \notin ended]_vars

\* A retry and an answer reach only the session, and the principal, that asked.
OwnSessionOnly ==
    [][\A c \in Call : Retry(c) \/ Deliver(c) => session[c[1]] = call[c].as]_vars

\* A logout never clears the credential of a session nobody logged out.
ForeignCookieKept ==
    [][refreshCookie' = NoSid => refreshCookie \in ended' \cup {NoSid}]_vars

\* A login that landed after its tab asked for a logout does not survive in
\* the jar, except until that logout has its turn.
OverruledLoginCleared ==
    \A o \in overruled : sidCookie = o[2] => Pending(o[1], "logout")

\* Every page load gets past the restoring screen, every login and logout ends,
\* and every call is answered: the lock of the tabs is never held for good.
AuthSettles ==
    /\ \A t \in Tab : queue[t] # <<>> ~> queue[t] = <<>>
    /\ \A c \in Call : call[c].pc # "idle" ~> call[c].pc = "idle"

\* What makes those hold: one operation of all tabs runs, that of the tab at
\* the head of the line;
LockInv ==
    /\ \A j, k \in DOMAIN locks : locks[j] = locks[k] => j = k
    /\ \A k \in DOMAIN locks : queue[locks[k]] # <<>>
    /\ \A t \in Tab : stage[t] # "waiting" => Holds(t)

\* every sid in use was issued, and those of the queued logouts have ended;
JarIssued    == \A s \in ended \cup ({sidCookie, refreshCookie} \ {NoSid}) : claims[s] # NoOne
MemoryIssued == \A t \in Tab :
                    /\ session[t] # NoSession => claims[session[t].sid] # NoOne
                    /\ \A s \in tabSids[t] : claims[s] # NoOne
RepliesIssued == \A t \in Tab : reply[t] # NoSession => claims[reply[t].sid] # NoOne
LogoutsEnded == \A t \in Tab : \A i \in DOMAIN queue[t] :
                    queue[t][i].kind = "logout" => queue[t][i].sid \in ended

SidInv == JarIssued /\ MemoryIssued /\ RepliesIssued /\ LogoutsEnded

\* a request in flight presents the refresh cookie that is in the jar, and a
\* logout a sid that has ended;
FlightInv ==
    \A t \in Tab : stage[t] = "sent" =>
        /\ flight[t].cookie = refreshCookie
        /\ Head(queue[t]).kind = "logout" => flight[t].sid \in ended

\* and a call whose generation stands is of the session in memory.
CallInv ==
    \A c \in current : call[c].pc # "idle" =>
        session[c[1]] = call[c].as /\ session[c[1]] # NoSession

SessionInv == TypeOK /\ LockInv /\ SidInv /\ LogoutIsFinal /\ FlightInv /\ CallInv

\* session.ts says that "a late refresh or login response cannot resurrect a
\* session that logout [...] replaced".  Of a tab that has handled every message:
NoResurrection ==
    [][\A t \in Tab :
          session'[t] # session[t] /\ inbox[t] = <<>> => session'[t].sid \notin ended]_vars
=============================================================================

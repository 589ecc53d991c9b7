--------------------------- MODULE SessionProofs ---------------------------
(***************************************************************************)
(* Proofs about Session, for any number of tabs, calls, logins, principals *)
(* and failures.                                                           *)
(***************************************************************************)
EXTENDS Session, SequenceTheorems, TLAPS

\* A session in memory has a sid and a principal.
LEMMA SessionType ==
    ASSUME NEW s \in AuthSession \cup {NoSession}
    PROVE  /\ s # NoSession => s \in AuthSession /\ s.sid \in Sid /\ s.who \in Principal
           /\ s = NoSession => s.sid = NoSid
           /\ s \in AuthSession => s # NoSession
  BY NoneAssumption DEF AuthSession, NoSession

LEMMA ClearTypes ==
    ASSUME TypeOK, NEW t \in Tab, clearSession(t)
    PROVE  /\ session' \in [Tab -> AuthSession \cup {NoSession}]
           /\ tabSids' \in [Tab -> SUBSET Sid]
           /\ current' \subseteq Call
  BY DEF TypeOK, clearSession, NextGeneration

LEMMA PostTypes ==
    ASSUME TypeOK, NEW t \in Tab, NEW m \in Message, Post(t, m)
    PROVE  inbox' \in [Tab -> Seq(Message)]
  BY DEF TypeOK, Post

LEMMA SetTypes ==
    ASSUME TypeOK, NEW t \in Tab, NEW next \in AuthSession, setSession(t, next)
    PROVE  /\ session' \in [Tab -> AuthSession \cup {NoSession}]
           /\ tabSids' \in [Tab -> SUBSET Sid]
           /\ current' \subseteq Call
           /\ inbox' \in [Tab -> Seq(Message)]
<1>1. next.sid \in Sid /\ next.who \in Principal
  BY DEF AuthSession
<1>2. [kind |-> "login", sid |-> next.sid, who |-> next.who] \in Message
  BY <1>1 DEF Message
<1>3. inbox' \in [Tab -> Seq(Message)]
  BY <1>2, PostTypes DEF setSession, TypeOK
<1>. QED
  BY <1>1, <1>3 DEF TypeOK, setSession, NextGeneration

LEMMA EnqueueTypes ==
    ASSUME TypeOK, NEW t \in Tab, NEW ops \in Seq(Op), NEW op \in Op, Enqueue(t, ops, op)
    PROVE  queue' \in [Tab -> Seq(Op)] /\ locks' \in Seq(Tab)
  BY DEF TypeOK, Enqueue

LEMMA OperationTypes ==
    /\ Operation("refresh", NoSid) \in Op
    /\ Operation("login", NoSid) \in Op
    /\ \A s \in Sid : Operation("logout", s) \in Op
  BY DEF Operation, Op

LEMMA OpTypes ==
    ASSUME NEW op \in Op
    PROVE  /\ op.kind \in {"refresh", "login", "logout"}
           /\ op.sid \in Sid \cup {NoSid}
           /\ op.kind = "logout" => op.sid \in Sid
           /\ [op EXCEPT !.void = TRUE] \in Op
  BY DEF Op

\* A logout voids what its tab has queued, and reorders nothing.
LEMMA VoidTypes ==
    ASSUME TypeOK, NEW t \in Tab
    PROVE  [i \in DOMAIN queue[t] |-> [queue[t][i] EXCEPT !.void = TRUE]] \in Seq(Op)
<1>1. \A i \in DOMAIN queue[t] : queue[t][i] \in Op
  BY DEF TypeOK
<1>2. \A o \in Op : [o EXCEPT !.void = TRUE] \in Op
  BY OpTypes
<1>3. queue[t] \in Seq(Op)
  BY DEF TypeOK
<1>. QED
  BY <1>1, <1>2, <1>3

\* The head of a queue is there while its tab holds the lock.
LEMMA HolderHasWork ==
    ASSUME TypeOK, LockInv, NEW t \in Tab, Holds(t)
    PROVE  queue[t] # <<>> /\ Head(queue[t]) \in Op
  BY DEF TypeOK, LockInv, Holds

LEMMA DequeueTypes ==
    ASSUME TypeOK, LockInv, NEW t \in Tab, Holds(t), Dequeue(t)
    PROVE  /\ queue' \in [Tab -> Seq(Op)]
           /\ locks' \in Seq(Tab)
           /\ stage' \in [Tab -> {"waiting", "sent", "landed"}]
           /\ flight' \in [Tab -> [sid : Sid \cup {NoSid}, cookie : Sid \cup {NoSid}]]
           /\ reply' \in [Tab -> AuthSession \cup {NoSession}]
           /\ moved' \in [Tab -> BOOLEAN]
<1>1. queue[t] # <<>>
  BY HolderHasWork
<1>. QED
  BY <1>1 DEF TypeOK, Dequeue, Holds, NoFlight

LEMMA LeaveTypes ==
    ASSUME TypeOK, NEW t \in Tab, LeaveLock(t)
    PROVE  locks' \in Seq(Tab)
<1>1. CASE UNCHANGED locks
  BY <1>1 DEF TypeOK
<1>2. ASSUME NEW k \in DOMAIN locks,
             locks' = [i \in 1 .. (Len(locks) - 1) |-> locks[IF i < k THEN i ELSE i + 1]]
      PROVE  locks' \in Seq(Tab)
  <2>1. Len(locks) \in Nat /\ DOMAIN locks = 1 .. Len(locks) /\ k \in 1 .. Len(locks)
    BY DEF TypeOK
  <2>2. \A i \in 1 .. (Len(locks) - 1) : locks[IF i < k THEN i ELSE i + 1] \in Tab
    BY <2>1 DEF TypeOK
  <2>. QED
    BY <1>2, <2>1, <2>2
<1>. QED
  BY <1>1, <1>2 DEF LeaveLock

LEMMA SettleTypes ==
    ASSUME TypeOK, NEW t \in Tab, NEW ok \in BOOLEAN, Settle(t, ok)
    PROVE  /\ call' \in [Call -> [pc : {"idle", "sent", "refreshing", "retry", "reading"},
                                  as : AuthSession \cup {NoSession}, retried : BOOLEAN]]
           /\ page' \in [Tab -> {"closed", "restoring", "ready"}]
  BY DEF TypeOK, Settle, Idle

LEMMA CookieTypes ==
    ASSUME TypeOK, NEW t \in Tab, CookiesLand(t) \/ UNCHANGED jar
    PROVE  /\ sidCookie' \in Sid \cup {NoSid}
           /\ refreshCookie' \in Sid \cup {NoSid}
           /\ claims' \in [Sid -> Principal \cup {NoOne}]
  BY DEF TypeOK, jar, CookiesLand, setAuthCookies, clearAuthCookies

LEMMA ReplyTypes ==
    ASSUME TypeOK, NEW t \in Tab, NEW r \in AuthSession \cup {NoSession}, Reply(t, r)
    PROVE  /\ stage' \in [Tab -> {"waiting", "sent", "landed"}]
           /\ reply' \in [Tab -> AuthSession \cup {NoSession}]
  BY DEF TypeOK, Reply

\* What a matching request presents was issued.
LEMMA FlownSidIssued ==
    ASSUME TypeOK, SidInv, FlightInv, NEW t \in Tab, stage[t] = "sent", Matches(t)
    PROVE  /\ flight[t].sid = refreshCookie
           /\ flight[t].sid \in Sid
           /\ claims[flight[t].sid] \in Principal
  BY DEF TypeOK, SidInv, JarIssued, FlightInv, Matches

LEMMA TypeStep ==
    ASSUME SessionInv, [Next]_vars
    PROVE  TypeOK'
<1>. TypeOK /\ LockInv
  BY DEF SessionInv
<1>. USE DEF jar, memory, auth, calls, past
<1>1. ASSUME NEW t \in Tab, Open(t) PROVE TypeOK'
  <2>1. Operation("refresh", NoSid) \in Op /\ queue[t] \in Seq(Op)
    BY OperationTypes DEF TypeOK
  <2>2. queue' \in [Tab -> Seq(Op)] /\ locks' \in Seq(Tab)
    BY <1>1, <2>1, EnqueueTypes DEF Open
  <2>. QED
    BY <1>1, <2>2 DEF Open, TypeOK
<1>2. ASSUME NEW t \in Tab, Login(t) PROVE TypeOK'
  <2>1. Operation("login", NoSid) \in Op /\ queue[t] \in Seq(Op)
    BY OperationTypes DEF TypeOK
  <2>2. queue' \in [Tab -> Seq(Op)] /\ locks' \in Seq(Tab)
    BY <1>2, <2>1, EnqueueTypes DEF Login
  <2>. QED
    BY <1>2, <2>2 DEF Login, TypeOK
<1>3. ASSUME NEW t \in Tab, Logout(t) PROVE TypeOK'
  <2>. DEFINE s == session[t].sid
              ops == [i \in DOMAIN queue[t] |-> [queue[t][i] EXCEPT !.void = TRUE]]
              m == [kind |-> "logout", sid |-> s, who |-> NoOne]
  <2>1. s \in Sid
    BY <1>3, SessionType DEF Logout, TypeOK
  <2>2. ops \in Seq(Op)
    BY VoidTypes
  <2>3. Operation("logout", s) \in Op
    BY <2>1, OperationTypes
  <2>4. queue' \in [Tab -> Seq(Op)] /\ locks' \in Seq(Tab)
    BY <1>3, <2>2, <2>3, EnqueueTypes DEF Logout
  <2>5. m \in Message
    BY <2>1 DEF Message
  <2>6. inbox' \in [Tab -> Seq(Message)]
    BY <1>3, <2>5, PostTypes DEF Logout
  <2>7. clearSession(t)
    BY <1>3 DEF Logout
  <2>. HIDE DEF s, ops, m
  <2>8. UNCHANGED <<refreshCookie, claims, page, stage, flight, reply, call, overruled, faults, changes>>
    BY <1>3 DEF Logout
  <2>9. /\ moved' \in [Tab -> BOOLEAN]
        /\ sidCookie' \in Sid \cup {NoSid}
        /\ ended' \subseteq Sid
    BY <1>3, <2>1 DEF Logout, Interrupt, DeleteSidCookie, TypeOK, s
  <2>. QED
    BY <2>4, <2>6, <2>7, <2>8, <2>9, ClearTypes DEF TypeOK
<1>4. ASSUME NEW t \in Tab, NEW s \in Sid \cup {NoSid}, Send(t, s),
             sidCookie' \in Sid \cup {NoSid}, ended' \subseteq Sid,
             UNCHANGED <<refreshCookie, claims>>
      PROVE  TypeOK'
  BY <1>4 DEF TypeOK, Send
<1>5. ASSUME NEW t \in Tab, StartRefresh(t) PROVE TypeOK'
  <2>1. getSessionSid(t) \in Sid \cup {NoSid}
    BY SessionType DEF TypeOK, getSessionSid
  <2>. QED
    BY <1>4, <1>5, <2>1 DEF StartRefresh, TypeOK
<1>6. ASSUME NEW t \in Tab, StartLogin(t) PROVE TypeOK'
  BY <1>4, <1>6 DEF StartLogin, TypeOK
<1>7. ASSUME NEW t \in Tab, StartLogout(t) PROVE TypeOK'
  <2>1. Holds(t) /\ Head(queue[t]).kind = "logout"
    BY <1>7 DEF StartLogout, Running
  <2>2. LogoutSid(t) \in Sid
    BY <2>1, HolderHasWork, OpTypes DEF LogoutSid, TypeOK
  <2>. QED
    BY <1>4, <1>7, <2>2 DEF StartLogout, DeleteSidCookie, TypeOK
<1>8. ASSUME NEW t \in Tab, NEW r \in AuthSession \cup {NoSession}, Reply(t, r),
             CookiesLand(t) \/ UNCHANGED jar, faults' \in 0 .. MaxFaults
      PROVE  TypeOK'
  <2>1. UNCHANGED <<page, memory, queue, flight, locks, moved, inbox, calls, ended, overruled, changes>>
    BY <1>8 DEF Reply
  <2>. QED
    BY <1>8, <2>1, CookieTypes, ReplyTypes DEF TypeOK
<1>9. ASSUME NEW t \in Tab, LandRefresh(t) PROVE TypeOK'
  <2>. DEFINE r == [sid |-> flight[t].sid, who |-> claims[flight[t].sid]]
  <2>1. r \in AuthSession
    <3>1. flight[t].sid \in Sid /\ claims[flight[t].sid] \in Principal
      BY <1>9, FlownSidIssued DEF LandRefresh, Running, SessionInv
    <3>. QED
      BY <3>1 DEF AuthSession
  <2>. QED
    BY <1>8, <1>9, <2>1 DEF LandRefresh, TypeOK
<1>10. ASSUME NEW t \in Tab, LandLogin(t) PROVE TypeOK'
  <2>1. PICK s \in Sid, p \in Principal :
           setAuthCookies(s, p) /\ Reply(t, [sid |-> s, who |-> p])
    BY <1>10 DEF LandLogin
  <2>2. [sid |-> s, who |-> p] \in AuthSession
    BY DEF AuthSession
  <2>3. CookiesLand(t)
    BY <1>10, <2>1 DEF LandLogin, CookiesLand
  <2>. QED
    BY <1>8, <1>10, <2>1, <2>2, <2>3 DEF LandLogin, TypeOK
<1>11. ASSUME NEW t \in Tab, LandLogout(t) PROVE TypeOK'
  BY <1>8, <1>11 DEF LandLogout, CookiesLand, TypeOK
<1>12. ASSUME NEW t \in Tab, Refuse(t) PROVE TypeOK'
  BY <1>8, <1>12 DEF Refuse, TypeOK
<1>13. ASSUME NEW t \in Tab, LoseReply(t) PROVE TypeOK'
  BY <1>8, <1>13, BoundsAssumption DEF LoseReply, Fault, TypeOK
<1>14. ASSUME NEW t \in Tab, SkipRefresh(t) PROVE TypeOK'
  <2>1. Holds(t) /\ Dequeue(t) /\ Settle(t, FALSE)
    BY <1>14 DEF SkipRefresh, Running
  <2>2. UNCHANGED <<jar, memory, inbox, current, past>>
    BY <1>14 DEF SkipRefresh
  <2>. QED
    BY <2>1, <2>2, DequeueTypes, SettleTypes DEF TypeOK
<1>15. ASSUME NEW t \in Tab, CompleteRefresh(t) PROVE TypeOK'
  <2>1. Holds(t) /\ Dequeue(t) /\ UNCHANGED <<jar, past>>
    BY <1>15 DEF CompleteRefresh, Running
  <2>2. /\ session' \in [Tab -> AuthSession \cup {NoSession}]
        /\ tabSids' \in [Tab -> SUBSET Sid]
        /\ current' \subseteq Call
        /\ inbox' \in [Tab -> Seq(Message)]
        /\ \E ok \in BOOLEAN : Settle(t, ok)
    <3>1. CASE Stale(t) /\ Settle(t, FALSE) /\ UNCHANGED <<memory, current, inbox>>
      BY <3>1 DEF TypeOK
    <3>2. CASE clearSession(t) /\ Settle(t, FALSE) /\ UNCHANGED inbox
      BY <3>2, ClearTypes DEF TypeOK
    <3>3. CASE reply[t] # NoSession /\ setSession(t, reply[t]) /\ Settle(t, TRUE)
      <4>1. reply[t] \in AuthSession
        BY <3>3 DEF TypeOK
      <4>. QED
        BY <3>3, <4>1, SetTypes
    <3>. QED
      BY <1>15, <3>1, <3>2, <3>3, Zenon DEF CompleteRefresh
  <2>. QED
    BY <2>1, <2>2, DequeueTypes, SettleTypes DEF TypeOK
<1>16. ASSUME NEW t \in Tab, CompleteLogin(t) PROVE TypeOK'
  <2>1. Holds(t) /\ Dequeue(t) /\ UNCHANGED <<jar, page, call, ended, faults, changes>>
    BY <1>16 DEF CompleteLogin, Running
  <2>2. /\ session' \in [Tab -> AuthSession \cup {NoSession}]
        /\ tabSids' \in [Tab -> SUBSET Sid]
        /\ current' \subseteq Call
        /\ inbox' \in [Tab -> Seq(Message)]
        /\ overruled' \subseteq Tab \X Sid
    <3>1. CASE UNCHANGED <<memory, current, inbox, overruled>>
      BY <3>1 DEF TypeOK
    <3>2. CASE /\ reply[t] # NoSession
               /\ tabSids' = [tabSids EXCEPT ![t] = @ \cup {reply[t].sid}]
               /\ overruled' = IF Head(queue[t]).void THEN overruled \cup {<<t, reply[t].sid>>}
                                                      ELSE overruled
               /\ UNCHANGED <<session, current, inbox>>
      <4>1. reply[t].sid \in Sid
        BY <3>2, SessionType DEF TypeOK
      <4>. QED
        BY <3>2, <4>1 DEF TypeOK
    <3>3. CASE reply[t] # NoSession /\ setSession(t, reply[t]) /\ UNCHANGED overruled
      <4>1. reply[t] \in AuthSession
        BY <3>3 DEF TypeOK
      <4>. QED
        BY <3>3, <4>1, SetTypes DEF TypeOK
    <3>. QED
      BY <1>16, <3>1, <3>2, <3>3, Zenon DEF CompleteLogin
  <2>. QED
    BY <2>1, <2>2, DequeueTypes DEF TypeOK
<1>17. ASSUME NEW t \in Tab, CompleteLogout(t) PROVE TypeOK'
  BY <1>17, DequeueTypes DEF CompleteLogout, Running, TypeOK
<1>18. ASSUME NEW t \in Tab, HandleMessage(t) PROVE TypeOK'
  <2>1. /\ session' \in [Tab -> AuthSession \cup {NoSession}]
        /\ tabSids' \in [Tab -> SUBSET Sid]
        /\ current' \subseteq Call
    <3>1. CASE clearSession(t)
      BY <3>1, ClearTypes
    <3>2. CASE UNCHANGED <<memory, current>>
      BY <3>2 DEF TypeOK
    <3>. QED
      BY <1>18, <3>1, <3>2 DEF HandleMessage
  <2>2. inbox' \in [Tab -> Seq(Message)] /\ moved' \in [Tab -> BOOLEAN]
    BY <1>18 DEF HandleMessage, Interrupt, TypeOK
  <2>. QED
    BY <1>18, <2>1, <2>2 DEF HandleMessage, TypeOK
<1>19. ASSUME NEW t \in Tab, Focus(t) PROVE TypeOK'
  <2>1. clearSession(t) /\ moved' \in [Tab -> BOOLEAN]
    BY <1>19 DEF Focus, Interrupt, TypeOK
  <2>. QED
    BY <1>19, <2>1, ClearTypes DEF Focus, TypeOK
<1>20. ASSUME NEW t \in Tab, Close(t) PROVE TypeOK'
  <2>1. locks' \in Seq(Tab)
    BY <1>20, LeaveTypes DEF Close
  <2>2. /\ sidCookie' \in Sid \cup {NoSid}
        /\ refreshCookie' \in Sid \cup {NoSid}
        /\ claims' \in [Sid -> Principal \cup {NoOne}]
    BY <1>20, CookieTypes DEF Close
  <2>. QED
    BY <1>20, <2>1, <2>2, BoundsAssumption
    DEF Close, Fault, Idle, NoFlight, TypeOK
<1>21. ASSUME NEW s \in Sid, ChangeClaims(s) PROVE TypeOK'
  BY <1>21, BoundsAssumption DEF ChangeClaims, TypeOK
<1>22. ASSUME NEW c \in Call, Discard(c) PROVE TypeOK'
  <2>1. c[1] \in Tab
    BY DEF Call
  <2>2. /\ session' \in [Tab -> AuthSession \cup {NoSession}]
        /\ tabSids' \in [Tab -> SUBSET Sid]
        /\ current' \subseteq Call
    <3>1. CASE clearSession(c[1])
      BY <2>1, <3>1, ClearTypes
    <3>2. CASE current' = current \ {c} /\ UNCHANGED memory
      BY <3>2 DEF TypeOK
    <3>. QED
      BY <1>22, <3>1, <3>2 DEF Discard
  <2>3. moved' \in [Tab -> BOOLEAN]
    BY <1>22, <2>1 DEF Discard, Interrupt, TypeOK
  <2>. QED
    BY <1>22, <2>2, <2>3 DEF Discard, Idle, TypeOK
<1>23. ASSUME NEW c \in Call, Request(c) PROVE TypeOK'
  BY <1>23 DEF Request, Step, Call, TypeOK
<1>24. ASSUME NEW c \in Call,
              \/ RespondOk(c) \/ RespondError(c) \/ Retry(c) \/ Deliver(c)
       PROVE TypeOK'
  <2>. DEFINE T == [pc : {"idle", "sent", "refreshing", "retry", "reading"},
                    as : AuthSession \cup {NoSession}, retried : BOOLEAN]
  <2>1. ASSUME NEW r \in T, Step(c, r), current' \subseteq Call, UNCHANGED auth PROVE TypeOK'
    BY <2>1 DEF Step, TypeOK
  <2>2. /\ call[c] \in T
        /\ Idle \in T
        /\ current \cup {c} \subseteq Call
        /\ current \ {c} \subseteq Call
    BY DEF Idle, TypeOK
  <2>3. /\ [call[c] EXCEPT !.pc = "reading"] \in T
        /\ [call[c] EXCEPT !.pc = "sent", !.retried = TRUE] \in T
    BY <2>2
  <2>. HIDE DEF T
  <2>4. CASE RespondOk(c)
    BY <2>1, <2>2, <2>3, <2>4 DEF RespondOk
  <2>5. CASE RespondError(c)
    BY <2>1, <2>2, <2>5 DEF RespondError
  <2>6. CASE Retry(c)
    BY <2>1, <2>2, <2>3, <2>6 DEF Retry
  <2>7. CASE Deliver(c)
    BY <2>1, <2>2, <2>7 DEF Deliver
  <2>. QED
    BY <1>24, <2>4, <2>5, <2>6, <2>7
<1>25. ASSUME NEW c \in Call, RespondExpired(c) PROVE TypeOK'
  <2>. DEFINE t == c[1]
  <2>1. t \in Tab /\ queue[t] \in Seq(Op)
    BY DEF Call, TypeOK
  <2>2. queue' \in [Tab -> Seq(Op)] /\ locks' \in Seq(Tab)
    <3>1. CASE UNCHANGED <<queue, locks>>
      BY <3>1 DEF TypeOK
    <3>2. CASE Enqueue(t, queue[t], Operation("refresh", NoSid))
      BY <2>1, <3>2, EnqueueTypes, OperationTypes
    <3>. QED
      BY <1>25, <3>1, <3>2 DEF RespondExpired
  <2>3. /\ Step(c, [call[c] EXCEPT !.pc = "refreshing"])
        /\ UNCHANGED <<stage, flight, reply, current>>
    BY <1>25 DEF RespondExpired
  <2>. QED
    BY <2>2, <2>3 DEF Step, TypeOK
<1>26. CASE UNCHANGED vars
  BY <1>26 DEF vars, TypeOK
<1>27. ASSUME NEW t \in Tab, User(t) \/ Auth(t) \/ HandleMessage(t) \/ Break(t) PROVE TypeOK'
  BY <1>27, <1>1, <1>2, <1>3, <1>5, <1>6, <1>7, <1>9, <1>10, <1>11, <1>12, <1>13, <1>14, <1>15,
     <1>16, <1>17, <1>18, <1>19, <1>20, Zenon DEF User, Auth, Break
<1>28. ASSUME NEW c \in Call, Request(c) \/ RefuseRequest(c) \/ Answer(c) PROVE TypeOK'
  BY <1>28, <1>22, <1>23, <1>24, <1>25, Zenon DEF RefuseRequest, Answer, Late
<1>. QED
  BY <1>21, <1>26, <1>27, <1>28, Zenon DEF Next

-----------------------------------------------------------------------------
(* The lock. *)

LEMMA EnqueueKeepsLock ==
    ASSUME TypeOK, LockInv, NEW t \in Tab, NEW ops \in Seq(Op), NEW op \in Op,
           Enqueue(t, ops, op), UNCHANGED stage
    PROVE  LockInv'
<1>1. /\ Len(locks) \in Nat
      /\ DOMAIN locks = 1 .. Len(locks)
      /\ \A k \in DOMAIN locks : locks[k] \in Tab
  BY DEF TypeOK
<1>2. queue'[t] # <<>> /\ \A u \in Tab : u # t => queue'[u] = queue[u]
  <2>1. Append(ops, op) # <<>>
    BY AppendProperties
  <2>2. queue'[t] = Append(ops, op) /\ \A u \in Tab : u # t => queue'[u] = queue[u]
    BY DEF Enqueue, TypeOK
  <2>. QED
    BY <2>1, <2>2
<1>3. CASE queue[t] # <<>>
  <2>1. locks' = locks
    BY <1>3 DEF Enqueue
  <2>. QED
    BY <1>1, <1>2, <2>1 DEF LockInv, Holds
<1>4. CASE queue[t] = <<>>
  <2>1. locks' = Append(locks, t)
    BY <1>4 DEF Enqueue
  <2>2. /\ DOMAIN locks' = 1 .. (Len(locks) + 1)
        /\ \A k \in 1 .. Len(locks) : locks'[k] = locks[k] /\ locks[k] # t
        /\ locks'[Len(locks) + 1] = t
        /\ locks' \in Seq(Tab)
    <3>1. locks \in Seq(Tab)
      BY DEF TypeOK
    <3>2. \A k \in 1 .. Len(locks) : locks[k] # t
      BY <1>1, <1>4 DEF LockInv
    <3>3. /\ locks' \in Seq(Tab)
          /\ Len(locks') = Len(locks) + 1
          /\ \A k \in 1 .. Len(locks) : locks'[k] = locks[k]
          /\ locks'[Len(locks) + 1] = t
      BY <2>1, <3>1, AppendProperties
    <3>. QED
      BY <3>2, <3>3, LenProperties
  <2>3. \A j, k \in DOMAIN locks' : locks'[j] = locks'[k] => j = k
    BY <1>1, <2>2 DEF LockInv
  <2>4. \A k \in DOMAIN locks' : queue'[locks'[k]] # <<>>
    BY <1>1, <1>2, <2>2 DEF LockInv
  <2>5. \A u \in Tab : Holds(u) => Holds(u)'
    <3>1. \A u \in Tab : Holds(u) => Len(locks) # 0 /\ locks[1] = u
      BY <1>1, EmptySeq DEF Holds, TypeOK
    <3>2. locks' # <<>> /\ (Len(locks) # 0 => Head(locks') = locks[1])
      BY <1>1, <2>2
    <3>. QED
      BY <3>1, <3>2 DEF Holds
  <2>. QED
    BY <2>3, <2>4, <2>5 DEF LockInv
<1>. QED
  BY <1>3, <1>4

LEMMA DequeueKeepsLock ==
    ASSUME TypeOK, LockInv, NEW t \in Tab, Holds(t), Dequeue(t)
    PROVE  LockInv'
<1>1. /\ Len(locks) \in Nat \ {0}
      /\ DOMAIN locks = 1 .. Len(locks)
      /\ \A k \in DOMAIN locks : locks[k] \in Tab
      /\ locks[1] = t
  BY DEF TypeOK, Holds
<1>2. /\ queue[t] \in Seq(Op) /\ queue[t] # <<>>
      /\ queue'[t] = Tail(queue[t])
      /\ \A u \in Tab : u # t => queue'[u] = queue[u]
  BY HolderHasWork DEF Dequeue, TypeOK
<1>3. \A k \in DOMAIN locks : k # 1 => locks[k] # t
  BY <1>1 DEF LockInv
<1>4. \A u \in Tab : stage'[u] = "waiting"
  <2>1. \A u \in Tab : u # t => stage[u] = "waiting"
    BY DEF LockInv, Holds
  <2>. QED
    BY <2>1 DEF Dequeue, TypeOK
<1>5. /\ Tail(locks) \in Seq(Tab)
      /\ DOMAIN Tail(locks) = 1 .. (Len(locks) - 1)
      /\ Len(Tail(locks)) = Len(locks) - 1
      /\ \A k \in 1 .. (Len(locks) - 1) : Tail(locks)[k] = locks[k + 1]
  BY <1>1 DEF TypeOK
<1>6. CASE Len(queue[t]) = 1
  <2>1. locks' = Tail(locks)
    BY <1>6 DEF Dequeue
  <2>2. \A j, k \in DOMAIN locks' : locks'[j] = locks'[k] => j = k
    BY <1>1, <1>5, <2>1 DEF LockInv
  <2>3. \A k \in DOMAIN locks' : queue'[locks'[k]] # <<>>
    BY <1>1, <1>2, <1>3, <1>5, <2>1 DEF LockInv
  <2>. QED
    BY <1>4, <2>2, <2>3 DEF LockInv
<1>7. CASE Len(queue[t]) # 1
  <2>1. locks' = Append(Tail(locks), t)
    BY <1>7 DEF Dequeue
  <2>2. queue'[t] # <<>>
    <3>1. Len(queue[t]) \in Nat \ {0} /\ Len(Tail(queue[t])) = Len(queue[t]) - 1
      BY <1>2, EmptySeq, HeadTailProperties
    <3>2. Len(Tail(queue[t])) # 0
      BY <1>7, <3>1
    <3>. QED
      BY <1>2, <3>2, EmptySeq
  <2>3. /\ DOMAIN locks' = 1 .. Len(locks)
        /\ \A k \in 1 .. (Len(locks) - 1) : locks'[k] = locks[k + 1]
        /\ locks'[Len(locks)] = t
    BY <1>1, <1>5, <2>1
  <2>4. \A j, k \in DOMAIN locks' : locks'[j] = locks'[k] => j = k
    BY <1>1, <1>3, <2>3 DEF LockInv
  <2>5. ASSUME NEW k \in DOMAIN locks' PROVE queue'[locks'[k]] # <<>>
    <3>1. CASE k = Len(locks)
      BY <2>2, <2>3, <3>1
    <3>2. CASE k # Len(locks)
      <4>1. k \in 1 .. (Len(locks) - 1) /\ k + 1 \in DOMAIN locks /\ k + 1 # 1
        BY <1>1, <2>3, <3>2
      <4>2. locks[k + 1] \in Tab \ {t} /\ queue[locks[k + 1]] # <<>>
        BY <1>1, <1>3, <4>1 DEF LockInv
      <4>. QED
        BY <1>2, <2>3, <4>1, <4>2
    <3>. QED
      BY <3>1, <3>2
  <2>. QED
    BY <1>4, <2>4, <2>5 DEF LockInv
<1>. QED
  BY <1>6, <1>7

LEMMA CloseKeepsLock ==
    ASSUME TypeOK, LockInv, NEW t \in Tab, Close(t)
    PROVE  LockInv'
<1>1. /\ Len(locks) \in Nat
      /\ DOMAIN locks = 1 .. Len(locks)
      /\ \A k \in DOMAIN locks : locks[k] \in Tab
  BY DEF TypeOK
<1>2. /\ stage'[t] = "waiting"
      /\ \A u \in Tab : u # t => stage'[u] = stage[u] /\ queue'[u] = queue[u]
      /\ LeaveLock(t)
  BY DEF Close, TypeOK
<1>3. CASE (\A k \in DOMAIN locks : locks[k] # t) /\ UNCHANGED locks
  BY <1>1, <1>2, <1>3 DEF LockInv, Holds, TypeOK
<1>4. ASSUME NEW n \in DOMAIN locks, locks[n] = t,
             locks' = [i \in 1 .. (Len(locks) - 1) |-> locks[IF i < n THEN i ELSE i + 1]]
      PROVE  LockInv'
  <2>1. /\ DOMAIN locks' = 1 .. (Len(locks) - 1)
        /\ \A i \in 1 .. (Len(locks) - 1) :
              /\ i < n => locks'[i] = locks[i]
              /\ i >= n => locks'[i] = locks[i + 1]
              /\ locks'[i] \in Tab \ {t}
    BY <1>1, <1>4 DEF LockInv
  <2>2. \A j, k \in DOMAIN locks' : locks'[j] = locks'[k] => j = k
    BY <1>1, <1>4, <2>1 DEF LockInv
  <2>3. \A k \in DOMAIN locks' : queue'[locks'[k]] # <<>>
    BY <1>1, <1>2, <1>4, <2>1 DEF LockInv
  <2>4. ASSUME NEW u \in Tab, stage'[u] # "waiting" PROVE Holds(u)'
    <3>1. u # t /\ stage[u] # "waiting"
      BY <1>2, <2>4
    <3>2. locks # <<>> /\ locks[1] = u
      BY <3>1 DEF LockInv, Holds
    <3>3. n # 1 /\ Len(locks) > 1 /\ locks'[1] = u
      BY <1>1, <1>4, <2>1, <3>1, <3>2
    <3>4. locks' \in Seq(Tab)
      BY <1>2, LeaveTypes
    <3>. QED
      BY <1>1, <2>1, <3>3, <3>4 DEF Holds
  <2>. QED
    BY <2>2, <2>3, <2>4 DEF LockInv
<1>. QED
  BY <1>2, <1>3, <1>4 DEF LeaveLock

\* The lock and the queues stay, and only its holder gets on.
LEMMA QuietKeepsLock ==
    ASSUME LockInv, UNCHANGED <<queue, locks>>,
           \A t \in Tab : stage'[t] = stage[t] \/ Holds(t)
    PROVE  LockInv'
  BY DEF LockInv, Holds

LEMMA LockStep ==
    ASSUME SessionInv, [Next]_vars
    PROVE  LockInv'
<1>. TypeOK /\ LockInv
  BY DEF SessionInv
<1>. USE DEF auth
<1>1. ASSUME NEW t \in Tab, Open(t) \/ Login(t) PROVE LockInv'
  <2>1. queue[t] \in Seq(Op)
    BY DEF TypeOK
  <2>. QED
    BY <1>1, <2>1, OperationTypes, EnqueueKeepsLock DEF Open, Login
<1>2. ASSUME NEW t \in Tab, Logout(t) PROVE LockInv'
  <2>. DEFINE s == session[t].sid
              ops == [i \in DOMAIN queue[t] |-> [queue[t][i] EXCEPT !.void = TRUE]]
  <2>1. s \in Sid
    BY <1>2, SessionType DEF Logout, TypeOK
  <2>2. ops \in Seq(Op)
    BY VoidTypes
  <2>3. Operation("logout", s) \in Op
    BY <2>1, OperationTypes
  <2>4. Enqueue(t, ops, Operation("logout", s)) /\ UNCHANGED stage
    BY <1>2 DEF Logout
  <2>. QED
    BY <2>2, <2>3, <2>4, EnqueueKeepsLock
<1>3. ASSUME NEW t \in Tab,
             StartRefresh(t) \/ StartLogin(t) \/ StartLogout(t)
      PROVE  LockInv'
  BY <1>3, QuietKeepsLock
  DEF StartRefresh, StartLogin, StartLogout, Send, Running, TypeOK
<1>4. ASSUME NEW t \in Tab,
             LandRefresh(t) \/ LandLogin(t) \/ LandLogout(t) \/ Refuse(t) \/ LoseReply(t)
      PROVE  LockInv'
  <2>1. Holds(t) /\ \E r \in AuthSession \cup {NoSession, [sid |-> flight[t].sid, who |-> claims[flight[t].sid]]} : Reply(t, r)
    BY <1>4 DEF LandRefresh, LandLogin, LandLogout, Refuse, LoseReply, Running, AuthSession
  <2>. QED
    BY <2>1, QuietKeepsLock DEF Reply, TypeOK
<1>5. ASSUME NEW t \in Tab,
             SkipRefresh(t) \/ CompleteRefresh(t) \/ CompleteLogin(t) \/ CompleteLogout(t)
      PROVE  LockInv'
  BY <1>5, DequeueKeepsLock
  DEF SkipRefresh, CompleteRefresh, CompleteLogin, CompleteLogout, Running
<1>6. ASSUME NEW t \in Tab, Close(t) PROVE LockInv'
  BY <1>6, CloseKeepsLock
<1>7. ASSUME NEW c \in Call, RespondExpired(c) PROVE LockInv'
  <2>1. c[1] \in Tab /\ queue[c[1]] \in Seq(Op)
    BY DEF Call, TypeOK
  <2>2. CASE UNCHANGED <<queue, locks>>
    BY <1>7, <2>2, QuietKeepsLock DEF RespondExpired
  <2>3. CASE Enqueue(c[1], queue[c[1]], Operation("refresh", NoSid))
    BY <1>7, <2>1, <2>3, OperationTypes, EnqueueKeepsLock DEF RespondExpired
  <2>. QED
    BY <1>7, <2>2, <2>3 DEF RespondExpired
<1>8. CASE UNCHANGED auth
  BY <1>8, QuietKeepsLock
<1>9. ASSUME NEW t \in Tab, HandleMessage(t) \/ Focus(t) PROVE UNCHANGED auth
  BY <1>9 DEF HandleMessage, Focus
<1>10. ASSUME NEW c \in Call,
              \/ Request(c) \/ RefuseRequest(c) \/ Late(c)
              \/ RespondOk(c) \/ RespondError(c) \/ Retry(c) \/ Deliver(c)
       PROVE UNCHANGED auth
  BY <1>10 DEF Request, RefuseRequest, Late, Discard, RespondOk, RespondError, Retry, Deliver
<1>11. ASSUME NEW s \in Sid, ChangeClaims(s) PROVE UNCHANGED auth
  BY <1>11 DEF ChangeClaims
<1>12. CASE UNCHANGED vars
  BY <1>8, <1>12 DEF vars
<1>13. ASSUME NEW t \in Tab, User(t) \/ Auth(t) \/ HandleMessage(t) \/ Break(t) PROVE LockInv'
  BY <1>1, <1>2, <1>3, <1>4, <1>5, <1>6, <1>8, <1>9, <1>13, Zenon DEF User, Auth, Break
<1>14. ASSUME NEW c \in Call, Request(c) \/ RefuseRequest(c) \/ Answer(c) PROVE LockInv'
  BY <1>7, <1>8, <1>10, <1>14, Zenon DEF Answer
<1>. QED
  BY <1>8, <1>11, <1>12, <1>13, <1>14, Zenon DEF Next

-----------------------------------------------------------------------------
(* Where sids come from: SidInv. *)

\* What was issued stays issued.
LEMMA ClaimsKept ==
    ASSUME TypeOK, [Next]_vars
    PROVE  \A s \in Sid : claims[s] # NoOne => claims'[s] # NoOne
<1>1. ASSUME NEW s \in Sid, NEW p \in Principal, setAuthCookies(s, p)
      PROVE  \A u \in Sid : claims[u] # NoOne => claims'[u] # NoOne
  BY <1>1 DEF setAuthCookies, TypeOK
<1>2. CASE UNCHANGED claims
  BY <1>2
<1>3. ASSUME NEW t \in Tab, CookiesLand(t) \/ UNCHANGED jar
      PROVE  \A u \in Sid : claims[u] # NoOne => claims'[u] # NoOne
  BY <1>1, <1>2, <1>3 DEF CookiesLand, clearAuthCookies, jar
<1>4. ASSUME NEW s \in Sid, ChangeClaims(s)
      PROVE  \A u \in Sid : claims[u] # NoOne => claims'[u] # NoOne
  BY <1>4, NoneAssumption DEF ChangeClaims, TypeOK
<1>5. ASSUME NEW t \in Tab, User(t) \/ HandleMessage(t) PROVE UNCHANGED claims
  BY <1>5 DEF User, Open, Login, Logout, Focus, HandleMessage, jar
<1>6. ASSUME NEW t \in Tab, Auth(t)
      PROVE  \A u \in Sid : claims[u] # NoOne => claims'[u] # NoOne
  <2>1. CASE LandLogin(t)
    BY <1>1, <2>1 DEF LandLogin
  <2>2. CASE \/ StartRefresh(t) \/ StartLogin(t) \/ StartLogout(t)
             \/ LandRefresh(t) \/ LandLogout(t) \/ Refuse(t)
    BY <2>2 DEF StartRefresh, StartLogin, StartLogout, LandRefresh, LandLogout, Refuse,
                clearAuthCookies, jar
  <2>3. CASE SkipRefresh(t) \/ CompleteRefresh(t) \/ CompleteLogin(t) \/ CompleteLogout(t)
    BY <2>3 DEF SkipRefresh, CompleteRefresh, CompleteLogin, CompleteLogout, jar
  <2>. QED
    BY <1>6, <2>1, <2>2, <2>3, Zenon DEF Auth
<1>7. ASSUME NEW t \in Tab, Break(t)
      PROVE  \A u \in Sid : claims[u] # NoOne => claims'[u] # NoOne
  BY <1>3, <1>7 DEF Break, LoseReply, Close
<1>8. ASSUME NEW c \in Call, Request(c) \/ RefuseRequest(c) \/ Answer(c)
      PROVE  UNCHANGED claims
  BY <1>8 DEF Request, RefuseRequest, Answer, Late, Discard, Step, RespondOk, RespondError,
              RespondExpired, Retry, Deliver, jar
<1>9. CASE UNCHANGED vars
  BY <1>9 DEF vars, jar
<1>. QED
  BY <1>2, <1>4, <1>5, <1>6, <1>7, <1>8, <1>9, Zenon DEF Next

\* Sessions in memory come from replies, and go whole.
LEMMA MemoryStep ==
    ASSUME SessionInv, [Next]_vars
    PROVE  MemoryIssued'
<1>. TypeOK /\ MemoryIssued /\ RepliesIssued
  BY DEF SessionInv, SidInv
<1>1. \A s \in Sid : claims[s] # NoOne => claims'[s] # NoOne
  BY ClaimsKept
<1>2. CASE UNCHANGED memory
  <2>1. \A t \in Tab : session[t] # NoSession => session[t].sid \in Sid
    BY SessionType DEF TypeOK
  <2>2. \A t \in Tab : tabSids[t] \subseteq Sid
    BY DEF TypeOK
  <2>. QED
    BY <1>1, <1>2, <2>1, <2>2 DEF MemoryIssued, memory
<1>3. ASSUME NEW t \in Tab,
             session' = [session EXCEPT ![t] = NoSession],
             tabSids' = [tabSids EXCEPT ![t] = {}]
      PROVE  MemoryIssued'
  <2>1. \A u \in Tab : session'[u] # NoSession =>
            u # t /\ session'[u] = session[u] /\ session[u].sid \in Sid
    BY <1>3, SessionType DEF TypeOK
  <2>2. \A u \in Tab : tabSids'[u] \subseteq tabSids[u] /\ tabSids[u] \subseteq Sid
    BY <1>3 DEF TypeOK
  <2>. QED
    BY <1>1, <2>1, <2>2 DEF MemoryIssued
<1>4. ASSUME NEW t \in Tab, NEW next \in AuthSession \cup {session[t]},
             claims[reply[t].sid] # NoOne, reply[t] \in AuthSession,
             session' = [session EXCEPT ![t] = next],
             next # session[t] => next = reply[t],
             tabSids' = [tabSids EXCEPT ![t] = @ \cup {reply[t].sid}]
      PROVE  MemoryIssued'
  <2>1. reply[t].sid \in Sid
    BY <1>4, SessionType
  <2>2. \A u \in Tab : session[u] # NoSession => session[u].sid \in Sid
    BY SessionType DEF TypeOK
  <2>3. \A u \in Tab : session'[u] # NoSession =>
            session'[u].sid \in Sid /\ claims[session'[u].sid] # NoOne
    BY <1>4, <2>1, <2>2 DEF TypeOK, MemoryIssued
  <2>4. \A u \in Tab : \A s \in tabSids'[u] : s \in Sid /\ claims[s] # NoOne
    BY <1>4, <2>1 DEF TypeOK, MemoryIssued
  <2>. QED
    BY <1>1, <2>3, <2>4 DEF MemoryIssued
<1>5. ASSUME NEW t \in Tab, clearSession(t) PROVE MemoryIssued'
  BY <1>3, <1>5 DEF clearSession
<1>6. ASSUME NEW t \in Tab, reply[t] # NoSession, setSession(t, reply[t]) PROVE MemoryIssued'
  <2>1. reply[t] \in AuthSession /\ claims[reply[t].sid] # NoOne
    BY <1>6 DEF TypeOK, RepliesIssued
  <2>. QED
    BY <1>4, <1>6, <2>1 DEF setSession
<1>7. ASSUME NEW t \in Tab, CompleteRefresh(t) PROVE MemoryIssued'
  BY <1>2, <1>5, <1>6, <1>7, Zenon DEF CompleteRefresh, memory
<1>8. ASSUME NEW t \in Tab, CompleteLogin(t) PROVE MemoryIssued'
  <2>1. CASE /\ reply[t] # NoSession
             /\ tabSids' = [tabSids EXCEPT ![t] = @ \cup {reply[t].sid}]
             /\ UNCHANGED session
    <3>1. reply[t] \in AuthSession /\ claims[reply[t].sid] # NoOne
      BY <2>1 DEF TypeOK, RepliesIssued
    <3>2. session' = [session EXCEPT ![t] = session[t]]
      BY <2>1 DEF TypeOK
    <3>. QED
      BY <1>4, <2>1, <3>1, <3>2
  <2>2. CASE UNCHANGED memory
    BY <1>2, <2>2
  <2>3. CASE reply[t] # NoSession /\ setSession(t, reply[t])
    BY <1>6, <2>3
  <2>. QED
    BY <1>8, <2>1, <2>2, <2>3 DEF CompleteLogin, memory
<1>9. ASSUME NEW t \in Tab, Logout(t) \/ HandleMessage(t) \/ Focus(t) PROVE MemoryIssued'
  BY <1>2, <1>5, <1>9 DEF Logout, HandleMessage, Focus, memory
<1>10. ASSUME NEW t \in Tab, Close(t) PROVE MemoryIssued'
  BY <1>3, <1>10 DEF Close
<1>11. ASSUME NEW c \in Call, Discard(c) PROVE MemoryIssued'
  <2>1. c[1] \in Tab
    BY DEF Call
  <2>. QED
    BY <1>2, <1>5, <1>11, <2>1 DEF Discard, memory
<1>12. ASSUME NEW t \in Tab,
              \/ Open(t) \/ Login(t) \/ LoseReply(t)
              \/ StartRefresh(t) \/ StartLogin(t) \/ StartLogout(t)
              \/ LandRefresh(t) \/ LandLogin(t) \/ LandLogout(t) \/ Refuse(t)
              \/ SkipRefresh(t) \/ CompleteLogout(t)
       PROVE UNCHANGED memory
  BY <1>12 DEF Open, Login, LoseReply, StartRefresh, StartLogin, StartLogout, Send, LandRefresh,
               LandLogin, LandLogout, Refuse, Reply, SkipRefresh, CompleteLogout, memory
<1>13. ASSUME NEW c \in Call,
              Request(c) \/ RespondOk(c) \/ RespondError(c) \/ RespondExpired(c) \/ Retry(c) \/ Deliver(c)
       PROVE UNCHANGED memory
  BY <1>13 DEF Request, RespondOk, RespondError, RespondExpired, Retry, Deliver, Step, memory
<1>14. ASSUME NEW s \in Sid, ChangeClaims(s) PROVE UNCHANGED memory
  BY <1>14 DEF ChangeClaims, memory
<1>15. CASE UNCHANGED vars
  BY <1>2, <1>15 DEF vars
<1>16. ASSUME NEW t \in Tab, User(t) \/ Auth(t) \/ HandleMessage(t) \/ Break(t)
       PROVE  MemoryIssued'
  BY <1>2, <1>7, <1>8, <1>9, <1>10, <1>12, <1>16, Zenon DEF User, Auth, Break
<1>17. ASSUME NEW c \in Call, Request(c) \/ RefuseRequest(c) \/ Answer(c) PROVE MemoryIssued'
  BY <1>2, <1>11, <1>13, <1>17, Zenon DEF RefuseRequest, Answer, Late
<1>. QED
  BY <1>2, <1>14, <1>15, <1>16, <1>17, Zenon DEF Next

\* A reply names the sid of an accepted refresh, or a new one.
LEMMA RepliesStep ==
    ASSUME SessionInv, [Next]_vars
    PROVE  RepliesIssued'
<1>. TypeOK /\ LockInv /\ SidInv /\ RepliesIssued /\ FlightInv
  BY DEF SessionInv, SidInv
<1>1. \A s \in Sid : claims[s] # NoOne => claims'[s] # NoOne
  BY ClaimsKept
<1>2. \A t \in Tab : reply[t] # NoSession => reply[t].sid \in Sid
  BY SessionType DEF TypeOK
<1>3. CASE UNCHANGED reply
  BY <1>1, <1>2, <1>3 DEF RepliesIssued
<1>4. ASSUME NEW t \in Tab, NEW r, reply' = [reply EXCEPT ![t] = r],
             r # NoSession => r.sid \in Sid /\ claims'[r.sid] # NoOne
      PROVE  RepliesIssued'
  BY <1>1, <1>2, <1>4 DEF RepliesIssued, TypeOK
<1>5. ASSUME NEW t \in Tab,
             \/ SkipRefresh(t) \/ CompleteRefresh(t) \/ CompleteLogin(t) \/ CompleteLogout(t)
             \/ LandLogout(t) \/ Refuse(t) \/ LoseReply(t) \/ Close(t)
      PROVE  reply' = [reply EXCEPT ![t] = NoSession]
  BY <1>5 DEF SkipRefresh, CompleteRefresh, CompleteLogin, CompleteLogout, Dequeue,
              LandLogout, Refuse, LoseReply, Reply, Close
<1>6. ASSUME NEW t \in Tab, LandRefresh(t) PROVE RepliesIssued'
  <2>1. flight[t].sid \in Sid /\ claims[flight[t].sid] # NoOne
    BY <1>6, FlownSidIssued, NoneAssumption DEF LandRefresh, Running
  <2>. QED
    BY <1>1, <1>4, <1>6, <2>1 DEF LandRefresh, Reply
<1>7. ASSUME NEW t \in Tab, LandLogin(t) PROVE RepliesIssued'
  <2>1. PICK s \in Sid, p \in Principal :
           setAuthCookies(s, p) /\ Reply(t, [sid |-> s, who |-> p])
    BY <1>7 DEF LandLogin
  <2>2. claims'[s] # NoOne
    BY <2>1, NoneAssumption DEF setAuthCookies, TypeOK
  <2>. QED
    BY <1>4, <2>1, <2>2 DEF Reply
<1>8. ASSUME NEW t \in Tab,
             \/ Open(t) \/ Login(t) \/ Logout(t) \/ Focus(t) \/ HandleMessage(t)
             \/ StartRefresh(t) \/ StartLogin(t) \/ StartLogout(t)
      PROVE  UNCHANGED reply
  BY <1>8 DEF Open, Login, Logout, Focus, HandleMessage, StartRefresh, StartLogin, StartLogout,
              Send, auth
<1>9. ASSUME NEW c \in Call, Request(c) \/ RefuseRequest(c) \/ Answer(c) PROVE UNCHANGED reply
  BY <1>9 DEF Request, RefuseRequest, Answer, Late, Discard, RespondOk, RespondError,
              RespondExpired, Retry, Deliver, auth
<1>10. ASSUME NEW s \in Sid, ChangeClaims(s) PROVE UNCHANGED reply
  BY <1>10 DEF ChangeClaims, auth
<1>11. CASE UNCHANGED vars
  BY <1>3, <1>11 DEF vars, auth
<1>12. ASSUME NEW t \in Tab, User(t) \/ Auth(t) \/ HandleMessage(t) \/ Break(t)
       PROVE  RepliesIssued'
  BY <1>3, <1>4, <1>5, <1>6, <1>7, <1>8, <1>12, Zenon DEF User, Auth, Break
<1>. QED
  BY <1>3, <1>9, <1>10, <1>11, <1>12, Zenon DEF Next

\* The cookies hold sids that were issued, and none that has ended.
LEMMA JarStep ==
    ASSUME SessionInv, [Next]_vars
    PROVE  JarIssued' /\ LogoutIsFinal'
<1>. TypeOK /\ LockInv /\ SidInv /\ JarIssued /\ MemoryIssued /\ LogoutsEnded /\ LogoutIsFinal
  BY DEF SessionInv, SidInv
<1>1. \A s \in Sid : claims[s] # NoOne => claims'[s] # NoOne
  BY ClaimsKept
<1>2. CASE UNCHANGED <<sidCookie, refreshCookie, ended>>
  BY <1>1, <1>2 DEF JarIssued, LogoutIsFinal, TypeOK
<1>3. ASSUME NEW t \in Tab, CookiesLand(t) \/ UNCHANGED jar, UNCHANGED ended
      PROVE  JarIssued' /\ LogoutIsFinal'
  <2>1. ASSUME NEW s \in Sid, NEW p \in Principal, setAuthCookies(s, p)
        PROVE  JarIssued' /\ LogoutIsFinal'
    <3>1. s \notin ended /\ claims'[s] # NoOne
      BY <2>1, NoneAssumption DEF setAuthCookies, JarIssued, TypeOK
    <3>. QED
      BY <1>1, <1>3, <2>1, <3>1 DEF setAuthCookies, JarIssued, LogoutIsFinal, TypeOK
  <2>2. CASE clearAuthCookies(t)
    BY <1>3, <2>2, NoneAssumption DEF clearAuthCookies, JarIssued, LogoutIsFinal, TypeOK
  <2>. QED
    BY <1>2, <1>3, <2>1, <2>2 DEF CookiesLand, jar
<1>4. ASSUME NEW s \in Sid, claims[s] # NoOne, DeleteSidCookie(s), ended' = ended \cup {s},
             UNCHANGED refreshCookie
      PROVE  JarIssued' /\ LogoutIsFinal'
  BY <1>1, <1>4, NoneAssumption DEF DeleteSidCookie, JarIssued, LogoutIsFinal, TypeOK
<1>5. ASSUME NEW t \in Tab, Logout(t) PROVE JarIssued' /\ LogoutIsFinal'
  <2>1. session[t].sid \in Sid /\ claims[session[t].sid] # NoOne
    BY <1>5, SessionType DEF Logout, MemoryIssued, TypeOK
  <2>. QED
    BY <1>4, <1>5, <2>1 DEF Logout
<1>6. ASSUME NEW t \in Tab, StartLogout(t) PROVE JarIssued' /\ LogoutIsFinal'
  <2>1. LogoutSid(t) \in Sid /\ claims[LogoutSid(t)] # NoOne
    <3>1. CASE sidCookie \in tabSids[t]
      BY <3>1 DEF LogoutSid, MemoryIssued, TypeOK
    <3>2. CASE sidCookie \notin tabSids[t]
      <4>1. Holds(t) /\ Head(queue[t]).kind = "logout"
        BY <1>6 DEF StartLogout, Running
      <4>2. queue[t] \in Seq(Op) /\ queue[t] # <<>>
        BY <4>1, HolderHasWork DEF TypeOK
      <4>3. 1 \in DOMAIN queue[t] /\ queue[t][1] = Head(queue[t])
        BY <4>2, EmptySeq, LenProperties
      <4>4. Head(queue[t]).sid \in ended
        BY <4>1, <4>3 DEF LogoutsEnded
      <4>. QED
        BY <3>2, <4>4 DEF LogoutSid, JarIssued, TypeOK
    <3>. QED
      BY <3>1, <3>2
  <2>. QED
    BY <1>4, <1>6, <2>1 DEF StartLogout
<1>7. ASSUME NEW t \in Tab, LandLogin(t) \/ LandLogout(t) \/ LoseReply(t) \/ Close(t)
      PROVE  (CookiesLand(t) \/ UNCHANGED jar) /\ UNCHANGED ended
  BY <1>7 DEF LandLogin, LandLogout, LoseReply, Close, CookiesLand, Reply
<1>8. ASSUME NEW t \in Tab,
             \/ Open(t) \/ Login(t) \/ Focus(t) \/ HandleMessage(t)
             \/ StartRefresh(t) \/ StartLogin(t) \/ LandRefresh(t) \/ Refuse(t)
             \/ SkipRefresh(t) \/ CompleteRefresh(t) \/ CompleteLogin(t) \/ CompleteLogout(t)
      PROVE  UNCHANGED <<sidCookie, refreshCookie, ended>>
  BY <1>8 DEF Open, Login, Focus, HandleMessage, StartRefresh, StartLogin, LandRefresh, Refuse,
              Reply, SkipRefresh, CompleteRefresh, CompleteLogin, CompleteLogout, jar, past
<1>9. ASSUME NEW c \in Call, Request(c) \/ RefuseRequest(c) \/ Answer(c)
      PROVE  UNCHANGED <<sidCookie, refreshCookie, ended>>
  BY <1>9 DEF Request, RefuseRequest, Answer, Late, Discard, Step, RespondOk, RespondError,
              RespondExpired, Retry, Deliver, jar, past
<1>10. ASSUME NEW s \in Sid, ChangeClaims(s) PROVE UNCHANGED <<sidCookie, refreshCookie, ended>>
  BY <1>10 DEF ChangeClaims
<1>11. CASE UNCHANGED vars
  BY <1>2, <1>11 DEF vars, jar, past
<1>12. ASSUME NEW t \in Tab, User(t) \/ Auth(t) \/ HandleMessage(t) \/ Break(t)
       PROVE  JarIssued' /\ LogoutIsFinal'
  BY <1>2, <1>3, <1>5, <1>6, <1>7, <1>8, <1>12, Zenon DEF User, Auth, Break
<1>. QED
  BY <1>2, <1>9, <1>10, <1>11, <1>12, Zenon DEF Next

\* A queued logout is of a session that has ended, whatever is queued with it.
LEMMA LogoutsStep ==
    ASSUME SessionInv, [Next]_vars
    PROVE  LogoutsEnded'
<1>. TypeOK /\ LockInv /\ LogoutsEnded
  BY DEF SessionInv, SidInv
<1>. DEFINE Good(q, E) == \A i \in DOMAIN q : q[i].kind = "logout" => q[i].sid \in E
<1>1. ASSUME ended \subseteq ended', UNCHANGED queue PROVE LogoutsEnded'
  BY <1>1 DEF LogoutsEnded
<1>2. ASSUME NEW t \in Tab, NEW q, queue' = [queue EXCEPT ![t] = q], Good(q, ended'),
             ended \subseteq ended'
      PROVE  LogoutsEnded'
  BY <1>2 DEF LogoutsEnded, TypeOK
<1>3. ASSUME NEW t \in Tab, NEW ops \in Seq(Op), NEW op \in Op, Enqueue(t, ops, op),
             Good(ops, ended), op.kind = "logout" => op.sid \in ended', ended \subseteq ended'
      PROVE  LogoutsEnded'
  <2>1. Good(Append(ops, op), ended')
    <3>1. DOMAIN Append(ops, op) = 1 .. (Len(ops) + 1) /\ DOMAIN ops = 1 .. Len(ops)
      BY AppendProperties, LenProperties
    <3>2. /\ \A i \in 1 .. Len(ops) : Append(ops, op)[i] = ops[i]
          /\ Append(ops, op)[Len(ops) + 1] = op
      BY AppendProperties
    <3>3. Len(ops) \in Nat
      BY LenProperties
    <3>. QED
      BY <1>3, <3>1, <3>2, <3>3
  <2>. QED
    BY <1>2, <1>3, <2>1 DEF Enqueue
<1>4. ASSUME NEW t \in Tab, NEW kind \in {"refresh", "login"},
             Enqueue(t, queue[t], Operation(kind, NoSid)), UNCHANGED ended
      PROVE  LogoutsEnded'
  <2>1. queue[t] \in Seq(Op) /\ Operation(kind, NoSid) \in Op
    BY OperationTypes DEF TypeOK
  <2>2. Operation(kind, NoSid).kind # "logout" /\ Good(queue[t], ended)
    BY DEF Operation, LogoutsEnded
  <2>. HIDE DEF Good
  <2>. QED
    BY <1>3, <1>4, <2>1, <2>2
<1>5. ASSUME NEW t \in Tab, Open(t) \/ Login(t) PROVE LogoutsEnded'
  BY <1>4, <1>5 DEF Open, Login, past
<1>6. ASSUME NEW t \in Tab, Logout(t) PROVE LogoutsEnded'
  <2>. DEFINE s == session[t].sid
              ops == [i \in DOMAIN queue[t] |-> [queue[t][i] EXCEPT !.void = TRUE]]
  <2>1. s \in Sid /\ ended' = ended \cup {s}
    BY <1>6, SessionType DEF Logout, TypeOK
  <2>2. ops \in Seq(Op) /\ Operation("logout", s) \in Op
    BY <2>1, VoidTypes, OperationTypes
  <2>3. Operation("logout", s).sid = s
    BY DEF Operation
  <2>4. Good(ops, ended)
    <3>1. \A i \in DOMAIN queue[t] : queue[t][i] \in Op
      BY DEF TypeOK
    <3>2. \A o \in Op : [o EXCEPT !.void = TRUE].kind = o.kind /\ [o EXCEPT !.void = TRUE].sid = o.sid
      BY DEF Op
    <3>. QED
      BY <3>1, <3>2 DEF LogoutsEnded
  <2>5. Enqueue(t, ops, Operation("logout", s))
    BY <1>6 DEF Logout
  <2>. HIDE DEF s, ops, Good
  <2>. QED
    BY <1>3, <2>1, <2>2, <2>3, <2>4, <2>5
<1>7. ASSUME NEW t \in Tab, Holds(t), Dequeue(t), UNCHANGED ended PROVE LogoutsEnded'
  <2>1. queue[t] \in Seq(Op) /\ queue[t] # <<>>
    BY <1>7, HolderHasWork DEF TypeOK
  <2>2. /\ Len(queue[t]) \in Nat \ {0} /\ DOMAIN queue[t] = 1 .. Len(queue[t])
        /\ DOMAIN Tail(queue[t]) = 1 .. (Len(queue[t]) - 1)
        /\ \A i \in DOMAIN Tail(queue[t]) : Tail(queue[t])[i] = queue[t][i + 1]
    BY <2>1, EmptySeq, LenProperties, HeadTailProperties
  <2>3. Good(Tail(queue[t]), ended)
    BY <2>2 DEF LogoutsEnded
  <2>4. queue' = [queue EXCEPT ![t] = Tail(queue[t])]
    BY <1>7 DEF Dequeue, TypeOK
  <2>. HIDE DEF Good
  <2>. QED
    BY <1>2, <1>7, <2>3, <2>4
<1>8. ASSUME NEW t \in Tab,
             SkipRefresh(t) \/ CompleteRefresh(t) \/ CompleteLogin(t) \/ CompleteLogout(t)
      PROVE  LogoutsEnded'
  BY <1>7, <1>8 DEF SkipRefresh, CompleteRefresh, CompleteLogin, CompleteLogout, Running, past
<1>9. ASSUME NEW t \in Tab, Close(t) PROVE LogoutsEnded'
  <2>1. Good(<<>>, ended)
    OBVIOUS
  <2>2. queue' = [queue EXCEPT ![t] = <<>>] /\ UNCHANGED ended
    BY <1>9 DEF Close
  <2>. HIDE DEF Good
  <2>. QED
    BY <1>2, <2>1, <2>2
<1>10. ASSUME NEW t \in Tab,
              \/ StartRefresh(t) \/ StartLogin(t) \/ StartLogout(t) \/ HandleMessage(t) \/ Focus(t)
              \/ LandRefresh(t) \/ LandLogin(t) \/ LandLogout(t) \/ Refuse(t) \/ LoseReply(t)
       PROVE  ended \subseteq ended' /\ UNCHANGED queue
  BY <1>10 DEF StartRefresh, StartLogin, StartLogout, Send, HandleMessage, Focus, LandRefresh,
               LandLogin, LandLogout, Refuse, LoseReply, Reply, auth, past
<1>11. ASSUME NEW c \in Call, RespondExpired(c) PROVE LogoutsEnded'
  <2>1. c[1] \in Tab /\ UNCHANGED ended
    BY <1>11 DEF Call, RespondExpired, Step, past
  <2>. QED
    BY <1>1, <1>4, <1>11, <2>1 DEF RespondExpired
<1>12. ASSUME NEW c \in Call,
              \/ Request(c) \/ RefuseRequest(c) \/ Late(c)
              \/ RespondOk(c) \/ RespondError(c) \/ Retry(c) \/ Deliver(c)
       PROVE  UNCHANGED <<ended, queue>>
  BY <1>12 DEF Request, RefuseRequest, Late, Discard, Step, RespondOk, RespondError, Retry,
               Deliver, auth, past
<1>13. ASSUME NEW s \in Sid, ChangeClaims(s) PROVE UNCHANGED <<ended, queue>>
  BY <1>13 DEF ChangeClaims, auth
<1>14. CASE UNCHANGED <<ended, queue>>
  BY <1>1, <1>14
<1>15. CASE UNCHANGED vars
  BY <1>14, <1>15 DEF vars, auth, past
<1>16. ASSUME NEW t \in Tab, User(t) \/ Auth(t) \/ HandleMessage(t) \/ Break(t)
       PROVE  LogoutsEnded'
  BY <1>1, <1>5, <1>6, <1>8, <1>9, <1>10, <1>16, Zenon DEF User, Auth, Break
<1>17. ASSUME NEW c \in Call, Request(c) \/ RefuseRequest(c) \/ Answer(c) PROVE LogoutsEnded'
  BY <1>11, <1>12, <1>14, <1>17, Zenon DEF Answer
<1>. QED
  BY <1>13, <1>14, <1>15, <1>16, <1>17, Zenon DEF Next

-----------------------------------------------------------------------------
(* The request in flight: FlightInv. *)

LEMMA FlightStep ==
    ASSUME SessionInv, [Next]_vars
    PROVE  FlightInv'
<1>. TypeOK /\ LockInv /\ FlightInv
  BY DEF SessionInv
<1>1. \A t \in Tab : Holds(t) => \A u \in Tab : u # t => stage[u] = "waiting"
  BY DEF LockInv, Holds
<1>2. ASSUME ended \subseteq ended', UNCHANGED <<stage, flight, queue, refreshCookie>>
      PROVE  FlightInv'
  BY <1>2 DEF FlightInv
<1>3. ASSUME NEW t \in Tab, stage'[t] # "sent",
             \A u \in Tab : u # t =>
                stage'[u] = stage[u] /\ flight'[u] = flight[u] /\ queue'[u] = queue[u],
             Holds(t) \/ UNCHANGED refreshCookie, UNCHANGED ended
      PROVE  FlightInv'
  BY <1>1, <1>3 DEF FlightInv
<1>4. ASSUME NEW t \in Tab, Holds(t), NEW s, Send(t, s), UNCHANGED refreshCookie,
             Head(queue[t]).kind = "logout" => s \in ended'
      PROVE  FlightInv'
  <2>1. /\ flight'[t].cookie = refreshCookie /\ flight'[t].sid = s
        /\ \A u \in Tab : u # t => stage'[u] = stage[u]
        /\ UNCHANGED queue
    BY <1>4 DEF Send, TypeOK
  <2>. QED
    BY <1>1, <1>4, <2>1 DEF FlightInv
<1>5. ASSUME NEW t \in Tab,
             StartRefresh(t) \/ StartLogin(t) \/ StartLogout(t)
      PROVE  FlightInv'
  <2>1. CASE StartRefresh(t)
    BY <1>4, <2>1 DEF StartRefresh, Running, jar
  <2>2. CASE StartLogin(t)
    BY <1>4, <2>2 DEF StartLogin, Running, jar
  <2>3. CASE StartLogout(t)
    BY <1>4, <2>3 DEF StartLogout, Running
  <2>. QED
    BY <1>5, <2>1, <2>2, <2>3
<1>6. ASSUME NEW t \in Tab,
             LandRefresh(t) \/ LandLogin(t) \/ LandLogout(t) \/ Refuse(t) \/ LoseReply(t)
      PROVE  FlightInv'
  <2>1. Holds(t) /\ stage'[t] = "landed" /\ UNCHANGED <<flight, queue, ended>>
    BY <1>6 DEF LandRefresh, LandLogin, LandLogout, Refuse, LoseReply, Running, Reply, TypeOK
  <2>2. \A u \in Tab : u # t => stage'[u] = stage[u]
    BY <1>6 DEF LandRefresh, LandLogin, LandLogout, Refuse, LoseReply, Reply, TypeOK
  <2>. QED
    BY <1>3, <2>1, <2>2
<1>7. ASSUME NEW t \in Tab,
             SkipRefresh(t) \/ CompleteRefresh(t) \/ CompleteLogin(t) \/ CompleteLogout(t)
      PROVE  FlightInv'
  <2>1. Holds(t) /\ Dequeue(t) /\ UNCHANGED ended
    BY <1>7 DEF SkipRefresh, CompleteRefresh, CompleteLogin, CompleteLogout, Running, past
  <2>. QED
    BY <1>3, <2>1 DEF Dequeue, TypeOK
<1>8. ASSUME NEW t \in Tab, Close(t) PROVE FlightInv'
  <2>1. Holds(t) \/ UNCHANGED refreshCookie
    BY <1>8 DEF Close, CookiesLand, Running, jar
  <2>. QED
    BY <1>3, <1>8, <2>1 DEF Close, TypeOK
<1>9. ASSUME NEW t \in Tab, NEW ops \in Seq(Op), NEW op \in Op, Enqueue(t, ops, op),
             UNCHANGED <<stage, flight, refreshCookie>>, ended \subseteq ended',
             queue[t] # <<>> => ops # <<>> /\ Head(ops).kind = Head(queue[t]).kind
      PROVE  FlightInv'
  <2>1. ops # <<>> => Head(Append(ops, op)) = Head(ops)
    <3>1. /\ Append(ops, op) \in Seq(Op) /\ Append(ops, op) # <<>>
          /\ \A i \in 1 .. Len(ops) : Append(ops, op)[i] = ops[i]
      BY AppendProperties
    <3>2. ops # <<>> => 1 \in 1 .. Len(ops)
      BY EmptySeq
    <3>. QED
      BY <3>1, <3>2
  <2>2. queue'[t] = Append(ops, op) /\ \A u \in Tab : u # t => queue'[u] = queue[u]
    BY <1>9 DEF Enqueue, TypeOK
  <2>3. stage[t] = "sent" => queue[t] # <<>>
    BY HolderHasWork DEF LockInv
  <2>. QED
    BY <1>9, <2>1, <2>2, <2>3 DEF FlightInv
<1>10. ASSUME NEW t \in Tab, NEW kind \in {"refresh", "login"},
              Enqueue(t, queue[t], Operation(kind, NoSid)),
              UNCHANGED <<stage, flight, refreshCookie, ended>>
       PROVE  FlightInv'
  <2>1. queue[t] \in Seq(Op) /\ Operation(kind, NoSid) \in Op
    BY OperationTypes DEF TypeOK
  <2>. QED
    BY <1>9, <1>10, <2>1
<1>11. ASSUME NEW t \in Tab, Open(t) \/ Login(t) PROVE FlightInv'
  BY <1>10, <1>11 DEF Open, Login, jar, past
<1>12. ASSUME NEW t \in Tab, Logout(t) PROVE FlightInv'
  <2>. DEFINE s == session[t].sid
              ops == [i \in DOMAIN queue[t] |-> [queue[t][i] EXCEPT !.void = TRUE]]
  <2>1. s \in Sid
    BY <1>12, SessionType DEF Logout, TypeOK
  <2>2. ops \in Seq(Op) /\ Operation("logout", s) \in Op
    BY <2>1, VoidTypes, OperationTypes
  <2>3. queue[t] # <<>> => ops # <<>> /\ Head(ops).kind = Head(queue[t]).kind
    <3>1. queue[t] \in Seq(Op) /\ DOMAIN queue[t] = 1 .. Len(queue[t]) /\ Len(queue[t]) \in Nat
      BY LenProperties DEF TypeOK
    <3>2. ASSUME queue[t] # <<>> PROVE 1 \in DOMAIN queue[t] /\ queue[t][1] \in Op
      BY <3>1, <3>2, EmptySeq
    <3>3. \A o \in Op : [o EXCEPT !.void = TRUE].kind = o.kind
      BY DEF Op
    <3>4. Len(ops) = Len(queue[t])
      BY <2>2, <3>1, LenProperties
    <3>5. ASSUME queue[t] # <<>> PROVE ops # <<>> /\ Head(ops) = ops[1]
      BY <2>2, <3>1, <3>2, <3>4, <3>5, EmptySeq
    <3>6. ASSUME queue[t] # <<>> PROVE ops[1].kind = Head(queue[t]).kind
      BY <3>1, <3>2, <3>3, <3>6
    <3>. QED
      BY <3>5, <3>6
  <2>4. /\ Enqueue(t, ops, Operation("logout", s))
        /\ UNCHANGED <<stage, flight, refreshCookie>>
        /\ ended \subseteq ended'
    BY <1>12 DEF Logout
  <2>. HIDE DEF s, ops
  <2>. QED
    BY <1>9, <2>2, <2>3, <2>4
<1>13. ASSUME NEW c \in Call, RespondExpired(c) PROVE FlightInv'
  <2>1. c[1] \in Tab /\ UNCHANGED <<stage, flight, refreshCookie, ended>>
    BY <1>13 DEF Call, RespondExpired, Step, jar, past
  <2>. QED
    BY <1>2, <1>10, <1>13, <2>1 DEF RespondExpired
<1>14. ASSUME NEW t \in Tab, HandleMessage(t) \/ Focus(t)
       PROVE  UNCHANGED <<ended, stage, flight, queue, refreshCookie>>
  BY <1>14 DEF HandleMessage, Focus, jar, auth, past
<1>15. ASSUME NEW c \in Call,
              \/ Request(c) \/ RefuseRequest(c) \/ Late(c)
              \/ RespondOk(c) \/ RespondError(c) \/ Retry(c) \/ Deliver(c)
       PROVE  UNCHANGED <<ended, stage, flight, queue, refreshCookie>>
  BY <1>15 DEF Request, RefuseRequest, Late, Discard, Step, RespondOk, RespondError, Retry,
               Deliver, jar, auth, past
<1>16. ASSUME NEW s \in Sid, ChangeClaims(s)
       PROVE  UNCHANGED <<ended, stage, flight, queue, refreshCookie>>
  BY <1>16 DEF ChangeClaims, auth
<1>17. CASE UNCHANGED <<ended, stage, flight, queue, refreshCookie>>
  BY <1>2, <1>17
<1>18. CASE UNCHANGED vars
  BY <1>17, <1>18 DEF vars, jar, auth, past
<1>19. ASSUME NEW t \in Tab, User(t) \/ Auth(t) \/ HandleMessage(t) \/ Break(t) PROVE FlightInv'
  BY <1>5, <1>6, <1>7, <1>8, <1>11, <1>12, <1>14, <1>17, <1>19, Zenon DEF User, Auth, Break
<1>20. ASSUME NEW c \in Call, Request(c) \/ RefuseRequest(c) \/ Answer(c) PROVE FlightInv'
  BY <1>13, <1>15, <1>17, <1>20, Zenon DEF Answer
<1>. QED
  BY <1>16, <1>17, <1>18, <1>19, <1>20, Zenon DEF Next

-----------------------------------------------------------------------------
(* The calls: CallInv. *)

LEMMA CallStep ==
    ASSUME SessionInv, [Next]_vars
    PROVE  CallInv'
<1>. TypeOK /\ CallInv
  BY DEF SessionInv
<1>. \A c \in Call : c[1] \in Tab
  BY DEF Call
\* Calls that are dropped, or stay as they were, of tabs whose session stays.
<1>1. ASSUME current' \subseteq current, UNCHANGED session,
             \A c \in current' : call'[c].pc # "idle" =>
                call[c].pc # "idle" /\ call'[c].as = call[c].as
      PROVE  CallInv'
  BY <1>1 DEF CallInv
\* A tab whose session goes loses its calls.
<1>2. ASSUME NEW t \in Tab, NEW next, session' = [session EXCEPT ![t] = next],
             session[t] # next => NextGeneration(t),
             session[t] = next => UNCHANGED current,
             \A c \in current' : call'[c].pc # "idle" =>
                call[c].pc # "idle" /\ call'[c].as = call[c].as
      PROVE  CallInv'
  BY <1>2 DEF CallInv, NextGeneration, TypeOK
<1>3. ASSUME NEW t \in Tab, clearSession(t),
             \A c \in current' : call'[c].pc # "idle" =>
                call[c].pc # "idle" /\ call'[c].as = call[c].as
      PROVE  CallInv'
  BY <1>2, <1>3 DEF clearSession
<1>4. ASSUME NEW t \in Tab, NEW next, setSession(t, next),
             \A c \in current' : call'[c].pc # "idle" =>
                call[c].pc # "idle" /\ call'[c].as = call[c].as
      PROVE  CallInv'
  BY <1>2, <1>4 DEF setSession, Changes
<1>5. ASSUME NEW t \in Tab, NEW ok \in BOOLEAN, Settle(t, ok), NEW c \in Call,
             call'[c].pc # "idle"
      PROVE  call[c].pc # "idle" /\ call'[c].as = call[c].as
  BY <1>5 DEF Settle, Idle, TypeOK
<1>6. CASE UNCHANGED <<session, call, current>>
  BY <1>1, <1>6
<1>7. ASSUME NEW t \in Tab, SkipRefresh(t) PROVE CallInv'
  <2>1. Settle(t, FALSE) /\ UNCHANGED <<session, current>>
    BY <1>7 DEF SkipRefresh, memory
  <2>. QED
    BY <1>1, <1>5, <2>1 DEF TypeOK
<1>8. ASSUME NEW t \in Tab, CompleteRefresh(t) PROVE CallInv'
  <2>1. \A c \in Call : call'[c].pc # "idle" => call[c].pc # "idle" /\ call'[c].as = call[c].as
    BY <1>5, <1>8 DEF CompleteRefresh
  <2>2. current' \subseteq Call
    BY <1>8 DEF CompleteRefresh, clearSession, setSession, NextGeneration, TypeOK
  <2>3. CASE UNCHANGED <<memory, current>>
    BY <1>1, <2>1, <2>2, <2>3 DEF memory
  <2>4. CASE clearSession(t)
    BY <1>3, <2>1, <2>2, <2>4
  <2>5. CASE setSession(t, reply[t])
    BY <1>4, <2>1, <2>2, <2>5
  <2>. QED
    BY <1>8, <2>3, <2>4, <2>5 DEF CompleteRefresh
<1>9. ASSUME NEW t \in Tab, CompleteLogin(t) PROVE CallInv'
  <2>1. UNCHANGED call
    BY <1>9 DEF CompleteLogin
  <2>2. CASE UNCHANGED <<session, current>>
    BY <1>1, <2>1, <2>2
  <2>3. CASE setSession(t, reply[t])
    BY <1>4, <2>1, <2>3
  <2>. QED
    BY <1>9, <2>2, <2>3 DEF CompleteLogin, memory
<1>10. ASSUME NEW t \in Tab, Logout(t) \/ HandleMessage(t) \/ Focus(t) PROVE CallInv'
  <2>1. UNCHANGED call
    BY <1>10 DEF Logout, HandleMessage, Focus
  <2>. QED
    BY <1>1, <1>3, <1>10, <2>1 DEF Logout, HandleMessage, Focus, memory
<1>11. ASSUME NEW t \in Tab, Close(t) PROVE CallInv'
  <2>1. /\ session' = [session EXCEPT ![t] = NoSession]
        /\ current' = {c \in current : c[1] # t}
        /\ call' = [c \in Call |-> IF c[1] = t THEN Idle ELSE call[c]]
    BY <1>11 DEF Close
  <2>. QED
    BY <2>1 DEF CallInv, Idle, TypeOK
<1>12. ASSUME NEW c \in Call, Discard(c) PROVE CallInv'
  <2>1. call' = [call EXCEPT ![c] = Idle]
    BY <1>12 DEF Discard
  <2>2. \A d \in Call : call'[d].pc # "idle" => call[d].pc # "idle" /\ call'[d].as = call[d].as
    BY <2>1 DEF Idle, TypeOK
  <2>3. CASE clearSession(c[1])
    <3>1. current' \subseteq Call
      BY <2>3 DEF clearSession, NextGeneration, TypeOK
    <3>. QED
      BY <1>3, <2>2, <2>3, <3>1
  <2>4. CASE current' = current \ {c} /\ UNCHANGED memory
    BY <1>1, <2>2, <2>4 DEF memory, TypeOK
  <2>. QED
    BY <1>12, <2>3, <2>4 DEF Discard
<1>13. ASSUME NEW c \in Call, Request(c) PROVE CallInv'
  <2>1. /\ session[c[1]] # NoSession
        /\ call' = [call EXCEPT ![c] = [pc |-> "sent", as |-> session[c[1]], retried |-> FALSE]]
        /\ current' = current \cup {c}
        /\ UNCHANGED session
    BY <1>13 DEF Request, Step, memory
  <2>. QED
    BY <2>1 DEF CallInv, TypeOK
<1>14. ASSUME NEW c \in Call, NEW r, Step(c, r), current' \subseteq current,
              r.pc # "idle" => call[c].pc # "idle" /\ r.as = call[c].as
       PROVE  CallInv'
  <2>1. call' = [call EXCEPT ![c] = r] /\ UNCHANGED session
    BY <1>14 DEF Step, memory
  <2>. QED
    BY <1>1, <1>14, <2>1 DEF TypeOK
<1>15. ASSUME NEW c \in Call,
              RespondOk(c) \/ RespondError(c) \/ RespondExpired(c) \/ Retry(c) \/ Deliver(c)
       PROVE  CallInv'
  <2>1. Idle.pc = "idle"
    BY DEF Idle
  <2>2. \A pc, b : /\ [call[c] EXCEPT !.pc = pc].as = call[c].as
                   /\ [call[c] EXCEPT !.pc = pc, !.retried = b].as = call[c].as
    BY DEF TypeOK
  <2>3. CASE RespondOk(c)
    BY <1>14, <2>2, <2>3 DEF RespondOk
  <2>4. CASE RespondError(c)
    BY <1>14, <2>1, <2>4 DEF RespondError
  <2>5. CASE RespondExpired(c)
    BY <1>14, <2>2, <2>5 DEF RespondExpired
  <2>6. CASE Retry(c)
    BY <1>14, <2>2, <2>6 DEF Retry
  <2>7. CASE Deliver(c)
    BY <1>14, <2>1, <2>7 DEF Deliver
  <2>. QED
    BY <1>15, <2>3, <2>4, <2>5, <2>6, <2>7
<1>16. ASSUME NEW t \in Tab,
              \/ Open(t) \/ Login(t) \/ LoseReply(t)
              \/ StartRefresh(t) \/ StartLogin(t) \/ StartLogout(t)
              \/ LandRefresh(t) \/ LandLogin(t) \/ LandLogout(t) \/ Refuse(t) \/ CompleteLogout(t)
       PROVE  UNCHANGED <<session, call, current>>
  BY <1>16 DEF Open, Login, LoseReply, StartRefresh, StartLogin, StartLogout, Send, LandRefresh,
               LandLogin, LandLogout, Refuse, Reply, CompleteLogout, memory, calls
<1>17. ASSUME NEW s \in Sid, ChangeClaims(s) PROVE UNCHANGED <<session, call, current>>
  BY <1>17 DEF ChangeClaims, memory, calls
<1>18. CASE UNCHANGED vars
  BY <1>6, <1>18 DEF vars, memory, calls
<1>19. ASSUME NEW t \in Tab, User(t) \/ Auth(t) \/ HandleMessage(t) \/ Break(t) PROVE CallInv'
  BY <1>6, <1>7, <1>8, <1>9, <1>10, <1>11, <1>16, <1>19, Zenon DEF User, Auth, Break
<1>20. ASSUME NEW c \in Call, Request(c) \/ RefuseRequest(c) \/ Answer(c) PROVE CallInv'
  BY <1>12, <1>13, <1>15, <1>20, Zenon DEF RefuseRequest, Answer, Late
<1>. QED
  BY <1>6, <1>17, <1>18, <1>19, <1>20, Zenon DEF Next

-----------------------------------------------------------------------------
(* Logins that a logout overruled: what stands in the queue before it. *)

\* A queued logout that has not been sent.
Waits(t, i) ==
    /\ i \in DOMAIN queue[t] /\ queue[t][i].kind = "logout"
    /\ i = 1 => stage[t] = "waiting"

\* While one waits, the tab has no session, and nothing before it can make one.
Ahead ==
    \A t \in Tab : \A i \in DOMAIN queue[t] : Waits(t, i) =>
        /\ session[t] = NoSession
        /\ \A j \in 1 .. (i - 1) : queue[t][j].void

\* What is void has the logout that voided it behind it.
Voided ==
    \A t \in Tab : \A i \in DOMAIN queue[t] : queue[t][i].void =>
        \E j \in DOMAIN queue[t] : j > i /\ queue[t][j].kind = "logout"

\* The sid of an overruled login is one that the waiting logout will delete.
Doomed ==
    \A o \in overruled :
        /\ claims[o[2]] # NoOne
        /\ sidCookie = o[2] =>
              o[2] \in tabSids[o[1]] /\ \E i \in DOMAIN queue[o[1]] : Waits(o[1], i)

OverruledInv == Ahead /\ Voided /\ Doomed

\* What a step does to a tab: it leaves the queue, or starts its head;
Stays(t) ==
    /\ UNCHANGED queue[t]
    /\ session'[t] = session[t] \/ session'[t] = NoSession
    /\ session[t] = NoSession => tabSids[t] \subseteq tabSids'[t]
    /\ stage'[t] = "waiting" => stage[t] = "waiting"
    /\ (stage'[t] # stage[t] /\ stage[t] = "waiting" /\ Head(queue[t]).kind = "logout"
           /\ sidCookie \in tabSids[t])
          => sidCookie' = NoSid

\* it queues a refresh or a login,
Queues(t) ==
    /\ \E op \in Op : ~op.void /\ op.kind # "logout" /\ queue'[t] = Append(queue[t], op)
    /\ UNCHANGED <<session[t], tabSids[t], stage[t]>>

\* or a logout, which voids the others;
Ends(t) ==
    /\ \E op \in Op : ~op.void /\ op.kind = "logout"
          /\ queue'[t] = Append([i \in DOMAIN queue[t] |-> [queue[t][i] EXCEPT !.void = TRUE]], op)
    /\ session[t] # NoSession /\ session'[t] = NoSession
    /\ UNCHANGED stage[t]

\* its head completes;
Finishes(t) ==
    /\ queue[t] # <<>> /\ queue'[t] = Tail(queue[t])
    /\ ~(stage[t] = "waiting" /\ Head(queue[t]).kind = "logout")
    /\ stage'[t] = "waiting"
    /\ Head(queue[t]).void => UNCHANGED session[t] /\ tabSids[t] \subseteq tabSids'[t]

\* or it is gone.
Goes(t) == queue'[t] = <<>> /\ \A o \in overruled' : o[1] # t

\* Every step does one of these to each tab.
LEMMA QueueStep ==
    ASSUME SessionInv, [Next]_vars, NEW u \in Tab
    PROVE  Stays(u) \/ Queues(u) \/ Ends(u) \/ Finishes(u) \/ Goes(u)
<1>. TypeOK /\ LockInv
  BY DEF SessionInv
<1>. DEFINE Goal == Stays(u) \/ Queues(u) \/ Ends(u) \/ Finishes(u) \/ Goes(u)
<1>1. ASSUME UNCHANGED <<queue[u], session[u], tabSids[u], stage[u]>> PROVE Goal
  BY <1>1 DEF Stays
<1>2. ASSUME NEW t \in Tab, NEW kind \in {"refresh", "login"},
             Enqueue(t, queue[t], Operation(kind, NoSid)), UNCHANGED <<memory, stage>>
      PROVE  Goal
  <2>1. Operation(kind, NoSid) \in Op /\ ~Operation(kind, NoSid).void
        /\ Operation(kind, NoSid).kind # "logout"
    BY OperationTypes DEF Operation
  <2>2. CASE u = t
    BY <1>2, <2>1, <2>2 DEF Queues, Enqueue, memory, TypeOK
  <2>3. CASE u # t
    BY <1>1, <1>2, <2>3 DEF Enqueue, memory, TypeOK
  <2>. QED
    BY <2>2, <2>3
<1>3. ASSUME NEW t \in Tab, Open(t) \/ Login(t) PROVE Goal
  BY <1>2, <1>3 DEF Open, Login
<1>4. ASSUME NEW c \in Call, RespondExpired(c) PROVE Goal
  <2>1. c[1] \in Tab /\ UNCHANGED <<memory, stage>>
    BY <1>4 DEF Call, RespondExpired, Step
  <2>2. CASE UNCHANGED queue
    BY <1>1, <2>1, <2>2 DEF memory
  <2>. QED
    BY <1>2, <1>4, <2>1, <2>2 DEF RespondExpired
<1>5. ASSUME NEW t \in Tab, Logout(t) PROVE Goal
  <2>. DEFINE s == session[t].sid
  <2>1. Operation("logout", s) \in Op /\ ~Operation("logout", s).void
        /\ Operation("logout", s).kind = "logout"
    <3>1. s \in Sid
      BY <1>5, SessionType DEF Logout, TypeOK
    <3>. QED
      BY <3>1, OperationTypes DEF Operation
  <2>2. CASE u = t
    <3>1. queue'[t] = Append([i \in DOMAIN queue[t] |-> [queue[t][i] EXCEPT !.void = TRUE]],
                             Operation("logout", s))
      BY <1>5 DEF Logout, Enqueue, TypeOK
    <3>2. session[t] # NoSession /\ session'[t] = NoSession /\ UNCHANGED stage
      BY <1>5 DEF Logout, clearSession, TypeOK
    <3>. QED
      BY <2>1, <2>2, <3>1, <3>2 DEF Ends
  <2>3. CASE u # t
    BY <1>1, <1>5, <2>3 DEF Logout, Enqueue, clearSession, TypeOK
  <2>. QED
    BY <2>2, <2>3
<1>6. ASSUME NEW t \in Tab, session[t] # NoSession, clearSession(t), UNCHANGED <<queue, stage>>
      PROVE  Goal
  <2>1. CASE u = t
    BY <1>6, <2>1 DEF Stays, clearSession, TypeOK
  <2>2. CASE u # t
    BY <1>1, <1>6, <2>2 DEF clearSession, TypeOK
  <2>. QED
    BY <2>1, <2>2
<1>7. ASSUME NEW t \in Tab, Focus(t) \/ HandleMessage(t) PROVE Goal
  <2>1. CASE clearSession(t) /\ session[t] # NoSession /\ UNCHANGED auth
    BY <1>6, <2>1 DEF auth
  <2>2. CASE UNCHANGED <<memory, auth>>
    BY <1>1, <2>2 DEF memory, auth
  <2>. QED
    BY <1>7, <2>1, <2>2 DEF Focus, Synchronized, HandleMessage, Dismisses
<1>8. ASSUME NEW c \in Call, RefuseRequest(c) \/ Late(c) PROVE Goal
  <2>1. CASE clearSession(c[1]) /\ session[c[1]] # NoSession /\ UNCHANGED auth
    <3>1. c[1] \in Tab
      BY DEF Call
    <3>. QED
      BY <1>6, <2>1, <3>1 DEF auth
  <2>2. CASE UNCHANGED <<memory, auth>>
    BY <1>1, <2>2 DEF memory, auth
  <2>. QED
    BY <1>8, <2>1, <2>2 DEF RefuseRequest, Late, Discard, Synchronized
<1>9. ASSUME NEW t \in Tab, NEW s, Holds(t), stage[t] = "waiting", Send(t, s),
             Head(queue[t]).kind = "logout" /\ sidCookie \in tabSids[t] => sidCookie' = NoSid
      PROVE  Goal
  <2>1. UNCHANGED <<queue, session, tabSids>> /\ stage'[t] = "sent"
    BY <1>9 DEF Send, memory, TypeOK
  <2>2. CASE u = t
    BY <1>9, <2>1, <2>2 DEF Stays
  <2>3. CASE u # t
    BY <1>1, <1>9, <2>1, <2>3 DEF Send, TypeOK
  <2>. QED
    BY <2>2, <2>3
<1>10. ASSUME NEW t \in Tab, StartRefresh(t) \/ StartLogin(t) PROVE Goal
  BY <1>9, <1>10 DEF StartRefresh, StartLogin, Running
<1>11. ASSUME NEW t \in Tab, StartLogout(t) PROVE Goal
  <2>1. sidCookie \in tabSids[t] => sidCookie' = NoSid
    BY <1>11 DEF StartLogout, LogoutSid, DeleteSidCookie
  <2>. QED
    BY <1>9, <1>11, <2>1 DEF StartLogout, Running
<1>12. ASSUME NEW t \in Tab,
              LandRefresh(t) \/ LandLogin(t) \/ LandLogout(t) \/ Refuse(t) \/ LoseReply(t)
       PROVE  Goal
  <2>1. /\ UNCHANGED <<queue, session, tabSids>>
        /\ stage[t] = "sent" /\ stage' = [stage EXCEPT ![t] = "landed"]
    BY <1>12 DEF LandRefresh, LandLogin, LandLogout, Refuse, LoseReply, Running, Reply, memory
  <2>2. CASE u = t
    BY <2>1, <2>2 DEF Stays, TypeOK
  <2>3. CASE u # t
    BY <1>1, <2>1, <2>3 DEF TypeOK
  <2>. QED
    BY <2>2, <2>3
<1>13. ASSUME NEW t \in Tab, Holds(t), Dequeue(t),
              ~(stage[t] = "waiting" /\ Head(queue[t]).kind = "logout"),
              Head(queue[t]).void => UNCHANGED session[t] /\ tabSids[t] \subseteq tabSids'[t],
              \A v \in Tab : v # t => UNCHANGED <<session[v], tabSids[v]>>
       PROVE  Goal
  <2>1. queue[t] # <<>>
    BY <1>13, HolderHasWork
  <2>2. CASE u = t
    BY <1>13, <2>1, <2>2 DEF Finishes, Dequeue, TypeOK
  <2>3. CASE u # t
    BY <1>1, <1>13, <2>3 DEF Dequeue, TypeOK
  <2>. QED
    BY <2>2, <2>3
<1>14. ASSUME NEW t \in Tab, SkipRefresh(t) \/ CompleteLogout(t) PROVE Goal
  BY <1>13, <1>14 DEF SkipRefresh, CompleteLogout, Running, memory
<1>15. ASSUME NEW t \in Tab, CompleteRefresh(t) PROVE Goal
  <2>1. Head(queue[t]).void => UNCHANGED memory
    BY <1>15 DEF CompleteRefresh, Stale
  <2>2. \A v \in Tab : v # t => UNCHANGED <<session[v], tabSids[v]>>
    BY <1>15 DEF CompleteRefresh, clearSession, setSession, memory, TypeOK
  <2>. QED
    BY <1>13, <1>15, <2>1, <2>2 DEF CompleteRefresh, Running, memory
<1>16. ASSUME NEW t \in Tab, CompleteLogin(t) PROVE Goal
  <2>1. Head(queue[t]).void => UNCHANGED session /\ tabSids[t] \subseteq tabSids'[t]
    BY <1>16 DEF CompleteLogin, Stale, memory, TypeOK
  <2>2. \A v \in Tab : v # t => UNCHANGED <<session[v], tabSids[v]>>
    BY <1>16 DEF CompleteLogin, setSession, memory, TypeOK
  <2>. QED
    BY <1>13, <1>16, <2>1, <2>2 DEF CompleteLogin, Running
<1>17. ASSUME NEW t \in Tab, Close(t) PROVE Goal
  <2>1. CASE u = t
    BY <1>17, <2>1 DEF Close, Goes, TypeOK
  <2>2. CASE u # t
    BY <1>1, <1>17, <2>2 DEF Close, TypeOK
  <2>. QED
    BY <2>1, <2>2
<1>18. ASSUME NEW c \in Call,
              Request(c) \/ RespondOk(c) \/ RespondError(c) \/ Retry(c) \/ Deliver(c)
       PROVE  UNCHANGED <<queue, session, tabSids, stage>>
  BY <1>18 DEF Request, Step, RespondOk, RespondError, Retry, Deliver, auth, memory
<1>19. ASSUME NEW s \in Sid, ChangeClaims(s) PROVE UNCHANGED <<queue, session, tabSids, stage>>
  BY <1>19 DEF ChangeClaims, auth, memory
<1>20. ASSUME UNCHANGED vars PROVE Goal
  BY <1>1, <1>20 DEF vars, auth, memory
<1>21. ASSUME UNCHANGED <<queue, session, tabSids, stage>> PROVE Goal
  BY <1>1, <1>21
<1>. HIDE DEF Goal
<1>22. ASSUME NEW t \in Tab, User(t) \/ Auth(t) \/ HandleMessage(t) \/ Break(t) PROVE Goal
  BY <1>3, <1>5, <1>7, <1>10, <1>11, <1>12, <1>14, <1>15, <1>16, <1>17, <1>22, Zenon
  DEF User, Auth, Break
<1>23. ASSUME NEW c \in Call, Request(c) \/ RefuseRequest(c) \/ Answer(c) PROVE Goal
  BY <1>4, <1>8, <1>18, <1>21, <1>23, Zenon DEF Answer
<1>24. Goal
  BY <1>19, <1>20, <1>21, <1>22, <1>23, Zenon DEF Next
<1>. QED
  BY <1>24 DEF Goal

-----------------------------------------------------------------------------

\* The operations of a queue that grows, with those it had.
LEMMA AppendOps ==
    ASSUME NEW ops \in Seq(Op), NEW op \in Op
    PROVE  /\ DOMAIN ops = 1 .. Len(ops) /\ Len(ops) \in Nat
           /\ DOMAIN Append(ops, op) = 1 .. (Len(ops) + 1)
           /\ \A i \in 1 .. Len(ops) : Append(ops, op)[i] = ops[i]
           /\ Append(ops, op)[Len(ops) + 1] = op
  BY AppendProperties, LenProperties

\* What is left of a queue when its head completes.
LEMMA TailOps ==
    ASSUME NEW ops \in Seq(Op), ops # <<>>
    PROVE  /\ DOMAIN ops = 1 .. Len(ops) /\ Len(ops) \in Nat \ {0}
           /\ DOMAIN Tail(ops) = 1 .. (Len(ops) - 1)
           /\ Head(ops) = ops[1]
           /\ \A i \in 1 .. (Len(ops) - 1) : Tail(ops)[i] = ops[i + 1]
  BY EmptySeq, LenProperties, HeadTailProperties

\* What a logout leaves of the operations before it.
LEMMA VoidOps ==
    ASSUME TypeOK, NEW t \in Tab, NEW ops,
           ops = [i \in DOMAIN queue[t] |-> [queue[t][i] EXCEPT !.void = TRUE]]
    PROVE  /\ ops \in Seq(Op) /\ DOMAIN ops = DOMAIN queue[t]
           /\ \A i \in DOMAIN ops : ops[i].void /\ ops[i].kind = queue[t][i].kind
<1>1. \A i \in DOMAIN queue[t] : queue[t][i] \in Op
  BY DEF TypeOK
<1>2. \A o \in Op : [o EXCEPT !.void = TRUE].void /\ [o EXCEPT !.void = TRUE].kind = o.kind
  BY DEF Op
<1>. QED
  BY <1>1, <1>2, VoidTypes

\* No step gives a session to a tab whose logout waits.
LEMMA AheadStep ==
    ASSUME SessionInv, Ahead, [Next]_vars
    PROVE  Ahead'
<1>. TypeOK
  BY DEF SessionInv
<1>. SUFFICES ASSUME NEW u \in Tab, NEW i \in DOMAIN queue'[u], Waits(u, i)'
              PROVE  session'[u] = NoSession /\ \A j \in 1 .. (i - 1) : queue'[u][j].void
  BY DEF Ahead
<1>. queue[u] \in Seq(Op)
  BY DEF TypeOK
<1>1. CASE Stays(u)
  BY <1>1 DEF Stays, Waits, Ahead
<1>2. CASE Queues(u)
  <2>1. PICK op \in Op : op.kind # "logout" /\ queue'[u] = Append(queue[u], op)
    BY <1>2 DEF Queues
  <2>2. i \in DOMAIN queue[u] /\ Waits(u, i) /\ UNCHANGED session[u]
    BY <1>2, <2>1, AppendOps DEF Queues, Waits
  <2>3. \A j \in 1 .. (i - 1) : queue'[u][j] = queue[u][j]
    BY <2>1, <2>2, AppendOps
  <2>. QED
    BY <2>2, <2>3 DEF Ahead
<1>3. CASE Ends(u)
  <2>. DEFINE ops == [k \in DOMAIN queue[u] |-> [queue[u][k] EXCEPT !.void = TRUE]]
  <2>1. PICK op \in Op : queue'[u] = Append(ops, op)
    BY <1>3 DEF Ends
  <2>2. ops \in Seq(Op) /\ \A k \in DOMAIN ops : ops[k].void
    BY VoidOps
  <2>. HIDE DEF ops
  <2>3. \A j \in 1 .. (i - 1) : j \in DOMAIN ops /\ queue'[u][j] = ops[j]
    BY <2>1, <2>2, AppendOps
  <2>. QED
    BY <1>3, <2>2, <2>3 DEF Ends
<1>4. CASE Finishes(u)
  <2>1. queue[u] # <<>> /\ queue'[u] = Tail(queue[u])
    BY <1>4 DEF Finishes
  <2>2. /\ i \in 1 .. (Len(queue[u]) - 1) /\ i + 1 \in DOMAIN queue[u]
        /\ Len(queue[u]) \in Nat /\ Head(queue[u]) = queue[u][1]
        /\ \A j \in 1 .. (Len(queue[u]) - 1) : queue'[u][j] = queue[u][j + 1]
    BY <2>1, TailOps
  <2>3. Waits(u, i + 1)
    BY <2>2 DEF Waits
  <2>4. session[u] = NoSession /\ \A j \in 1 .. i : queue[u][j].void
    BY <2>2, <2>3 DEF Ahead
  <2>. QED
    BY <1>4, <2>2, <2>4 DEF Finishes
<1>5. CASE Goes(u)
  BY <1>5 DEF Goes
<1>. QED
  BY <1>1, <1>2, <1>3, <1>4, <1>5, QueueStep

\* The logout stays behind what it voided.
LEMMA VoidedStep ==
    ASSUME SessionInv, Voided, [Next]_vars
    PROVE  Voided'
<1>. TypeOK
  BY DEF SessionInv
<1>. SUFFICES ASSUME NEW u \in Tab, NEW i \in DOMAIN queue'[u], queue'[u][i].void
              PROVE  \E j \in DOMAIN queue'[u] : j > i /\ queue'[u][j].kind = "logout"
  BY DEF Voided
<1>. queue[u] \in Seq(Op)
  BY DEF TypeOK
<1>1. CASE Stays(u)
  BY <1>1 DEF Stays, Voided
<1>2. CASE Queues(u)
  <2>1. PICK op \in Op : ~op.void /\ queue'[u] = Append(queue[u], op)
    BY <1>2 DEF Queues
  <2>2. i \in DOMAIN queue[u] /\ queue[u][i].void
    BY <2>1, AppendOps
  <2>3. PICK j \in DOMAIN queue[u] : j > i /\ queue[u][j].kind = "logout"
    BY <2>2 DEF Voided
  <2>. QED
    BY <2>1, <2>3, AppendOps
<1>3. CASE Ends(u)
  <2>. DEFINE ops == [k \in DOMAIN queue[u] |-> [queue[u][k] EXCEPT !.void = TRUE]]
  <2>1. PICK op \in Op : ~op.void /\ op.kind = "logout" /\ queue'[u] = Append(ops, op)
    BY <1>3 DEF Ends
  <2>2. ops \in Seq(Op)
    BY VoidOps
  <2>. HIDE DEF ops
  <2>3. Len(ops) + 1 \in DOMAIN queue'[u] /\ Len(ops) + 1 > i
    BY <2>1, <2>2, AppendOps
  <2>. QED
    BY <2>1, <2>2, <2>3, AppendOps
<1>4. CASE Finishes(u)
  <2>1. queue[u] # <<>> /\ queue'[u] = Tail(queue[u])
    BY <1>4 DEF Finishes
  <2>2. /\ i \in 1 .. (Len(queue[u]) - 1) /\ DOMAIN queue[u] = 1 .. Len(queue[u])
        /\ DOMAIN queue'[u] = 1 .. (Len(queue[u]) - 1) /\ Len(queue[u]) \in Nat
        /\ \A j \in 1 .. (Len(queue[u]) - 1) : queue'[u][j] = queue[u][j + 1]
    BY <2>1, TailOps
  <2>3. PICK j \in DOMAIN queue[u] : j > i + 1 /\ queue[u][j].kind = "logout"
    BY <2>2 DEF Voided
  <2>4. j - 1 \in DOMAIN queue'[u] /\ j - 1 > i /\ queue'[u][j - 1] = queue[u][j]
    BY <2>2, <2>3
  <2>. QED
    BY <2>3, <2>4
<1>5. CASE Goes(u)
  BY <1>5 DEF Goes
<1>. QED
  BY <1>1, <1>2, <1>3, <1>4, <1>5, QueueStep

\* Cookies come with fresh sids only, and logins are overruled as they complete.
LEMMA JarMoves ==
    ASSUME SessionInv, [Next]_vars
    PROVE  /\ sidCookie' \in {sidCookie, NoSid} \/ claims[sidCookie'] = NoOne
           /\ \A o \in overruled' \ overruled : \E t \in Tab :
                 /\ CompleteLogin(t) /\ o = <<t, reply[t].sid>>
                 /\ Head(queue[t]).void /\ reply[t] # NoSession
<1>. DEFINE Moves == sidCookie' \in {sidCookie, NoSid} \/ claims[sidCookie'] = NoOne
            Fewer == overruled' \subseteq overruled
<1>1. ASSUME NEW t \in Tab, CookiesLand(t) \/ UNCHANGED jar PROVE Moves
  BY <1>1 DEF CookiesLand, setAuthCookies, clearAuthCookies, jar
<1>2. ASSUME NEW t \in Tab, Logout(t) \/ StartLogout(t) PROVE Moves /\ Fewer
  BY <1>2 DEF Logout, StartLogout, Send, DeleteSidCookie
<1>3. ASSUME NEW t \in Tab, LandLogin(t) \/ LandLogout(t) \/ LoseReply(t) \/ Close(t)
      PROVE  Moves /\ Fewer
  <2>1. CookiesLand(t) \/ UNCHANGED jar
    BY <1>3 DEF LandLogin, LandLogout, LoseReply, Close, CookiesLand
  <2>2. Fewer
    BY <1>3 DEF LandLogin, LandLogout, LoseReply, Close, Reply
  <2>. QED
    BY <1>1, <2>1, <2>2
<1>4. ASSUME NEW t \in Tab, CompleteLogin(t)
      PROVE  /\ UNCHANGED sidCookie
             /\ \A o \in overruled' \ overruled :
                   o = <<t, reply[t].sid>> /\ Head(queue[t]).void /\ reply[t] # NoSession
  BY <1>4 DEF CompleteLogin, jar
<1>5. ASSUME NEW t \in Tab,
             \/ Open(t) \/ Login(t) \/ Focus(t) \/ HandleMessage(t)
             \/ StartRefresh(t) \/ StartLogin(t) \/ LandRefresh(t) \/ Refuse(t)
             \/ SkipRefresh(t) \/ CompleteRefresh(t) \/ CompleteLogout(t)
      PROVE  UNCHANGED <<sidCookie, overruled>>
  BY <1>5 DEF Open, Login, Focus, HandleMessage, StartRefresh, StartLogin, Send, LandRefresh,
              Refuse, Reply, SkipRefresh, CompleteRefresh, CompleteLogout, jar, past
<1>6. ASSUME NEW c \in Call, Request(c) \/ RefuseRequest(c) \/ Answer(c)
      PROVE  UNCHANGED <<sidCookie, overruled>>
  BY <1>6 DEF Request, RefuseRequest, Answer, Late, Discard, Step, RespondOk, RespondError,
              RespondExpired, Retry, Deliver, jar, past
<1>7. ASSUME NEW s \in Sid, ChangeClaims(s) PROVE UNCHANGED <<sidCookie, overruled>>
  BY <1>7 DEF ChangeClaims
<1>8. CASE UNCHANGED <<sidCookie, overruled>>
  BY <1>8
<1>9. CASE UNCHANGED vars
  BY <1>8, <1>9 DEF vars, jar, past
<1>10. CASE Moves /\ Fewer
  BY <1>10
<1>11. ASSUME NEW t \in Tab, CompleteLogin(t)
       PROVE  /\ Moves
              /\ \A o \in overruled' \ overruled : \E u \in Tab :
                   /\ CompleteLogin(u) /\ o = <<u, reply[u].sid>>
                   /\ Head(queue[u]).void /\ reply[u] # NoSession
  BY <1>4, <1>11, Zenon
<1>12. ASSUME NEW t \in Tab, User(t) \/ Auth(t) \/ HandleMessage(t) \/ Break(t)
       PROVE  \/ UNCHANGED <<sidCookie, overruled>>
              \/ Moves /\ Fewer
              \/ CompleteLogin(t)
  BY <1>2, <1>3, <1>5, <1>12, Zenon DEF User, Auth, Break
<1>. HIDE DEF Moves, Fewer
<1>. QED
  BY <1>6, <1>7, <1>8, <1>9, <1>10, <1>11, <1>12, Zenon DEF Next, Moves

\* The waiting logout keeps the sid of an overruled login among those it may delete.
LEMMA DoomedStep ==
    ASSUME SessionInv, Ahead, Voided, Doomed, [Next]_vars
    PROVE  Doomed'
<1>. TypeOK /\ LockInv /\ RepliesIssued
  BY DEF SessionInv, SidInv
<1>. DEFINE Waiting(t) == \E i \in DOMAIN queue[t] : Waits(t, i)
            After(t) == \E i \in DOMAIN queue'[t] :
                           /\ queue'[t][i].kind = "logout"
                           /\ i = 1 => stage'[t] = "waiting"
<1>1. ASSUME NEW u \in Tab, queue[u] # <<>>, queue'[u] = Tail(queue[u]), stage'[u] = "waiting",
             NEW i \in DOMAIN queue[u], i > 1, queue[u][i].kind = "logout"
      PROVE  After(u)
  <2>1. queue[u] \in Seq(Op)
    BY DEF TypeOK
  <2>2. i - 1 \in DOMAIN queue'[u] /\ queue'[u][i - 1] = queue[u][i]
    BY <1>1, <2>1, TailOps
  <2>. QED
    BY <1>1, <2>2
<1>2. ASSUME NEW u \in Tab, Waiting(u), sidCookie \in tabSids[u], sidCookie \in Sid,
             UNCHANGED sidCookie, ~Goes(u)
      PROVE  sidCookie \in tabSids'[u] /\ After(u)
  <2>. queue[u] \in Seq(Op)
    BY DEF TypeOK
  <2>1. PICK i \in DOMAIN queue[u] : Waits(u, i)
    BY <1>2
  <2>2. session[u] = NoSession /\ \A j \in 1 .. (i - 1) : queue[u][j].void
    BY <2>1 DEF Ahead
  <2>3. CASE Stays(u)
    <3>1. i = 1 => stage'[u] = "waiting"
      <4>1. i = 1 => Head(queue[u]).kind = "logout" /\ stage[u] = "waiting"
        BY <2>1, EmptySeq, LenProperties DEF Waits
      <4>. QED
        BY <1>2, <2>3, <4>1, NoneAssumption DEF Stays
    <3>. QED
      BY <1>2, <2>1, <2>2, <2>3, <3>1 DEF Stays, Waits
  <2>4. CASE Queues(u)
    <3>1. PICK op \in Op : queue'[u] = Append(queue[u], op)
      BY <2>4 DEF Queues
    <3>2. i \in DOMAIN queue'[u] /\ queue'[u][i] = queue[u][i]
      BY <2>1, <3>1, AppendOps
    <3>. QED
      BY <1>2, <2>1, <2>4, <3>2 DEF Queues, Waits
  <2>5. CASE Ends(u)
    BY <2>2, <2>5 DEF Ends
  <2>6. CASE Finishes(u)
    <3>1. queue[u] # <<>> /\ Head(queue[u]) = queue[u][1] /\ i \in Nat \ {0}
      BY <2>6, TailOps DEF Finishes
    <3>2. i > 1
      BY <2>1, <2>6, <3>1 DEF Finishes, Waits
    <3>3. Head(queue[u]).void
      BY <2>2, <3>1, <3>2
    <3>. QED
      BY <1>1, <1>2, <2>1, <2>6, <3>1, <3>2, <3>3 DEF Finishes, Waits
  <2>. QED
    BY <1>2, <2>3, <2>4, <2>5, <2>6, QueueStep
<1>. SUFFICES ASSUME NEW o \in overruled'
              PROVE  /\ claims'[o[2]] # NoOne
                     /\ sidCookie' = o[2] => o[2] \in tabSids'[o[1]] /\ After(o[1])
  BY DEF Doomed, Waits
<1>3. CASE o \in overruled
  <2>1. o[1] \in Tab /\ o[2] \in Sid /\ claims[o[2]] # NoOne
    BY <1>3 DEF TypeOK, Doomed
  <2>2. claims'[o[2]] # NoOne
    BY <2>1, ClaimsKept
  <2>3. ~Goes(o[1])
    BY DEF Goes
  <2>4. ASSUME sidCookie' = o[2] PROVE o[2] \in tabSids'[o[1]] /\ After(o[1])
    <3>1. sidCookie = o[2] /\ UNCHANGED sidCookie
      BY <2>1, <2>4, JarMoves, NoneAssumption
    <3>2. o[2] \in tabSids[o[1]] /\ Waiting(o[1])
      BY <1>3, <3>1 DEF Doomed
    <3>. HIDE DEF Waiting, After
    <3>. QED
      BY <1>2, <2>1, <2>3, <3>1, <3>2
  <2>. QED
    BY <2>2, <2>4
<1>4. CASE o \notin overruled
  <2>1. PICK t \in Tab : /\ CompleteLogin(t) /\ o = <<t, reply[t].sid>>
                         /\ Head(queue[t]).void /\ reply[t] # NoSession
    BY <1>4, JarMoves
  <2>2. reply[t].sid \in Sid /\ claims[reply[t].sid] # NoOne
    BY <2>1, SessionType DEF RepliesIssued, TypeOK
  <2>3. claims'[reply[t].sid] # NoOne
    BY <2>2, ClaimsKept
  <2>4. reply[t].sid \in tabSids'[t]
    BY <2>1 DEF CompleteLogin, Stale, TypeOK
  <2>5. Holds(t) /\ queue[t] \in Seq(Op) /\ queue[t] # <<>>
    BY <2>1, HolderHasWork DEF CompleteLogin, Running, TypeOK
  <2>6. 1 \in DOMAIN queue[t] /\ queue[t][1].void
    BY <2>1, <2>5, TailOps
  <2>7. PICK j \in DOMAIN queue[t] : j > 1 /\ queue[t][j].kind = "logout"
    BY <2>6 DEF Voided
  <2>8. queue'[t] = Tail(queue[t]) /\ stage'[t] = "waiting"
    BY <2>1 DEF CompleteLogin, Dequeue, TypeOK
  <2>9. After(t)
    BY <1>1, <2>5, <2>7, <2>8
  <2>. QED
    BY <2>1, <2>3, <2>4, <2>9
<1>. QED
  BY <1>3, <1>4

-----------------------------------------------------------------------------
(* Theorems. *)

LEMMA InitInv == Init => SessionInv
<1>. SUFFICES ASSUME Init PROVE SessionInv
  OBVIOUS
<1>1. TypeOK
  BY BoundsAssumption DEF Init, TypeOK, Idle, NoFlight
<1>2. LockInv
  BY DEF Init, LockInv
<1>3. SidInv
  BY NoneAssumption DEF Init, SidInv, JarIssued, MemoryIssued, RepliesIssued, LogoutsEnded
<1>. QED
  BY <1>1, <1>2, <1>3 DEF Init, SessionInv, LogoutIsFinal, FlightInv, CallInv

LEMMA Inductive ==
    ASSUME SessionInv, [Next]_vars
    PROVE  SessionInv'
  BY TypeStep, LockStep, JarStep, MemoryStep, RepliesStep, LogoutsStep, FlightStep, CallStep
  DEF SessionInv, SidInv

\* The invariant behind the others: types, the lock, where sids come from, what
\* a request in flight presents, and whose the calls are.
THEOREM Invariant == Spec => []SessionInv
<1>. QED
  BY InitInv, Inductive, PTL DEF Spec

\* Cookies, tabs, queues, the line for the lock, messages and calls keep their types.
THEOREM TypeCorrect == Spec => []TypeOK
<1>1. SessionInv => TypeOK
  BY DEF SessionInv
<1>. QED
  BY <1>1, Invariant, PTL

\* No page load finds the sid of a session that a tab has logged out.
THEOREM FinalLogout == Spec => []LogoutIsFinal
<1>1. SessionInv => LogoutIsFinal
  BY DEF SessionInv
<1>. QED
  BY <1>1, Invariant, PTL

\* A retry and an answer reach only the session and the principal that asked.
THEOREM OwnSession == Spec => OwnSessionOnly
<1>1. ASSUME SessionInv, NEW c \in Call, Retry(c) \/ Deliver(c)
      PROVE  session[c[1]] = call[c].as
  BY <1>1 DEF SessionInv, CallInv, Retry, Deliver, Asserts
<1>2. SessionInv /\ [Next]_vars =>
          [\A c \in Call : Retry(c) \/ Deliver(c) => session[c[1]] = call[c].as]_vars
  BY <1>1
<1>. QED
  BY <1>2, Invariant, PTL DEF Spec, OwnSessionOnly

\* Only Request and Retry send a call, and both ask the cookie first.
LEMMA SentBy ==
    ASSUME SessionInv, [Next]_vars, NEW c \in Call, call'[c].pc = "sent", call[c].pc # "sent"
    PROVE  Request(c) \/ Retry(c)
<1>. TypeOK
  BY DEF SessionInv
<1>1. ASSUME NEW t \in Tab, User(t) \/ HandleMessage(t) PROVE UNCHANGED call
  BY <1>1 DEF User, Open, Login, Logout, Focus, HandleMessage, calls
<1>2. ASSUME NEW t \in Tab, NEW ok \in BOOLEAN, Settle(t, ok) PROVE FALSE
  BY <1>2 DEF Settle, Idle, TypeOK
<1>3. ASSUME NEW t \in Tab, Auth(t) PROVE FALSE
  <2>1. CASE SkipRefresh(t) \/ CompleteRefresh(t)
    BY <1>2, <2>1 DEF SkipRefresh, CompleteRefresh
  <2>2. CASE \/ StartRefresh(t) \/ StartLogin(t) \/ StartLogout(t)
             \/ LandRefresh(t) \/ LandLogin(t) \/ LandLogout(t) \/ Refuse(t)
             \/ CompleteLogin(t) \/ CompleteLogout(t)
    BY <2>2 DEF StartRefresh, StartLogin, StartLogout, Send, LandRefresh, LandLogin, LandLogout,
                Refuse, Reply, CompleteLogin, CompleteLogout, calls
  <2>. QED
    BY <1>3, <2>1, <2>2, Zenon DEF Auth
<1>4. ASSUME NEW t \in Tab, Break(t) PROVE FALSE
  <2>1. CASE LoseReply(t)
    BY <2>1 DEF LoseReply, Reply, calls
  <2>2. CASE Close(t)
    <3>1. call' = [d \in Call |-> IF d[1] = t THEN Idle ELSE call[d]]
      BY <2>2 DEF Close
    <3>2. call'[c] \in {Idle, call[c]}
      BY <3>1
    <3>. QED
      BY <3>2 DEF Idle
  <2>. QED
    BY <1>4, <2>1, <2>2 DEF Break
<1>5. ASSUME NEW d \in Call, Request(d) \/ RefuseRequest(d) \/ Answer(d)
      PROVE  d = c /\ (Request(c) \/ Retry(c))
  <2>1. CASE RefuseRequest(d) \/ Late(d)
    BY <2>1 DEF RefuseRequest, Late, Discard, Idle, TypeOK
  <2>2. CASE Request(d) \/ Retry(d)
    BY <2>2 DEF Request, Retry, Step, TypeOK
  <2>3. ASSUME NEW r, Step(d, r), r.pc # "sent" PROVE FALSE
    BY <2>3 DEF Step, TypeOK
  <2>4. CASE RespondOk(d) \/ RespondError(d) \/ RespondExpired(d) \/ Deliver(d)
    <3>1. /\ Idle.pc # "sent"
          /\ [call[d] EXCEPT !.pc = "reading"].pc # "sent"
          /\ [call[d] EXCEPT !.pc = "refreshing"].pc # "sent"
      BY DEF Idle, TypeOK
    <3>. QED
      BY <2>3, <2>4, <3>1 DEF RespondOk, RespondError, RespondExpired, Deliver
  <2>. QED
    BY <1>5, <2>1, <2>2, <2>4, Zenon DEF Answer
<1>6. ASSUME NEW s \in Sid, ChangeClaims(s) PROVE UNCHANGED call
  BY <1>6 DEF ChangeClaims, calls
<1>7. ~ UNCHANGED call
  OBVIOUS
<1>8. ~ UNCHANGED vars
  BY <1>7 DEF vars, calls
<1>. QED
  BY <1>1, <1>3, <1>4, <1>5, <1>6, <1>7, <1>8, Zenon DEF Next

\* No call is sent under a session that a tab has logged out, even while the
\* message about it is on its way.
THEOREM NoLateRequest == Spec => NoRequestAfterLogout
<1>1. ASSUME SessionInv, [Next]_vars, NEW c \in Call, call'[c].pc = "sent", call[c].pc # "sent"
      PROVE  session[c[1]].sid \notin ended
  <2>1. Synchronized(c[1]) /\ session[c[1]] # NoSession
    <3>1. CASE Request(c)
      BY <3>1 DEF Request
    <3>2. CASE Retry(c)
      BY <1>1, <3>2 DEF SessionInv, CallInv, Retry, Asserts
    <3>. QED
      BY <1>1, <3>1, <3>2, SentBy
  <2>2. session[c[1]].sid = sidCookie
    BY <2>1 DEF Synchronized
  <2>. QED
    BY <1>1, <2>2 DEF SessionInv, LogoutIsFinal
<1>2. SessionInv /\ [Next]_vars =>
          [\A c \in Call : (call'[c].pc = "sent" /\ call[c].pc # "sent")
              => session[c[1]].sid \notin ended]_vars
  BY <1>1
<1>. QED
  BY <1>2, Invariant, PTL DEF Spec, NoRequestAfterLogout

\* A logout clears the refresh cookie of no session but one that has ended: the
\* lock of all tabs keeps the jar as the request found it.
THEOREM ForeignKept == Spec => ForeignCookieKept
<1>1. ASSUME SessionInv, [Next]_vars, refreshCookie' = NoSid
      PROVE  refreshCookie \in ended' \cup {NoSid}
  <2>. TypeOK /\ FlightInv
    BY <1>1 DEF SessionInv
  <2>1. CASE UNCHANGED refreshCookie
    BY <1>1, <2>1
  <2>2. ASSUME NEW t \in Tab, CookiesLand(t), UNCHANGED ended
        PROVE  refreshCookie \in ended' \cup {NoSid}
    <3>1. CASE Running(t, "login", "sent") /\ \E s \in Sid, p \in Principal : setAuthCookies(s, p)
      BY <1>1, <3>1, NoneAssumption DEF setAuthCookies
    <3>2. CASE Running(t, "logout", "sent") /\ clearAuthCookies(t)
      BY <1>1, <2>1, <2>2, <3>2 DEF clearAuthCookies, Matches, Running, FlightInv
    <3>. QED
      BY <2>2, <3>1, <3>2 DEF CookiesLand
  <2>3. ASSUME NEW t \in Tab, LandLogin(t) \/ LandLogout(t) \/ LoseReply(t) \/ Close(t)
        PROVE  (CookiesLand(t) \/ UNCHANGED refreshCookie) /\ UNCHANGED ended
    BY <2>3 DEF LandLogin, LandLogout, LoseReply, Close, CookiesLand, Reply, jar
  <2>4. ASSUME NEW t \in Tab,
               \/ User(t) \/ HandleMessage(t)
               \/ StartRefresh(t) \/ StartLogin(t) \/ StartLogout(t) \/ LandRefresh(t) \/ Refuse(t)
               \/ SkipRefresh(t) \/ CompleteRefresh(t) \/ CompleteLogin(t) \/ CompleteLogout(t)
        PROVE  UNCHANGED refreshCookie
    BY <2>4 DEF User, Open, Login, Logout, Focus, HandleMessage, StartRefresh, StartLogin,
                StartLogout, LandRefresh, Refuse, SkipRefresh, CompleteRefresh, CompleteLogin,
                CompleteLogout, jar
  <2>5. ASSUME NEW c \in Call, Request(c) \/ RefuseRequest(c) \/ Answer(c)
        PROVE  UNCHANGED refreshCookie
    BY <2>5 DEF Request, RefuseRequest, Answer, Late, Discard, Step, RespondOk, RespondError,
                RespondExpired, Retry, Deliver, jar
  <2>6. ASSUME NEW s \in Sid, ChangeClaims(s) PROVE UNCHANGED refreshCookie
    BY <2>6 DEF ChangeClaims
  <2>7. CASE UNCHANGED vars
    BY <2>1, <2>7 DEF vars, jar
  <2>8. ASSUME NEW t \in Tab, User(t) \/ Auth(t) \/ HandleMessage(t) \/ Break(t)
        PROVE  refreshCookie \in ended' \cup {NoSid}
    BY <2>1, <2>2, <2>3, <2>4, <2>8, Zenon DEF Auth, Break
  <2>. QED
    BY <1>1, <2>1, <2>5, <2>6, <2>7, <2>8, Zenon DEF Next
<1>2. SessionInv /\ [Next]_vars =>
          [refreshCookie' = NoSid => refreshCookie \in ended' \cup {NoSid}]_vars
  BY <1>1
<1>. QED
  BY <1>2, Invariant, PTL DEF Spec, ForeignCookieKept

\* A login that landed after its tab asked for a logout is deleted when that
\* logout has its turn.
THEOREM OverruledCleared == Spec => []OverruledLoginCleared
<1>1. Init => OverruledInv
  BY DEF Init, OverruledInv, Ahead, Voided, Doomed
<1>2. SessionInv /\ OverruledInv /\ [Next]_vars => OverruledInv'
  BY AheadStep, VoidedStep, DoomedStep DEF OverruledInv
<1>3. OverruledInv => OverruledLoginCleared
  BY DEF OverruledInv, Doomed, OverruledLoginCleared, Waits, Pending
<1>. QED
  BY <1>1, <1>2, <1>3, Invariant, PTL DEF Spec
============================================================================

------------------------ MODULE DocumentCreateProofs ------------------------
(***************************************************************************)
(* Proofs about DocumentCreate, for any number of requests, keys, payloads *)
(* and failures and any pool.                                              *)
(***************************************************************************)
EXTENDS DocumentCreate, TLAPS

\* Requests, rows and responses keep their types.
THEOREM TypeCorrect == Spec => []TypeOK
<1>1. Init => TypeOK
  BY PoolAssumption DEF Init, TypeOK, Step, Answer
<1>2. TypeOK /\ [Next]_vars => TypeOK'
  <2>. SUFFICES ASSUME TypeOK, [Next]_vars
                PROVE  TypeOK'
    OBVIOUS
  <2>. USE PoolAssumption DEF TypeOK, Step, Answer, InTransaction, Goto, Respond, Fault
  <2>1. ASSUME NEW r \in Request, Begin(r) PROVE TypeOK'
    BY <2>1 DEF Begin
  <2>2. ASSUME NEW r \in Request, Reject(r) PROVE TypeOK'
    BY <2>2 DEF Reject
  <2>3. ASSUME NEW r \in Request, Acquire(r) PROVE TypeOK'
    BY <2>3 DEF Acquire
  <2>4. ASSUME NEW r \in Request, Lookup(r) PROVE TypeOK'
    <3>1. CASE Goto(r, "insert") /\ UNCHANGED <<answer, told>>
      BY <2>4, <3>1 DEF Lookup
    <3>2. ASSUME NEW s \in Twin(r), Respond(r, "replay", s) PROVE TypeOK'
      BY <2>4, <3>2 DEF Lookup, Twin
    <3>3. CASE Respond(r, "conflict", NoRequest)
      BY <2>4, <3>3 DEF Lookup
    <3>. QED
      BY <2>4, <3>1, <3>2, <3>3, Zenon DEF Lookup
  <2>5. ASSUME NEW r \in Request, Insert(r) PROVE TypeOK'
    BY <2>5 DEF Insert
  <2>6. ASSUME NEW r \in Request, LogWrite(r) PROVE TypeOK'
    BY <2>6 DEF LogWrite
  <2>7. ASSUME NEW r \in Request, Commit(r) PROVE TypeOK'
    BY <2>7 DEF Commit
  <2>8. ASSUME NEW r \in Request, CommitAborted(r) PROVE TypeOK'
    BY <2>8 DEF CommitAborted
  <2>9. ASSUME NEW r \in Request, Resolve(r) PROVE TypeOK'
    <3>1. ASSUME NEW s \in Twin(r), Respond(r, "replay", s) PROVE TypeOK'
      BY <2>9, <3>1 DEF Resolve, Twin
    <3>2. CASE Respond(r, "conflict", NoRequest)
      BY <2>9, <3>2 DEF Resolve
    <3>. QED
      BY <2>9, <3>1, <3>2, Zenon DEF Resolve
  <2>10. ASSUME NEW r \in Request, LogWriteFails(r) PROVE TypeOK'
    BY <2>10 DEF LogWriteFails
  <2>11. ASSUME NEW r \in Request, Fails(r) PROVE TypeOK'
    BY <2>11 DEF Fails
  <2>12. ASSUME NEW r \in Request, ResponseLost(r) PROVE TypeOK'
    BY <2>12 DEF ResponseLost
  <2>13. CASE UNCHANGED vars
    BY <2>13 DEF vars
  <2>. QED
    BY <2>1, <2>2, <2>3, <2>4, <2>5, <2>6, <2>7, <2>8, <2>9, <2>10, <2>11, <2>12, <2>13,
       Zenon DEF Next, Progress, Failure
<1>. QED
  BY <1>1, <1>2, PTL DEF Spec

-----------------------------------------------------------------------------
(* CreateInv.  Every step moves one request; Moves(r) says that the others *)
(* stay, that rows are only added, and that keys and payloads are fixed.   *)

Moves(r) ==
    /\ \A s \in Request \ {r} :
          pc'[s] = pc[s] /\ answer'[s] = answer[s] /\ told'[s] = told[s]
    /\ committed \subseteq committed'
    /\ unlogged \subseteq unlogged'
    /\ UNCHANGED <<key, payload>>

\* A step that commits nothing, opens no insertion and ends no committed
\* request keeps CreateInv, if the request it moves stays consistent.
LEMMA QuietStep ==
    ASSUME TypeOK, CreateInv, NEW r \in Request, Moves(r), committed' = committed,
           pc[r] # "done",
           pc'[r] \in {"log", "commit"} => pc[r] \in {"log", "commit"},
           pc'[r] = "resolve" => Twin(r) # {},
           pc'[r] = "aborted" => r \in unlogged',
           answer'[r] = "created" => r \in committed \cup unlogged,
           answer'[r] = "replay" => told'[r] \in Twin(r) /\ payload[told'[r]] = payload[r],
           answer'[r] = "conflict" => \E s \in Twin(r) : payload[s] # payload[r]
    PROVE  CreateInv'
<1>1. \A s, t \in (committed \cup Inserted)' : SameKey(s, t)' => s = t
  <2>1. Inserted' \subseteq Inserted
    BY DEF Moves, Inserted
  <2>. QED
    BY <2>1 DEF CreateInv, Moves, SameKey
<1>2. \A s \in committed' : pc'[s] = "done"
  BY DEF CreateInv, Moves, TypeOK
<1>3. \A s \in Request : Twin(s)' = Twin(s)
  BY DEF Moves, Twin, SameKey
<1>4. \A s \in Request : pc'[s] = "resolve" => Twin(s)' # {}
  BY <1>3 DEF CreateInv, Moves
<1>5. \A s \in Request : pc'[s] = "aborted" => s \in unlogged'
  BY DEF CreateInv, Moves
<1>6. TruthfulAnswers'
  <2>. SUFFICES ASSUME NEW s \in Request
                PROVE  /\ answer'[s] = "created" => s \in committed' \cup unlogged'
                       /\ answer'[s] = "replay" =>
                             /\ told'[s] \in committed' /\ SameKey(s, told[s])'
                             /\ payload'[told'[s]] = payload'[s]
                       /\ answer'[s] = "conflict" =>
                             \E t \in committed' : SameKey(s, t)' /\ payload'[t] # payload'[s]
    BY DEF TruthfulAnswers
  <2>1. CASE s = r
    BY <2>1 DEF Moves, Twin, SameKey
  <2>2. CASE s # r
    BY <2>2 DEF CreateInv, TruthfulAnswers, Moves, SameKey
  <2>. QED
    BY <2>1, <2>2
<1>. QED
  BY <1>1, <1>2, <1>4, <1>5, <1>6 DEF CreateInv

\* Committing the row of a request at its COMMIT keeps CreateInv, whether the
\* caller learns of it or not.
LEMMA CommitStep ==
    ASSUME TypeOK, CreateInv, NEW r \in Request, Moves(r), pc[r] = "commit",
           committed' = committed \cup {r}, pc'[r] = "done",
           answer'[r] \in {"created", "error"}
    PROVE  CreateInv'
<1>1. (committed \cup Inserted)' \subseteq committed \cup Inserted
  BY DEF Moves, Inserted
<1>2. \A s, t \in (committed \cup Inserted)' : SameKey(s, t)' => s = t
  BY <1>1 DEF CreateInv, Moves, SameKey
<1>3. \A s \in committed' : pc'[s] = "done"
  BY DEF CreateInv, Moves, TypeOK
<1>4. \A s \in Request : Twin(s) \subseteq Twin(s)'
  BY DEF Moves, Twin, SameKey
<1>5. \A s \in Request : pc'[s] = "resolve" => Twin(s)' # {}
  BY <1>4 DEF CreateInv, Moves
<1>6. \A s \in Request : pc'[s] = "aborted" => s \in unlogged'
  BY DEF CreateInv, Moves
<1>7. TruthfulAnswers'
  BY DEF CreateInv, TruthfulAnswers, Moves, SameKey
<1>. QED
  BY <1>2, <1>3, <1>5, <1>6, <1>7 DEF CreateInv

\* CreateInv holds of every reachable state.
THEOREM CreateInvariant == Spec => []CreateInv
<1>1. Init => CreateInv
  BY DEF Init, CreateInv, Inserted, TruthfulAnswers
<1>2. TypeOK /\ CreateInv /\ [Next]_vars => CreateInv'
  <2>. SUFFICES ASSUME TypeOK, CreateInv, [Next]_vars
                PROVE  CreateInv'
    OBVIOUS
  <2>. USE DEF TypeOK, Goto, Respond
  <2>1. ASSUME NEW r \in Request, Begin(r) PROVE CreateInv'
    BY <2>1, QuietStep DEF Begin, Moves, CreateInv, TruthfulAnswers, Twin
  <2>2. ASSUME NEW r \in Request, Reject(r) PROVE CreateInv'
    BY <2>2, QuietStep DEF Reject, Moves
  <2>3. ASSUME NEW r \in Request, Acquire(r) PROVE CreateInv'
    BY <2>3, QuietStep DEF Acquire, Moves, CreateInv, TruthfulAnswers, Twin
  <2>4. ASSUME NEW r \in Request, Lookup(r) PROVE CreateInv'
    <3>1. Moves(r) /\ committed' = committed /\ pc[r] = "lookup"
      BY <2>4 DEF Lookup, Moves
    <3>2. CASE Goto(r, "insert") /\ UNCHANGED <<answer, told>>
      BY <3>1, <3>2, QuietStep DEF CreateInv, TruthfulAnswers, Twin
    <3>3. ASSUME NEW s \in Twin(r), payload[s] = payload[r], Respond(r, "replay", s)
          PROVE  CreateInv'
      BY <3>1, <3>3, QuietStep DEF Twin
    <3>4. ASSUME NEW s \in Twin(r), payload[s] # payload[r], Respond(r, "conflict", NoRequest)
          PROVE  CreateInv'
      BY <3>1, <3>4, QuietStep
    <3>. QED
      BY <2>4, <3>2, <3>3, <3>4, Zenon DEF Lookup
  <2>5. ASSUME NEW r \in Request, Insert(r) PROVE CreateInv'
    <3>1. Moves(r) /\ committed' = committed /\ pc[r] = "insert"
      BY <2>5 DEF Insert, Moves
    <3>2. CASE Twin(r) # {}
      BY <2>5, <3>1, <3>2, QuietStep DEF Insert, CreateInv, TruthfulAnswers, Twin
    <3>3. CASE Twin(r) = {}
      <4>1. Inserted' = Inserted \cup {r}
        BY <2>5, <3>3 DEF Insert, Inserted
      <4>2. \A s \in committed \cup Inserted : ~SameKey(r, s) /\ ~SameKey(s, r)
        BY <2>5, <3>3 DEF Insert, Twin, SameKey
      <4>3. \A s, t \in (committed \cup Inserted)' : SameKey(s, t)' => s = t
        BY <3>1, <4>1, <4>2 DEF CreateInv, Moves, SameKey
      <4>4. pc'[r] = "log" /\ UNCHANGED <<answer, told, unlogged>>
        BY <2>5, <3>3 DEF Insert
      <4>5. \A s \in Request : Twin(s)' = Twin(s)
        BY <3>1 DEF Moves, Twin, SameKey
      <4>6. TruthfulAnswers'
        BY <3>1, <4>4 DEF CreateInv, TruthfulAnswers, Moves, SameKey
      <4>. QED
        BY <3>1, <4>3, <4>4, <4>5, <4>6 DEF CreateInv, Moves
    <3>. QED
      BY <3>2, <3>3
  <2>6. ASSUME NEW r \in Request, LogWrite(r) PROVE CreateInv'
    BY <2>6, QuietStep DEF LogWrite, Moves, CreateInv, TruthfulAnswers, Twin
  <2>7. ASSUME NEW r \in Request, Commit(r) PROVE CreateInv'
    BY <2>7, CommitStep DEF Commit, Moves
  <2>8. ASSUME NEW r \in Request, CommitAborted(r) PROVE CreateInv'
    BY <2>8, QuietStep DEF CommitAborted, Moves, CreateInv
  <2>9. ASSUME NEW r \in Request, Resolve(r) PROVE CreateInv'
    <3>1. Moves(r) /\ committed' = committed /\ pc[r] = "resolve" /\ Twin(r) # {}
      BY <2>9 DEF Resolve, Moves, CreateInv
    <3>2. ASSUME NEW s \in Twin(r), payload[s] = payload[r], Respond(r, "replay", s)
          PROVE  CreateInv'
      BY <3>1, <3>2, QuietStep DEF Twin
    <3>3. CASE /\ \A s \in Twin(r) : payload[s] # payload[r]
               /\ Respond(r, "conflict", NoRequest)
      BY <3>1, <3>3, QuietStep
    <3>. QED
      BY <2>9, <3>2, <3>3, Zenon DEF Resolve
  <2>10. ASSUME NEW r \in Request, LogWriteFails(r) PROVE CreateInv'
    BY <2>10, QuietStep DEF LogWriteFails, Moves, CreateInv, TruthfulAnswers, Twin
  <2>11. ASSUME NEW r \in Request, Fails(r) PROVE CreateInv'
    BY <2>11, QuietStep DEF Fails, Moves, InTransaction
  <2>12. ASSUME NEW r \in Request, ResponseLost(r) PROVE CreateInv'
    BY <2>12, CommitStep DEF ResponseLost, Moves
  <2>13. CASE UNCHANGED vars
    BY <2>13 DEF vars, CreateInv, Inserted, SameKey, Twin, TruthfulAnswers
  <2>. QED
    BY <2>1, <2>2, <2>3, <2>4, <2>5, <2>6, <2>7, <2>8, <2>9, <2>10, <2>11, <2>12, <2>13,
       Zenon DEF Next, Progress, Failure
<1>. QED
  BY <1>1, <1>2, TypeCorrect, PTL DEF Spec

\* However requests race on a client_request_id, one committed row carries it.
THEOREM UniqueRow == Spec => []OneRowPerKey
<1>1. CreateInv => OneRowPerKey
  BY DEF CreateInv, OneRowPerKey
<1>. QED
  BY <1>1, CreateInvariant, PTL

\* A response names a row that is there, for the caller's own key and payload,
\* or a conflict that is one.
THEOREM AnswersTruthful == Spec => []TruthfulAnswers
<1>1. CreateInv => TruthfulAnswers
  BY DEF CreateInv
<1>. QED
  BY <1>1, CreateInvariant, PTL
=============================================================================

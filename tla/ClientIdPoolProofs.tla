-------------------------- MODULE ClientIdPoolProofs --------------------------
(***************************************************************************)
(* Type correctness of ClientIdPool, exclusiveness of the client ids, and  *)
(* the refinement of the leases of ClientIdLease, for every set of         *)
(* processes and ids, every TTL and every candidate list.                  *)
(***************************************************************************)
EXTENDS ClientIdPool, TLAPS

USE PoolAssumption

(* The pool offers only ids of its range. *)
LEMMA CandidatesInRange == \A s \in CandidateSets : s \subseteq Ids
  BY DEF CandidateSets

(* A step into an attempt of connect() keeps pc and left well typed. *)
LEMMA BeginAttemptType ==
  ASSUME TypeOK, NEW p \in Proc, NEW id, BeginAttempt(p, id)
  PROVE  /\ pc' \in [Proc -> Steps]
         /\ left' \in [Proc -> SUBSET Ids]
         /\ pc'[p] \in {"dial", "probe"}
         /\ \A q \in Proc \ {p} : pc'[q] = pc[q]
  BY CandidatesInRange DEF BeginAttempt, Goto, TypeOK, Steps

LEMMA AttemptFailsType ==
  ASSUME TypeOK, NEW p \in Proc, NEW retriable \in BOOLEAN, AttemptFails(p, retriable)
  PROVE  /\ pc' \in [Proc -> Steps]
         /\ left' \in [Proc -> SUBSET Ids]
         /\ clientId' \in [Proc -> Dialed \cup {NoId}]
         /\ held' \in [Proc -> Ids \cup {NoId}]
         /\ attempt' \in [Proc -> 1 .. MaxAttempts]
         /\ lastErr' \in [Proc -> BOOLEAN]
         /\ entered' \in [Proc -> BOOLEAN]
         /\ pc'[p] \in {"dial", "probe", "live", "idle"}
         /\ \A q \in Proc \ {p} : pc'[q] = pc[q] /\ held'[q] = held[q]
         /\ held'[p] = held[p] \/ held'[p] = NoId
  <1>1. lastErr' \in [Proc -> BOOLEAN]
    BY DEF AttemptFails, TypeOK
  <1>2. CASE /\ retriable /\ attempt[p] < MaxAttempts
             /\ attempt' = [attempt EXCEPT ![p] = @ + 1]
             /\ BeginAttempt(p, clientId[p])
             /\ UNCHANGED <<clientId, held, entered>>
    <2>1. attempt[p] + 1 \in 1 .. MaxAttempts
      BY <1>2 DEF TypeOK
    <2>2. attempt' \in [Proc -> 1 .. MaxAttempts]
      BY <1>2, <2>1 DEF TypeOK
    <2>3. QED
      BY <1>1, <1>2, <2>2, BeginAttemptType DEF TypeOK
  <1>3. CASE entered[p] /\ Goto(p, "live") /\ attempt' = [attempt EXCEPT ![p] = 1]
             /\ UNCHANGED <<left, clientId, held, entered>>
    BY <1>1, <1>3 DEF TypeOK, Goto, Steps
  <1>4. CASE /\ Goto(p, "idle")
             /\ attempt' = [attempt EXCEPT ![p] = 1]
             /\ clientId' = [clientId EXCEPT ![p] = NoId]
             /\ held' = [held EXCEPT ![p] = NoId]
             /\ left' = [left EXCEPT ![p] = {}]
             /\ UNCHANGED entered
    BY <1>1, <1>4 DEF TypeOK, Goto, Steps
  <1>5. QED
    BY <1>2, <1>3, <1>4, Zenon DEF AttemptFails

-------------------------------------------------------------------------------
(* Every variable keeps its type: in particular no attempt exceeds          *)
(* max_attempts and no session remembers an id nobody configured or pooled. *)
THEOREM TypeCorrect == Spec => []TypeOK
  <1>1. Init => TypeOK
    BY DEF Init, TypeOK, Steps
  <1>2. TypeOK /\ [Next]_vars => TypeOK'
    <2> SUFFICES ASSUME TypeOK, [Next]_vars PROVE TypeOK'
      OBVIOUS
    <2>1. ASSUME NEW p \in Proc, Open(p) PROVE TypeOK'
      <3>1. PICK id \in Configured : /\ clientId' = [clientId EXCEPT ![p] = id]
                                     /\ BeginAttempt(p, id)
        BY <2>1 DEF Open
      <3>2. clientId' \in [Proc -> Dialed \cup {NoId}]
        BY <3>1 DEF TypeOK, Dialed
      <3>3. QED
        BY <2>1, <3>1, <3>2, BeginAttemptType DEF Open, TypeOK
    <2>2. ASSUME NEW p \in Proc, Probe(p) PROVE TypeOK'
      BY <2>2 DEF Probe, TypeOK, Goto, Steps, sess
    <2>3. ASSUME NEW p \in Proc, Exhausted(p) PROVE TypeOK'
      <3>1. lastErr[p] \in BOOLEAN /\ AttemptFails(p, lastErr[p])
        BY <2>3 DEF Exhausted, TypeOK
      <3>2. UNCHANGED <<file, age, conn, cand, raced, wronged>>
        BY <2>3 DEF Exhausted
      <3>3. \A q \in Proc : pc'[q] \in {"stat", "unlink", "create", "connect"}
                              => pc'[q] = pc[q]
        BY <3>1, AttemptFailsType
      <3>4. QED
        BY <3>1, <3>2, <3>3, AttemptFailsType DEF TypeOK
    <2>4. ASSUME NEW p \in Proc, Stat(p) PROVE TypeOK'
      <3>1. CASE UNCHANGED <<cand, left, sess>>
        BY <2>4, <3>1 DEF Stat, TypeOK, Goto, Steps, sess, AttemptFails
      <3>2. CASE cand' = [cand EXCEPT ![p] = NoId] /\ AttemptFails(p, TRUE)
        BY <2>4, <3>2, AttemptFailsType DEF Stat, TypeOK
      <3>3. QED
        BY <2>4, <3>1, <3>2 DEF Stat
    <2>5. ASSUME NEW p \in Proc, Unlink(p) PROVE TypeOK'
      <3>1. wronged' \subseteq Ids
        BY <2>5 DEF Unlink, TypeOK, Claims
      <3>2. QED
        BY <2>5, <3>1 DEF Unlink, Remove, TypeOK, Goto, Steps, sess
    <2>6. ASSUME NEW p \in Proc, Create(p) PROVE TypeOK'
      BY <2>6 DEF Create, TypeOK, Goto, Steps, sess
    <2>7. ASSUME NEW p \in Proc, ConnectOK(p) PROVE TypeOK'
      <3>1. cand[p] \in Ids /\ cand[p] \in Dialed
        BY <2>7 DEF ConnectOK, TypeOK, Dialed
      <3>2. QED
        BY <2>7, <3>1 DEF ConnectOK, TypeOK, Goto, Steps
    <2>8. ASSUME NEW p \in Proc, ConnectFails(p) PROVE TypeOK'
      BY <2>8 DEF ConnectFails, Remove, TypeOK, Goto, Steps
    <2>9. ASSUME NEW p \in Proc, Dial(p) PROVE TypeOK'
      <3>1. CASE \E retriable \in BOOLEAN : AttemptFails(p, retriable) /\ UNCHANGED conn
        BY <2>9, <3>1, AttemptFailsType DEF Dial, TypeOK
      <3>2. CASE /\ conn' = [conn EXCEPT ![clientId[p]] = p]
                 /\ Goto(p, "mdt")
                 /\ UNCHANGED <<left, sess>>
        BY <2>9, <3>2 DEF Dial, TypeOK, Goto, Steps, sess
      <3>3. QED
        BY <2>9, <3>1, <3>2 DEF Dial
    <2>10. ASSUME NEW p \in Proc, MarketDataType(p) PROVE TypeOK'
      <3>1. CASE AttemptFails(p, TRUE)
        BY <2>10, <3>1, AttemptFailsType DEF MarketDataType, TypeOK
      <3>2. CASE /\ Goto(p, "live")
                 /\ attempt' = [attempt EXCEPT ![p] = 1]
                 /\ entered' = [entered EXCEPT ![p] = TRUE]
                 /\ UNCHANGED <<left, clientId, held, lastErr>>
        BY <2>10, <3>2 DEF MarketDataType, TypeOK, Goto, Steps
      <3>3. QED
        BY <2>10, <3>1, <3>2 DEF MarketDataType
    <2>11. ASSUME NEW p \in Proc, EnsureConnected(p) PROVE TypeOK'
      BY <2>11, BeginAttemptType DEF EnsureConnected, TypeOK, sess
    <2>12. ASSUME NEW p \in Proc, Disconnect(p) PROVE TypeOK'
      BY <2>12 DEF Disconnect, TypeOK, Goto, Steps, sess
    <2>13. ASSUME NEW p \in Proc, Release(p) PROVE TypeOK'
      BY <2>13 DEF Release, Remove, TypeOK, Goto, Steps
    <2>14. ASSUME NEW p \in Proc, Crash(p) PROVE TypeOK'
      BY <2>14 DEF Crash, TypeOK, Goto, Steps
    <2>15. ASSUME NEW c \in Dialed, Drop(c) PROVE TypeOK'
      BY <2>15 DEF Drop, TypeOK, sess
    <2>16. CASE Tick
      <3>1. age' \in [Ids -> 0 .. TTL + 1]
        BY <2>16 DEF Tick, TypeOK
      <3>2. QED
        BY <2>16, <3>1 DEF Tick, TypeOK, sess
    <2>17. CASE UNCHANGED vars
      BY <2>17 DEF vars, sess, TypeOK
    <2>18. QED
      BY <2>1, <2>2, <2>3, <2>4, <2>5, <2>6, <2>7, <2>8, <2>9, <2>10, <2>11,
         <2>12, <2>13, <2>14, <2>15, <2>16, <2>17 DEF Next, Connecting, Using
  <1>3. QED
    BY <1>1, <1>2, PTL DEF Spec

-------------------------------------------------------------------------------
(* Who is about to unlink a lock still has the expired file before it, or    *)
(* somebody has removed that file since.                                    *)
Sighted == \A p \in Proc :
    pc[p] = "unlink" /\ p \notin raced => file[cand[p]] # NoProc /\ age[cand[p]] > TTL

(* A step of p into no unlink keeps the sightings, when it removes no lock,  *)
(* changes no lock that is there, and takes nobody out of raced but p.      *)
LEMMA SightKept ==
  ASSUME TypeOK, Sighted, NEW p \in Proc,
         \A c \in Ids : file[c] # NoProc => file'[c] # NoProc /\ age'[c] = age[c],
         raced \ {p} \subseteq raced', pc'[p] # "unlink",
         \A q \in Proc \ {p} : pc'[q] = pc[q] /\ cand'[q] = cand[q]
  PROVE  Sighted'
  BY DEF Sighted, TypeOK

(* A removal puts those who had that lock before them into raced. *)
LEMMA SightRaced ==
  ASSUME TypeOK, Sighted, NEW p \in Proc, NEW c \in Ids, Remove(p, c), pc'[p] # "unlink",
         \A q \in Proc \ {p} : pc'[q] = pc[q] /\ cand'[q] = cand[q]
  PROVE  Sighted'
  BY DEF Sighted, Remove, TypeOK

LEMMA SightedStep == TypeOK /\ Sighted /\ [Next]_vars => Sighted'
  <1> SUFFICES ASSUME TypeOK, Sighted, [Next]_vars PROVE Sighted'
    OBVIOUS
  <1>1. ASSUME NEW p \in Proc, NEW retriable \in BOOLEAN, AttemptFails(p, retriable),
               UNCHANGED <<file, age, raced>>,
               \A q \in Proc \ {p} : cand'[q] = cand[q]
        PROVE  Sighted'
    BY <1>1, AttemptFailsType, SightKept
  <1>2. ASSUME NEW p \in Proc, Open(p) \/ EnsureConnected(p) PROVE Sighted'
    <2>1. PICK id : BeginAttempt(p, id)
      BY <1>2 DEF Open, EnsureConnected
    <2>2. QED
      BY <1>2, <2>1, BeginAttemptType, SightKept DEF Open, EnsureConnected
  <1>3. ASSUME NEW p \in Proc, Probe(p) PROVE Sighted'
    BY <1>3, SightKept DEF Probe, Goto, TypeOK
  <1>4. ASSUME NEW p \in Proc, Exhausted(p) PROVE Sighted'
    BY <1>1, <1>4 DEF Exhausted, TypeOK
  <1>5. ASSUME NEW p \in Proc, Stat(p) PROVE Sighted'
    <2>1. CASE /\ file[cand[p]] # NoProc /\ age[cand[p]] > TTL
               /\ Goto(p, "unlink") /\ UNCHANGED <<cand, left, sess>>
      BY <1>5, <2>1 DEF Stat, Goto, Sighted, TypeOK
    <2>2. CASE Goto(p, "create") /\ UNCHANGED <<cand, left, sess>>
      BY <1>5, <2>2, SightKept DEF Stat, Goto, TypeOK
    <2>3. CASE cand' = [cand EXCEPT ![p] = NoId] /\ AttemptFails(p, TRUE)
      BY <1>1, <1>5, <2>3 DEF Stat, TypeOK
    <2>4. QED
      BY <1>5, <2>1, <2>2, <2>3 DEF Stat
  <1>6. ASSUME NEW p \in Proc, Unlink(p) PROVE Sighted'
    BY <1>6, SightRaced DEF Unlink, Goto, TypeOK
  <1>7. ASSUME NEW p \in Proc, Create(p) PROVE Sighted'
    BY <1>7, SightKept DEF Create, Goto, TypeOK
  <1>8. ASSUME NEW p \in Proc, ConnectOK(p) PROVE Sighted'
    BY <1>8, SightKept DEF ConnectOK, Goto, TypeOK
  <1>9. ASSUME NEW p \in Proc, ConnectFails(p) PROVE Sighted'
    BY <1>9, SightRaced DEF ConnectFails, Goto, TypeOK
  <1>10. ASSUME NEW p \in Proc, Dial(p) PROVE Sighted'
    <2>1. CASE Goto(p, "mdt")
      BY <1>10, <2>1, SightKept DEF Dial, Goto, TypeOK
    <2>2. CASE \E retriable \in BOOLEAN : AttemptFails(p, retriable)
      BY <1>1, <1>10, <2>2 DEF Dial
    <2>3. QED
      BY <1>10, <2>1, <2>2 DEF Dial
  <1>11. ASSUME NEW p \in Proc, MarketDataType(p) PROVE Sighted'
    <2>1. CASE Goto(p, "live")
      BY <1>11, <2>1, SightKept DEF MarketDataType, Goto, TypeOK
    <2>2. CASE AttemptFails(p, TRUE)
      BY <1>1, <1>11, <2>2 DEF MarketDataType
    <2>3. QED
      BY <1>11, <2>1, <2>2 DEF MarketDataType
  <1>12. ASSUME NEW p \in Proc, Disconnect(p) PROVE Sighted'
    BY <1>12, SightKept DEF Disconnect, Goto, TypeOK
  <1>13. ASSUME NEW p \in Proc, Release(p) PROVE Sighted'
    <2>1. CASE held[p] = NoId
      BY <1>13, <2>1, SightKept DEF Release, Goto, TypeOK
    <2>2. CASE held[p] # NoId
      BY <1>13, <2>2, SightRaced DEF Release, Goto, TypeOK
    <2>3. QED
      BY <2>1, <2>2
  <1>14. ASSUME NEW p \in Proc, Crash(p) PROVE Sighted'
    BY <1>14, SightKept DEF Crash, Goto, TypeOK
  <1>15. CASE UNCHANGED <<file, age, pc, cand, raced>>
    BY <1>15 DEF Sighted
  <1>16. CASE Tick
    <2>1. ASSUME NEW c \in Ids, age[c] > TTL PROVE age'[c] = age[c]
      <3>1. age[c] \in Int /\ TTL \in Int
        BY DEF TypeOK
      <3>2. ~(age[c] <= TTL)
        BY <2>1, <3>1
      <3>3. QED
        BY <1>16, <3>2 DEF Tick
    <2>2. UNCHANGED <<file, pc, cand, raced>>
      BY <1>16 DEF Tick
    <2>3. QED
      BY <2>1, <2>2 DEF Sighted, TypeOK
  <1>17. QED
    BY <1>2, <1>3, <1>4, <1>5, <1>6, <1>7, <1>8, <1>9, <1>10, <1>11, <1>12, <1>13,
       <1>14, <1>15, <1>16 DEF Next, Connecting, Using, Drop, vars

-------------------------------------------------------------------------------
(* A step of p that leaves the lock files alone and gives p no new claim    *)
(* keeps every claim backed.                                                *)
LEMMA QuietStep ==
  ASSUME TypeOK, ClaimBacked, NEW p \in Proc,
         file' = file, wronged' = wronged,
         \A q \in Proc \ {p} : pc'[q] = pc[q] /\ cand'[q] = cand[q] /\ held'[q] = held[q],
         \A c \in Ids : Claims(p, c)' => Claims(p, c)
  PROVE  ClaimBacked'
  <1>1. \A q \in Proc \ {p}, c \in Ids : Claims(q, c)' => Claims(q, c)
    BY DEF Claims
  <1>2. \A q \in Proc, c \in Ids : Claims(q, c)' => Claims(q, c)
    BY <1>1
  <1>3. QED
    BY <1>2 DEF ClaimBacked

(* Removing a lock file that p wrote, or one that no other process still    *)
(* relies on, keeps every claim backed once p has given its claim up.       *)
LEMMA RemovingStep ==
  ASSUME TypeOK, ClaimBacked, NEW p \in Proc, NEW c \in Ids,
         file' = [file EXCEPT ![c] = NoProc], wronged \subseteq wronged',
         \A q \in Proc \ {p} : pc'[q] = pc[q] /\ cand'[q] = cand[q] /\ held'[q] = held[q],
         \A d \in Ids : Claims(p, d)' => Claims(p, d) /\ d # c,
         c \in wronged' \/ \A q \in Proc \ {p} : ~Claims(q, c)
  PROVE  ClaimBacked'
  BY DEF ClaimBacked, Claims, TypeOK

(* If p claims c and c was never wronged, nobody else does. *)
LEMMA SoleClaim ==
  ASSUME ClaimBacked, NEW p \in Proc, NEW c \in Ids, Claims(p, c)
  PROVE  c \in wronged \/ \A q \in Proc \ {p} : ~Claims(q, c)
  BY DEF ClaimBacked

(* ClaimBacked is inductive given the types and the sightings; one step per  *)
(* action.                                                                  *)
LEMMA ClaimBackedStep ==
  TypeOK /\ TypeOK' /\ Sighted /\ ClaimBacked /\ [Next]_vars => ClaimBacked'
  <1> SUFFICES ASSUME TypeOK, TypeOK', Sighted, ClaimBacked, [Next]_vars PROVE ClaimBacked'
    OBVIOUS
  <1>1. ASSUME NEW p \in Proc, Open(p) PROVE ClaimBacked'
    <2>1. PICK id \in Configured : BeginAttempt(p, id)
      BY <1>1 DEF Open
    <2>2. QED
      BY <1>1, <2>1, BeginAttemptType, QuietStep DEF Open, Claims, TypeOK
  <1>2. ASSUME NEW p \in Proc, Probe(p) PROVE ClaimBacked'
    BY <1>2, QuietStep DEF Probe, Claims, TypeOK, Goto, sess
  <1>3. ASSUME NEW p \in Proc, NEW retriable \in BOOLEAN, AttemptFails(p, retriable),
               UNCHANGED <<file, wronged>>, pc[p] # "connect",
               \A q \in Proc \ {p} : cand'[q] = cand[q]
        PROVE  ClaimBacked'
    BY <1>3, AttemptFailsType, QuietStep DEF Claims
  <1>4. ASSUME NEW p \in Proc, Exhausted(p) PROVE ClaimBacked'
    BY <1>3, <1>4 DEF Exhausted, TypeOK
  <1>5. ASSUME NEW p \in Proc, Stat(p) PROVE ClaimBacked'
    <2>1. CASE UNCHANGED <<cand, left, sess>> /\ Goto(p, "unlink")
      BY <1>5, <2>1, QuietStep DEF Stat, Claims, TypeOK, Goto, sess
    <2>2. CASE UNCHANGED <<cand, left, sess>> /\ Goto(p, "create")
      BY <1>5, <2>2, QuietStep DEF Stat, Claims, TypeOK, Goto, sess
    <2>3. CASE cand' = [cand EXCEPT ![p] = NoId] /\ AttemptFails(p, TRUE)
      BY <1>3, <1>5, <2>3 DEF Stat, TypeOK
    <2>4. QED
      BY <1>5, <2>1, <2>2, <2>3 DEF Stat
  <1>6. ASSUME NEW p \in Proc, Unlink(p) PROVE ClaimBacked'
    <2>0. age[cand[p]] > TTL \/ p \in raced
      BY <1>6 DEF Unlink, Sighted
    <2>1. CASE \E q \in Proc : file[cand[p]] = q /\ Claims(q, cand[p])
      BY <1>6, <2>0, <2>1 DEF Unlink, Remove, Goto, ClaimBacked, Claims, TypeOK, sess
    <2>2. CASE ~ \E q \in Proc : file[cand[p]] = q /\ Claims(q, cand[p])
      BY <1>6, <2>2 DEF Unlink, Remove, Goto, ClaimBacked, Claims, TypeOK, sess
    <2>3. QED
      BY <2>1, <2>2
  <1>7. ASSUME NEW p \in Proc, Create(p) PROVE ClaimBacked'
    <2>1. CASE file[cand[p]] = NoProc /\ file' = [file EXCEPT ![cand[p]] = p]
      BY <1>7, <2>1 DEF Create, Goto, ClaimBacked, Claims, TypeOK, sess
    <2>2. CASE UNCHANGED file
      BY <1>7, <2>2, QuietStep DEF Create, Goto, Claims, TypeOK, sess
    <2>3. QED
      BY <1>7, <2>1, <2>2 DEF Create
  <1>8. ASSUME NEW p \in Proc, ConnectOK(p) PROVE ClaimBacked'
    BY <1>8, QuietStep DEF ConnectOK, Goto, Claims, TypeOK
  <1>9. ASSUME NEW p \in Proc, ConnectFails(p) PROVE ClaimBacked'
    <2>1. cand[p] \in Ids /\ Claims(p, cand[p])
      BY <1>9 DEF ConnectFails, Claims, TypeOK
    <2>2. file' = [file EXCEPT ![cand[p]] = NoProc] /\ wronged' = wronged
      BY <1>9 DEF ConnectFails, Remove
    <2>3. /\ \A q \in Proc \ {p} : /\ pc'[q] = pc[q]
                                   /\ cand'[q] = cand[q]
                                   /\ held'[q] = held[q]
          /\ \A d \in Ids : ~Claims(p, d)'
      BY <1>9 DEF ConnectFails, Goto, Claims, TypeOK
    <2>4. cand[p] \in wronged \/ \A q \in Proc \ {p} : ~Claims(q, cand[p])
      BY <2>1, SoleClaim
    <2>5. QED
      BY <2>1, <2>2, <2>3, <2>4, RemovingStep
  <1>10. ASSUME NEW p \in Proc, Dial(p) PROVE ClaimBacked'
    <2>1. CASE \E retriable \in BOOLEAN : AttemptFails(p, retriable)
      BY <1>3, <1>10, <2>1 DEF Dial, TypeOK
    <2>2. CASE Goto(p, "mdt") /\ UNCHANGED <<left, sess>>
      BY <1>10, <2>2, QuietStep DEF Dial, Goto, Claims, TypeOK, sess
    <2>3. QED
      BY <1>10, <2>1, <2>2 DEF Dial
  <1>11. ASSUME NEW p \in Proc, MarketDataType(p) PROVE ClaimBacked'
    <2>1. CASE AttemptFails(p, TRUE)
      BY <1>3, <1>11, <2>1 DEF MarketDataType, TypeOK
    <2>2. CASE Goto(p, "live") /\ UNCHANGED <<left, clientId, held, lastErr>>
      BY <1>11, <2>2, QuietStep DEF MarketDataType, Goto, Claims, TypeOK
    <2>3. QED
      BY <1>11, <2>1, <2>2 DEF MarketDataType
  <1>12. ASSUME NEW p \in Proc, EnsureConnected(p) PROVE ClaimBacked'
    BY <1>12, BeginAttemptType, QuietStep DEF EnsureConnected, Claims, sess, TypeOK
  <1>13. ASSUME NEW p \in Proc, Disconnect(p) PROVE ClaimBacked'
    BY <1>13, QuietStep DEF Disconnect, Goto, Claims, TypeOK, sess
  <1>14. ASSUME NEW p \in Proc, Release(p) PROVE ClaimBacked'
    <2>1. CASE held[p] = NoId
      BY <1>14, <2>1, QuietStep DEF Release, Goto, Claims, TypeOK
    <2>2. CASE held[p] # NoId
      <3>1. held[p] \in Ids /\ Claims(p, held[p])
        BY <2>2 DEF Claims, TypeOK
      <3>2. file' = [file EXCEPT ![held[p]] = NoProc] /\ wronged' = wronged
        BY <1>14, <2>2 DEF Release, Remove
      <3>3. /\ \A q \in Proc \ {p} : /\ pc'[q] = pc[q]
                                     /\ cand'[q] = cand[q]
                                     /\ held'[q] = held[q]
            /\ \A d \in Ids : ~Claims(p, d)'
        BY <1>14 DEF Release, Goto, Claims, TypeOK
      <3>4. held[p] \in wronged \/ \A q \in Proc \ {p} : ~Claims(q, held[p])
        BY <3>1, SoleClaim
      <3>5. QED
        BY <3>1, <3>2, <3>3, <3>4, RemovingStep
    <2>3. QED
      BY <2>1, <2>2
  <1>15. ASSUME NEW p \in Proc, Crash(p) PROVE ClaimBacked'
    BY <1>15, QuietStep DEF Crash, Goto, Claims, TypeOK
  <1>16. ASSUME NEW c \in Dialed, Drop(c) PROVE ClaimBacked'
    BY <1>16 DEF Drop, ClaimBacked, Claims, sess
  <1>17. CASE Tick
    BY <1>17 DEF Tick, ClaimBacked, Claims, sess
  <1>18. CASE UNCHANGED vars
    BY <1>18 DEF vars, sess, ClaimBacked, Claims
  <1>19. QED
    BY <1>1, <1>2, <1>4, <1>5, <1>6, <1>7, <1>8, <1>9, <1>10, <1>11, <1>12, <1>13,
       <1>14, <1>15, <1>16, <1>17, <1>18 DEF Next, Connecting, Using

LEMMA SightsHold == Spec => []Sighted
  <1>1. Init => Sighted
    BY DEF Init, Sighted
  <1>2. QED
    BY <1>1, SightedStep, TypeCorrect, PTL DEF Spec

(* A session's lock file stays its own until the id is wronged: releases    *)
(* and failed connects of others never remove it, nor does an unlink that   *)
(* no sighting of an expired lock came before.                              *)
THEOREM ClaimsStayBacked == Spec => []ClaimBacked
  <1>1. Init => ClaimBacked
    BY DEF Init, ClaimBacked, Claims
  <1>2. QED
    BY <1>1, ClaimBackedStep, SightsHold, TypeCorrect, PTL DEF Spec

(* Two processes hold one client id only if the lock of a live holder was   *)
(* removed for its age, or by a process that had found an earlier lock of   *)
(* the id expired.                                                          *)
THEOREM ExclusiveIds == Spec => []Exclusive
  <1>1. ClaimBacked => Exclusive
    BY DEF ClaimBacked, Exclusive
  <1>2. QED
    BY <1>1, ClaimsStayBacked, PTL
-------------------------------------------------------------------------------
(* A process holds at most one lock: while it walks the pool, and before it  *)
(* knows its id, its session remembers no lock file.                         *)
OneLock == \A p \in Proc :
    /\ clientId[p] = NoId => held[p] = NoId
    /\ pc[p] \in {"idle", "probe", "stat", "unlink", "create", "connect"}
          => held[p] = NoId

LEMMA OneLockAfterFailure ==
  ASSUME TypeOK, OneLock, NEW p \in Proc, NEW retriable \in BOOLEAN,
         AttemptFails(p, retriable)
  PROVE  OneLock'
  <1>1. CASE BeginAttempt(p, clientId[p]) /\ UNCHANGED <<clientId, held>>
    BY <1>1 DEF BeginAttempt, Goto, OneLock, TypeOK
  <1>2. CASE Goto(p, "live") /\ UNCHANGED <<clientId, held>>
    BY <1>2 DEF Goto, OneLock, TypeOK
  <1>3. CASE Goto(p, "idle") /\ held' = [held EXCEPT ![p] = NoId]
             /\ clientId' = [clientId EXCEPT ![p] = NoId]
    BY <1>3 DEF Goto, OneLock, TypeOK
  <1>4. QED
    BY <1>1, <1>2, <1>3 DEF AttemptFails

LEMMA OneLockStep == TypeOK /\ OneLock /\ [Next]_vars => OneLock'
  <1> SUFFICES ASSUME TypeOK, OneLock, [Next]_vars PROVE OneLock'
    OBVIOUS
  <1>1. ASSUME NEW p \in Proc, Open(p) PROVE OneLock'
    <2>1. PICK id \in Configured : /\ clientId' = [clientId EXCEPT ![p] = id]
                                   /\ BeginAttempt(p, id)
      BY <1>1 DEF Open
    <2>2. held[p] = NoId /\ held' = held
      BY <1>1 DEF Open, OneLock
    <2>3. QED
      BY <2>1, <2>2 DEF BeginAttempt, Goto, OneLock, TypeOK
  <1>2. ASSUME NEW p \in Proc, Probe(p) PROVE OneLock'
    BY <1>2 DEF Probe, Goto, OneLock, TypeOK, sess
  <1>3. ASSUME NEW p \in Proc, Exhausted(p) PROVE OneLock'
    BY <1>3, OneLockAfterFailure DEF Exhausted, TypeOK
  <1>4. ASSUME NEW p \in Proc, Stat(p) PROVE OneLock'
    <2>1. CASE UNCHANGED sess /\ (Goto(p, "unlink") \/ Goto(p, "create"))
      BY <1>4, <2>1 DEF Stat, Goto, OneLock, TypeOK, sess
    <2>2. QED
      BY <1>4, <2>1, OneLockAfterFailure DEF Stat
  <1>5. ASSUME NEW p \in Proc, Unlink(p) PROVE OneLock'
    BY <1>5 DEF Unlink, Goto, OneLock, TypeOK, sess
  <1>6. ASSUME NEW p \in Proc, Create(p) PROVE OneLock'
    BY <1>6 DEF Create, Goto, OneLock, TypeOK, sess
  <1>7. ASSUME NEW p \in Proc, ConnectOK(p) PROVE OneLock'
    BY <1>7 DEF ConnectOK, Goto, OneLock, TypeOK
  <1>8. ASSUME NEW p \in Proc, ConnectFails(p) PROVE OneLock'
    BY <1>8 DEF ConnectFails, Goto, OneLock, TypeOK
  <1>9. ASSUME NEW p \in Proc, Dial(p) PROVE OneLock'
    <2>1. CASE Goto(p, "mdt") /\ UNCHANGED sess
      BY <2>1 DEF Goto, OneLock, TypeOK, sess
    <2>2. QED
      BY <1>9, <2>1, OneLockAfterFailure DEF Dial
  <1>10. ASSUME NEW p \in Proc, MarketDataType(p) PROVE OneLock'
    <2>1. CASE Goto(p, "live") /\ UNCHANGED <<clientId, held>>
      BY <2>1 DEF Goto, OneLock, TypeOK
    <2>2. QED
      BY <1>10, <2>1, OneLockAfterFailure DEF MarketDataType
  <1>11. ASSUME NEW p \in Proc, EnsureConnected(p) PROVE OneLock'
    BY <1>11 DEF EnsureConnected, BeginAttempt, Goto, OneLock, TypeOK, sess
  <1>12. ASSUME NEW p \in Proc, Disconnect(p) PROVE OneLock'
    BY <1>12 DEF Disconnect, Goto, OneLock, TypeOK, sess
  <1>13. ASSUME NEW p \in Proc, Release(p) PROVE OneLock'
    BY <1>13 DEF Release, Goto, OneLock, TypeOK
  <1>14. ASSUME NEW p \in Proc, Crash(p) PROVE OneLock'
    BY <1>14 DEF Crash, Goto, OneLock, TypeOK
  <1>15. ASSUME NEW c \in Dialed, Drop(c) PROVE OneLock'
    BY <1>15 DEF Drop, OneLock, sess
  <1>16. CASE Tick
    BY <1>16 DEF Tick, OneLock, sess
  <1>17. CASE UNCHANGED vars
    BY <1>17 DEF vars, sess, OneLock
  <1>18. QED
    BY <1>1, <1>2, <1>3, <1>4, <1>5, <1>6, <1>7, <1>8, <1>9, <1>10, <1>11, <1>12, <1>13,
       <1>14, <1>15, <1>16, <1>17 DEF Next, Connecting, Using

-------------------------------------------------------------------------------
(* The lease the lock files stand for, and what it reads in terms of claims, *)
(* ages and sightings.                                                       *)
Leased == [c \in Ids |-> LeaseOwner(c)]
Marks  == [c \in Ids |-> LeaseAge(c)]
Judges(p, c) == pc[p] = "unlink" /\ cand[p] = c

LEMMA LeasedToClaimant ==
  ASSUME ClaimBacked
  PROVE  /\ \A c \in Ids \cap wronged : Leased[c] = Spoiled
         /\ \A c \in Ids \ wronged :
              /\ Leased[c] \in Proc \cup {NoProc}
              /\ \A p \in Proc : Leased[c] = p <=> Claims(p, c)
  BY Zenon DEF ClaimBacked, Leased, LeaseOwner

LEMMA LeasedToClaimantNext ==
  ASSUME ClaimBacked'
  PROVE  /\ \A c \in Ids \cap wronged' : Leased'[c] = Spoiled
         /\ \A c \in Ids \ wronged' :
              /\ Leased'[c] \in Proc \cup {NoProc}
              /\ \A p \in Proc : Leased'[c] = p <=> Claims(p, c)'
  BY Zenon DEF ClaimBacked, Leased, LeaseOwner, Spoiled

LEMMA JudgementsRead ==
  /\ Judgements \subseteq Proc \X Ids
  /\ \A p \in Proc, c \in Ids : <<p, c>> \in Judgements <=> c \notin wronged /\ Judges(p, c)
  BY DEF Judgements, Judges

LEMMA JudgementsReadNext ==
  /\ Judgements' \subseteq Proc \X Ids
  /\ \A p \in Proc, c \in Ids : <<p, c>> \in Judgements' <=> c \notin wronged' /\ Judges(p, c)'
  BY DEF Judgements, Judges

(* Sets of judgements are equal when they hold the same pairs. *)
LEMMA SamePairs ==
  ASSUME NEW A, NEW B, A \subseteq Proc \X Ids, B \subseteq Proc \X Ids,
         \A p \in Proc, c \in Ids : <<p, c>> \in A <=> <<p, c>> \in B
  PROVE  A = B
  <1>1. ASSUME NEW j \in Proc \X Ids PROVE j \in A <=> j \in B
    <2>0. j[1] \in Proc /\ j[2] \in Ids /\ j = <<j[1], j[2]>>
      OBVIOUS
    <2>1. PICK p \in Proc, c \in Ids : j = <<p, c>>
      BY <2>0, Zenon
    <2>2. QED
      BY <2>1, Zenon
  <1>2. \A j \in Proc \X Ids : j \in A <=> j \in B
    BY <1>1
  <1>3. QED
    BY <1>2

SameClaims == \A q \in Proc, d \in Ids : Claims(q, d)' <=> Claims(q, d)
SameSights == \A q \in Proc, d \in Ids : Judges(q, d)' <=> Judges(q, d)
LostBy(p)  == \A q \in Proc, d \in Ids : Claims(q, d)' <=> Claims(q, d) /\ q # p

(* A step that changes neither the claims nor the wronged ids changes no    *)
(* lease.                                                                   *)
LEMMA OwnersKept ==
  ASSUME ClaimBacked, ClaimBacked', wronged' = wronged, SameClaims
  PROVE  Leased' = Leased
  <1>1. \A c \in Ids : Leased'[c] = Leased[c]
    BY LeasedToClaimant, LeasedToClaimantNext DEF SameClaims
  <1>2. QED
    BY <1>1 DEF Leased

LEMMA MarksKept ==
  ASSUME wronged' = wronged, age' = age
  PROVE  Marks' = Marks
  BY DEF Marks, LeaseAge

LEMMA JudgementsKept ==
  ASSUME wronged' = wronged, SameSights
  PROVE  Judgements' = Judgements
  <1>1. \A p \in Proc, c \in Ids : <<p, c>> \in Judgements' <=> <<p, c>> \in Judgements
    BY JudgementsRead, JudgementsReadNext DEF SameSights
  <1>2. QED
    BY <1>1, JudgementsRead, JudgementsReadNext, SamePairs

LEMMA LeaseKept ==
  ASSUME ClaimBacked, ClaimBacked', wronged' = wronged, age' = age, SameClaims, SameSights
  PROVE  [Lease!LNext]_(Lease!lvars)
  BY OwnersKept, MarksKept, JudgementsKept DEF Lease!lvars, Leased, Marks

(* The mark of c is set to 0. *)
LEMMA MarkCleared ==
  ASSUME TypeOK, wronged' = wronged, NEW c \in Ids, age' = [age EXCEPT ![c] = 0]
  PROVE  Marks' = [Marks EXCEPT ![c] = 0]
  BY DEF Marks, LeaseAge, TypeOK

LEMMA MarkOfWronged ==
  ASSUME TypeOK, wronged' = wronged, NEW c \in wronged, age' = [age EXCEPT ![c] = 0]
  PROVE  Marks' = Marks
  BY DEF Marks, LeaseAge, TypeOK

(* p, which claimed nothing, claims c and nothing else changes. *)
Unclaiming(p) == \A d \in Ids : ~Claims(p, d)
Gains(p, c)   == \A q \in Proc, d \in Ids : Claims(q, d)' <=> Claims(q, d) \/ (q = p /\ d = c)

LEMMA LeaseGranted ==
  ASSUME TypeOK, ClaimBacked, ClaimBacked', wronged' = wronged, NEW p \in Proc, NEW c \in Ids,
         Unclaiming(p), Gains(p, c), age' = [age EXCEPT ![c] = 0], SameSights
  PROVE  [Lease!LNext]_(Lease!lvars)
  <1> USE DEF Unclaiming, Gains
  <1>1. \A d \in Ids \ {c} : Leased'[d] = Leased[d]
    BY LeasedToClaimant, LeasedToClaimantNext
  <1>2. CASE c \in wronged
    <2>1. Leased'[c] = Leased[c]
      BY <1>2, LeasedToClaimant, LeasedToClaimantNext
    <2>2. Leased' = Leased
      BY <1>1, <2>1 DEF Leased
    <2>3. QED
      BY <1>2, <2>2, MarkOfWronged, JudgementsKept DEF Lease!lvars, Leased, Marks
  <1>3. CASE c \notin wronged
    <2>1. Leased[c] = NoProc
      <3>1. ASSUME NEW q \in Proc, Claims(q, c) PROVE FALSE
        <4>1. q # p /\ Claims(q, c)' /\ Claims(p, c)'
          BY <3>1
        <4>2. QED
          BY <1>3, <4>1 DEF ClaimBacked
      <3>2. QED
        BY <1>3, <3>1, LeasedToClaimant
    <2>2. \A d \in Ids : Leased[d] # p
      BY LeasedToClaimant, SpoiledAssumption
    <2>3. Leased'[c] = p
      BY <1>3, LeasedToClaimantNext
    <2>4. Leased' = [Leased EXCEPT ![c] = p]
      BY <1>1, <2>3 DEF Leased
    <2>5. Lease!Grant(p, c)
      BY <2>1, <2>2, <2>4, MarkCleared, JudgementsKept DEF Lease!Grant, Leased, Marks
    <2>6. QED
      BY <2>5 DEF Lease!LNext
  <1>4. QED
    BY <1>2, <1>3

(* What p held is nobody's when p, which claimed at most one id, claims it   *)
(* no more and nothing else changes.                                         *)
LEMMA OwnersLost ==
  ASSUME ClaimBacked, ClaimBacked', wronged' = wronged, NEW p \in Proc, LostBy(p)
  PROVE  Leased' = [c \in Ids |-> IF Leased[c] = p THEN NoProc ELSE Leased[c]]
  <1>1. ASSUME NEW c \in Ids \cap wronged
        PROVE  Leased'[c] = IF Leased[c] = p THEN NoProc ELSE Leased[c]
    BY LeasedToClaimant, LeasedToClaimantNext, SpoiledAssumption
  <1>2. ASSUME NEW c \in Ids \ wronged, Claims(p, c)
        PROVE  Leased'[c] = NoProc /\ Leased[c] = p
    <2>1. \A q \in Proc : ~Claims(q, c)'
      BY <1>2 DEF ClaimBacked, LostBy
    <2>2. QED
      BY <1>2, <2>1, LeasedToClaimant, LeasedToClaimantNext
  <1>3. ASSUME NEW c \in Ids \ wronged, ~Claims(p, c)
        PROVE  Leased'[c] = Leased[c] /\ Leased[c] # p
    BY <1>3, LeasedToClaimant, LeasedToClaimantNext DEF LostBy
  <1>4. \A c \in Ids : Leased'[c] = IF Leased[c] = p THEN NoProc ELSE Leased[c]
    BY <1>1, <1>2, <1>3
  <1>5. QED
    BY <1>4 DEF Leased

(* p gives up what it claims and takes the lock file with it. *)
LEMMA LeaseReturned ==
  ASSUME TypeOK, ClaimBacked, ClaimBacked', wronged' = wronged, NEW p \in Proc, NEW c \in Ids,
         \A d \in Ids : Claims(p, d) <=> d = c,
         LostBy(p), age' = [age EXCEPT ![c] = 0], SameSights
  PROVE  [Lease!LNext]_(Lease!lvars)
  <1>1. \A d \in Ids \ {c} : Leased[d] # p
    BY LeasedToClaimant, SpoiledAssumption
  <1>2. CASE c \in wronged
    <2>1. Leased[c] # p
      BY <1>2, LeasedToClaimant, SpoiledAssumption
    <2>2. Leased' = Leased
      BY <1>1, <2>1, OwnersLost DEF Leased
    <2>3. QED
      BY <1>2, <2>2, MarkOfWronged, JudgementsKept DEF Lease!lvars, Leased, Marks
  <1>3. CASE c \notin wronged
    <2>1. Leased[c] = p
      BY <1>3, LeasedToClaimant
    <2>2. Leased' = [Leased EXCEPT ![c] = NoProc]
      BY <1>1, <2>1, OwnersLost DEF Leased
    <2>3. Lease!Return(p, c)
      BY <2>1, <2>2, MarkCleared, JudgementsKept DEF Lease!Return, Leased, Marks
    <2>4. QED
      BY <2>3 DEF Lease!LNext
  <1>4. QED
    BY <1>2, <1>3

(* p gives up what it claims and means to do, and leaves its lock file. *)
LEMMA LeaseLeft ==
  ASSUME ClaimBacked, ClaimBacked', wronged' = wronged, age' = age, NEW p \in Proc, LostBy(p),
         \A q \in Proc, d \in Ids : Judges(q, d)' <=> Judges(q, d) /\ q # p
  PROVE  [Lease!LNext]_(Lease!lvars)
  <1> DEFINE Rest == {j \in Judgements : j[1] # p}
  <1>0. /\ \A q \in Proc, d \in Ids : <<q, d>> \in Judgements' <=> <<q, d>> \in Rest
        /\ Rest \subseteq Proc \X Ids
    BY JudgementsRead, JudgementsReadNext
  <1> HIDE DEF Rest
  <1>1. Judgements' = Rest
    BY <1>0, JudgementsRead, JudgementsReadNext, SamePairs
  <1>2. Lease!Leave(p)
    BY <1>1, OwnersLost, MarksKept DEF Lease!Leave, Leased, Marks, Rest
  <1>3. QED
    BY <1>2 DEF Lease!LNext

(* p finds the lock of c expired. *)
LEMMA LeaseJudged ==
  ASSUME ClaimBacked, ClaimBacked', wronged' = wronged, age' = age, SameClaims,
         NEW p \in Proc, NEW c \in Ids, age[c] > TTL,
         \A q \in Proc, d \in Ids : Judges(q, d)' <=> Judges(q, d) \/ (q = p /\ d = c)
  PROVE  [Lease!LNext]_(Lease!lvars)
  <1>1. CASE c \in wronged
    <2>0. \A q \in Proc, d \in Ids : <<q, d>> \in Judgements' <=> <<q, d>> \in Judgements
      BY <1>1, JudgementsRead, JudgementsReadNext
    <2>1. Judgements' = Judgements
      BY <2>0, JudgementsRead, JudgementsReadNext, SamePairs
    <2>2. QED
      BY <2>1, OwnersKept, MarksKept DEF Lease!lvars, Leased, Marks
  <1>2. CASE c \notin wronged
    <2> DEFINE More == Judgements \cup {<<p, c>>}
    <2>0. /\ \A q \in Proc, d \in Ids : <<q, d>> \in Judgements' <=> <<q, d>> \in More
          /\ More \subseteq Proc \X Ids
      BY <1>2, JudgementsRead, JudgementsReadNext
    <2> HIDE DEF More
    <2>1. Judgements' = More
      BY <2>0, JudgementsRead, JudgementsReadNext, SamePairs
    <2>2. Leased[c] # Spoiled /\ Marks[c] = age[c]
      BY <1>2, LeasedToClaimant, SpoiledAssumption DEF Marks, LeaseAge
    <2>3. Lease!Judge(p, c)
      BY <2>1, <2>2, OwnersKept, MarksKept DEF Lease!Judge, Leased, Marks, More
    <2>4. QED
      BY <2>3 DEF Lease!LNext
  <1>3. QED
    BY <1>1, <1>2

(* p unlinks the lock of c, which no live process claims, or which was       *)
(* wronged before.                                                           *)
LEMMA LeaseBroken ==
  ASSUME TypeOK, ClaimBacked, ClaimBacked', wronged' = wronged, SameClaims,
         NEW p \in Proc, NEW c \in Ids, age' = [age EXCEPT ![c] = 0],
         c \in wronged \/ \A q \in Proc : ~Claims(q, c),
         Judges(p, c),
         \A q \in Proc, d \in Ids : Judges(q, d)' <=> Judges(q, d) /\ q # p
  PROVE  [Lease!LNext]_(Lease!lvars)
  <1>0. \A d \in Ids : Judges(p, d) <=> d = c
    BY DEF Judges
  <1>1. CASE c \in wronged
    <2>0. \A q \in Proc, d \in Ids : <<q, d>> \in Judgements' <=> <<q, d>> \in Judgements
      BY <1>0, <1>1, JudgementsRead, JudgementsReadNext
    <2>1. Judgements' = Judgements
      BY <2>0, JudgementsRead, JudgementsReadNext, SamePairs
    <2>2. QED
      BY <1>1, <2>1, OwnersKept, MarkOfWronged DEF Lease!lvars, Leased, Marks
  <1>2. CASE c \notin wronged
    <2> DEFINE Rest == Judgements \ {<<p, c>>}
    <2>0. /\ \A q \in Proc, d \in Ids : <<q, d>> \in Judgements' <=> <<q, d>> \in Rest
          /\ <<p, c>> \in Judgements /\ Rest \subseteq Proc \X Ids
      BY <1>0, <1>2, JudgementsRead, JudgementsReadNext
    <2> HIDE DEF Rest
    <2>1. Judgements' = Rest
      BY <2>0, JudgementsRead, JudgementsReadNext, SamePairs
    <2>2. Leased[c] = NoProc
      BY <1>2, LeasedToClaimant
    <2>3. Lease!Break(p, c)
      BY <2>0, <2>1, <2>2, OwnersKept, MarkCleared DEF Lease!Break, Leased, Marks, Rest
    <2>4. QED
      BY <2>3 DEF Lease!LNext
  <1>3. QED
    BY <1>1, <1>2

(* p unlinks the lock of c under the live claim of q. *)
LEMMA LeaseSpoiled ==
  ASSUME TypeOK, ClaimBacked, ClaimBacked', NEW p \in Proc, NEW q \in Proc, NEW c \in Ids,
         Claims(q, c), wronged' = wronged \cup {c}, c \notin wronged,
         SameClaims, age' = [age EXCEPT ![c] = 0], Judges(p, c),
         \A r \in Proc, d \in Ids : Judges(r, d)' <=> Judges(r, d) /\ r # p
  PROVE  [Lease!LNext]_(Lease!lvars)
  <1>0. \A d \in Ids : Judges(p, d) <=> d = c
    BY DEF Judges
  <1>1. \A d \in Ids \ {c} : Leased'[d] = Leased[d]
    BY LeasedToClaimant, LeasedToClaimantNext DEF SameClaims
  <1>2. Leased'[c] = Spoiled /\ Leased[c] = q
    BY LeasedToClaimant, LeasedToClaimantNext
  <1>3. Leased' = [Leased EXCEPT ![c] = Spoiled]
    BY <1>1, <1>2 DEF Leased
  <1>4. Marks' = [Marks EXCEPT ![c] = 0]
    BY DEF Marks, LeaseAge, TypeOK
  <1> DEFINE Rest == {j \in Judgements : j[2] # c}
  <1>a. /\ \A r \in Proc, d \in Ids : <<r, d>> \in Judgements' <=> <<r, d>> \in Rest
        /\ <<p, c>> \in Judgements /\ Rest \subseteq Proc \X Ids
    BY <1>0, JudgementsRead, JudgementsReadNext
  <1> HIDE DEF Rest
  <1>5. Judgements' = Rest /\ <<p, c>> \in Judgements
    BY <1>a, JudgementsRead, JudgementsReadNext, SamePairs
  <1>6. Lease!Spoil(p, c)
    BY <1>2, <1>3, <1>4, <1>5 DEF Lease!Spoil, Leased, Marks, Rest
  <1>7. QED
    BY <1>6 DEF Lease!LNext

(* The outcome of a failed attempt, in terms of claims: the session keeps    *)
(* what it claims, or gives up its lock.                                     *)
LEMMA LeaseAfterFailure ==
  ASSUME TypeOK, ClaimBacked, ClaimBacked',
         NEW p \in Proc, NEW retriable \in BOOLEAN, AttemptFails(p, retriable),
         UNCHANGED <<file, age, wronged>>, pc[p] \notin {"connect", "unlink"},
         \A q \in Proc \ {p} : cand'[q] = cand[q]
  PROVE  [Lease!LNext]_(Lease!lvars)
  <1>1. \A q \in Proc \ {p}, d \in Ids : Claims(q, d)' <=> Claims(q, d)
    BY AttemptFailsType DEF Claims
  <1>2. \A d \in Ids : Claims(p, d) <=> held[p] = d
    BY DEF Claims
  <1>3. \A d \in Ids : Claims(p, d)' <=> held'[p] = d
    BY AttemptFailsType DEF Claims
  <1>4. \A d \in Ids : ~Judges(p, d) /\ ~Judges(p, d)'
    BY AttemptFailsType DEF Judges
  <1>5. \A q \in Proc \ {p}, d \in Ids : Judges(q, d)' <=> Judges(q, d)
    BY AttemptFailsType DEF Judges
  <1>6. CASE held'[p] = held[p]
    <2>1. SameClaims /\ SameSights
      BY <1>1, <1>2, <1>3, <1>4, <1>5, <1>6 DEF SameClaims, SameSights
    <2>2. QED
      BY <2>1, LeaseKept
  <1>7. CASE held'[p] = NoId
    <2>1. LostBy(p) /\ \A q \in Proc, d \in Ids : Judges(q, d)' <=> Judges(q, d) /\ q # p
      BY <1>1, <1>3, <1>4, <1>5, <1>7 DEF LostBy
    <2>2. QED
      BY <2>1, LeaseLeft
  <1>8. QED
    BY <1>6, <1>7, AttemptFailsType

(* Every step of the pool is a step of the lease, or changes no lease.       *)
LEMMA LeaseStep ==
  TypeOK /\ OneLock /\ Sighted /\ ClaimBacked /\ ClaimBacked' /\ [Next]_vars
     => [Lease!LNext]_(Lease!lvars)
  <1> SUFFICES ASSUME TypeOK, OneLock, Sighted, ClaimBacked, ClaimBacked', [Next]_vars
               PROVE  [Lease!LNext]_(Lease!lvars)
    OBVIOUS
  <1> DEFINE Goal  == [Lease!LNext]_(Lease!lvars)
             Quiet == SameClaims /\ SameSights /\ wronged' = wronged /\ age' = age
  <1>0. ASSUME Quiet PROVE Goal
    BY <1>0, LeaseKept
  <1> HIDE DEF Goal, Quiet
  <1>1. ASSUME NEW p \in Proc, Open(p) PROVE Goal
    <2>1. PICK id \in Configured : BeginAttempt(p, id)
      BY <1>1 DEF Open
    <2>2. Quiet
      BY <1>1, <2>1, BeginAttemptType DEF Open, Quiet, SameClaims, SameSights, Claims, Judges
    <2>3. QED
      BY <1>0, <2>2
  <1>2. ASSUME NEW p \in Proc, Probe(p) PROVE Goal
    <2>1. Quiet
      BY <1>2 DEF Probe, Goto, TypeOK, sess, Quiet, SameClaims, SameSights, Claims, Judges
    <2>2. QED
      BY <1>0, <2>1
  <1>3. ASSUME NEW p \in Proc, Exhausted(p) PROVE Goal
    BY <1>3, LeaseAfterFailure DEF Exhausted, TypeOK, Goal
  <1>4. ASSUME NEW p \in Proc, Stat(p) PROVE Goal
    <2>1. cand[p] \in Ids /\ pc[p] = "stat" /\ wronged' = wronged /\ age' = age
      BY <1>4 DEF Stat, TypeOK
    <2>2. CASE UNCHANGED <<cand, sess>> /\ Goto(p, "create")
      <3>1. Quiet
        BY <2>1, <2>2 DEF Goto, TypeOK, sess, Quiet, SameClaims, SameSights, Claims, Judges
      <3>2. QED
        BY <1>0, <3>1
    <2>3. CASE UNCHANGED <<cand, sess>> /\ Goto(p, "unlink") /\ age[cand[p]] > TTL
      <3>1. PICK c \in Ids : c = cand[p]
        BY <2>1
      <3>2. SameClaims
        BY <2>1, <2>3 DEF Goto, TypeOK, sess, SameClaims, Claims
      <3>3. \A q \in Proc, d \in Ids : Judges(q, d)' <=> Judges(q, d) \/ (q = p /\ d = c)
        BY <2>1, <2>3, <3>1 DEF Goto, TypeOK, Judges
      <3>4. QED
        BY <2>1, <2>3, <3>1, <3>2, <3>3, LeaseJudged DEF Goal
    <2>4. CASE cand' = [cand EXCEPT ![p] = NoId] /\ AttemptFails(p, TRUE)
      BY <1>4, <2>4, LeaseAfterFailure DEF Stat, TypeOK, Goal
    <2>5. QED
      BY <1>4, <2>2, <2>3, <2>4 DEF Stat
  <1>5. ASSUME NEW p \in Proc, Unlink(p) PROVE Goal
    <2>1. PICK c \in Ids : c = cand[p]
      BY <1>5 DEF Unlink, TypeOK
    <2>2. SameClaims /\ age' = [age EXCEPT ![c] = 0] /\ Judges(p, c)
      BY <1>5, <2>1 DEF Unlink, Remove, Goto, TypeOK, sess, SameClaims, Claims, Judges
    <2>3. \A q \in Proc, d \in Ids : Judges(q, d)' <=> Judges(q, d) /\ q # p
      BY <1>5 DEF Unlink, Goto, TypeOK, Judges
    <2>4. age[c] > TTL \/ p \in raced
      BY <1>5, <2>1 DEF Unlink, Sighted
    <2>5. CASE \E q \in Proc : Claims(q, c) /\ c \notin wronged
      <3>1. PICK q \in Proc : Claims(q, c) /\ c \notin wronged
        BY <2>5
      <3>2. file[c] = q
        BY <3>1 DEF ClaimBacked
      <3>3. wronged' = wronged \cup {c}
        BY <1>5, <2>1, <2>4, <3>1, <3>2 DEF Unlink
      <3>4. QED
        BY <2>2, <2>3, <3>1, <3>3, LeaseSpoiled DEF Goal
    <2>6. CASE c \in wronged \/ \A q \in Proc : ~Claims(q, c)
      <3>1. wronged' = wronged
        BY <1>5, <2>1, <2>6 DEF Unlink
      <3>2. QED
        BY <2>2, <2>3, <2>6, <3>1, LeaseBroken DEF Goal
    <2>7. QED
      BY <2>5, <2>6
  <1>6. ASSUME NEW p \in Proc, Create(p) PROVE Goal
    <2>1. cand[p] \in Ids /\ held[p] = NoId /\ wronged' = wronged /\ SameSights
      BY <1>6 DEF Create, TypeOK, OneLock, Goto, SameSights, Judges
    <2>2. CASE Goto(p, "connect") /\ UNCHANGED cand /\ age' = [age EXCEPT ![cand[p]] = 0]
      <3>1. \A d \in Ids : ~Claims(p, d)
        BY <1>6, <2>1 DEF Create, Claims
      <3>2. PICK c \in Ids : c = cand[p]
        BY <2>1
      <3>3. \A q \in Proc, d \in Ids : Claims(q, d)' <=> Claims(q, d) \/ (q = p /\ d = c)
        BY <1>6, <2>1, <2>2, <3>2 DEF Create, Goto, TypeOK, sess, Claims
      <3>4. Unclaiming(p) /\ Gains(p, c) /\ age' = [age EXCEPT ![c] = 0]
        BY <2>2, <3>1, <3>2, <3>3 DEF Unclaiming, Gains
      <3>5. QED
        BY <2>1, <3>4, LeaseGranted DEF Goal
    <2>3. CASE Goto(p, "probe") /\ cand' = [cand EXCEPT ![p] = NoId] /\ UNCHANGED age
      <3>1. SameClaims
        BY <1>6, <2>3 DEF Create, Goto, TypeOK, sess, SameClaims, Claims
      <3>2. QED
        BY <1>0, <2>1, <2>3, <3>1 DEF Quiet
    <2>4. QED
      BY <1>6, <2>2, <2>3 DEF Create
  <1>7. ASSUME NEW p \in Proc, ConnectOK(p) PROVE Goal
    <2>1. held[p] = NoId /\ cand[p] \in Ids /\ wronged' = wronged /\ age' = age
      BY <1>7 DEF ConnectOK, TypeOK, OneLock
    <2>2. SameClaims /\ SameSights
      BY <1>7, <2>1 DEF ConnectOK, Goto, TypeOK, SameClaims, SameSights, Claims, Judges
    <2>3. QED
      BY <1>0, <2>1, <2>2 DEF Quiet
  <1>8. ASSUME NEW p \in Proc, ConnectFails(p) PROVE Goal
    <2>1. PICK c \in Ids : c = cand[p]
      BY <1>8 DEF ConnectFails, TypeOK
    <2>2. wronged' = wronged /\ \A d \in Ids : Claims(p, d) <=> d = c
      BY <1>8, <2>1 DEF ConnectFails, OneLock, Claims
    <2>3. LostBy(p) /\ SameSights /\ age' = [age EXCEPT ![c] = 0]
      BY <1>8, <2>1 DEF ConnectFails, Remove, Goto, TypeOK, Claims, LostBy, SameSights, Judges
    <2>4. QED
      BY <2>2, <2>3, LeaseReturned DEF Goal
  <1>9. ASSUME NEW p \in Proc, Dial(p) PROVE Goal
    <2>1. CASE Goto(p, "mdt") /\ UNCHANGED sess
      <3>1. Quiet
        BY <1>9, <2>1 DEF Dial, Goto, TypeOK, sess, Quiet, SameClaims, SameSights, Claims, Judges
      <3>2. QED
        BY <1>0, <3>1
    <2>2. CASE \E retriable \in BOOLEAN : AttemptFails(p, retriable)
      BY <1>9, <2>2, LeaseAfterFailure DEF Dial, Goal
    <2>3. QED
      BY <1>9, <2>1, <2>2 DEF Dial
  <1>10. ASSUME NEW p \in Proc, MarketDataType(p) PROVE Goal
    <2>1. CASE Goto(p, "live") /\ UNCHANGED held
      <3>1. Quiet
        BY <1>10, <2>1 DEF MarketDataType, Goto, TypeOK, Quiet, SameClaims, SameSights,
                           Claims, Judges
      <3>2. QED
        BY <1>0, <3>1
    <2>2. CASE AttemptFails(p, TRUE)
      BY <1>10, <2>2, LeaseAfterFailure DEF MarketDataType, Goal
    <2>3. QED
      BY <1>10, <2>1, <2>2 DEF MarketDataType
  <1>11. ASSUME NEW p \in Proc, EnsureConnected(p) PROVE Goal
    <2>1. Quiet
      BY <1>11, BeginAttemptType DEF EnsureConnected, sess, Quiet, SameClaims, SameSights,
                                     Claims, Judges
    <2>2. QED
      BY <1>0, <2>1
  <1>12. ASSUME NEW p \in Proc, Disconnect(p) PROVE Goal
    <2>1. Quiet
      BY <1>12 DEF Disconnect, Goto, TypeOK, sess, Quiet, SameClaims, SameSights, Claims, Judges
    <2>2. QED
      BY <1>0, <2>1
  <1>13. ASSUME NEW p \in Proc, Release(p) PROVE Goal
    <2>1. LostBy(p) /\ SameSights /\ wronged' = wronged
      BY <1>13 DEF Release, Goto, TypeOK, Claims, LostBy, SameSights, Judges
    <2>2. CASE held[p] = NoId
      <3>1. SameClaims /\ age' = age
        BY <1>13, <2>1, <2>2 DEF Release, Claims, LostBy, SameClaims
      <3>2. QED
        BY <1>0, <2>1, <3>1 DEF Quiet
    <2>3. CASE held[p] # NoId
      <3>1. PICK c \in Ids : c = held[p]
        BY <2>3 DEF TypeOK
      <3>2. age' = [age EXCEPT ![c] = 0] /\ \A d \in Ids : Claims(p, d) <=> d = c
        BY <1>13, <2>3, <3>1 DEF Release, Remove, Claims
      <3>3. QED
        BY <2>1, <3>2, LeaseReturned DEF Goal
    <2>4. QED
      BY <2>2, <2>3
  <1>14. ASSUME NEW p \in Proc, Crash(p) PROVE Goal
    <2>1. LostBy(p) /\ \A q \in Proc, d \in Ids : Judges(q, d)' <=> Judges(q, d) /\ q # p
      BY <1>14 DEF Crash, Goto, TypeOK, Claims, LostBy, Judges
    <2>2. wronged' = wronged /\ age' = age
      BY <1>14 DEF Crash
    <2>3. QED
      BY <2>1, <2>2, LeaseLeft DEF Goal
  <1>15. ASSUME UNCHANGED <<age, pc, cand, held, wronged>> PROVE Goal
    <2>1. Quiet
      BY <1>15 DEF Quiet, SameClaims, SameSights, Claims, Judges
    <2>2. QED
      BY <1>0, <2>1
  <1>16. ASSUME Tick PROVE Goal
    <2>1. SameClaims /\ SameSights /\ wronged' = wronged
      BY <1>16 DEF Tick, sess, SameClaims, SameSights, Claims, Judges
    <2> DEFINE S == {c \in Ids \ wronged : file[c] # NoProc /\ age[c] <= TTL}
    <2>2. Marks' = [c \in Ids |-> IF c \in S THEN Marks[c] + 1 ELSE Marks[c]]
      BY <1>16, <2>1 DEF Tick, Marks, LeaseAge
    <2>3. S \in SUBSET Ids
      OBVIOUS
    <2> HIDE DEF S
    <2>4. Lease!Elapse
      BY <2>1, <2>2, <2>3, OwnersKept, JudgementsKept DEF Lease!Elapse, Leased, Marks
    <2>5. QED
      BY <2>4 DEF Lease!LNext, Goal
  <1>17. Goal
    BY <1>1, <1>2, <1>3, <1>4, <1>5, <1>6, <1>7, <1>8, <1>9, <1>10, <1>11, <1>12,
       <1>13, <1>14, <1>15, <1>16 DEF Next, Connecting, Using, Drop, vars, sess
  <1>18. QED
    BY <1>17 DEF Goal

(* The lock files implement the lease: an id is granted to one process at a *)
(* time, a process is granted one id, and only its holder gives it back,    *)
(* unless a process that has seen a lock of that id older than the TTL      *)
(* removes the one that is there (client_id.py).                            *)
THEOREM PoolImplementsLease == Spec => ImplementsLease
  <1>1. Init => Lease!LInit
    BY DEF Init, Lease!LInit, LeaseOwner, LeaseAge, Claims, Judgements
  <1>2. Init => OneLock
    BY DEF Init, OneLock
  <1>3. QED
    BY <1>1, <1>2, OneLockStep, LeaseStep, TypeCorrect, SightsHold, ClaimsStayBacked, PTL
       DEF Spec, ImplementsLease, Lease!LSpec
===============================================================================

----------------------------- MODULE ClientIdPool -----------------------------
(***************************************************************************)
(* ClientIdAllocator (ib/client_id.py) and the life cycle of the IBSession *)
(* (ib/session.py) that uses it.  Several processes of one host claim      *)
(* client ids through lock files in a shared directory; a lock file older  *)
(* than lock_ttl_seconds may be removed by anybody.  Each action is one    *)
(* file-system call or one call into the gateway, so the processes         *)
(* interleave between the test of a lock, its removal and its creation.    *)
(***************************************************************************)
EXTENDS Integers, FiniteSets

CONSTANTS Proc,         \* processes; each opens one IBSession after another
          Ids,          \* the ids low..high of pool_range
          NoProc, NoId, \* "nobody", and Python's None for an id
          Configured,   \* values of ib.client_id in the configs (NoId: use the pool)
          Randomize,    \* IBClientIdPoolConfig.randomize
          Limit,        \* iter_claims(limit=5)
          MaxAttempts,  \* max_attempts of @retry_with_backoff on connect
          TTL           \* lock_ttl_seconds, in ticks

ASSUME PoolAssumption ==
    /\ NoProc \notin Proc
    /\ Ids \subseteq Nat /\ NoId \notin Ids
    /\ Configured \subseteq Nat \cup {NoId}
    /\ Randomize \in BOOLEAN
    /\ Limit \in Nat \ {0} /\ MaxAttempts \in Nat \ {0} /\ TTL \in Nat

VARIABLES file,     \* file[c]: creator of the lock file of c (NoProc: no file)
          age,      \* age[c]: ticks since the lock file of c was written
          conn,     \* the gateway's table: the client connected with an id
          pc,       \* where each process is
          cand,     \* candidate under trial
          left,     \* candidates iter_claims has still to offer
          clientId, \* IBSession.client_id
          held,     \* IBSession._lock_path
          attempt,  \* attempt number inside retry_with_backoff
          lastErr,  \* last_error of the pool loop is one connect() retries
          entered,  \* __enter__ has returned: __exit__ will run
          raced,    \* history: processes about to unlink a lock they found
                    \* expired, which somebody else has removed since
          wronged   \* history: ids whose lock was broken under a live claim

sess == <<clientId, held, attempt, lastErr, entered>>
vars == <<file, age, conn, pc, cand, left, sess, raced, wronged>>

Steps  == {"idle", "probe", "stat", "unlink", "create", "connect", "dial",
           "mdt", "live", "release"}
Dialed == (Ids \cup Configured) \ {NoId}

(* p has created the lock file of c and not yet given it up. *)
Claims(p, c) == \/ pc[p] = "connect" /\ cand[p] = c
                \/ held[p] = c

TypeOK ==
    /\ file \in [Ids -> Proc \cup {NoProc}]
    /\ age \in [Ids -> 0 .. TTL + 1]
    /\ conn \in [Dialed -> Proc \cup {NoProc}]
    /\ pc \in [Proc -> Steps]
    /\ cand \in [Proc -> Ids \cup {NoId}]
    /\ \A p \in Proc : pc[p] \in {"stat", "unlink", "create", "connect"} => cand[p] \in Ids
    /\ left \in [Proc -> SUBSET Ids]
    /\ clientId \in [Proc -> Dialed \cup {NoId}]
    /\ held \in [Proc -> Ids \cup {NoId}]
    /\ attempt \in [Proc -> 1 .. MaxAttempts]
    /\ lastErr \in [Proc -> BOOLEAN]
    /\ entered \in [Proc -> BOOLEAN]
    /\ raced \subseteq Proc
    /\ wronged \subseteq Ids

Init ==
    /\ file = [c \in Ids |-> NoProc]
    /\ age = [c \in Ids |-> 0]
    /\ conn = [c \in Dialed |-> NoProc]
    /\ pc = [p \in Proc |-> "idle"]
    /\ cand = [p \in Proc |-> NoId]
    /\ left = [p \in Proc |-> {}]
    /\ clientId = [p \in Proc |-> NoId]
    /\ held = [p \in Proc |-> NoId]
    /\ attempt = [p \in Proc |-> 1]
    /\ lastErr = [p \in Proc |-> FALSE]
    /\ entered = [p \in Proc |-> FALSE]
    /\ raced = {}
    /\ wronged = {}
-------------------------------------------------------------------------------
(* The sets of ids iter_claims may offer: the first Limit ids of the range, *)
(* of the shuffled range when randomize is on.                              *)
Below(c) == {d \in Ids : d < c}
CandidateSets ==
    IF Randomize
    THEN {s \in SUBSET Ids : \/ Cardinality(s) = Limit
                             \/ Cardinality(Ids) < Limit /\ s = Ids}
    ELSE {{c \in Ids : Cardinality(Below(c)) < Limit}}

(* p's unlink() of the lock file of c, whoever wrote it.  Another process    *)
(* that has judged that file by its age, and not yet unlinked it, will find  *)
(* no file or a younger one.                                                 *)
Remove(p, c) ==
    /\ file' = [file EXCEPT ![c] = NoProc]
    /\ age' = [age EXCEPT ![c] = 0]
    /\ raced' = (raced \ {p}) \cup {q \in Proc \ {p} : pc[q] = "unlink" /\ cand[q] = c}

Goto(p, step) == pc' = [pc EXCEPT ![p] = step]

(* _connect_with_client_id: a session that knows its id dials with it and   *)
(* takes no lock; one that does not walks the pool.                         *)
BeginAttempt(p, id) ==
    IF id # NoId
    THEN Goto(p, "dial") /\ UNCHANGED left
    ELSE /\ Goto(p, "probe")
         /\ \E s \in CandidateSets : left' = [left EXCEPT ![p] = s]

(* An exception leaves one attempt of connect(): retry_with_backoff tries   *)
(* again, or raises.  Raised out of __enter__ the session object is lost    *)
(* with its _lock_path, the file stays; raised later, the run goes on to    *)
(* its next symbol or to __exit__.                                          *)
AttemptFails(p, retriable) ==
    /\ lastErr' = [lastErr EXCEPT ![p] = FALSE]
    /\ \/ /\ retriable /\ attempt[p] < MaxAttempts
          /\ attempt' = [attempt EXCEPT ![p] = @ + 1]
          /\ BeginAttempt(p, clientId[p])
          /\ UNCHANGED <<clientId, held, entered>>
       \/ /\ ~(retriable /\ attempt[p] < MaxAttempts)
          /\ entered[p]
          /\ Goto(p, "live")
          /\ attempt' = [attempt EXCEPT ![p] = 1]
          /\ UNCHANGED <<left, clientId, held, entered>>
       \/ /\ ~(retriable /\ attempt[p] < MaxAttempts)
          /\ ~entered[p]
          /\ Goto(p, "idle")
          /\ attempt' = [attempt EXCEPT ![p] = 1]
          /\ clientId' = [clientId EXCEPT ![p] = NoId]
          /\ held' = [held EXCEPT ![p] = NoId]
          /\ left' = [left EXCEPT ![p] = {}]
          /\ UNCHANGED entered
-------------------------------------------------------------------------------
(* A process builds an IBSession and enters it. *)
Open(p) ==
    /\ pc[p] = "idle"
    /\ \E id \in Configured : /\ clientId' = [clientId EXCEPT ![p] = id]
                             /\ BeginAttempt(p, id)
    /\ UNCHANGED <<file, age, conn, cand, held, attempt, lastErr, entered, raced, wronged>>

(* Variant with a seeded bug: the candidate stays in the list. *)
ProbeAgain(p) ==
    /\ pc[p] = "probe"
    /\ \E c \in left[p] : /\ cand' = [cand EXCEPT ![p] = c]
                         /\ Goto(p, IF file[c] = NoProc THEN "create" ELSE "stat")
    /\ UNCHANGED <<file, age, conn, left, sess, raced, wronged>>

(* _try_claim takes the next candidate and tests lock_path.exists(). *)
Probe(p) ==
    /\ pc[p] = "probe"
    /\ \E c \in left[p] :
          /\ Randomize \/ \A d \in left[p] : c <= d
          /\ left' = [left EXCEPT ![p] = @ \ {c}]
          /\ cand' = [cand EXCEPT ![p] = c]
          /\ Goto(p, IF file[c] = NoProc THEN "create" ELSE "stat")
    /\ UNCHANGED <<file, age, conn, sess, raced, wronged>>

(* No candidate is left: raise last_error, or a RuntimeError, which         *)
(* retry_with_backoff does not retry.                                       *)
Exhausted(p) ==
    /\ pc[p] = "probe" /\ left[p] = {}
    /\ AttemptFails(p, lastErr[p])
    /\ UNCHANGED <<file, age, conn, cand, raced, wronged>>

(* Variant with a seeded bug: any file that is there counts as expired. *)
StatBlind(p) ==
    /\ pc[p] = "stat"
    /\ Goto(p, IF file[cand[p]] # NoProc THEN "unlink" ELSE "create")
    /\ UNCHANGED <<file, age, conn, cand, left, sess, raced, wronged>>

(* _is_expired: the file that was there a moment ago is looked at again.    *)
(* Gone before the second exists() it does not count as expired; gone       *)
(* between exists() and stat() the FileNotFoundError leaves the loop.       *)
Stat(p) ==
    /\ pc[p] = "stat"
    /\ \/ /\ file[cand[p]] # NoProc /\ age[cand[p]] > TTL
          /\ Goto(p, "unlink")
          /\ UNCHANGED <<cand, left, sess>>
       \/ /\ file[cand[p]] = NoProc \/ age[cand[p]] <= TTL
          /\ Goto(p, "create")
          /\ UNCHANGED <<cand, left, sess>>
       \/ /\ file[cand[p]] = NoProc
          /\ cand' = [cand EXCEPT ![p] = NoId]
          /\ AttemptFails(p, TRUE)
    /\ UNCHANGED <<file, age, conn, raced, wronged>>

(* _try_claim removes the lock it found expired: whatever file is there by  *)
(* now.  A live claim is wronged when that file is expired, or when it has  *)
(* replaced the expired one p looked at; no other unlink is excused.        *)
Unlink(p) ==
    /\ pc[p] = "unlink"
    /\ wronged' = IF /\ \E q \in Proc : file[cand[p]] = q /\ Claims(q, cand[p])
                     /\ age[cand[p]] > TTL \/ p \in raced
                  THEN wronged \cup {cand[p]} ELSE wronged
    /\ Remove(p, cand[p])
    /\ Goto(p, "create")
    /\ UNCHANGED <<conn, cand, left, sess>>

(* Variant with a seeded bug: the file is opened without O_EXCL. *)
CreateShared(p) ==
    /\ pc[p] = "create"
    /\ file' = [file EXCEPT ![cand[p]] = p]
    /\ age' = [age EXCEPT ![cand[p]] = 0]
    /\ Goto(p, "connect")
    /\ UNCHANGED <<conn, cand, left, sess, raced, wronged>>

(* Variant with a seeded bug: a process that finds the file taken releases it. *)
CreateReleasing(p) ==
    /\ pc[p] = "create"
    /\ IF file[cand[p]] = NoProc
       THEN /\ file' = [file EXCEPT ![cand[p]] = p]
            /\ age' = [age EXCEPT ![cand[p]] = 0]
            /\ Goto(p, "connect")
            /\ UNCHANGED raced
       ELSE Remove(p, cand[p]) /\ Goto(p, "probe")
    /\ UNCHANGED <<conn, cand, left, sess, wronged>>

(* os.open with O_CREAT | O_EXCL: one process creates the file, the others  *)
(* get FileExistsError and go on to the next candidate.                     *)
Create(p) ==
    /\ pc[p] = "create"
    /\ \/ /\ file[cand[p]] = NoProc
          /\ file' = [file EXCEPT ![cand[p]] = p]
          /\ age' = [age EXCEPT ![cand[p]] = 0]
          /\ Goto(p, "connect")
          /\ UNCHANGED cand
       \/ /\ file[cand[p]] # NoProc
          /\ cand' = [cand EXCEPT ![p] = NoId]
          /\ Goto(p, "probe")
          /\ UNCHANGED <<file, age>>
    /\ UNCHANGED <<conn, left, sess, raced, wronged>>

(* ib.connect with the claimed id; the gateway takes an id once. *)
ConnectOK(p) ==
    /\ pc[p] = "connect"
    /\ conn[cand[p]] = NoProc
    /\ conn' = [conn EXCEPT ![cand[p]] = p]
    /\ clientId' = [clientId EXCEPT ![p] = cand[p]]
    /\ held' = [held EXCEPT ![p] = cand[p]]
    /\ lastErr' = [lastErr EXCEPT ![p] = FALSE]
    /\ cand' = [cand EXCEPT ![p] = NoId]
    /\ left' = [left EXCEPT ![p] = {}]
    /\ Goto(p, "mdt")
    /\ UNCHANGED <<file, age, attempt, entered, raced, wronged>>

(* ib.connect raises (gateway down, time-out, id in use): the lock is       *)
(* released, which unlinks the path, and the next candidate is tried.       *)
ConnectFails(p) ==
    /\ pc[p] = "connect"
    /\ Remove(p, cand[p])
    /\ cand' = [cand EXCEPT ![p] = NoId]
    /\ held' = [held EXCEPT ![p] = NoId]
    /\ \E e \in BOOLEAN : lastErr' = [lastErr EXCEPT ![p] = e]
    /\ Goto(p, "probe")
    /\ UNCHANGED <<conn, left, clientId, attempt, entered, wronged>>

(* The branch of _connect_with_client_id for a known id. *)
Dial(p) ==
    /\ pc[p] = "dial"
    /\ \/ /\ conn[clientId[p]] = NoProc
          /\ conn' = [conn EXCEPT ![clientId[p]] = p]
          /\ Goto(p, "mdt")
          /\ UNCHANGED <<left, sess>>
       \/ /\ \E retriable \in BOOLEAN : AttemptFails(p, retriable)
          /\ UNCHANGED conn
    /\ UNCHANGED <<file, age, cand, raced, wronged>>

(* reqMarketDataType raises ConnectionError when the connection is gone. *)
MarketDataType(p) ==
    /\ pc[p] = "mdt"
    /\ \/ /\ conn[clientId[p]] = p
          /\ Goto(p, "live")
          /\ attempt' = [attempt EXCEPT ![p] = 1]
          /\ entered' = [entered EXCEPT ![p] = TRUE]
          /\ UNCHANGED <<left, clientId, held, lastErr>>
       \/ /\ conn[clientId[p]] # p
          /\ AttemptFails(p, TRUE)
    /\ UNCHANGED <<file, age, conn, cand, raced, wronged>>

(* ensure_connected in the middle of a run, after the connection was lost. *)
EnsureConnected(p) ==
    /\ pc[p] = "live" /\ conn[clientId[p]] # p
    /\ BeginAttempt(p, clientId[p])
    /\ UNCHANGED <<file, age, conn, cand, sess, raced, wronged>>

(* __exit__: ib.disconnect() closes the connection.  (When it raises, the   *)
(* lock is not released and the session is gone, as after a Crash.)         *)
Disconnect(p) ==
    /\ pc[p] = "live"
    /\ conn' = [c \in Dialed |-> IF conn[c] = p THEN NoProc ELSE conn[c]]
    /\ Goto(p, "release")
    /\ UNCHANGED <<file, age, cand, left, sess, raced, wronged>>

(* allocator.release unlinks the path the session remembers. *)
Release(p) ==
    /\ pc[p] = "release"
    /\ IF held[p] = NoId THEN UNCHANGED <<file, age, raced>> ELSE Remove(p, held[p])
    /\ held' = [held EXCEPT ![p] = NoId]
    /\ clientId' = [clientId EXCEPT ![p] = NoId]
    /\ entered' = [entered EXCEPT ![p] = FALSE]
    /\ Goto(p, "idle")
    /\ UNCHANGED <<conn, cand, left, attempt, lastErr, wronged>>

(* The process dies: its socket closes, its lock file stays. *)
Crash(p) ==
    /\ pc[p] # "idle"
    /\ conn' = [c \in Dialed |-> IF conn[c] = p THEN NoProc ELSE conn[c]]
    /\ Goto(p, "idle")
    /\ cand' = [cand EXCEPT ![p] = NoId]
    /\ left' = [left EXCEPT ![p] = {}]
    /\ clientId' = [clientId EXCEPT ![p] = NoId]
    /\ held' = [held EXCEPT ![p] = NoId]
    /\ attempt' = [attempt EXCEPT ![p] = 1]
    /\ lastErr' = [lastErr EXCEPT ![p] = FALSE]
    /\ entered' = [entered EXCEPT ![p] = FALSE]
    /\ raced' = raced \ {p}
    /\ UNCHANGED <<file, age, wronged>>

(* The gateway or the network drops the connection with an id. *)
Drop(c) ==
    /\ conn[c] # NoProc
    /\ conn' = [conn EXCEPT ![c] = NoProc]
    /\ UNCHANGED <<file, age, pc, cand, left, sess, raced, wronged>>

(* Time passes: every lock file grows older (ages above TTL are alike). *)
Tick ==
    /\ \E c \in Ids : file[c] # NoProc /\ age[c] <= TTL
    /\ age' = [c \in Ids |-> IF file[c] # NoProc /\ age[c] <= TTL
                             THEN age[c] + 1 ELSE age[c]]
    /\ UNCHANGED <<file, conn, pc, cand, left, sess, raced, wronged>>

Connecting(p) == \/ Probe(p) \/ Exhausted(p) \/ Stat(p) \/ Unlink(p) \/ Create(p)
                 \/ ConnectOK(p) \/ ConnectFails(p) \/ Dial(p) \/ MarketDataType(p)
Using(p)      == \/ Open(p) \/ EnsureConnected(p) \/ Disconnect(p) \/ Release(p)
                 \/ Crash(p)

Next == \/ \E p \in Proc : Connecting(p) \/ Using(p)
        \/ \E c \in Dialed : Drop(c)
        \/ Tick

Spec     == Init /\ [][Next]_vars
FairSpec == Spec /\ \A p \in Proc : WF_vars(Connecting(p) \/ Release(p))

-------------------------------------------------------------------------------
(* A claim is backed by its own lock file, on every id whose lock was never *)
(* broken under a live claim: neither a release nor a failed connect of     *)
(* another process removes it (client_id.py release, session.py 115-118),   *)
(* nor an unlink that no sighting of an expired lock came before.           *)
ClaimBacked == \A p \in Proc, c \in Ids \ wronged : Claims(p, c) => file[c] = p

(* Two processes claim one id only after the lock of a live one was broken  *)
(* in one of two ways (_try_claim 61-65): it had expired, or a process that *)
(* had found an earlier lock of the id expired removed its fresh successor. *)
Exclusive ==
    \A p, q \in Proc, c \in Ids \ wronged : Claims(p, c) /\ Claims(q, c) => p = q

(* The second way is not what the locks are for: a lock that has not        *)
(* expired leaves only with the claim it stands for (config/opt-data.toml:  *)
(* the directory keeps a host from using an id twice, and the TTL is for    *)
(* locks of processes that ended abnormally).  The test of the age and the  *)
(* unlink of client_id.py 61-65 are two steps, so the code breaks it even   *)
(* on an id that no live process has ever lost: TLC refutes this property.  *)
FreshLockKept ==
    [][\A q \in Proc, c \in Ids \ wronged :
          file[c] = q /\ Claims(q, c) /\ age[c] <= TTL /\ file'[c] # q
             => ~Claims(q, c)']_vars

(* Opening a session ends, whatever the other processes do to the lock      *)
(* files and the gateway to the connection: with a live session or with an  *)
(* exception (connect, its retries and the loop over the candidates).       *)
OpeningEnds == \A p \in Proc : pc[p] \notin {"idle", "live"} ~> pc[p] \in {"idle", "live"}

(* The lock files implement leases that are broken only by a process that   *)
(* has seen a lease of that id older than the TTL.                          *)
Spoiled == <<NoProc>>
ASSUME SpoiledAssumption == Spoiled \notin Proc \cup {NoProc}

LeaseOwner(c) == IF c \in wronged THEN Spoiled
                 ELSE IF \E p \in Proc : file[c] = p /\ Claims(p, c) THEN file[c]
                 ELSE NoProc
LeaseAge(c)   == IF c \in wronged THEN 0 ELSE age[c]
Judgements    == {j \in Proc \X (Ids \ wronged) : pc[j[1]] = "unlink" /\ cand[j[1]] = j[2]}
Lease == INSTANCE ClientIdLease WITH owner  <- [c \in Ids |-> LeaseOwner(c)],
                                     mark   <- [c \in Ids |-> LeaseAge(c)],
                                     judged <- Judgements
ImplementsLease == Lease!LSpec
===============================================================================

--------------------------- MODULE RotationClock ---------------------------
(***************************************************************************)
(* When tokens are renewed.  Time passes while the single worker serves    *)
(* one SecretRotator after another; each cycle mints a token with the      *)
(* lifetime of the role, writes it into the secrets of every namespace,    *)
(* and asks the delaying work queue for the next cycle: after three        *)
(* quarters of that lifetime, or after spec.refreshTime if users set one.  *)
(*                                                                         *)
(* The unit of time is the second, scaled: lifetimes are a few of them.    *)
(* All times are relative, so that no bound on time itself is needed: what *)
(* is left of a token's lifetime, and how much of the lifetime so far was  *)
(* lost, that is, not spent waiting as planned.                            *)
(***************************************************************************)
EXTENDS Integers

CONSTANTS
    Rotators,     \* SecretRotator objects
    Namespaces,   \* the namespaces each of them serves
    Lifetimes,    \* lifetimes a token may get: the role's maximum session, or the default
    MaxLife,      \* the longest of them
    Refresh,      \* the values of spec.refreshTime that users write
    Unset,        \* no spec.refreshTime
    None,         \* no value
    TenMinutes,   \* the delay after a failed read of the SecretRotator
    Hour,         \* the reconciler's initial RequeueInterval
    MaxWriting,   \* bound: how long a cycle goes on after it has its token
    Disturbances, \* which kinds of disturbance happen
    MaxDisturb    \* bound: how many of them happen

ASSUME NoneAssumption == None \notin Rotators
ASSUME LifetimeAssumption ==
    /\ MaxLife \in Nat
    /\ \A l \in Lifetimes : l \in 1..MaxLife /\ l % 4 = 0
ASSUME RefreshAssumption == Unset \notin Int /\ Refresh \subseteq Int \cup {Unset}
ASSUME DelayAssumption == TenMinutes \in Nat \ {0} /\ Hour \in Nat /\ MaxWriting \in Nat
ASSUME BoundAssumption ==
    /\ MaxDisturb \in Nat
    /\ Disturbances \subseteq {"fault", "crash", "event", "refresh"}

VARIABLES
    \* the cluster
    refresh,   \* spec.refreshTime
    secret,    \* the token in the secrets of each SecretRotator and namespace
    reported,  \* status.failedNamespaces
    \* the work queue
    queue,     \* SecretRotators ready to be reconciled
    timer,     \* the time until one is added again, 0: it is not waiting
    \* the operator
    requeueInterval, \* r.RequeueInterval
    pc,        \* the point the cycle has reached
    cur,       \* the SecretRotator being reconciled
    held,      \* its refreshTime, as held by the cycle
    todo,      \* namespaces yet to be written
    ttl,       \* tokenDetails.TTLInSeconds
    tok,       \* tokenDetails.Token
    failed,    \* tokenDetails.FailedNamespaces
    \* history and environment
    retrying,  \* did the last cycle fail?
    budget     \* disturbances that may still happen

cycle == <<pc, cur, held, todo, ttl, tok, failed>>
vars  == <<refresh, secret, reported, queue, timer, requeueInterval, cycle, retrying, budget>>

-----------------------------------------------------------------------------
(* A token: what is left of its lifetime, how much of the lifetime was lost,*)
(* and how much may be lost before it expires.                              *)
Token == [left : 0..MaxLife, lost : 0..MaxLife, slack : Int]

NoToken == [left |-> 0, lost |-> 0, slack |-> 0]

Minted(l) == [left |-> l, lost |-> 0, slack |-> l]

Aged(t, loses) ==
    IF t.left = 0 THEN t ELSE [t EXCEPT !.left = @ - 1, !.lost = IF loses THEN @ + 1 ELSE @]

(* What users can count on.  With no refreshTime a quarter of the lifetime  *)
(* is in reserve; with one, what it leaves of the lifetime; and nothing if  *)
(* it is zero or less, which the work queue takes for "no requeue".         *)
Reserve(l, rf) == IF rf = Unset THEN l \div 4 ELSE IF rf > 0 THEN l - rf ELSE 0

(* Mutant: the interval that tokenDetails took over from the last cycle. *)
IntervalOfLastCycle == requeueInterval

(* Reconcile's last lines. *)
Interval == IF held = Unset THEN (3 * ttl) \div 4 ELSE held

Disturb(kind) == kind \in Disturbances /\ budget > 0 /\ budget' = budget - 1

Fault == Disturb("fault")

(* Queue.AddAfter: of two delays for the same name the shorter one counts;  *)
(* controller-runtime does not call it for a delay that is not positive.    *)
AddAfter(r, d) ==
    timer' = [timer EXCEPT ![r] = IF d <= 0 \/ @ \in 1..d THEN @ ELSE d]

(* Reconcile returns: its local variables are gone. *)
Leave ==
    pc' = "idle" /\ cur' = None /\ held' = Unset /\ todo' = {} /\ ttl' = 0 /\ tok' = NoToken /\ failed' = {}

-----------------------------------------------------------------------------
(* Reconcile *)

Reconcile(r) ==
    /\ pc = "idle" /\ r \in queue
    /\ queue' = queue \ {r}
    /\ pc' = "initialize" /\ cur' = r /\ held' = refresh[r]
    /\ UNCHANGED <<refresh, secret, reported, timer, requeueInterval, todo, ttl, tok, failed,
                   retrying, budget>>

(* The SecretRotator cannot be read: handleError retries in ten minutes. *)
ReconcileGetFails(r) ==
    /\ pc = "idle" /\ r \in queue
    /\ Fault
    /\ queue' = queue \ {r} /\ AddAfter(r, TenMinutes)
    /\ retrying' = [retrying EXCEPT ![r] = TRUE]
    /\ UNCHANGED <<refresh, secret, reported, requeueInterval, cycle>>

(* InitializeResource ends with the deferred patch, whose answer makes the  *)
(* held object the live one; if it fails, the cycle keeps the one it has.   *)
InitializeResource ==
    /\ pc = "initialize"
    /\ pc' = "token" /\ todo' = Namespaces
    /\ \/ held' = refresh[cur] /\ UNCHANGED budget
       \/ Fault /\ UNCHANGED held
    /\ UNCHANGED <<refresh, secret, reported, queue, timer, requeueInterval, cur, ttl, tok, failed,
                   retrying>>

(* Mutant: the lifetime is not kept for the interval. *)
HandlingTokenOnly ==
    /\ pc = "token"
    /\ \E l \in Lifetimes : tok' = Minted(l)
    /\ pc' = "write"
    /\ UNCHANGED <<refresh, secret, reported, queue, timer, requeueInterval, cur, held, todo, ttl,
                   failed, retrying, budget>>

(* The role's maximum session may change from cycle to cycle. *)
HandlingToken ==
    /\ pc = "token"
    /\ \E l \in Lifetimes : ttl' = l /\ tok' = Minted(l)
    /\ pc' = "write"
    /\ UNCHANGED <<refresh, secret, reported, queue, timer, requeueInterval, cur, held, todo, failed,
                   retrying, budget>>

(* A write that fails is recorded; nothing tries it again in this cycle. *)
CreateOrUpdateSecrets(n) ==
    /\ pc = "write" /\ n \in todo
    /\ todo' = todo \ {n}
    /\ \/ secret' = [secret EXCEPT ![cur][n] = tok] /\ UNCHANGED <<failed, budget>>
       \/ Fault /\ failed' = failed \cup {n} /\ UNCHANGED secret
    /\ UNCHANGED <<refresh, reported, queue, timer, requeueInterval, pc, cur, held, ttl, tok, retrying>>

(* Mutant: the error ends the cycle without a retry. *)
ReconcileStops ==
    /\ pc # "idle" /\ Fault
    /\ Leave
    /\ UNCHANGED <<refresh, secret, reported, queue, timer, requeueInterval, retrying>>

(* InitializeResource, the token, a deletion or the status update fails:    *)
(* Reconcile is called again in a second.                                   *)
ReconcileFails ==
    /\ pc # "idle" /\ Fault
    /\ AddAfter(cur, 1)
    /\ retrying' = [retrying EXCEPT ![cur] = TRUE]
    /\ Leave
    /\ UNCHANGED <<refresh, secret, reported, queue, requeueInterval>>

(* From here on the tokens this cycle wrote have their reserve. *)
Scheduled(n) ==
    IF n \in failed THEN secret[cur][n]
    ELSE [secret[cur][n] EXCEPT !.slack = Reserve(ttl, held)]

UpdateStatus ==
    /\ pc = "write" /\ todo = {}
    /\ reported' = [reported EXCEPT ![cur] = failed]
    /\ secret' = [secret EXCEPT ![cur] = [n \in Namespaces |-> Scheduled(n)]]
    /\ requeueInterval' = Interval
    /\ AddAfter(cur, Interval)
    /\ retrying' = [retrying EXCEPT ![cur] = FALSE]
    /\ Leave
    /\ UNCHANGED <<refresh, queue, budget>>

-----------------------------------------------------------------------------
(* Time and the environment. *)

(* Nothing but the delay the last cycle asked for keeps r from its next one.*)
Waiting(r) == r \notin queue /\ cur # r /\ ~retrying[r]

Tick ==
    /\ tok.lost < MaxWriting
    /\ secret' = [r \in Rotators |-> [n \in Namespaces |-> Aged(secret[r][n], ~Waiting(r))]]
    /\ tok' = Aged(tok, TRUE)
    /\ timer' = [r \in Rotators |-> IF timer[r] > 0 THEN timer[r] - 1 ELSE 0]
    /\ queue' = queue \cup {r \in Rotators : timer[r] = 1}
    /\ UNCHANGED <<refresh, reported, requeueInterval, pc, cur, held, todo, ttl, failed, retrying, budget>>

(* A namespace event, or any other update of the object. *)
WatchEvent(r) ==
    /\ Disturb("event")
    /\ queue' = queue \cup {r}
    /\ UNCHANGED <<refresh, secret, reported, timer, requeueInterval, cycle, retrying>>

ChangeRefreshTime(r, v) ==
    /\ Disturb("refresh") /\ v # refresh[r]
    /\ refresh' = [refresh EXCEPT ![r] = v]
    /\ queue' = queue \cup {r}
    /\ UNCHANGED <<secret, reported, timer, requeueInterval, cycle, retrying>>

(* The delays are lost, but every SecretRotator is announced to the new     *)
(* process.                                                                 *)
Crash ==
    /\ Disturb("crash")
    /\ queue' = Rotators /\ timer' = [r \in Rotators |-> 0]
    /\ requeueInterval' = Hour
    /\ Leave
    /\ UNCHANGED <<refresh, secret, reported, retrying>>

-----------------------------------------------------------------------------
Init ==
    /\ refresh \in [Rotators -> Refresh]
    /\ secret = [r \in Rotators |-> [n \in Namespaces |-> NoToken]]
    /\ reported = [r \in Rotators |-> {}]
    /\ queue = Rotators /\ timer = [r \in Rotators |-> 0]
    /\ requeueInterval = Hour
    /\ pc = "idle" /\ cur = None /\ held = Unset /\ todo = {} /\ ttl = 0 /\ tok = NoToken /\ failed = {}
    /\ retrying = [r \in Rotators |-> FALSE]
    /\ budget = MaxDisturb

Cycle ==
    \/ InitializeResource
    \/ HandlingToken
    \/ \E n \in Namespaces : CreateOrUpdateSecrets(n)
    \/ UpdateStatus
    \/ ReconcileFails

Environment ==
    \/ \E r \in Rotators : ReconcileGetFails(r) \/ WatchEvent(r)
    \/ \E r \in Rotators, v \in Refresh : ChangeRefreshTime(r, v)
    \/ Crash

Next == Cycle \/ Tick \/ Environment \/ (\E r \in Rotators : Reconcile(r))

Spec == Init /\ [][Next]_vars

(* Time goes on, and so does a cycle; the work queue is first in, first out.*)
Fairness ==
    /\ WF_vars(Tick)
    /\ WF_vars(Cycle)
    /\ \A r \in Rotators : SF_vars(Reconcile(r))

FairSpec == Spec /\ Fairness

-----------------------------------------------------------------------------
(* Properties. *)

(* The shape of the state.  The worker has a name exactly when it is at     *)
(* work, and a cycle that writes knows the lifetime of its token, from      *)
(* which Reconcile computes the interval.                                   *)
TypeOK ==
    /\ refresh \in [Rotators -> Refresh]
    /\ secret \in [Rotators -> [Namespaces -> Token]]
    /\ reported \in [Rotators -> SUBSET Namespaces]
    /\ queue \subseteq Rotators /\ timer \in [Rotators -> Nat] /\ requeueInterval \in Int
    /\ pc \in {"idle", "initialize", "token", "write"}
    /\ cur \in Rotators \cup {None} /\ (pc = "idle" <=> cur = None)
    /\ held \in Refresh \cup {Unset} /\ todo \subseteq Namespaces /\ failed \subseteq Namespaces
    /\ ttl \in Lifetimes \cup {0} /\ (pc = "write" => ttl \in Lifetimes)
    /\ tok \in Token
    /\ retrying \in [Rotators -> BOOLEAN]
    /\ budget \in 0..MaxDisturb

(* A secret that holds an expired token is in a namespace the status        *)
(* reports as failed, or at least the whole reserve was lost: to cycles     *)
(* that failed or took long, to other SecretRotators' cycles, to restarts.  *)
(* The reserve is a quarter of the lifetime without a refreshTime, and none *)
(* with one that is not shorter than the lifetime, or not positive.         *)
FreshUnlessReported ==
    \A r \in Rotators, n \in Namespaces :
        secret[r][n].left = 0 => n \in reported[r] \/ secret[r][n].lost >= secret[r][n].slack

Requeues(r) == refresh[r] = Unset \/ refresh[r] > 0

(* A secret without a valid token gets one in the end, unless refreshTime   *)
(* is zero or less: neither failed writes and cycles, nor restarts, nor     *)
(* edits that replace a long delay by a short one leave it expired.         *)
Refreshed ==
    \A r \in Rotators, n \in Namespaces :
        secret[r][n].left = 0 /\ Requeues(r) ~> secret[r][n].left > 0 \/ ~Requeues(r)

=============================================================================

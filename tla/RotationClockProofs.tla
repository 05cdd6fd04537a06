------------------------ MODULE RotationClockProofs ------------------------
(***************************************************************************)
(* For any SecretRotators, namespaces, lifetimes, refresh times and        *)
(* disturbances, the state is well-formed, and no secret holds an expired  *)
(* token unless its namespace is reported as failed or the reserve that    *)
(* the interval leaves was lost.                                           *)
(***************************************************************************)
EXTENDS RotationClock, TLAPS

(* No token lives longer than the longest lifetime. *)
Sums ==
    /\ tok.left + tok.lost <= MaxLife
    /\ \A r \in Rotators, n \in Namespaces : secret[r][n].left + secret[r][n].lost <= MaxLife

(* While a cycle writes, nothing of its token's life is planned: all of it  *)
(* is lost.  So it is for the copies the cycle has written.                 *)
WriteInv ==
    /\ pc = "token" => todo = Namespaces
    /\ pc = "write" =>
          /\ tok.left + tok.lost = ttl /\ tok.slack = ttl
          /\ \A n \in Namespaces \ (todo \cup failed) :
                secret[cur][n].left + secret[cur][n].lost = ttl

(* The reserve is still ahead of a token, and after the planned waiting,    *)
(* if that is what its SecretRotator does.                                  *)
Ahead(t, waits, d) ==
    \/ t.lost >= t.slack
    \/ /\ t.left + t.lost >= t.slack
       /\ waits => d > 0 /\ t.left + t.lost >= t.slack + d

Covered ==
    \A r \in Rotators : \A n \in Namespaces \ reported[r] :
        Ahead(secret[r][n], Waiting(r), timer[r])

IInv == TypeOK /\ Sums /\ WriteInv /\ Covered

-----------------------------------------------------------------------------
(* Lemmas about the operators. *)

(* Ageing keeps a token a token; what it no longer has left is lost or was  *)
(* planned.                                                                 *)
LEMMA AgedToken ==
    ASSUME NEW t \in Token, NEW b \in BOOLEAN, t.left + t.lost <= MaxLife
    PROVE  /\ Aged(t, b) \in Token
           /\ Aged(t, b).slack = t.slack
           /\ Aged(t, b).left + Aged(t, b).lost <= MaxLife
           /\ b => Aged(t, b).left + Aged(t, b).lost = t.left + t.lost
<1>1. CASE t.left = 0  BY <1>1 DEF Aged
<1>2. CASE t.left # 0
  <2>1. \A c \in BOOLEAN :
           Aged(t, c) = [left |-> t.left - 1, lost |-> IF c THEN t.lost + 1 ELSE t.lost,
                         slack |-> t.slack]
    BY <1>2 DEF Aged, Token
  <2>2. /\ t.left - 1 \in 0..MaxLife /\ t.lost \in 0..MaxLife /\ t.lost + 1 \in 0..MaxLife
        /\ t.slack \in Int
    BY <1>2, LifetimeAssumption DEF Token
  <2>3. Aged(t, b) \in Token  BY <2>1, <2>2 DEF Token
  <2>4. /\ Aged(t, b).left = t.left - 1 /\ Aged(t, b).lost \in {t.lost, t.lost + 1}
        /\ Aged(t, b).slack = t.slack
    BY <2>1
  <2>6. Aged(t, b).left + Aged(t, b).lost <= MaxLife
    BY <2>2, <2>4, LifetimeAssumption DEF Token
  <2>5. ASSUME b PROVE Aged(t, b).lost = t.lost + 1
    BY <1>2, <2>5 DEF Aged, Token
  <2>7. Aged(t, b).lost = t.lost + 1 => Aged(t, b).left + Aged(t, b).lost = t.left + t.lost
    BY <2>2, <2>4 DEF Token
  <2> QED  BY <2>3, <2>4, <2>5, <2>6, <2>7
<1> QED  BY <1>1, <1>2

(* One second brings the end of the life and the end of the delay closer    *)
(* together, whether the second was lost or planned.                        *)
LEMMA AgedAhead ==
    ASSUME NEW t \in Token, NEW w \in BOOLEAN, NEW w2 \in BOOLEAN, NEW d \in Nat,
           Ahead(t, w, d), w2 => w /\ d # 1
    PROVE  Ahead(Aged(t, ~w), w2, IF d > 0 THEN d - 1 ELSE 0)
<1>1. CASE t.left = 0
  <2>1. t.lost >= t.slack  BY <1>1 DEF Ahead, Token
  <2> QED  BY <1>1, <2>1 DEF Ahead, Aged
<1>2. CASE t.left # 0 /\ w
  <2>1. Aged(t, ~w) = [t EXCEPT !.left = t.left - 1, !.lost = t.lost]
    BY <1>2 DEF Aged, Token
  <2>2. /\ Aged(t, ~w).left = t.left - 1 /\ Aged(t, ~w).lost = t.lost
        /\ Aged(t, ~w).slack = t.slack
    BY <2>1 DEF Token
  <2> QED  BY <1>2, <2>2 DEF Ahead, Token
<1>3. CASE t.left # 0 /\ ~w
  <2>1. Aged(t, ~w) = [t EXCEPT !.left = t.left - 1, !.lost = t.lost + 1]
    BY <1>3 DEF Aged, Token
  <2>2. /\ Aged(t, ~w).left = t.left - 1 /\ Aged(t, ~w).lost = t.lost + 1
        /\ Aged(t, ~w).slack = t.slack
    BY <2>1 DEF Token
  <2> QED  BY <1>3, <2>2 DEF Ahead, Token
<1> QED  BY <1>1, <1>2, <1>3

(* With no delay, or one that leaves the reserve, a token of full length is *)
(* ahead of it.                                                             *)
LEMMA IntervalLeavesReserve ==
    ASSUME NEW l \in Lifetimes, NEW rf \in Refresh \cup {Unset}
    PROVE  /\ Reserve(l, rf) \in Int
           /\ rf = Unset => (3 * l) \div 4 > 0 /\ Reserve(l, rf) + (3 * l) \div 4 = l
           /\ rf # Unset /\ rf > 0 => Reserve(l, rf) + rf = l
           /\ rf # Unset /\ rf <= 0 => Reserve(l, rf) = 0
<1>1. l \in Nat /\ l > 0 /\ l % 4 = 0  BY LifetimeAssumption
<1>2. l = 4 * (l \div 4) /\ l \div 4 \in Nat  BY <1>1
<1>3. (3 * l) \div 4 = 3 * (l \div 4)  BY <1>2
<1> QED  BY <1>1, <1>2, <1>3, RefreshAssumption DEF Reserve

(* AddAfter leaves r with the delay d or a shorter one, if d is positive.   *)
LEMMA AddAfterDelay ==
    ASSUME timer \in [Rotators -> Nat], NEW r \in Rotators, NEW d \in Int, AddAfter(r, d)
    PROVE  /\ timer' \in [Rotators -> Nat]
           /\ \A q \in Rotators \ {r} : timer'[q] = timer[q]
           /\ d > 0 => timer'[r] \in 1..d
  BY DEF AddAfter

LEMMA DisturbBudget ==
    ASSUME budget \in 0..MaxDisturb, NEW k, Disturb(k)
    PROVE  budget' \in 0..MaxDisturb
  BY BoundAssumption DEF Disturb

LEMMA MintedToken ==
    ASSUME NEW l \in Lifetimes
    PROVE  /\ Minted(l) \in Token
           /\ Minted(l).left = l /\ Minted(l).lost = 0 /\ Minted(l).slack = l
  BY LifetimeAssumption DEF Minted, Token

LEMMA NoTokenType ==
    NoToken \in Token /\ NoToken.left = 0 /\ NoToken.lost = 0 /\ NoToken.slack = 0
  BY LifetimeAssumption DEF NoToken, Token

-----------------------------------------------------------------------------
(* The invariant holds initially. *)
LEMMA InitInv == Init => IInv
<1> SUFFICES ASSUME Init PROVE IInv
  OBVIOUS
<1>1. secret \in [Rotators -> [Namespaces -> Token]] /\ tok \in Token
  BY NoTokenType DEF Init
<1>2. TypeOK
  BY <1>1, DelayAssumption, BoundAssumption DEF Init, TypeOK
<1>3. Sums
  BY NoTokenType, LifetimeAssumption DEF Init, Sums
<1>4. WriteInv
  BY DEF Init, WriteInv
<1>5. Covered
  BY NoTokenType DEF Init, Covered, Ahead
<1> QED  BY <1>2, <1>3, <1>4, <1>5 DEF IInv

-----------------------------------------------------------------------------
(* Steps that leave the tokens, the reports and the delays of those who     *)
(* wait alone, and make nobody wait.                                        *)
LEMMA CoveredKept ==
    ASSUME Covered, secret' = secret, reported' = reported,
           \A r \in Rotators : Waiting(r)' => Waiting(r) /\ timer'[r] = timer[r]
    PROVE  Covered'
<1> SUFFICES ASSUME NEW r \in Rotators, NEW n \in Namespaces \ reported[r]
             PROVE  Ahead(secret[r][n], Waiting(r)', timer'[r])
  BY DEF Covered
<1>1. Ahead(secret[r][n], Waiting(r), timer[r])
  BY DEF Covered
<1> QED  BY <1>1 DEF Ahead

LEMMA ReconcileInv == ASSUME IInv, NEW r \in Rotators, Reconcile(r) PROVE IInv'
<1>1. TypeOK'  BY NoneAssumption DEF IInv, Reconcile, TypeOK
<1>2. Sums'  BY DEF IInv, Reconcile, Sums
<1>3. WriteInv'  BY DEF IInv, Reconcile, WriteInv
<1>4. Covered'
  <2>1. \A q \in Rotators : Waiting(q)' => Waiting(q) /\ timer'[q] = timer[q]
    BY NoneAssumption DEF Reconcile, Waiting, IInv, TypeOK
  <2> QED  BY <2>1, CoveredKept DEF Reconcile, IInv
<1> QED  BY <1>1, <1>2, <1>3, <1>4 DEF IInv

LEMMA ReconcileGetFailsInv == ASSUME IInv, NEW r \in Rotators, ReconcileGetFails(r) PROVE IInv'
<1>0. /\ timer' \in [Rotators -> Nat]
      /\ \A q \in Rotators \ {r} : timer'[q] = timer[q]
  BY AddAfterDelay, DelayAssumption DEF ReconcileGetFails, IInv, TypeOK
<1>1. TypeOK'
  <2>1. budget' \in 0..MaxDisturb  BY DisturbBudget DEF ReconcileGetFails, Fault, IInv, TypeOK
  <2>2. retrying' \in [Rotators -> BOOLEAN]  BY Zenon DEF ReconcileGetFails, IInv, TypeOK
  <2> QED  BY <1>0, <2>1, <2>2 DEF IInv, ReconcileGetFails, TypeOK, cycle
<1>2. Sums'  BY DEF IInv, ReconcileGetFails, Sums, cycle
<1>3. WriteInv'  BY DEF IInv, ReconcileGetFails, WriteInv, cycle
<1>4. Covered'
  <2>1. \A q \in Rotators : Waiting(q)' => Waiting(q) /\ timer'[q] = timer[q]
    BY <1>0 DEF ReconcileGetFails, Waiting, IInv, TypeOK, cycle
  <2> QED  BY <2>1, CoveredKept DEF ReconcileGetFails, IInv
<1> QED  BY <1>1, <1>2, <1>3, <1>4 DEF IInv

LEMMA InitializeResourceInv == ASSUME IInv, InitializeResource PROVE IInv'
<1>0. budget' \in 0..MaxDisturb  BY DisturbBudget DEF InitializeResource, Fault, IInv, TypeOK
<1>1. TypeOK'  BY <1>0 DEF IInv, InitializeResource, TypeOK
<1>2. Sums'  BY DEF IInv, InitializeResource, Sums
<1>3. WriteInv'  BY DEF IInv, InitializeResource, WriteInv
<1>4. Covered'  BY CoveredKept DEF InitializeResource, IInv, Waiting
<1> QED  BY <1>1, <1>2, <1>3, <1>4 DEF IInv

LEMMA HandlingTokenInv == ASSUME IInv, HandlingToken PROVE IInv'
<1>0. PICK l \in Lifetimes : ttl' = l /\ tok' = Minted(l)
  BY DEF HandlingToken
<1>1. TypeOK'  BY <1>0, MintedToken DEF IInv, HandlingToken, TypeOK
<1>2. Sums'  BY <1>0, MintedToken, LifetimeAssumption DEF IInv, HandlingToken, Sums
<1>3. WriteInv'
  <2>1. todo = Namespaces  BY DEF IInv, HandlingToken, WriteInv
  <2> QED  BY <1>0, <2>1, MintedToken, LifetimeAssumption DEF HandlingToken, WriteInv
<1>4. Covered'  BY CoveredKept DEF HandlingToken, IInv, Waiting
<1> QED  BY <1>1, <1>2, <1>3, <1>4 DEF IInv

LEMMA CreateOrUpdateSecretsInv ==
    ASSUME IInv, NEW n \in Namespaces, CreateOrUpdateSecrets(n) PROVE IInv'
<1>0. /\ cur \in Rotators /\ ttl \in Lifetimes /\ ttl \in Nat
      /\ tok.left + tok.lost = ttl /\ tok.slack = ttl
  BY LifetimeAssumption DEF IInv, TypeOK, WriteInv, CreateOrUpdateSecrets
<1>1. CASE /\ secret' = [secret EXCEPT ![cur][n] = tok]
           /\ UNCHANGED <<failed, budget>>
  <2>0. /\ \A r \in Rotators : \A m \in Namespaces :
              secret'[r][m] = IF r = cur /\ m = n THEN tok ELSE secret[r][m]
        /\ secret' \in [Rotators -> [Namespaces -> Token]]
    BY <1>0, <1>1 DEF IInv, TypeOK
  <2>1. TypeOK'  BY <1>1, <2>0 DEF IInv, CreateOrUpdateSecrets, TypeOK
  <2>2. Sums'  BY <1>1, <2>0 DEF IInv, CreateOrUpdateSecrets, Sums
  <2>3. WriteInv'  BY <1>0, <1>1, <2>0 DEF IInv, CreateOrUpdateSecrets, WriteInv
  <2>4. Covered'
    <3> SUFFICES ASSUME NEW r \in Rotators, NEW m \in Namespaces \ reported[r]
                 PROVE  Ahead(secret'[r][m], Waiting(r), timer[r])
      BY DEF Covered, Waiting, CreateOrUpdateSecrets
    <3>1. CASE r = cur /\ m = n  BY <1>0, <2>0, <3>1 DEF Ahead, Waiting, IInv, TypeOK, Token
    <3>2. CASE ~(r = cur /\ m = n)  BY <2>0, <3>2 DEF IInv, Covered
    <3> QED  BY <3>1, <3>2
  <2> QED  BY <2>1, <2>2, <2>3, <2>4 DEF IInv
<1>2. CASE Fault /\ failed' = failed \cup {n} /\ UNCHANGED secret
  <2>0. budget' \in 0..MaxDisturb  BY <1>2, DisturbBudget DEF Fault, IInv, TypeOK
  <2>1. TypeOK'  BY <1>2, <2>0 DEF IInv, CreateOrUpdateSecrets, TypeOK
  <2>2. Sums'  BY <1>2 DEF IInv, CreateOrUpdateSecrets, Sums
  <2>3. WriteInv'  BY <1>0, <1>2 DEF IInv, CreateOrUpdateSecrets, WriteInv
  <2>4. Covered'  BY <1>2, CoveredKept DEF CreateOrUpdateSecrets, IInv, Waiting
  <2> QED  BY <2>1, <2>2, <2>3, <2>4 DEF IInv
<1> QED  BY <1>1, <1>2 DEF CreateOrUpdateSecrets

LEMMA ReconcileFailsInv == ASSUME IInv, ReconcileFails PROVE IInv'
<1>0. cur \in Rotators  BY DEF IInv, TypeOK, ReconcileFails
<1>1. /\ timer' \in [Rotators -> Nat]
      /\ \A q \in Rotators \ {cur} : timer'[q] = timer[q]
  BY <1>0, AddAfterDelay DEF ReconcileFails, IInv, TypeOK
<1>2. TypeOK'
  <2>1. budget' \in 0..MaxDisturb  BY DisturbBudget DEF ReconcileFails, Fault, IInv, TypeOK
  <2>2. retrying' \in [Rotators -> BOOLEAN]  BY Zenon DEF ReconcileFails, IInv, TypeOK
  <2> QED  BY <1>1, <2>1, <2>2, NoTokenType DEF IInv, ReconcileFails, TypeOK, Leave
<1>3. Sums'  BY NoTokenType, LifetimeAssumption DEF IInv, ReconcileFails, Sums, Leave
<1>4. WriteInv'  BY DEF ReconcileFails, WriteInv, Leave
<1>5. Covered'
  <2>1. \A q \in Rotators : Waiting(q)' => Waiting(q) /\ timer'[q] = timer[q]
    BY <1>0, <1>1 DEF ReconcileFails, Waiting, IInv, TypeOK, Leave
  <2> QED  BY <2>1, CoveredKept DEF ReconcileFails, IInv
<1> QED  BY <1>2, <1>3, <1>4, <1>5 DEF IInv

LEMMA UpdateStatusInv == ASSUME IInv, UpdateStatus PROVE IInv'
<1>0. /\ cur \in Rotators /\ ttl \in Lifetimes /\ ttl \in Nat /\ held \in Refresh \cup {Unset}
      /\ Interval \in Int /\ Reserve(ttl, held) \in Int
  BY IntervalLeavesReserve, LifetimeAssumption, RefreshAssumption
     DEF IInv, TypeOK, UpdateStatus, Interval
<1>1. /\ timer' \in [Rotators -> Nat]
      /\ \A q \in Rotators \ {cur} : timer'[q] = timer[q]
      /\ Interval > 0 => timer'[cur] \in 1..Interval
  BY <1>0, AddAfterDelay DEF UpdateStatus, IInv, TypeOK
<1>2. \A n \in Namespaces :
         /\ Scheduled(n) \in Token
         /\ Scheduled(n).left = secret[cur][n].left /\ Scheduled(n).lost = secret[cur][n].lost
         /\ n \notin failed => Scheduled(n).slack = Reserve(ttl, held)
  <2> SUFFICES ASSUME NEW n \in Namespaces
               PROVE  /\ Scheduled(n) \in Token
                      /\ Scheduled(n).left = secret[cur][n].left
                      /\ Scheduled(n).lost = secret[cur][n].lost
                      /\ n \notin failed => Scheduled(n).slack = Reserve(ttl, held)
    OBVIOUS
  <2>1. secret[cur][n] \in Token  BY <1>0 DEF IInv, TypeOK
  <2>2. CASE n \in failed  BY <2>1, <2>2 DEF Scheduled
  <2>3. CASE n \notin failed
    <3>1. Scheduled(n) = [left |-> secret[cur][n].left, lost |-> secret[cur][n].lost,
                          slack |-> Reserve(ttl, held)]
      BY <2>1, <2>3 DEF Scheduled, Token
    <3> QED  BY <1>0, <2>1, <3>1 DEF Token
  <2> QED  BY <2>2, <2>3
<1>3. /\ \A r \in Rotators : \A n \in Namespaces :
            secret'[r][n] = IF r = cur THEN Scheduled(n) ELSE secret[r][n]
      /\ secret' \in [Rotators -> [Namespaces -> Token]]
  BY <1>0, <1>2 DEF UpdateStatus, IInv, TypeOK
<1>4. /\ reported' \in [Rotators -> SUBSET Namespaces]
      /\ \A r \in Rotators : reported'[r] = IF r = cur THEN failed ELSE reported[r]
  BY <1>0 DEF UpdateStatus, IInv, TypeOK
<1>5. TypeOK'
  <2>1. retrying' \in [Rotators -> BOOLEAN]  BY Zenon DEF UpdateStatus, IInv, TypeOK
  <2> QED  BY <1>0, <1>1, <1>3, <1>4, <2>1, NoTokenType DEF IInv, UpdateStatus, TypeOK, Leave
<1>6. Sums'  BY <1>2, <1>3, NoTokenType, LifetimeAssumption DEF IInv, UpdateStatus, Sums, Leave
<1>7. WriteInv'  BY DEF UpdateStatus, WriteInv, Leave
<1>8. Covered'
  <2> SUFFICES ASSUME NEW r \in Rotators, NEW n \in Namespaces \ reported'[r]
               PROVE  Ahead(secret'[r][n], Waiting(r)', timer'[r])
    BY DEF Covered
  <2>1. CASE r # cur
    <3>1. Ahead(secret[r][n], Waiting(r), timer[r])  BY <1>4, <2>1 DEF IInv, Covered
    <3>2. Waiting(r)' => Waiting(r)
      BY <2>1 DEF Waiting, UpdateStatus, IInv, TypeOK
    <3> QED  BY <1>1, <1>3, <2>1, <3>1, <3>2 DEF Ahead
  <2>2. CASE r = cur
    <3>1. n \notin failed  BY <1>4, <2>2
    <3>2. secret[cur][n].left + secret[cur][n].lost = ttl
      BY <3>1 DEF IInv, WriteInv, UpdateStatus
    <3>3. /\ secret'[r][n].left + secret'[r][n].lost = ttl
          /\ secret'[r][n].slack = Reserve(ttl, held)
          /\ secret'[r][n].left \in Nat /\ secret'[r][n].lost \in Nat
      BY <1>2, <1>3, <2>2, <3>1, <3>2 DEF Token
    <3>4. CASE held # Unset /\ held <= 0
      <4>1. Reserve(ttl, held) = 0  BY <1>0, <3>4, IntervalLeavesReserve
      <4> QED  BY <3>3, <4>1 DEF Ahead
    <3>5. CASE ~(held # Unset /\ held <= 0)
      <4>1. Interval > 0 /\ Reserve(ttl, held) + Interval = ttl
        BY <1>0, <3>5, IntervalLeavesReserve, RefreshAssumption DEF Interval
      <4>2. timer'[r] \in 1..Interval  BY <1>1, <2>2, <4>1
      <4> QED  BY <1>0, <3>3, <4>1, <4>2 DEF Ahead
    <3> QED  BY <3>4, <3>5
  <2> QED  BY <2>1, <2>2
<1> QED  BY <1>5, <1>6, <1>7, <1>8 DEF IInv

LEMMA TickInv == ASSUME IInv, Tick PROVE IInv'
<1>0. /\ \A r \in Rotators : Waiting(r) \in BOOLEAN
      /\ tok \in Token /\ \A r \in Rotators : \A n \in Namespaces : secret[r][n] \in Token
  BY DEF Waiting, IInv, TypeOK
<1>1. /\ \A r \in Rotators : \A n \in Namespaces :
            /\ secret'[r][n] = Aged(secret[r][n], ~Waiting(r))
            /\ secret'[r][n] \in Token
            /\ secret'[r][n].left + secret'[r][n].lost <= MaxLife
            /\ ~Waiting(r) => secret'[r][n].left + secret'[r][n].lost
                                = secret[r][n].left + secret[r][n].lost
      /\ secret' \in [Rotators -> [Namespaces -> Token]]
  <2> SUFFICES ASSUME NEW r \in Rotators, NEW n \in Namespaces
               PROVE  /\ Aged(secret[r][n], ~Waiting(r)) \in Token
                      /\ Aged(secret[r][n], ~Waiting(r)).left
                           + Aged(secret[r][n], ~Waiting(r)).lost <= MaxLife
                      /\ ~Waiting(r) =>
                            Aged(secret[r][n], ~Waiting(r)).left
                              + Aged(secret[r][n], ~Waiting(r)).lost
                              = secret[r][n].left + secret[r][n].lost
    BY DEF Tick
  <2>1. secret[r][n].left + secret[r][n].lost <= MaxLife  BY DEF IInv, Sums
  <2> QED  BY <1>0, <2>1, AgedToken
<1>2. /\ tok' \in Token /\ tok'.slack = tok.slack
      /\ tok'.left + tok'.lost <= MaxLife /\ tok'.left + tok'.lost = tok.left + tok.lost
  BY <1>0, AgedToken DEF Tick, IInv, Sums
<1>3. TypeOK'
  <2>1. timer' \in [Rotators -> Nat]  BY DEF IInv, Tick, TypeOK
  <2>2. queue' \subseteq Rotators  BY DEF IInv, Tick, TypeOK
  <2> QED  BY <1>1, <1>2, <2>1, <2>2 DEF IInv, Tick, TypeOK
<1>4. Sums'  BY <1>1, <1>2 DEF Sums
<1>5. WriteInv'
  <2>1. pc = "write" => cur \in Rotators /\ ~Waiting(cur)  BY DEF Waiting, IInv, TypeOK
  <2>2. pc = "write" => \A n \in Namespaces \ (todo \cup failed) :
            secret'[cur][n].left + secret'[cur][n].lost = ttl
    BY <1>1, <2>1 DEF WriteInv, IInv
  <2> QED  BY <1>2, <2>2 DEF WriteInv, Tick, IInv
<1>6. Covered'
  <2> SUFFICES ASSUME NEW r \in Rotators, NEW n \in Namespaces \ reported[r]
               PROVE  Ahead(secret'[r][n], Waiting(r)', timer'[r])
    BY DEF Covered, Tick
  <2>1. Ahead(secret[r][n], Waiting(r), timer[r])  BY DEF IInv, Covered
  <2>2. Waiting(r)' => Waiting(r) /\ timer[r] # 1  BY DEF Waiting, Tick
  <2>3. timer[r] \in Nat /\ timer'[r] = IF timer[r] > 0 THEN timer[r] - 1 ELSE 0
    BY DEF Tick, IInv, TypeOK
  <2>4. Waiting(r) \in BOOLEAN /\ Waiting(r)' \in BOOLEAN  BY DEF Waiting
  <2> QED  BY <1>0, <1>1, <2>1, <2>2, <2>3, <2>4, AgedAhead
<1> QED  BY <1>3, <1>4, <1>5, <1>6 DEF IInv

LEMMA WatchEventInv == ASSUME IInv, NEW r \in Rotators, WatchEvent(r) PROVE IInv'
<1>0. budget' \in 0..MaxDisturb  BY DisturbBudget DEF WatchEvent, IInv, TypeOK
<1>1. TypeOK'  BY <1>0 DEF IInv, WatchEvent, TypeOK, cycle
<1>2. Sums'  BY DEF IInv, WatchEvent, Sums, cycle
<1>3. WriteInv'  BY DEF IInv, WatchEvent, WriteInv, cycle
<1>4. Covered'  BY CoveredKept DEF WatchEvent, IInv, Waiting, cycle
<1> QED  BY <1>1, <1>2, <1>3, <1>4 DEF IInv

LEMMA ChangeRefreshTimeInv ==
    ASSUME IInv, NEW r \in Rotators, NEW v \in Refresh, ChangeRefreshTime(r, v) PROVE IInv'
<1>0. budget' \in 0..MaxDisturb  BY DisturbBudget DEF ChangeRefreshTime, IInv, TypeOK
<1>1. TypeOK'  BY <1>0 DEF IInv, ChangeRefreshTime, TypeOK, cycle
<1>2. Sums'  BY DEF IInv, ChangeRefreshTime, Sums, cycle
<1>3. WriteInv'  BY DEF IInv, ChangeRefreshTime, WriteInv, cycle
<1>4. Covered'  BY CoveredKept DEF ChangeRefreshTime, IInv, Waiting, cycle
<1> QED  BY <1>1, <1>2, <1>3, <1>4 DEF IInv

LEMMA CrashInv == ASSUME IInv, Crash PROVE IInv'
<1>0. budget' \in 0..MaxDisturb  BY DisturbBudget DEF Crash, IInv, TypeOK
<1>1. TypeOK'  BY <1>0, NoTokenType, DelayAssumption DEF IInv, Crash, TypeOK, Leave
<1>2. Sums'  BY NoTokenType, LifetimeAssumption DEF IInv, Crash, Sums, Leave
<1>3. WriteInv'  BY DEF Crash, WriteInv, Leave
<1>4. Covered'  BY CoveredKept DEF Crash, IInv, Waiting
<1> QED  BY <1>1, <1>2, <1>3, <1>4 DEF IInv

-----------------------------------------------------------------------------
LEMMA NextInv == IInv /\ [Next]_vars => IInv'
<1> SUFFICES ASSUME IInv, [Next]_vars PROVE IInv'
  OBVIOUS
<1>1. CASE Cycle
  BY <1>1, InitializeResourceInv, HandlingTokenInv, CreateOrUpdateSecretsInv, UpdateStatusInv,
     ReconcileFailsInv DEF Cycle
<1>2. CASE Tick
  BY <1>2, TickInv
<1>3. CASE Environment
  BY <1>3, ReconcileGetFailsInv, WatchEventInv, ChangeRefreshTimeInv, CrashInv DEF Environment
<1>4. ASSUME NEW r \in Rotators, Reconcile(r) PROVE IInv'
  BY <1>4, ReconcileInv
<1>5. CASE UNCHANGED vars
  BY <1>5 DEF vars, cycle, IInv, TypeOK, Sums, WriteInv, Covered, Waiting
<1> QED  BY <1>1, <1>2, <1>3, <1>4, <1>5 DEF Next

LEMMA InvariantHolds == Spec => []IInv
  BY InitInv, NextInv, PTL DEF Spec

(* The state of RotationClock is well-formed in every reachable state, for  *)
(* any lifetimes and refresh times: the worker has a name exactly when it   *)
(* is at work, and a cycle that writes knows its token's lifetime.          *)
THEOREM TypeCorrect == Spec => []TypeOK
<1>1. IInv => TypeOK  BY DEF IInv
<1> QED  BY <1>1, InvariantHolds, PTL

(* Reconcile's interval is short enough: for any lifetimes that its three   *)
(* quarters divide, any refreshTime and any disturbances, an expired token  *)
(* is found only in a namespace that is reported as failed, or after the    *)
(* whole reserve was lost.                                                  *)
THEOREM Freshness == Spec => []FreshUnlessReported
<1>1. IInv => FreshUnlessReported
  <2> SUFFICES ASSUME IInv, NEW r \in Rotators, NEW n \in Namespaces,
                      secret[r][n].left = 0, n \notin reported[r]
               PROVE  secret[r][n].lost >= secret[r][n].slack
    BY DEF FreshUnlessReported
  <2>1. Ahead(secret[r][n], Waiting(r), timer[r])  BY DEF IInv, Covered
  <2>2. secret[r][n] \in Token  BY DEF IInv, TypeOK
  <2> QED  BY <2>1, <2>2 DEF Ahead, Token
<1> QED  BY <1>1, InvariantHolds, PTL

=============================================================================

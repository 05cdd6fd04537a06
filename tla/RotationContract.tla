-------------------------- MODULE RotationContract --------------------------
(***************************************************************************)
(* What ManagingSecrets and UpdateStatus promise of a cluster in which     *)
(* users act between cycles only, without namespaces, caches, API calls or *)
(* the order of anything: one SecretRotator is served at a time; a cycle   *)
(* has at most one token, minted for it; it writes only secrets that are   *)
(* free or its own, removes only what it has once written and not what it  *)
(* has acknowledged in this cycle; and the status claims exactly what the  *)
(* cycle has acknowledged, or the cycle ends without a word.               *)
(*                                                                         *)
(* SecretSync implements this specification.                               *)
(***************************************************************************)
CONSTANTS Rotators, Keys, Types, Tokens, None, User

VARIABLES
    secrets,  \* the secret stored under each key
    active,   \* the SecretRotator being served
    token,    \* the token of this cycle
    done,     \* the keys this cycle has acknowledged
    ledger,   \* the keys each SecretRotator has ever written
    claim     \* the keys each SecretRotator's status says it manages

vars == <<secrets, active, token, done, ledger, claim>>

NoSecret == [owner |-> None, type |-> None, token |-> None]

-----------------------------------------------------------------------------
Init ==
    /\ secrets = [k \in Keys |-> NoSecret]
    /\ active = None /\ token = None /\ done = {}
    /\ ledger = [r \in Rotators |-> {}] /\ claim = [r \in Rotators |-> {}]

Begin(r) ==
    /\ active = None
    /\ active' = r
    /\ UNCHANGED <<secrets, token, done, ledger, claim>>

(* A token no secret holds. *)
Mint ==
    /\ active # None /\ token = None
    /\ token' \in Tokens \ {secrets[k].token : k \in Keys}
    /\ UNCHANGED <<secrets, active, done, ledger, claim>>

(* The secret gets the token of this cycle; whether it is acknowledged      *)
(* depends on whether the answer arrives.                                   *)
Rotate(k) ==
    /\ active # None /\ token # None
    /\ secrets[k].owner \in {None, active}
    /\ \E t \in Types :
          secrets' = [secrets EXCEPT ![k] = [owner |-> active, type |-> t, token |-> token]]
    /\ ledger' = [ledger EXCEPT ![active] = @ \cup {k}]
    /\ done' \in {done, done \cup {k}}
    /\ UNCHANGED <<active, token, claim>>

Removable == ledger[active] \ done

Without(k) == [secrets EXCEPT ![k] = NoSecret]

Remove(k) ==
    /\ active # None /\ k \in Removable
    /\ secrets' = Without(k)
    /\ UNCHANGED <<active, token, done, ledger, claim>>

End == active' = None /\ token' = None /\ done' = {}

Publish ==
    /\ active # None
    /\ claim' = [claim EXCEPT ![active] = done]
    /\ End
    /\ UNCHANGED <<secrets, ledger>>

(* The cycle fails or the operator restarts; the failed call may have been  *)
(* a deletion that took effect.                                             *)
Abort ==
    /\ active # None
    /\ secrets' \in {secrets} \cup {Without(k) : k \in Removable}
    /\ End
    /\ UNCHANGED <<ledger, claim>>

Edit(k) ==
    /\ active = None
    /\ secrets' \in {Without(k)} \cup
                    {[secrets EXCEPT ![k] = [owner |-> User, type |-> t, token |-> None]] : t \in Types}
    /\ UNCHANGED <<active, token, done, ledger, claim>>

Next ==
    \/ \E r \in Rotators : Begin(r)
    \/ Mint
    \/ \E k \in Keys : Rotate(k) \/ Remove(k) \/ Edit(k)
    \/ Publish
    \/ Abort

Spec == Init /\ [][Next]_vars

=============================================================================

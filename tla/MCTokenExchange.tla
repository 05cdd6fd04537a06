-------------------------- MODULE MCTokenExchange --------------------------
(***************************************************************************)
(* Small instances of TokenExchange for TLC: the operator's service        *)
(* account and those of two tenants.                                       *)
(***************************************************************************)
EXTENDS TokenExchange

CONSTANTS home, away, op, ten, podRole, tenRole, opRole

(* The tenant's account and role are in the namespace "away", the           *)
(* operator's in "home"; there is no account "op" in "away".                *)
MCAbsent == {<<away, op>>}

MCAnnotation ==
    [a \in Accounts |-> CASE a = <<home, op>> -> opRole [] a = <<away, ten>> -> tenRole [] OTHER -> None]

MCTrust == {<<<<home, op>>, opRole>>, <<<<away, ten>>, tenRole>>, <<<<home, ten>>, tenRole>>}

(* A tenant with an account of its own, one with the operator's account or  *)
(* pod, and one that names half an account.                                 *)
Tenants == {[auth |-> "webIdentity", site |-> away, login |-> ten],
            [auth |-> "auto", site |-> None, login |-> None],
            [auth |-> "podIdentity", site |-> None, login |-> ten]}

=============================================================================

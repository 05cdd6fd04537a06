-------------------------- MODULE MCRegistryAccess --------------------------
(***************************************************************************)
(* Small instances of RegistryAccess for TLC.                              *)
(***************************************************************************)
EXTENDS RegistryAccess

CONSTANTS h1, h2, c1, c2, v1, v2

OwnNames == [r \in Rotators |-> r]

Docker(n) == [name |-> n, type |-> "docker"]

(* Accepted: with and without a scheme, subdomains and certificates. *)
GoodSpecs == {
    [secrets |-> <<Docker("a")>>, secretName |-> "", url |-> [scheme |-> "http://", host |-> h1],
     subdomains |-> {}, security |-> [mode |-> "off", secret |-> c1]],
    [secrets |-> <<>>, secretName |-> "a", url |-> [scheme |-> "https://", host |-> h2],
     subdomains |-> {[scheme |-> "", host |-> h1]}, security |-> [mode |-> "on", secret |-> c1]],
    [secrets |-> <<[name |-> "b", type |-> "generic"]>>, secretName |-> "a",
     url |-> [scheme |-> "", host |-> h1], subdomains |-> {},
     security |-> [mode |-> "on", secret |-> c2]]}

(* Refused for their secrets or their URL, or of no use. *)
Faulty == [secrets |-> <<>>, secretName |-> "", url |-> [scheme |-> "", host |-> h1],
           subdomains |-> {}, security |-> [mode |-> "skip", secret |-> c1]]

BadSpecs == {
    Faulty,
    [Faulty EXCEPT !.secrets = <<Docker("a")>>, !.secretName = "a"],
    [Faulty EXCEPT !.secrets = <<Docker("")>>],
    [Faulty EXCEPT !.secrets = <<[name |-> "a", type |-> "tls"]>>],
    [Faulty EXCEPT !.secretName = "a", !.url = [scheme |-> "", host |-> ""]],
    [Faulty EXCEPT !.secretName = "a", !.url = [scheme |-> "https://", host |-> ""]]}

SomeSpecs == GoodSpecs \cup BadSpecs

Data(F, v) == [f \in Files |-> IF f \in F THEN v ELSE None]

SomeCertData == {
    Data({"tls.crt", "tls.key", "ca.crt"}, v1),
    Data({"tls.crt", "tls.key", "ca.crt"}, v2),
    Data({"cert.pem", "key.pem", "ca.pem"}, v1),
    Data({"tls.crt", "ca.pem"}, v2)}

=============================================================================

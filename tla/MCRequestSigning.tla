-------------------------- MODULE MCRequestSigning --------------------------
(***************************************************************************)
(* Small instances of RequestSigning for TLC.                              *)
(***************************************************************************)
EXTENDS RequestSigning

CONSTANTS c1, c2, c3, t1, t2

(* Session credentials, as the operator uses, and permanent ones. *)
SessionTokens == [c \in Creds |-> CASE c = c1 -> t1 [] c = c2 -> t2 [] OTHER -> None]

(* Spaces in every place, runs of them of different lengths that follow     *)
(* each other, and tabs.                                                    *)
Spaced ==
    {<<>>, <<" ", " ">>, <<"x", "x">>, <<"x", " ", " ", "x", " ", "x">>,
     <<" ", "x", " ", "x", " ", " ", "x", " ", " ">>, <<"\t", " ", "x">>, <<"x", " ", " ", "\t">>}

ValuesOf ==
    [h \in CallerHeaders |-> IF h = "X-Amz-Meta-K" THEN Spaced ELSE {<<"x">>}]

Url(scheme, port, path, length) ==
    [scheme |-> scheme, name |-> <<"h">>, v6 |-> FALSE, port |-> port, path |-> path, length |-> length]

(* ::1 *)
Literal(port) ==
    [scheme |-> "https", name |-> <<":", ":", "1">>, v6 |-> TRUE, port |-> port, path |-> "", length |-> 0]

SomeUrls == {
    Url("https", "", "", 0), Url("https", "443", "/p", 1), Url("http", "80", "/p", 0),
    Url("http", "443", "", 0), Url("ftp", "80", "", 0), Literal("443"), Literal("8443")}

(* Candidates below, at and above the bound, in the first byte or the last. *)
Bound == <<128, 3>>
SomeCandidates == {<<0, 0>>, <<127, 255>>, <<128, 2>>, <<128, 3>>, <<128, 4>>, <<129, 0>>, <<255, 255>>}

=============================================================================

--------------------------- MODULE RequestSigning ---------------------------
(***************************************************************************)
(* SigV4a signatures: the private key derived from an access key, and the  *)
(* canonical request that is signed, against what a verifier recomputes    *)
(* from the request that arrives.                                          *)
(*                                                                         *)
(* SignV4a is what the operator calls: it signs a request of its own once. *)
(* SignHTTP and PresignHTTP are the same algorithm as a library: callers   *)
(* set headers, sign or presign, and may do so again with the same         *)
(* request, later or with other credentials.  A signature is the record of *)
(* the key and of everything that goes into the string to sign; the hash   *)
(* hides nothing.                                                          *)
(*                                                                         *)
(* Header keys are canonical, as the methods of http.Header make them.     *)
(* Hosts are texts, as sequences of symbols, in which a port is one symbol.*)
(***************************************************************************)
EXTENDS Integers, Sequences, SequencesExt, FiniteSets

CONSTANTS
    Creds,        \* credentials, by access key
    SessionToken, \* the session token of each; None if it has none
    None,         \* no value
    Values,       \* the values callers give each header: sequences of characters
    Urls,         \* the URLs of requests, with the length of the content
    Candidates,   \* the key candidates that HMACKeyDerivation returns
    Order,        \* the order of the curve less two, as bytes
    MaxCounter,   \* the last value of the single byte counter
    MaxTime,      \* bound: the latest signing time
    MaxHeaders,   \* bound: how many headers callers add
    MaxSigned     \* bound: how often a request is signed or presigned

Byte == 0..255

ASSUME TokenAssumption == DOMAIN SessionToken = Creds

(* Host names have no colons, IPv6 literals (v6) have two or more; neither  *)
(* have brackets, which are around a literal in the URL.  A port or a path  *)
(* that is not there is empty.                                              *)
Empty == ""
Colon == ":"
Open  == "["
Close == "]"
At(c, text) == {i \in 1..Len(text) : text[i] = c}

ASSUME UrlAssumption ==
    \A u \in Urls :
        /\ DOMAIN u = {"scheme", "name", "v6", "port", "path", "length"}
        /\ u.name \in Seq(STRING) /\ u.name # <<>> /\ u.v6 \in BOOLEAN
        /\ At(Open, u.name) = {} /\ At(Close, u.name) = {}
        /\ IF u.v6 THEN \E i, j \in At(Colon, u.name) : i < j ELSE At(Colon, u.name) = {}
        /\ u.port \notin {Colon, Open, Close}
ASSUME ByteAssumption ==
    /\ Order \in Seq(Byte) /\ MaxCounter \in 1..255
    /\ \A c \in Candidates : c \in Seq(Byte) /\ Len(c) = Len(Order)
ASSUME BoundAssumption == MaxTime \in Nat /\ MaxHeaders \in Nat /\ MaxSigned \in Nat \ {0}

VARIABLES
    kdf,       \* a derivation: credentials, counter, key; None if there is none
    now,       \* the time
    req,       \* the http.Request; None before there is one
    added,     \* how many headers callers have added to it
    calls,     \* the calls that have signed or presigned it
    sent       \* the request that arrives; None before it is signed

vars == <<kdf, now, req, added, calls, sent>>

-----------------------------------------------------------------------------
(* deriveKeyFromAccessKeyPair. *)

(* Big-endian numbers. *)
Number(bytes) ==
    LET n[i \in 0..Len(bytes)] == IF i = 0 THEN 0 ELSE 256 * n[i - 1] + bytes[i]
    IN  n[Len(bytes)]

Bit(d) == (d \div 256) % 2

(* Mutant: the last byte that differs decides. *)
CompareLastByte(x, y) ==
    LET Step(acc, i) == IF x[i] = y[i] THEN acc ELSE Bit(y[i] - x[i]) - Bit(x[i] - y[i])
    IN  FoldLeft(Step, 0, [i \in 1..Len(x) |-> i])

(* The first byte that differs decides, and no branch depends on a byte:    *)
(* x &^ y is x unless y is set.                                             *)
ConstantTimeByteCompare(x, y) ==
    LET AndNot(a, b) == IF b = 1 THEN 0 ELSE a
        Or(a, b)     == IF a = 1 THEN 1 ELSE b
        Step(acc, i) ==
            LET xLarger == Or(acc.x, AndNot(Bit(y[i] - x[i]), acc.y))
            IN  [x |-> xLarger, y |-> Or(acc.y, AndNot(Bit(x[i] - y[i]), xLarger))]
        larger[i \in 0..Len(x)] == IF i = 0 THEN [x |-> 0, y |-> 0] ELSE Step(larger[i - 1], i)
    IN  larger[Len(x)].x - larger[Len(x)].y

(* SignV4a starts with retrievePrivateKey. *)
RetrievePrivateKey(c) ==
    /\ req = None /\ calls = <<>> /\ kdf = None
    /\ kdf' = [cred |-> c, counter |-> 1, d |-> None]
    /\ UNCHANGED <<now, req, added, calls, sent>>

(* One turn of the loop: the candidate is taken if it is small enough. *)
DeriveKey(candidate) ==
    /\ kdf # None /\ kdf.d = None
    /\ kdf' = IF ConstantTimeByteCompare(candidate, Order) = -1
              THEN [kdf EXCEPT !.d = Number(candidate) + 1]
              ELSE IF kdf.counter = MaxCounter THEN None ELSE [kdf EXCEPT !.counter = @ + 1]
    /\ UNCHANGED <<now, req, added, calls, sent>>

-----------------------------------------------------------------------------
(* Header values. *)

Space == " "

(* Trailing spaces, then leading ones: the loop on k ends at j. *)
Trimmed(s) ==
    LET j == Max({0} \cup {i \in 1..Len(s) : s[i] # Space})
        k == CHOOSE i \in 1..(Len(s) + 1) :
                /\ i >= j \/ s[i] # Space
                /\ \A h \in 1..(i - 1) : h < j /\ s[h] = Space
    IN  SubSeq(s, k, j)

DoubleSpaces(s) == {i \in 1..(Len(s) - 1) : s[i] = Space /\ s[i + 1] = Space}

(* From the first double space on, only the first of several is copied. *)
StripExcessSpaces(s) ==
    LET t == Trimmed(s)
        j == Min(DoubleSpaces(t))
        Step(acc, ch) ==
            IF ch # Space THEN [buf |-> Append(acc.buf, ch), spaces |-> 0]
            ELSE [buf |-> IF acc.spaces = 0 THEN Append(acc.buf, ch) ELSE acc.buf,
                  spaces |-> acc.spaces + 1]
        copied[k \in (j - 1)..Len(t)] ==
            IF k = j - 1 THEN [buf |-> SubSeq(t, 1, k), spaces |-> 0] ELSE Step(copied[k - 1], t[k])
    IN  IF DoubleSpaces(t) = {} THEN t ELSE copied[Len(t)].buf

White == {Space, "\t"}

(* strings.TrimSpace; the transport trims header values the same way. *)
TrimSpace(s) ==
    LET P == {i \in 1..Len(s) : s[i] \notin White}
    IN  IF P = {} THEN <<>> ELSE SubSeq(s, Min(P), Max(P))

(* What the verifier makes of a value: spaces side by side become one. *)
Collapsed(s) ==
    LET Kept(i) == i = 1 \/ s[i] # Space \/ s[i - 1] # Space
        kept[i \in 0..Len(s)] ==
            IF i = 0 THEN <<>> ELSE IF Kept(i) THEN Append(kept[i - 1], s[i]) ELSE kept[i - 1]
    IN  kept[Len(s)]

-----------------------------------------------------------------------------
(* Which headers are signed, and which go to the query of a presigned URL.  *)

CallerHeaders == {"Content-Type", "User-Agent", "X-Amz-Meta-K", "X-Amz-Other"}
ASSUME ValueAssumption == Values \in [CallerHeaders -> SUBSET Seq(STRING)]

SigningHeaders == {"X-Amz-Date", "X-Amz-Region-Set", "X-Amz-Security-Token"}
Headers == CallerHeaders \cup SigningHeaders \cup {"Host", "Authorization"}
AmzHeaders == SigningHeaders \cup {"X-Amz-Meta-K", "X-Amz-Other"}

(* Mutant: an old signature is signed. *)
IgnoredUserAgent == {"User-Agent"}

IgnoredHeaders == {"Authorization", "User-Agent"}

RequiredSignedHeaders == {"Content-Type", "X-Amz-Meta-K"}

AllowedQueryHoisting == AmzHeaders \ RequiredSignedHeaders

(* Header and query maps: a sequence of values for each key that is set. *)
Set(m, k, v) == [h \in DOMAIN m \cup {k} |-> IF h = k THEN <<v>> ELSE m[h]]

Add(m, k, v) ==
    [h \in DOMAIN m \cup {k} |->
        IF h # k THEN m[h] ELSE IF k \in DOMAIN m THEN Append(m[k], v) ELSE <<v>>]

-----------------------------------------------------------------------------
(* Hosts. *)

(* The host of a URL as it is written there. *)
Written(u) ==
    (IF u.v6 THEN <<Open>> \o u.name \o <<Close>> ELSE u.name)
    \o (IF u.port = Empty THEN <<>> ELSE <<Colon, u.port>>)

(* IndexByte finds the first of them; brackets are stripped with the port.  *)
stripPort(host) ==
    IF At(Colon, host) = {} THEN host
    ELSE IF At(Close, host) = {} THEN SubSeq(host, 1, Min(At(Colon, host)) - 1)
    ELSE IF host[1] = Open THEN SubSeq(host, 2, Min(At(Close, host)) - 1)
    ELSE SubSeq(host, 1, Min(At(Close, host)) - 1)

portOnly(host) ==
    LET ends == {i \in At(Close, host) : i + 1 \in At(Colon, host)}
    IN  IF At(Colon, host) = {} THEN <<>>
        ELSE IF ends # {} THEN SubSeq(host, Min(ends) + 2, Len(host))
        ELSE IF At(Close, host) # {} THEN <<>>
        ELSE SubSeq(host, Min(At(Colon, host)) + 1, Len(host))

(* Mutant: the scheme is not looked at. *)
isPortOfAnyScheme(scheme, port) == port \in {<<>>, <<"80">>, <<"443">>}

isDefaultPort(scheme, port) ==
    \/ port = <<>>
    \/ scheme = "http" /\ port = <<"80">>
    \/ scheme = "https" /\ port = <<"443">>

(* r.host is req.Host, which is the URL's host to begin with. *)
SanitizeHostForHeader(r) ==
    LET port == portOnly(r.host)
    IN  IF port # <<>> /\ isDefaultPort(r.scheme, port)
        THEN [r EXCEPT !.host = stripPort(r.host)]
        ELSE r

(* GetURIPath *)
GetURIPath(r) == IF r.path = Empty THEN "/" ELSE r.path

-----------------------------------------------------------------------------
(* Build. *)

Day(t) == t \div 2

(* Mutant: a session token that is there stays. *)
KeepToken(m, c) ==
    LET r == Set(Set(m, "X-Amz-Region-Set", "*"), "X-Amz-Date", now)
    IN  IF SessionToken[c] = None \/ "X-Amz-Security-Token" \in DOMAIN m THEN r
        ELSE Set(r, "X-Amz-Security-Token", SessionToken[c])

(* setRequiredSigningFields: into the headers, or the query of a presigned  *)
(* URL.                                                                     *)
setRequiredSigningFields(m, c) ==
    LET r == Set(Set(m, "X-Amz-Region-Set", "*"), "X-Amz-Date", now)
    IN  IF SessionToken[c] = None THEN r ELSE Set(r, "X-Amz-Security-Token", SessionToken[c])

(* The canonical form of a value; the ones of the signing fields have none  *)
(* of the characters it is about.                                           *)
Clean(h, v) == IF h \in CallerHeaders THEN TrimSpace(StripExcessSpaces(v)) ELSE v

(* buildCanonicalHeaders: host and content-length come from the request.    *)
buildCanonicalHeaders(r, hs) ==
    LET names == (DOMAIN hs \ IgnoredHeaders) \cup (IF r.length > 0 THEN {"Content-Length"} ELSE {})
    IN  [h \in names |->
            CASE h = "Host" -> <<r.host>>
              [] h = "Content-Length" -> <<r.length>>
              [] OTHER -> [i \in 1..Len(hs[h]) |-> Clean(h, hs[h][i])]]

(* The string to sign, under the private key of c. *)
Signature(r, c, canonical) ==
    [key |-> c, time |-> now, scope |-> Day(now), method |-> r.method, path |-> GetURIPath(r),
     query |-> r.query, headers |-> canonical]

Authorization(r, c, canonical) ==
    [cred |-> c, scope |-> Day(now), signedHeaders |-> DOMAIN canonical,
     signature |-> Signature(r, c, canonical)]

(* Build of the operator's signer, and of SignHTTP, which signs the host    *)
(* whether or not there is such a header.                                   *)
SignHeaders(r, c) ==
    LET hs == setRequiredSigningFields(Set(r.headers, "Host", Written(r)), c)
        s  == SanitizeHostForHeader([r EXCEPT !.headers = hs])
        a  == Authorization(s, c, buildCanonicalHeaders(s, hs))
    IN  [s EXCEPT !.headers = Set(hs, "Authorization", a)]

(* Build of PresignHTTP, with or without hoisting: the URL, and the headers *)
(* that are returned with it.  The signing fields are set before headers    *)
(* are hoisted over them.  The credential and the names of the signed       *)
(* headers are in the query too, before it is signed; the signature is      *)
(* added, whether or not there is one.                                      *)
SignQuery(r, c, hoist) ==
    LET hs == Set(r.headers, "Host", Written(r))
        up == IF hoist THEN DOMAIN hs \cap AllowedQueryHoisting ELSE {}
        q1 == setRequiredSigningFields(r.query, c)
        q2 == [k \in DOMAIN q1 \cup up |-> IF k \in up THEN hs[k] ELSE q1[k]]
        s  == SanitizeHostForHeader([r EXCEPT !.headers = [h \in DOMAIN hs \ up |-> hs[h]]])
        ch == buildCanonicalHeaders(s, s.headers)
        q3 == Set(Set(q2, "X-Amz-Credential", c), "X-Amz-SignedHeaders", DOMAIN ch)
        p  == [s EXCEPT !.query = q3, !.headers = [h \in DOMAIN s.headers \ IgnoredHeaders |-> s.headers[h]]]
    IN  [p EXCEPT !.query = Add(q3, "X-Amz-Signature", Authorization(p, c, ch))]

-----------------------------------------------------------------------------
(* Requests. *)

(* Its Host is the URL's. *)
Request(u) ==
    [method |-> "GET", scheme |-> u.scheme, name |-> u.name, v6 |-> u.v6, port |-> u.port,
     host |-> Written(u), path |-> u.path, length |-> u.length,
     query |-> [k \in {"Action"} |-> <<"GetCallerIdentity">>], headers |-> <<>>]

(* What net/http sends: header values trimmed, Host and Content-Length from *)
(* the request's fields, a slash for an empty path.                         *)
Sent(r) ==
    LET names == DOMAIN r.headers \cup {"Host"} \cup (IF r.length > 0 THEN {"Content-Length"} ELSE {})
        Sends(h) == CASE h = "Host" -> <<r.host>>
                      [] h = "Content-Length" -> <<r.length>>
                      [] h \in CallerHeaders -> [i \in 1..Len(r.headers[h]) |-> TrimSpace(r.headers[h][i])]
                      [] OTHER -> r.headers[h]
    IN  [r EXCEPT !.headers = [h \in names |-> Sends(h)], !.path = IF @ = Empty THEN "/" ELSE @]

(* createArtifactoryToken passes the first value of every header on, save   *)
(* Host, which net/http leaves out: Artifactory knows the host.             *)
Forwarded(r) == [r EXCEPT !.headers = [h \in DOMAIN @ \ {"Host"} |-> <<@[h][1]>>]]

Call(presign, hoist, c) == [presign |-> presign, hoist |-> hoist, cred |-> c, time |-> now]

(* The operator signs GetCallerIdentity with the key it has derived. *)
SignV4a ==
    /\ kdf # None /\ kdf.d # None
    /\ LET u == [scheme |-> "https", name |-> <<"sts">>, v6 |-> FALSE, port |-> Empty, path |-> Empty, length |-> 0]
       IN  sent' = Sent(Forwarded(SignHeaders(Request(u), kdf.cred)))
    /\ calls' = <<Call(FALSE, FALSE, kdf.cred)>> /\ kdf' = None
    /\ UNCHANGED <<now, req, added>>

(* A caller of the library. *)
NewRequest(u) ==
    /\ req = None /\ calls = <<>> /\ kdf = None
    /\ req' = Request(u)
    /\ UNCHANGED <<kdf, now, added, calls, sent>>

AddHeader(h, v) ==
    /\ req # None /\ added < MaxHeaders
    /\ added' = added + 1
    /\ req' = [req EXCEPT !.headers = Add(@, h, v)]
    /\ UNCHANGED <<kdf, now, calls, sent>>

(* The request is changed in place, and sent. *)
SignHTTP(c) ==
    /\ req # None /\ Len(calls) < MaxSigned
    /\ req' = SignHeaders(req, c)
    /\ sent' = Sent(req')
    /\ calls' = Append(calls, Call(FALSE, FALSE, c))
    /\ UNCHANGED <<kdf, now, added>>

(* The URL and the headers that are returned are sent; the request gets the *)
(* new URL and keeps its headers.                                           *)
PresignHTTP(c, hoist) ==
    /\ req # None /\ Len(calls) < MaxSigned
    /\ LET p == SignQuery(req, c, hoist)
       IN  sent' = Sent(p) /\ req' = [SanitizeHostForHeader(req) EXCEPT !.query = p.query]
    /\ calls' = Append(calls, Call(TRUE, hoist, c))
    /\ UNCHANGED <<kdf, now, added>>

Tick == now < MaxTime /\ now' = now + 1 /\ UNCHANGED <<kdf, req, added, calls, sent>>

Init ==
    /\ kdf = None /\ now = 1 /\ req = None
    /\ added = 0 /\ calls = <<>> /\ sent = None

Next ==
    \/ \E c \in Creds : RetrievePrivateKey(c) \/ SignHTTP(c)
    \/ \E candidate \in Candidates : DeriveKey(candidate)
    \/ SignV4a
    \/ \E u \in Urls : NewRequest(u)
    \/ \E h \in CallerHeaders : \E v \in Values[h] : AddHeader(h, v)
    \/ \E c \in Creds, hoist \in BOOLEAN : PresignHTTP(c, hoist)
    \/ Tick

Spec == Init /\ [][Next]_vars

-----------------------------------------------------------------------------
(* Properties. *)

Presigned(s) == "X-Amz-Signature" \in DOMAIN s.query

(* Where the verifier finds the signature and the signing fields. *)
AuthorizationOf(s) ==
    IF Presigned(s) THEN s.query["X-Amz-Signature"][1] ELSE s.headers["Authorization"][1]

SigningFields(s) == IF Presigned(s) THEN s.query ELSE s.headers

(* The request as the verifier canonicalises it. *)
Recomputed(s) ==
    LET a == AuthorizationOf(s)
        Canonical(h) == IF h \in CallerHeaders
                        THEN [i \in 1..Len(s.headers[h]) |-> Collapsed(s.headers[h][i])]
                        ELSE s.headers[h]
    IN  [key |-> a.cred, time |-> SigningFields(s)["X-Amz-Date"][1], scope |-> a.scope,
         method |-> s.method, path |-> s.path,
         query |-> [k \in DOMAIN s.query \ {"X-Amz-Signature"} |-> s.query[k]],
         headers |-> [h \in a.signedHeaders |-> Canonical(h)]]

(* The verifier finds one signature, of the request that arrives: it covers *)
(* the host and all X-Amz headers, and its scope is of the day.             *)
Verified(s) ==
    /\ Presigned(s) => Len(s.query["X-Amz-Signature"]) = 1 /\ "Authorization" \notin DOMAIN s.headers
    /\ LET a == AuthorizationOf(s)
       IN  /\ {"Host"} \cup (DOMAIN s.headers \cap AmzHeaders) \subseteq a.signedHeaders
           /\ a.signedHeaders \subseteq DOMAIN s.headers
           /\ a.signature = Recomputed(s)
           /\ a.scope = Day(a.signature.time)

PresignedBefore(cs) == \E i \in 1..(Len(cs) - 1) : cs[i].presign

(* What earlier calls spoil: their signature in the query, or their date in *)
(* a header, which is hoisted over the new one.                             *)
Spoiled(cs) ==
    \/ PresignedBefore(cs)
    \/ Last(cs).hoist /\ Len(cs) > 1 /\ cs[Len(cs) - 1].time # Last(cs).time

(* Whatever the URL, the headers and their spaces, whether a request is     *)
(* signed or presigned, and however often, the signature verifies: unless   *)
(* the request was presigned before, or is presigned with hoisting after it *)
(* was signed at another time.  In those cases it does not.                 *)
SignaturesVerify == sent # None => (Verified(sent) <=> ~Spoiled(calls))

(* The session token that arrives is the one of the credentials that have   *)
(* signed, with two exceptions.  Presigning with hoisting puts the token of *)
(* the last who signed before with one over the signer's own; and           *)
(* credentials that have none, signing what others signed, leave the token  *)
(* of the others.  (A request that was presigned before is of no use, and   *)
(* nothing is said of it.)                                                  *)
TokenOfSigner ==
    sent # None /\ ~PresignedBefore(calls) =>
        LET last   == Last(calls)
            own    == SessionToken[last.cred]
            before == {i \in 1..(Len(calls) - 1) : SessionToken[calls[i].cred] # None}
            f      == SigningFields(sent)
            Arrives(t) == "X-Amz-Security-Token" \in DOMAIN f /\ f["X-Amz-Security-Token"] = <<t>>
        IN  IF own # None /\ ~(last.hoist /\ before # {}) THEN Arrives(own)
            ELSE IF before # {} /\ (last.hoist \/ ~last.presign)
                 THEN Arrives(SessionToken[calls[Max(before)].cred])
                 ELSE "X-Amz-Security-Token" \notin DOMAIN f

(* The ports that RFC 9110 gives the schemes. *)
WellKnown == [http |-> "80", https |-> "443"]

IsWellKnown(u) == u.scheme \in DOMAIN WellKnown /\ u.port = WellKnown[u.scheme]

(* The Host header is the host of the URL, with its port or, if that is the *)
(* one the scheme implies, without: except that an IPv6 literal with such a *)
(* port loses its brackets too, and is then no host at all.                 *)
SameAuthority ==
    sent # None =>
        LET host == sent.headers["Host"][1]
        IN  (\/ host = Written(sent)
             \/ IsWellKnown(sent) /\ host = Written([sent EXCEPT !.port = Empty]))
            <=> ~(sent.v6 /\ IsWellKnown(sent))

(* The derived key is a scalar of the curve: at least one and, because the  *)
(* comparison of bytes is one of numbers, less than its order.              *)
KeyInRange == kdf # None /\ kdf.d # None => kdf.d \in 1..Number(Order)

=============================================================================

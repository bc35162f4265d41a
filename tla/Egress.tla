------------------------------- MODULE Egress -------------------------------
(***************************************************************************)
(* wasm/base_url.rs and wasm/host.rs: where a WASM backend may connect to. *)
(*                                                                         *)
(* An address is a record: its family, the range it is in, and the form    *)
(* that embeds an IPv4 address in an IPv6 one ("bare" when none does).  A  *)
(* host is a record too: an IP literal with its address, or a name with    *)
(* the addresses it resolves to, "localhost" apart because the code reads  *)
(* the name.  A value of base_url is what the URL parser tells apart, and  *)
(* `decorated` stands for all that normalising strips: userinfo, a query,  *)
(* a fragment, a trailing slash, an upper case scheme.                     *)
(*                                                                         *)
(* Op_Fault is Op with a plausible bug.                                    *)
(***************************************************************************)
EXTENDS Naturals, FiniteSets

NoHost == [name |-> "", kind |-> "none", addrs |-> {}]
NoValue == [scheme |-> "unset", host |-> NoHost, port |-> 0, decorated |-> FALSE]
Blank == [NoValue EXCEPT !.scheme = "blank"]
Value(scheme, host, port, decorated) ==
    [scheme |-> scheme, host |-> host, port |-> port, decorated |-> decorated]

\* ------------------------------------------------------------- addresses ---

\* The address an embedding form is judged by.
Embedded(a) == IF a.form = "bare" THEN a ELSE [a EXCEPT !.fam = 4, !.form = "bare"]

\* Only IPv4 has a broadcast address: another family's is one that embeds it.
Addresses ==
    {a \in [fam : {4, 6}, form : {"bare", "mapped", "compatible", "nat64", "6to4"},
            net : {"public", "loopback", "private", "linklocal", "unspecified", "broadcast"}] :
        a.net = "broadcast" => Embedded(a).fam = 4}

AnyHost ==
    {NoHost} \union [name : STRING, kind : {"name", "localhost", "literal"}, addrs : SUBSET Addresses]
Schemes == {"unset", "blank", "none", "http", "https", "ws", "wss"}
AnyValue == [scheme : Schemes, host : AnyHost, port : Nat, decorated : BOOLEAN]

NeverRoutable(a) ==
    LET judged == Embedded(a)
    IN  judged.net \in {"linklocal", "unspecified"} \/ (judged.fam = 4 /\ judged.net = "broadcast")

IsLocal(a) == Embedded(a).net \in {"loopback", "private"}

\* IpAddr::is_loopback does not see through the forms that embed an address.
Permitted(a, allowLoopback, scope) ==
    /\ ~NeverRoutable(a)
    /\ \/ scope = "user"
       \/ allowLoopback /\ a.form = "bare" /\ a.net = "loopback"
       \/ ~IsLocal(a)

\* ----------------------------------------------------------- what is named ---

DefaultPort(scheme) == IF scheme \in {"http", "ws"} THEN 80 ELSE 443

InferredScheme(host) ==
    IF host.kind = "localhost" \/ (host.kind = "literal" /\ \A a \in host.addrs : IsLocal(a))
    THEN "http" ELSE "https"

\* The value with a scheme, or NoValue when no host can be read.
Parse(v) ==
    IF v.scheme \in {"unset", "blank"} \/ v.host = NoHost THEN NoValue
    ELSE IF v.scheme = "none" THEN [v EXCEPT !.scheme = InferredScheme(v.host)]
    ELSE v

Normalize(v) == IF Parse(v) = NoValue THEN NoValue ELSE [Parse(v) EXCEPT !.decorated = FALSE]

\* Only of a value that parses.
Authority(v) ==
    LET uri == Parse(v)
    IN  <<uri.host, IF uri.port = 0 THEN DefaultPort(uri.scheme) ELSE uri.port>>

EgressEntries_Https(v) ==  \* a second reader, that takes every port left out for 443
    IF Parse(v) = NoValue THEN {}
    ELSE {<<v.host, IF v.port = 0 THEN 443 ELSE v.port>>, <<v.host, 0>>}
\* The endpoint, and its bare host (port 0).
EgressEntries(v) ==
    IF Parse(v) = NoValue THEN {} ELSE {Authority(v), <<Parse(v).host, 0>>}

\* `declares` tells whether the backend's manifest has the option.
CanonicalizeOverride(declares, v) ==
    IF ~declares \/ v = NoValue THEN [ok |-> TRUE, value |-> v]
    ELSE IF v = Blank THEN [ok |-> TRUE, value |-> NoValue]
    ELSE [ok |-> Normalize(v) # NoValue, value |-> Normalize(v)]

EgressHosts(declares, v) == IF declares THEN EgressEntries(v) ELSE {}

\* -------------------------------------------------------------- the check ---

\* A name that does not resolve is refused.
GuardEgressHost(host, allowLoopback, scope) ==
    host.addrs # {} /\ \A a \in host.addrs : Permitted(a, allowLoopback, scope)

CheckHostAllowed(allowed, user, host, port, allowLoopback) ==
    IF <<host, port>> \in user THEN GuardEgressHost(host, allowLoopback, "user")
    ELSE /\ <<host, port>> \in allowed \/ <<host, 0>> \in allowed \union user
         /\ GuardEgressHost(host, allowLoopback, "public")
=============================================================================

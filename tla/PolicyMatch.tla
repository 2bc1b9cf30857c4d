---------------------------- MODULE PolicyMatch ----------------------------
(***************************************************************************)
(* The policy matcher of internal/policy: which rule decides a request,    *)
(* and what the proxy can decide about a host before it sees a request.    *)
(*                                                                         *)
(* A host is the sequence of its labels, the pattern "*.ex.com" is         *)
(* <<"*", "ex", "com">>.  A request's host also has a spelling: upper case *)
(* or not, and what follows the last label, a sequence of "." and of ports *)
(* (":443" has digits only, ":x" has not; hosts are ASCII: of the digits   *)
(* of other scripts, which Python's isdigit takes and Go's loop does not,  *)
(* there are none).  A path is a sequence of segments, a segment a         *)
(* sequence of characters.  An optional list is Nil, or Some(list): an     *)
(* absent list is not an empty one.                                        *)
(***************************************************************************)
EXTENDS Lists

CONSTANT Code   \* the byte order: a number for each name in rules

Words == DOMAIN Code

ASSUME CodeAssumption ==
    /\ Code \in [Words -> Int]
    /\ \A v, w \in Words : Code[v] = Code[w] => v = w
    /\ {"|", "/", ",", "intercept", "passthrough"} \subseteq Words

(***************************************************************************)
(* What the matchers may count on.                                         *)
(***************************************************************************)

\* A rule of policy.json has a host, a mode and a source, and no empty list; a
\* tunnel has no list at all.
RuleOK(r) ==
    /\ r.host \in Seq(Words) /\ r.host # <<>>
    /\ r.paths # Nil => /\ r.paths = Some(r.paths[1]) /\ r.paths # Some(<<>>)
                       /\ r.paths[1] \in Seq(Seq(Seq(Words)))
    /\ r.methods # Nil => /\ r.methods = Some(r.methods[1]) /\ r.methods # Some(<<>>)
                         /\ r.methods[1] \in Seq(Words)
    /\ r.mode \in {"intercept", "passthrough"}
    /\ r.mode = "passthrough" => r.paths = Nil /\ r.methods = Nil
    /\ r.source \in {"global", "explicit", "generated", "once"}

RulesOK(rules) ==
    /\ Len(rules) \in Nat /\ DOMAIN rules = 1..Len(rules)
    /\ \A i \in 1..Len(rules) : RuleOK(rules[i])

Hosts == [labels : Seq(STRING), upper : BOOLEAN, tail : Seq(STRING)]
RequestTypes == [host : Hosts, path : Seq(Seq(STRING)), method : STRING]

NoRule == 0

EndsWith(s, t) == s # <<>> /\ s[Len(s)] = t

(***************************************************************************)
(* Hosts                                                                   *)
(***************************************************************************)

isAllDigits(t) == t = ":443"
Colons(tail) == Cardinality({i \in DOMAIN tail : tail[i] # "."})

StripPort(tail) ==
    IF Colons(tail) = 1 /\ tail # <<>> /\ isAllDigits(tail[Len(tail)])
    THEN AllButLast(tail) ELSE tail

StripDot(tail) == IF EndsWith(tail, ".") THEN AllButLast(tail) ELSE tail

canonicalHost(h) ==
    [h EXCEPT !.upper = FALSE, !.tail = StripDot(StripPort(@))]

hostRank(p) ==
    CASE p = <<"*">> -> 0
      [] p # <<"*">> /\ p[1] = "*" -> 1
      [] OTHER -> 2

matchHost(p, h) ==
    LET labels == Len(p) - 1
        n == Len(h.labels)
    IN CASE hostRank(p) = 0 -> TRUE
         [] hostRank(p) = 1 ->
                /\ h.tail = <<>>
                /\ n > labels
                /\ SubSeq(h.labels, n - labels + 1, n) = Tail(p)
         [] OTHER -> h.tail = <<>> /\ p = h.labels

(***************************************************************************)
(* Paths.  A segment pattern's "*" stands for any run of characters;       *)
(* GlobMatch has the loop that finds out.                                  *)
(***************************************************************************)

GlobMatches(pat, seg) ==
    LET m[i \in 1..(Len(pat) + 1)] ==
            [j \in 1..(Len(seg) + 1) |->
                IF i > Len(pat) THEN j > Len(seg)
                ELSE IF pat[i] = "*" THEN \E k \in j..(Len(seg) + 1) : m[i + 1][k]
                ELSE j <= Len(seg) /\ pat[i] = seg[j] /\ m[i + 1][j + 1]]
    IN m[1][1]

\* The pattern need only match a prefix of the path.
matchSegments(pat, path) ==
    LET m[i \in 1..(Len(pat) + 1)] ==
            [j \in 1..(Len(path) + 1) |->
                IF i > Len(pat) THEN TRUE
                ELSE IF pat[i] = <<"*", "*">>
                THEN m[i + 1][j] \/ (j <= Len(path) /\ m[i][j + 1])
                ELSE /\ j <= Len(path)
                     /\ GlobMatches(pat[i], path[j])
                     /\ m[i + 1][j + 1]]
    IN m[1][1]

matchMethod(methods, method) ==
    methods = Nil \/ method \in Elements(methods[1])

(***************************************************************************)
(* Specificity: numbers compared field by field, larger first, and a last  *)
(* tie-break on the rule's canonical string, smaller first.                *)
(***************************************************************************)

Items(list) == IF list = Nil THEN <<>> ELSE list[1]

canonical(r) == <<r.host, Items(r.paths), Items(r.methods), r.mode>>

Wild(seg) == "*" \in Elements(seg)

ruleSpecificity(r, pattern) ==
    LET literal == {i \in DOMAIN pattern : ~Wild(pattern[i])}
        scoped == r.paths # Nil
    IN <<hostRank(r.host),
         IF scoped THEN 1 ELSE 0,
         IF scoped THEN Cardinality(literal) ELSE 0,
         IF scoped THEN Len(pattern) ELSE 0,
         IF r.methods # Nil THEN 1 ELSE 0>>

LexMore(a, b) ==
    \E i \in DOMAIN a : a[i] > b[i] /\ \A j \in 1..(i - 1) : a[j] = b[j]

\* The canonical strings' order, from the byte order of the names.
Joined(list, sep) ==
    LET j[i \in 0..Len(list)] ==
            IF i = 0 THEN <<>> ELSE j[i - 1] \o list[i] \o <<sep>>
    IN j[Len(list)]

Bytes(c) ==
    LET paths == [i \in DOMAIN c[2] |-> Joined(c[2][i], "/")]
        s == c[1] \o <<"|">> \o Joined(paths, ",") \o <<"|">>
                  \o c[3] \o <<"|", c[4]>>
    IN [i \in DOMAIN s |-> Code[s[i]]]

LexLess(a, b) ==
    \E i \in 1..Len(b) :
        /\ i > Len(a) \/ a[i] < b[i]
        /\ \A j \in 1..(i - 1) : j <= Len(a) /\ a[j] = b[j]

\* A bug that would matter: rules that are equally specific tie.
Slip_moreSpecific(r, p, s, q) ==
    LexMore(ruleSpecificity(r, p), ruleSpecificity(s, q))

moreSpecific(r, p, s, q) ==
    LET a == ruleSpecificity(r, p)
        b == ruleSpecificity(s, q)
    IN \/ LexMore(a, b)
       \/ a = b /\ LexLess(Bytes(canonical(r)), Bytes(canonical(s)))

(***************************************************************************)
(* Matching and deciding                                                   *)
(***************************************************************************)

\* The index a scan ends with that replaces the best so far only by a better
\* one: the first of those that none is better than.
Best(indices, Better(_, _)) ==
    LET top == {i \in indices : \A j \in indices : ~Better(j, i)}
    IN CHOOSE i \in top : \A j \in top : i <= j

\* The path pattern by which a rule matches, Nil if it does not; a rule
\* without paths matches by the empty pattern.
ruleMatches(r, req) ==
    LET at == {i \in DOMAIN r.paths[1] : matchSegments(r.paths[1][i], req.path)}
        Better(i, j) == moreSpecific(r, r.paths[1][i], r, r.paths[1][j])
    IN IF ~matchHost(r.host, req.host) \/ ~matchMethod(r.methods, req.method)
       THEN Nil
       ELSE IF r.paths = Nil THEN Some(<<>>)
       ELSE IF at = {} THEN Nil ELSE Some(r.paths[1][Best(at, Better)])

\* The index of the most specific eligible rule that matches, or NoRule.
bestOf(rules, m, eligible) ==
    LET at == {i \in DOMAIN rules : rules[i] \in eligible /\ m[i] # Nil}
        Better(i, j) == moreSpecific(rules[i], m[i][1], rules[j], m[j][1])
    IN IF at = {} THEN NoRule ELSE Best(at, Better)

bestMatch(rules, req, eligible) ==
    bestOf(rules, [i \in DOMAIN rules |-> ruleMatches(rules[i], req)], eligible)

Result(decision, mode, list, index) ==
    [decision |-> decision, mode |-> mode, list |-> list, index |-> index]

AnyRule(rules) == Elements(rules)
HostLevel(rules) == {r \in Elements(rules) : r.paths = Nil}

Verdict(rs, a, d) ==
    IF d # NoRule THEN Result("hard-deny", rs.deny[d].mode, "deny_always", d)
    ELSE IF a # NoRule THEN Result("allow", rs.allow[a].mode, "allow", a)
    ELSE Result("soft-deny", "", "", NoRule)

\* The denies that hold for a host that is tunnelled are the host-level ones.
denies(rs, a) ==
    IF a # NoRule /\ rs.allow[a].mode = "passthrough"
    THEN HostLevel(rs.deny) ELSE AnyRule(rs.deny)

DecideUnder(rs, req, a) == Verdict(rs, a, bestMatch(rs.deny, req, denies(rs, a)))

DecideCanonical(rs, req) ==
    DecideUnder(rs, req, bestMatch(rs.allow, req, AnyRule(rs.allow)))

Decide(rs, request) ==
    DecideCanonical(rs, [request EXCEPT !.host = canonicalHost(@)])

\* At CONNECT only the host is known.
HostDisposition(rs, host) ==
    LET h == canonicalHost(host)
        Higher(rules, i, j) == hostRank(rules[i].host) > hostRank(rules[j].host)
        D == {i \in DOMAIN rs.deny : /\ rs.deny[i] \in HostLevel(rs.deny)
                                     /\ matchHost(rs.deny[i].host, h)}
        A == {i \in DOMAIN rs.allow : matchHost(rs.allow[i].host, h)}
        HigherDeny(i, j) == Higher(rs.deny, i, j)
        top == {i \in A : \A j \in A : ~Higher(rs.allow, j, i)}
    IN [passthrough |-> /\ A # {}
                        /\ \A i \in top : rs.allow[i].mode = "passthrough",
        deny_reason |-> IF D = {} THEN ""
                        ELSE rs.deny[Best(D, HigherDeny)].reason]

\* What a config rule becomes: its fields, with the source it came from.
RuleFromConfig(r, source) ==
    [host |-> r.host, paths |-> r.paths, methods |-> r.methods,
     mode |-> r.mode, reason |-> r.reason, inject |-> r.inject,
     in_cage |-> r.in_cage, source |-> source]
=============================================================================

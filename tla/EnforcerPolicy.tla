--------------------------- MODULE EnforcerPolicy ---------------------------
(***************************************************************************)
(* The enforcer's own matcher (internal/proxy/enforcer/policy.py), a port  *)
(* of PolicyMatch that reads the same policy.json.  It is written here the *)
(* way it runs: scans that keep the best so far, where PolicyMatch says    *)
(* which rule is the best; the definitions the two languages share word    *)
(* for word are taken from PolicyMatch.                                    *)
(***************************************************************************)
EXTENDS PolicyMatch

(***************************************************************************)
(* Hosts and paths                                                         *)
(***************************************************************************)

Py_canonical_host(host) ==
    LET colons == {i \in DOMAIN host.tail : host.tail[i] # "."}
        n == Len(host.tail)
        bare == IF Cardinality(colons) = 1 /\ n \in colons /\ host.tail[n] = ":443"
                THEN SubSeq(host.tail, 1, n - 1) ELSE host.tail
    IN [labels |-> host.labels, upper |-> FALSE,
        tail |-> IF bare # <<>> /\ bare[Len(bare)] = "."
                 THEN SubSeq(bare, 1, Len(bare) - 1) ELSE bare]

Py_host_rank(p) == IF p = <<"*">> THEN 0 ELSE IF p[1] = "*" THEN 1 ELSE 2

\* endswith, on the labels from the last one back.
Py_match_host(p, host) ==
    LET d == Len(host.labels) - Len(p)
    IN \/ p = <<"*">>
       \/ /\ host.tail = <<>>
          /\ IF p[1] = "*"
             THEN d >= 0 /\ \A i \in 2..Len(p) : host.labels[i + d] = p[i]
             ELSE d = 0 /\ \A i \in 1..Len(p) : host.labels[i] = p[i]

\* The recursion, told forwards: the places in the path that a prefix of the
\* pattern can reach.
Py_match_segments(pat, path) ==
    LET m[n \in 0..Len(pat)] ==
            IF n = 0 THEN {1}
            ELSE IF pat[n] = <<"*", "*">>
            THEN {j \in 1..(Len(path) + 1) : \E i \in m[n - 1] : i <= j}
            ELSE {j + 1 : j \in {i \in m[n - 1] :
                     i <= Len(path) /\ GlobMatches(pat[n], path[i])}}
    IN m[Len(pat)] # {}

Py_match_method(methods, method) ==
    IF methods = Nil THEN TRUE ELSE method \in Elements(methods[1])

(***************************************************************************)
(* Specificity                                                             *)
(***************************************************************************)

Py_rule_specificity(r, pattern) ==
    LET literal == {i \in DOMAIN pattern : "*" \notin Elements(pattern[i])}
    IN [host_rank |-> Py_host_rank(r.host),
        path_scoped |-> IF r.paths = Nil THEN 0 ELSE 1,
        literal_segs |-> IF r.paths = Nil THEN 0 ELSE Cardinality(literal),
        total_segs |-> IF r.paths = Nil THEN 0 ELSE Len(pattern),
        method_scoped |-> IF r.methods = Nil THEN 0 ELSE 1,
        canonical |-> Bytes(canonical(r))]

\* A bug that would matter: the length of a pattern counts before its
\* literal segments.
Slip_Py_more_specific(a, b) ==
    IF a.host_rank # b.host_rank THEN a.host_rank > b.host_rank
    ELSE IF a.path_scoped # b.path_scoped THEN a.path_scoped > b.path_scoped
    ELSE IF a.total_segs # b.total_segs THEN a.total_segs > b.total_segs
    ELSE IF a.literal_segs # b.literal_segs THEN a.literal_segs > b.literal_segs
    ELSE IF a.method_scoped # b.method_scoped THEN a.method_scoped > b.method_scoped
    ELSE LexLess(a.canonical, b.canonical)

Py_more_specific(a, b) ==
    IF a.host_rank # b.host_rank THEN a.host_rank > b.host_rank
    ELSE IF a.path_scoped # b.path_scoped THEN a.path_scoped > b.path_scoped
    ELSE IF a.literal_segs # b.literal_segs THEN a.literal_segs > b.literal_segs
    ELSE IF a.total_segs # b.total_segs THEN a.total_segs > b.total_segs
    ELSE IF a.method_scoped # b.method_scoped THEN a.method_scoped > b.method_scoped
    ELSE LexLess(a.canonical, b.canonical)

(***************************************************************************)
(* Scans                                                                   *)
(***************************************************************************)

\* The most specific of a rule's path patterns that match, as an option.
Py_rule_matches(r, req) ==
    LET s[i \in 0..Len(r.paths[1])] ==
            IF i = 0 THEN Nil
            ELSE LET p == r.paths[1][i]
                     best == s[i - 1]
                 IN IF ~Py_match_segments(p, req.path) THEN best
                    ELSE IF best = Nil THEN Some(p)
                    ELSE IF Py_more_specific(Py_rule_specificity(r, p),
                                             Py_rule_specificity(r, best[1]))
                    THEN Some(p) ELSE best
    IN IF ~Py_match_host(r.host, req.host) THEN Nil
       ELSE IF ~Py_match_method(r.methods, req.method) THEN Nil
       ELSE IF r.paths = Nil THEN Some(<<>>) ELSE s[Len(r.paths[1])]

\* The scan keeps the index of the best rule so far, 0 before the first.
Py_best_of(rules, m, eligible) ==
    LET Spec(i) == Py_rule_specificity(rules[i], m[i][1])
        s[i \in 0..Len(rules)] ==
            IF i = 0 THEN 0
            ELSE IF rules[i] \notin eligible \/ m[i] = Nil THEN s[i - 1]
            ELSE IF s[i - 1] = 0 THEN i
            ELSE IF Py_more_specific(Spec(i), Spec(s[i - 1])) THEN i ELSE s[i - 1]
    IN s[Len(rules)]

Py_best_match(rules, req, eligible) ==
    Py_best_of(rules, [i \in DOMAIN rules |-> Py_rule_matches(rules[i], req)],
               eligible)

Py_verdict(rs, allow, deny) ==
    CASE deny # 0 -> Result("hard-deny", rs.deny[deny].mode, "deny_always", deny)
      [] deny = 0 /\ allow # 0 ->
            Result("allow", rs.allow[allow].mode, "allow", allow)
      [] OTHER -> Result("soft-deny", "", "", 0)

Py_decide_under(rs, req, allow) ==
    LET any == Elements(rs.deny)
        hostLevel == {r \in any : r.paths = Nil}
        passthrough == allow # 0 /\ rs.allow[allow].mode = "passthrough"
    IN Py_verdict(rs, allow,
            Py_best_match(rs.deny, req, IF passthrough THEN hostLevel ELSE any))

Py_decide_canonical(rs, req) ==
    Py_decide_under(rs, req, Py_best_match(rs.allow, req, Elements(rs.allow)))

Py_decide(rs, request) ==
    Py_decide_canonical(rs, [request EXCEPT !.host = Py_canonical_host(@)])

\* Nil: no host-level deny; Go's counterpart says "" then.
Py_host_disposition(rs, name) ==
    LET host == Py_canonical_host(name)
        d[i \in 0..Len(rs.deny)] ==
            IF i = 0 THEN 0
            ELSE IF rs.deny[i].paths # Nil \/ ~Py_match_host(rs.deny[i].host, host)
            THEN d[i - 1]
            ELSE IF d[i - 1] = 0 THEN i
            ELSE IF Py_host_rank(rs.deny[i].host) > Py_host_rank(rs.deny[d[i - 1]].host)
            THEN i ELSE d[i - 1]
        deny == d[Len(rs.deny)]
        matching == {r \in Elements(rs.allow) : Py_match_host(r.host, host)}
        ranks == {Py_host_rank(r.host) : r \in matching}
        top_rank == CHOOSE n \in ranks : \A k \in ranks : k <= n
        top == {r \in matching : Py_host_rank(r.host) = top_rank}
    IN [passthrough |-> matching # {} /\ \A r \in top : r.mode = "passthrough",
        deny_reason |-> IF deny = 0 THEN Nil ELSE Some(rs.deny[deny].reason)]
=============================================================================

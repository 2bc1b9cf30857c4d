----------------------------- MODULE ConfigFile -----------------------------
(***************************************************************************)
(* One config file (internal/config): what Parse makes of its text, and    *)
(* the editors that splice an entry into it or out of it.                  *)
(*                                                                         *)
(* A text is its lists, each with the style it is written in: "none" (no   *)
(* key, or a key without a value), "flow" ([a, b] on the key's line),      *)
(* "block" (an item per line, deeper than the key) or "flush" (an item per *)
(* line, at the key's own column); a mapping of lists may be written on    *)
(* one line (oneLine), and unparsable text is not wellFormed.  A rule in a *)
(* text may leave its mode out.  A splice puts whole lines of block style  *)
(* where the list is, or takes whole lines away, and never checks that     *)
(* they fit, or what else is on them: that is left to a gate, which parses *)
(* the result and compares some of its lists with what was meant.          *)
(***************************************************************************)
EXTENDS Lists, SecretRefs, TLC

CONSTANTS
    Labels,         \* the labels a host name may have
    knownMethods    \* HTTP methods

Listed(style, items) == [style |-> style, items |-> items]
NoList == Listed("none", <<>>)

EmptyText ==
    [wellFormed |-> TRUE, oneLine |-> {}, allow |-> NoList, deny |-> NoList,
     include |-> NoList, services |-> NoList, rw |-> NoList, ro |-> NoList,
     generators |-> NoList, credentials |-> NoList, env |-> <<>>,
     workdir |-> ""]
Unparsable == [EmptyText EXCEPT !.wellFormed = FALSE]

\* The mappings a file may hold, with what each holds, and the lists of those
\* that are on one line: egress: {allow: [a], generators: [b]}.
Holds ==
    [egress |-> {"allow", "deny", "generators"},
     network |-> {"allow", "deny", "generators", "services"},
     safehouse |-> {"rw", "ro"},
     root |-> {"allow", "deny", "generators", "services", "rw", "ro", "include",
               "credentials", "env", "workdir"}]
Sections == DOMAIN Holds

OneLine(text, key) == {section \in text.oneLine : key \in Holds[section]}
Crowded(text, key) == OneLine(text, key) # {}

\* What is on the line of a list's key.
LineOf(text, key) == {key} \cup UNION {Holds[section] : section \in OneLine(text, key)}

\* The text without that line.
Dropped(text, key) ==
    LET gone == LineOf(text, key)
    IN [k \in DOMAIN text |->
            IF k \in gone THEN EmptyText[k]
            ELSE IF k = "oneLine" THEN {s \in text.oneLine : ~(Holds[s] \subseteq gone)}
            ELSE text[k]]

(***************************************************************************)
(* Parsing                                                                 *)
(***************************************************************************)

\* host, paths and methods in any order; the mode, the reason and the auth axis
\* are not part of what makes a rule the same rule.
normSlice(opt) == IF opt = Nil THEN Nil ELSE Some(Bag(opt[1]))
ruleIdentity(r) == <<r.host, normSlice(r.paths), normSlice(r.methods)>>

ValidateHost(host) ==
    \/ host = <<"*">>
    \/ LET body == IF host # <<>> /\ host[1] = "*" THEN Tail(host) ELSE host
       IN body # <<>> /\ Elements(body) \subseteq Labels

ValidateMethods(methods) == Elements(methods) \subseteq knownMethods

\* A tunnel cannot be filtered by path or method.
validateRule(r) ==
    /\ ValidateHost(r.host)
    /\ r.methods # Nil => ValidateMethods(r.methods[1])
    /\ r.mode \in {"intercept", "passthrough"}
    /\ r.mode = "passthrough" => r.paths = Nil /\ r.methods = Nil

validateRuleAuth(r) ==
    /\ ~(r.inject # "" /\ r.in_cage)
    /\ ~(r.inject # "" /\ r.mode = "passthrough")

parseHostService(s) == s.label \notin {"", "ctl"} /\ s.port \in 1..65535
parseGenerator(g) == g.type # ""

defaultRuleModes(rules) ==
    [i \in DOMAIN rules |->
        IF rules[i].mode = "" THEN [rules[i] EXCEPT !.mode = "intercept"]
        ELSE rules[i]]

defaultCredentials(creds) ==
    [i \in DOMAIN creds |->
        [creds[i] EXCEPT !.cred =
            defaultCredentialMinting(defaultCredentialHeader(@))]]

Names(creds) == {creds[i].name : i \in DOMAIN creds}

applyDefaults(text) ==
    [allow |-> defaultRuleModes(text.allow.items),
     deny |-> defaultRuleModes(text.deny.items),
     include |-> text.include.items, services |-> text.services.items,
     rw |-> text.rw.items, ro |-> text.ro.items,
     generators |-> text.generators.items,
     credentials |-> defaultCredentials(text.credentials.items),
     env |-> text.env, workdir |-> text.workdir]

EmptyConfig == applyDefaults(EmptyText)

validate(cfg) ==
    /\ \A r \in Elements(cfg.allow) \cup Elements(cfg.deny) :
            validateRule(r) /\ validateRuleAuth(r)
    /\ \A c \in Elements(cfg.credentials) : validateCredential(c.name, c.cred)
    /\ \A s \in Elements(cfg.services) : parseHostService(s)
    /\ \A g \in Elements(cfg.generators) : parseGenerator(g)

Valid(wellFormed, cfg) ==
    IF wellFormed /\ validate(cfg) THEN Some(cfg) ELSE Nil

\* The YAML library refuses a key that is there twice, as a name would be.
NamedOnce(creds) ==
    \A i, j \in DOMAIN creds : creds[i].name = creds[j].name => i = j

Parse(text) ==
    LET cfg == applyDefaults(text)
    IN Valid(text.wellFormed /\ NamedOnce(cfg.credentials), cfg)

(***************************************************************************)
(* Splices                                                                 *)
(***************************************************************************)

Restyled(style, items) == IF items = <<>> THEN NoList ELSE Listed(style, items)

\* Lines of items go below the last item; where the items are at the key's own
\* column the list itself is taken for what follows it, and they go before the
\* first.
WithItem(list, item) ==
    IF list.style = "flush" THEN Listed("flush", <<item>> \o list.items)
    ELSE Listed("block", Append(list.items, item))

\* A rule, a host service or a credential: after a flow list or a mapping on
\* one line that is not YAML.
Splice(text, key, item) ==
    IF text[key].style = "flow" \/ Crowded(text, key) THEN Unparsable
    ELSE [text EXCEPT ![key] = WithItem(@, item)]

\* An include may also take the place of the line of an empty flow list.
SpliceInclude(text, inc) ==
    IF text.include = Listed("flow", <<>>)
    THEN [Dropped(text, "include") EXCEPT !.include = Listed("block", <<inc>>)]
    ELSE Splice(text, "include", inc)

\* A list of directories that has no lines of its own is rewritten as a flow
\* list.
SpliceDir(text, key, dir) ==
    IF Crowded(text, key) THEN Unparsable
    ELSE [text EXCEPT ![key] =
            IF @.style \in {"block", "flush"} THEN WithItem(@, dir)
            ELSE Listed("flow", Append(@.items, dir))]

\* Removing drops the item's lines: of a flow list, the line it is on.
Cut(text, key, i) ==
    IF text[key].style = "flow" \/ Crowded(text, key) THEN Dropped(text, key)
    ELSE [text EXCEPT ![key] = Restyled(@.style, Without(@.items, i))]

CutDir(text, key, i) ==
    IF Crowded(text, key) THEN Unparsable
    ELSE [text EXCEPT ![key] =
            IF @.style = "flow" THEN Listed("flow", Without(@.items, i))
            ELSE Restyled(@.style, Without(@.items, i))]

Replace(text, key, i, item) ==
    IF text[key].style = "flow" \/ Crowded(text, key) THEN Unparsable
    ELSE [text EXCEPT ![key].items[i] = item]

\* Rendering leaves empty lists and the default mode out.
renderRuleItem(r) ==
    [r EXCEPT !.paths = IF @ = Some(<<>>) THEN Nil ELSE @,
              !.methods = IF @ = Some(<<>>) THEN Nil ELSE @,
              !.mode = IF @ = "intercept" THEN "" ELSE @]

renderCredentialEntry(cred) ==
    [cred EXCEPT !.header = IF @ = "Authorization" THEN "" ELSE @]

(***************************************************************************)
(* The editors: the new text, whether it changed, and the error            *)
(***************************************************************************)

Edited(text) == [out |-> text, changed |-> TRUE, err |-> ""]
Unchanged(text) == [out |-> text, changed |-> FALSE, err |-> ""]
Failed(text, err) == [out |-> text, changed |-> FALSE, err |-> err]

\* A bug that would matter: a splice is written without a look at it.
Slip_Gated(text, candidate, valid) == Edited(candidate)

\* The result of a splice, if it parses and the gate lets it through.
Gated(text, candidate, valid) ==
    IF Parse(candidate) # Nil /\ valid
    THEN Edited(candidate) ELSE Failed(text, "gate")

Identities(rules) == Bag([i \in DOMAIN rules |-> ruleIdentity(rules[i])])
sameIdentities(a, b) == Identities(a) = Identities(b)
sameHostServices(a, b) == Bag(a) = Bag(b)
SameRules(a, b) == sameIdentities(a.allow, b.allow) /\ sameIdentities(a.deny, b.deny)
Other(list) == IF list = "allow" THEN "deny" ELSE "allow"

indexOfIdentity(rules, rule) ==
    LET Same(r) == ruleIdentity(r) = ruleIdentity(rule) IN IndexOf(rules, Same)

validateAppend(before, after, list, rule) ==
    /\ sameIdentities(before[Other(list)], after[Other(list)])
    /\ sameIdentities(Append(before[list], rule), after[list])
    /\ \A r \in Elements(after[list]) :
            ruleIdentity(r) = ruleIdentity(rule) =>
                /\ r.reason = rule.reason
                /\ r.inject = rule.inject /\ r.in_cage = rule.in_cage

\* An editor starts from what the text parses to.
Edit(text, before, result) ==
    IF before = Nil THEN Failed(text, "unreadable") ELSE result

AppendRuleTo(text, before, list, rule) ==
    LET candidate == Splice(text, list, renderRuleItem(rule))
    IN IF indexOfIdentity(before[list], rule) # 0 THEN Unchanged(text)
       ELSE Gated(text, candidate,
                  validateAppend(before, Parse(candidate)[1], list, rule))

AppendRule(text, list, rule) ==
    LET before == Parse(text)
    IN Edit(text, before, AppendRuleTo(text, before[1], list, rule))

validateSetRuleAuth(before, after, list, i, updated) ==
    /\ sameIdentities(before[Other(list)], after[Other(list)])
    /\ sameIdentities(before[list], after[list])
    /\ i <= Len(after[list])
    /\ LET r == after[list][i]
       IN /\ ruleIdentity(r) = ruleIdentity(updated)
          /\ r.inject = updated.inject /\ r.in_cage = updated.in_cage
          /\ r.reason = updated.reason

Authorized(old, rule) ==
    [old EXCEPT !.inject = rule.inject, !.in_cage = rule.in_cage,
                !.reason = IF rule.reason = "" THEN @ ELSE rule.reason]

UpdateRule(text, before, list, i, updated) ==
    LET candidate == Replace(text, list, i, renderRuleItem(updated))
    IN IF updated = before[list][i] THEN Unchanged(text)
       ELSE Gated(text, candidate,
                  validateSetRuleAuth(before, Parse(candidate)[1], list, i, updated))

SetRuleAuthIn(text, before, list, rule) ==
    LET i == indexOfIdentity(before[list], rule)
    IN IF i = 0 THEN AppendRuleTo(text, before, list, rule)
       ELSE UpdateRule(text, before, list, i, Authorized(before[list][i], rule))

SetRuleAuth(text, list, rule) ==
    LET before == Parse(text)
    IN Edit(text, before, SetRuleAuthIn(text, before[1], list, rule))

\* The rule to act on: the host's first, or its first that has the path.
findRuleIndex(rules, host, path) ==
    LET Hit(r) == /\ r.host = host
                  /\ path # Nil => r.paths # Nil /\ path[1] \in Elements(r.paths[1])
    IN IndexOf(rules, Hit)

\* A bug that would matter: a rule whose last path goes keeps no paths.
Slip_Narrowed(rule, path) ==
    LET Is(p) == p = path[1]
    IN IF path = Nil THEN Nil
       ELSE IF Len(rule.paths[1]) = 1 THEN Some([rule EXCEPT !.paths = Nil])
       ELSE Some([rule EXCEPT !.paths[1] = Without(@, IndexOf(@, Is))])

\* What is left of a rule: nothing, if its last path goes.
Narrowed(rule, path) ==
    LET Is(p) == p = path[1]
    IN IF path = Nil \/ Len(rule.paths[1]) = 1 THEN Nil
       ELSE Some([rule EXCEPT !.paths[1] = Without(@, IndexOf(@, Is))])

expectedAfterRuleRemoval(rules, i, left) ==
    IF left = Nil THEN Without(rules, i) ELSE [rules EXCEPT ![i] = left[1]]

validateRemoveRule(before, after, list, expected) ==
    /\ sameIdentities(before[Other(list)], after[Other(list)])
    /\ sameHostServices(before.services, after.services)
    /\ sameIdentities(expected, after[list])

RemoveRuleAt(text, before, list, i, left) ==
    LET candidate == IF left = Nil THEN Cut(text, list, i)
                     ELSE Replace(text, list, i, renderRuleItem(left[1]))
        expected == expectedAfterRuleRemoval(before[list], i, left)
    IN IF i = 0 THEN Failed(text, "not_found")
       ELSE Gated(text, candidate,
                  validateRemoveRule(before, Parse(candidate)[1], list, expected))

RemoveRuleFrom(text, before, list, host, path) ==
    LET i == findRuleIndex(before[list], host, path)
    IN RemoveRuleAt(text, before, list, i, Narrowed(before[list][i], path))

RemoveRule(text, list, host, path) ==
    LET before == Parse(text)
    IN Edit(text, before, RemoveRuleFrom(text, before[1], list, host, path))

validateAppendInclude(before, after, inc) ==
    /\ SameRules(before, after)
    /\ sameHostServices(before.services, after.services)
    /\ after.include = Append(before.include, inc)

AppendIncludeTo(text, before, inc) ==
    LET candidate == SpliceInclude(text, inc)
    IN IF inc \in Elements(before.include) THEN Unchanged(text)
       ELSE Gated(text, candidate,
                  validateAppendInclude(before, Parse(candidate)[1], inc))

AppendInclude(text, inc) ==
    LET before == Parse(text)
    IN Edit(text, before, AppendIncludeTo(text, before[1], inc))

indexOfPort(services, port) ==
    LET Is(s) == s.port = port IN IndexOf(services, Is)

validateServices(before, after, expected) ==
    /\ SameRules(before, after)
    /\ sameHostServices(expected, after.services)

AppendHostServiceTo(text, before, hs) ==
    LET candidate == Splice(text, "services", hs)
    IN IF indexOfPort(before.services, hs.port) # 0 THEN Unchanged(text)
       ELSE Gated(text, candidate,
                  validateServices(before, Parse(candidate)[1],
                                   Append(before.services, hs)))

AppendHostService(text, hs) ==
    LET before == Parse(text)
    IN Edit(text, before, AppendHostServiceTo(text, before[1], hs))

RemoveHostServiceAt(text, before, i) ==
    LET candidate == Cut(text, "services", i)
    IN IF i = 0 THEN Failed(text, "not_found")
       ELSE Gated(text, candidate,
                  validateServices(before, Parse(candidate)[1],
                                   Without(before.services, i)))

RemoveHostService(text, port) ==
    LET before == Parse(text)
    IN Edit(text, before,
            RemoveHostServiceAt(text, before[1], indexOfPort(before[1].services, port)))

OtherDirs(key) == IF key = "rw" THEN "ro" ELSE "rw"

validateDirs(before, after, key, expected) ==
    /\ after[OtherDirs(key)] = before[OtherDirs(key)]
    /\ after[key] = expected

AppendDirTo(text, before, key, dir) ==
    LET candidate == SpliceDir(text, key, dir)
        after == Parse(candidate)[1]
    IN IF dir \in Elements(before[key]) THEN Unchanged(text)
       ELSE Gated(text, candidate,
                  /\ SameRules(before, after)
                  /\ sameHostServices(before.services, after.services)
                  /\ validateDirs(before, after, key, Append(before[key], dir)))

AppendDir(text, key, dir) ==
    LET before == Parse(text)
    IN Edit(text, before, AppendDirTo(text, before[1], key, dir))

RemoveDirFrom(text, before, key, dir) ==
    LET Is(d) == d = dir
        i == IndexOf(before[key], Is)
        candidate == CutDir(text, key, i)
    IN IF i = 0 THEN Unchanged(text)
       ELSE Gated(text, candidate,
                  validateDirs(before, Parse(candidate)[1], key, Without(before[key], i)))

removeDirOnce(text, key, dir) ==
    LET before == Parse(text)
    IN Edit(text, before, RemoveDirFrom(text, before[1], key, dir))

RemovedDirs(text, first, second) ==
    IF first.err # "" THEN Failed(text, first.err)
    ELSE IF second.err # "" THEN Failed(text, second.err)
    ELSE IF ~first.changed /\ ~second.changed THEN Failed(text, "not_found")
    ELSE Edited(second.out)

RemoveFromRo(text, first, dir) ==
    RemovedDirs(text, first, removeDirOnce(first.out, "ro", dir))

\* A directory that is in both lists leaves both.
RemoveDir(text, dir) == RemoveFromRo(text, removeDirOnce(text, "rw", dir), dir)

CredMap(creds) ==
    [n \in Names(creds) |->
        (CHOOSE c \in Elements(creds) : c.name = n).cred]

validateAppendCredential(before, after, name, cred) ==
    /\ SameRules(before, after)
    /\ CredMap(after.credentials) =
         (name :> defaultCredentialMinting(defaultCredentialHeader(cred)))
             @@ CredMap(before.credentials)

AppendCredentialTo(text, before, name, cred) ==
    LET entry == [name |-> name, cred |-> renderCredentialEntry(cred)]
        candidate == Splice(text, "credentials", entry)
    IN IF name \in Names(before.credentials) THEN Unchanged(text)
       ELSE Gated(text, candidate,
                  validateAppendCredential(before, Parse(candidate)[1], name, cred))

AppendCredential(text, name, cred) ==
    LET before == Parse(text)
    IN Edit(text, before, AppendCredentialTo(text, before[1], name, cred))

validateRemoveCredential(before, after, name) ==
    /\ SameRules(before, after)
    /\ CredMap(after.credentials) =
         [n \in Names(before.credentials) \ {name} |->
             CredMap(before.credentials)[n]]

RemoveCredentialFrom(text, before, name) ==
    LET Is(c) == c.name = name
        i == IndexOf(before.credentials, Is)
        candidate == Cut(text, "credentials", i)
    IN IF i = 0 THEN Failed(text, "not_found")
       ELSE Gated(text, candidate,
                  validateRemoveCredential(before, Parse(candidate)[1], name))

RemoveCredential(text, name) ==
    LET before == Parse(text)
    IN Edit(text, before, RemoveCredentialFrom(text, before[1], name))
=============================================================================

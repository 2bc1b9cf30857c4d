---------------------------- MODULE EnforcerFlow ----------------------------
(***************************************************************************)
(* A request on its way through the enforcer (enforcer/enforcer.py): the   *)
(* hooks mitmproxy calls for it, the responses they make, the credential   *)
(* that is asked for and put into a header, and the entry in the log.      *)
(*                                                                         *)
(* Between two hooks, and while one awaits the broker, the policy may be   *)
(* loaded again.  A hook may raise, and the log may fail.  A client asks   *)
(* the server it connects to: the SNI, if there is one, is the host of the *)
(* CONNECT and of the request.                                             *)
(***************************************************************************)
EXTENDS SecretRefs, EnforcerPolicy

CONSTANTS
    RuleSets,       \* the policies there may be: allow, deny, credentials
    Asked,          \* the requests
    Flow,           \* those on their way
    Resolvable,     \* the references to secrets that can be resolved
    MaxChanges      \* bound: reloads and failures

\* Policies as Commands makes them: PolicyOK there says it of each.
ASSUME RuleSetsAssumption ==
    /\ Asked \subseteq RequestTypes
    /\ \A rs \in Elements(RuleSets) : RulesOK(rs.allow) /\ RulesOK(rs.deny)

VARIABLES
    ruleset,        \* the policy in force, a number of RuleSets
    payload,        \* the credentials the broker was given at the start
    flow,           \* the flows
    changes         \* reloads and failures so far

flowVars == <<ruleset, payload, flow, changes>>

(***************************************************************************)
(* The broker's payload, resolved when the proxy is started                *)
(***************************************************************************)

injectedCredentialNames(rs) ==
    {r.inject : r \in Elements(rs.allow) \cup Elements(rs.deny)} \ {""}

SecretOf(cred) ==
    CASE cred.github_app # Nil -> cred.github_app[1].key
      [] cred.github_app = Nil /\ cred.oauth2 # Nil -> cred.oauth2[1].refresh_token
      [] OTHER -> cred.source

\* A secret that cannot be resolved leaves its credential out, with a warning.
resolveCredentialSpec(cred) == SecretOf(cred) \in Resolvable

resolveInjectionSecrets(rs) ==
    {name \in injectedCredentialNames(rs) \cap DOMAIN rs.credentials :
        resolveCredentialSpec(rs.credentials[name])}

(***************************************************************************)
(* Values and responses                                                    *)
(***************************************************************************)

\* The parts of a header's value; those of a base64(...) are encoded.
render_credential_value(template, username, token) ==
    [i \in DOMAIN template |->
        CASE template[i] = "{token}" -> token
          [] template[i] = "{user}" -> username
          [] OTHER -> template[i]]

CageResponse(status, reason, injected) ==
    [status |-> status, reason |-> reason, injected |-> injected]

soft_deny == CageResponse(470, "soft-deny", "")
hard_deny == CageResponse(471, "hard-deny", "")
injection_unavailable(name) == CageResponse(472, "injection-unavailable", name)
FromUpstream(status, injected) == CageResponse(status, "", injected)

(***************************************************************************)
(* Hooks                                                                   *)
(***************************************************************************)

InForce == RuleSets[ruleset]
Change == changes < MaxChanges /\ changes' = changes + 1
Step(f, g) == flow' = [flow EXCEPT ![f] = g]
Quiet == UNCHANGED <<ruleset, payload, changes>>
Answered(g, response) == [g EXCEPT !.response = Some(response), !.stage = "response"]
Refused(g) == [Answered(g, hard_deny) EXCEPT !.stage = "done"]

NewFlow == [stage |-> "new", req |-> Nil, sni |-> FALSE, header |-> <<>>,
            verdict |-> Nil, by |-> 0, cred |-> Nil, injected |-> "",
            tunnel |-> FALSE, upstream |-> Nil, response |-> Nil, log |-> <<>>,
            raised |-> FALSE]

\* A client connects, or asks in plain HTTP; it sets the headers as it likes.
Begin(f) ==
    /\ flow[f].stage = "new"
    /\ \E req \in Asked, sni \in BOOLEAN, stage \in {"connect", "request"} :
        Step(f, [flow[f] EXCEPT !.stage = stage, !.req = Some(req), !.sni = sni,
                                !.header = [h \in {"Authorization", "X-Key"} |->
                                                <<"phantom">>]])
    /\ Quiet

\* An entry for a tunnel, or for a request that got a response; writing it
\* may fail.
Entry(g, decision, status) ==
    [g EXCEPT !.log = Append(@, [decision |-> decision, status |-> status])]

http_connect(f) ==
    LET disp == Py_host_disposition(InForce, flow[f].req[1].host)
    IN /\ flow[f].stage = "connect"
       /\ Step(f, IF disp.passthrough /\ disp.deny_reason # Nil
                  THEN Entry(Refused([flow[f] EXCEPT !.by = ruleset]), "hard-deny", 0)
                  ELSE [flow[f] EXCEPT !.stage = "hello"])
       /\ Quiet

\* A tunnel that cannot be logged is none: TLS is terminated.
tls_clienthello(f) ==
    LET disp == Py_host_disposition(InForce, flow[f].req[1].host)
    IN /\ flow[f].stage = "hello"
       /\ Step(f, IF flow[f].sni /\ disp.passthrough /\ disp.deny_reason = Nil
                  THEN Entry([flow[f] EXCEPT !.stage = "done", !.tunnel = TRUE,
                                             !.by = ruleset], "allow", 0)
                  ELSE [flow[f] EXCEPT !.stage = "request"])
       /\ Quiet

\* The auth axis of the rule that allowed a request: leave it alone, or ask
\* the broker.
apply_injection(g, result) ==
    LET rule == InForce.allow[result.index]
        creds == InForce.credentials
    IN CASE rule.in_cage \/ rule.inject = "" -> [g EXCEPT !.stage = "forward"]
         [] ~rule.in_cage /\ rule.inject # "" /\ rule.inject \notin DOMAIN creds ->
                Answered(g, injection_unavailable(rule.inject))
         [] OTHER -> [g EXCEPT !.stage = "broker", !.injected = rule.inject,
                               !.cred = Some(creds[rule.inject])]

request(f) ==
    LET result == Py_decide(InForce, flow[f].req[1])
        g == [flow[f] EXCEPT !.verdict = Some(result), !.by = ruleset]
    IN /\ flow[f].stage = "request"
       /\ Step(f, CASE result.decision = "allow" -> apply_injection(g, result)
                    [] result.decision = "soft-deny" -> Answered(g, soft_deny)
                    [] OTHER -> Answered(g, hard_deny))
       /\ Quiet

\* A bug that would matter: the credential is looked up again after the
\* broker answered, in the policy of then.
Slip_broker_fetch(f) ==
    LET name == flow[f].injected
        creds == InForce.credentials
        cred == IF name \in DOMAIN creds THEN creds[name] ELSE flow[f].cred[1]
    IN /\ flow[f].stage = "broker"
       /\ \/ /\ name \in payload
             /\ Step(f, [flow[f] EXCEPT
                    !.header[cred.header] =
                        render_credential_value(cred.template, cred.username, name),
                    !.cred = Nil, !.stage = "forward"])
          \/ Step(f, [Answered(flow[f], injection_unavailable(name)) EXCEPT
                            !.cred = Nil, !.injected = ""])
       /\ Quiet

\* The broker has a token for what it was given, unless it has none just now
\* or does not answer in time.  The token overwrites what the client set.
broker_fetch(f) ==
    LET name == flow[f].injected
        cred == flow[f].cred[1]
    IN /\ flow[f].stage = "broker"
       /\ \/ /\ name \in payload
             /\ validateTemplate(cred.template, cred.username)
             /\ Step(f, [flow[f] EXCEPT
                    !.header[cred.header] =
                        render_credential_value(cred.template, cred.username, name),
                    !.cred = Nil, !.stage = "forward"])
          \/ Step(f, [Answered(flow[f], injection_unavailable(name)) EXCEPT
                            !.cred = Nil, !.injected = ""])
       /\ Quiet

\* mitmproxy connects to the server, late, and sends the request.
SendUpstream(f) ==
    /\ flow[f].stage = "forward"
    /\ Step(f, [flow[f] EXCEPT !.stage = "upstream", !.upstream = Some(flow[f].header)])
    /\ Quiet

\* A 401 or 403 to a request with a credential tells its name.
responseheaders(f) ==
    /\ flow[f].stage = "upstream"
    /\ \E status \in {200, 401} :
        Step(f, Answered(flow[f], FromUpstream(status,
                    IF status = 401 THEN flow[f].injected ELSE "")))
    /\ Quiet

\* No connection, or it breaks: mitmproxy answers, and calls no hook of ours.
UpstreamFails(f) ==
    /\ flow[f].stage = "upstream"
    /\ Step(f, [flow[f] EXCEPT !.stage = "done"])
    /\ Quiet

\* A request without a verdict is skipped: `request` raised before it had one.
response(f) ==
    LET g == flow[f]
        entered == IF g.verdict = Nil THEN g
                   ELSE Entry(g, g.verdict[1].decision, g.response[1].status)
    IN /\ g.stage = "response"
       /\ Step(f, [entered EXCEPT !.stage = "done"])
       /\ Quiet

(***************************************************************************)
(* What else may happen                                                    *)
(***************************************************************************)

\* A hook raises, or its write to the log does: nothing is let through.
\* `request` may have its verdict by then, or not.
HookRaises(f) ==
    LET g == [flow[f] EXCEPT !.raised = TRUE]
    IN /\ Change
       /\ \/ /\ g.stage = "connect"
             /\ Step(f, Refused(g))
          \/ /\ g.stage = "hello"
             /\ Step(f, [g EXCEPT !.stage = "request"])
          \/ /\ g.stage = "request"
             /\ \/ Step(f, Answered(g, hard_deny))
                \/ Step(f, Answered([g EXCEPT !.by = ruleset,
                        !.verdict = Some(Py_decide(InForce, g.req[1]))], hard_deny))
          \/ /\ g.stage = "broker"
             /\ Step(f, [Answered(g, hard_deny) EXCEPT !.cred = Nil, !.injected = ""])
          \/ /\ g.stage = "response"
             /\ Step(f, [g EXCEPT !.stage = "done"])
       /\ UNCHANGED <<ruleset, payload>>

\* A poll finds the file changed, and loads it.
Reload ==
    /\ Change
    /\ ruleset' \in DOMAIN RuleSets \ {ruleset}
    /\ UNCHANGED <<payload, flow>>

FlowInit(flows, first) ==
    /\ ruleset \in first
    /\ payload = resolveInjectionSecrets(RuleSets[ruleset])
    /\ flow = [f \in flows |-> NewFlow]
    /\ changes = 0

FlowNext ==
    \/ \E f \in DOMAIN flow :
        \/ Begin(f) \/ http_connect(f) \/ tls_clienthello(f) \/ request(f)
        \/ broker_fetch(f) \/ SendUpstream(f) \/ responseheaders(f)
        \/ UpstreamFails(f) \/ response(f) \/ HookRaises(f)
    \/ DOMAIN flow # {} /\ Reload

FlowSpec == FlowInit(Flow, DOMAIN RuleSets) /\ [][FlowNext]_flowVars

(***************************************************************************)
(* Properties                                                              *)
(***************************************************************************)

\* The header the Go side's rule asks for, by the policy of one moment.
Expected(rs, result) ==
    LET rule == rs.allow[result.index]
        cred == rs.credentials[rule.inject]
        phantom == [h \in {"Authorization", "X-Key"} |-> <<"phantom">>]
    IN IF rule.in_cage \/ rule.inject = "" THEN phantom
       ELSE [phantom EXCEPT ![cred.header] =
                render_credential_value(cred.template, cred.username, rule.inject)]

\* What the policy decides of the requests to a host that was tunnelled, or
\* refused, as a whole: it allows them all, or a rule without paths denies the
\* host, and the policy denies each request with a method the rule is for.
HostDecided(rs, host, decision) ==
    LET To(r) == r.host = host
    IN \/ /\ decision = "allow"
          /\ \A r \in Asked : To(r) => Decide(rs, r).decision = "allow"
       \/ /\ decision = "hard-deny"
          /\ \E d \in HostLevel(rs.deny) :
                /\ matchHost(d.host, canonicalHost(host))
                /\ \A r \in Asked : To(r) /\ matchMethod(d.methods, r.method) =>
                        Decide(rs, r).decision = "hard-deny"

\* What reaches a server was allowed by the policy of one moment, the one at
\* which it was decided, and carries the credential that policy asks for and
\* nothing else, although the policy may change at any moment and the broker
\* and the hooks may fail.  What is done left one entry, unless the server or a
\* hook failed: of the decision and the status the client saw, or, for a host
\* that was tunnelled or refused as a whole, of what the policy decides of the
\* requests to it.
FlowAsDecided ==
    \A f \in DOMAIN flow :
        LET g == flow[f]
            rs == RuleSets[g.by]
            result == Decide(rs, g.req[1])
        IN /\ g.upstream # Nil =>
                /\ result.decision = "allow"
                /\ g.upstream[1] = Expected(rs, result)
           /\ g.tunnel => g.log[1].decision = "allow"
           /\ g.stage = "done" /\ ~g.raised /\ (g.response = Nil => g.tunnel) =>
                /\ Len(g.log) = 1
                /\ \/ /\ g.log[1].status = 0
                      /\ HostDecided(rs, g.req[1].host, g.log[1].decision)
                   \/ /\ g.log[1].decision = result.decision
                      /\ g.log[1].status = g.response[1].status
                      /\ g.response[1].status \in
                            CASE result.decision = "allow" -> {200, 401, 472}
                              [] result.decision = "soft-deny" -> {470}
                              [] OTHER -> {471}
=============================================================================

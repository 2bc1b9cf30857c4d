----------------------------- MODULE Generators -----------------------------
(***************************************************************************)
(* The allow rules made from a manifest's dependencies (internal/          *)
(* generator), with the two caches behind them: what a registry said of a  *)
(* package, good for a while, and what was made of a manifest, good until  *)
(* it is cleared.  The caches are the user's: compiles and refreshes of    *)
(* all projects share them, without a lock.                                *)
(*                                                                         *)
(* A host is its labels, a path its segments, a URL [host, path] without a *)
(* trailing ".git", or Nil when nothing can be made of it; letters are of  *)
(* one case.  A file is as in PolicyPipeline: opened and truncated under a *)
(* temporary name, written, renamed.                                       *)
(***************************************************************************)
EXTENDS Lists

CONSTANTS
    Names,          \* package names in their order, each with its form
    Published,      \* what a registry may say of a package
    Maker,          \* the processes
    Jobs,           \* those of each: [kind, inputs], a compile or a refresh
                    \* of manifests
    refreshInterval,
    MaxTime,        \* bound: ticks of the clock
    MaxJobs,        \* bound: jobs started
    MaxAsked        \* bound: answers of the registries

VARIABLES
    time,
    caches,         \* [path -> [dest, tmp]], both caches
    answers,        \* what the registries answered so far
    job,            \* what each process does
    jobs            \* jobs started so far

ASSUME GeneratorsAssumption ==
    /\ Names \in Seq(Elements(Names))
    /\ \A p \in Maker : \A j \in Jobs[p] : j.inputs \in Seq(Elements(j.inputs))

genVars == <<time, caches, answers, job, jobs>>

-----------------------------------------------------------------------------
(***************************************************************************)
(* Manifests and rules                                                     *)
(***************************************************************************)

FormOf(name) == (CHOOSE n \in Elements(Names) : n.name = name).form

sortedUnique(direct, dev) ==
    Among([i \in DOMAIN Names |-> Names[i].name], direct \cup dev)

\* A name without a vendor is PHP itself or an extension.
isComposerPackage(name) == FormOf(name) # "plain"

deps(input) ==
    LET all == sortedUnique(input.doc.direct, input.doc.dev)
    IN IF input.eco = "package_json" THEN all
       ELSE Among(all, {n \in Elements(all) : isComposerPackage(n)})

registryOf(eco) == IF eco = "package_json" THEN "npm" ELSE "packagist"

\* "../x": it would leave the cache.
validatePackage(name) == FormOf(name) # "escaping"
validName(registry, name) ==
    FormOf(name) \in IF registry = "npm" THEN {"plain", "scoped"} ELSE {"vendor"}

Org == "<org>"
Repo == "<repo>"
forgeHost(host, path, trust) == [host |-> host, path |-> path, lowerTrust |-> trust]

forges(host) ==
    CASE host = <<"github", "com">> ->
           <<forgeHost(host, <<Org, Repo>>, FALSE),
             forgeHost(<<"api", "github", "com">>, <<"repos", Org, Repo>>, FALSE),
             forgeHost(<<"raw", "githubusercontent", "com">>, <<Org, Repo>>, FALSE),
             forgeHost(<<"codeload", "github", "com">>, <<Org, Repo>>, FALSE),
             forgeHost(<<Org, "github", "io">>, <<Repo>>, FALSE),
             forgeHost(<<"objects", "githubusercontent", "com">>, <<>>, TRUE)>>
      [] host = <<"gitlab", "com">> ->
           <<forgeHost(host, <<Org, Repo>>, FALSE),
             forgeHost(<<Org, "gitlab", "io">>, <<Repo>>, FALSE)>>
      [] OTHER -> <<forgeHost(host, <<Org, Repo>>, FALSE)>>

substitutePlaceholders(parts, org, repo) ==
    [i \in DOMAIN parts |-> CASE parts[i] = Org -> org
                              [] parts[i] = Repo -> repo
                              [] OTHER -> parts[i]]

GeneratedRule(host, path, src, trust) ==
    [host |-> host, paths |-> IF path = <<>> THEN Nil ELSE Some(path),
     source |-> src, lower_trust |-> trust]

RepositoryRules(url, src) ==
    IF url = Nil \/ Len(url[1].path) < 2 THEN <<>>
    ELSE LET Filled(parts) ==
                 substitutePlaceholders(parts, url[1].path[1], url[1].path[2])
             hosts == forges(url[1].host)
         IN [i \in DOMAIN hosts |->
                GeneratedRule(Filled(hosts[i].host), Filled(hosts[i].path), src,
                              hosts[i].lowerTrust)]

sharedApexHosts ==
    {<<"sourceforge", "net">>, <<"pear", "php", "net">>, <<"pythonhosted", "org">>}

homepageRule(url, src) ==
    IF url = Nil \/ (url[1].path = <<>> /\ url[1].host \in sharedApexHosts) THEN <<>>
    ELSE <<GeneratedRule(url[1].host, url[1].path, src, FALSE)>>

sourceOf(eco, name) == <<"generated", eco, name>>

\* What one package contributes; nothing if the registry does not know it.
PackageRules(eco, name, said) ==
    IF said = Nil THEN <<>>
    ELSE homepageRule(said[1].homepage, sourceOf(eco, name))
         \o RepositoryRules(said[1].repository, sourceOf(eco, name))

-----------------------------------------------------------------------------
(***************************************************************************)
(* Files and jobs                                                          *)
(***************************************************************************)

Absent == [is |-> "absent"]
Empty == [is |-> "empty"]
Torn == [is |-> "torn"]
Cached(said) == [is |-> "entry", at |-> time, said |-> said]
Output(rules) == [is |-> "output", rules |-> rules]

entryPath(eco, name) == <<"registries", registryOf(eco), name>>
outputPath(input) == <<"generators", input.eco, input.doc>>

Inputs == UNION {Elements(j.inputs) : j \in UNION {Jobs[p] : p \in Maker}}
CachePaths ==
    {outputPath(in) : in \in Inputs}
    \cup UNION {{entryPath(in.eco, n) : n \in in.doc.direct \cup in.doc.dev} : in \in Inputs}

NoJob == [pc |-> "idle", kind |-> "none", inputs |-> <<>>, at |-> 0, queue |-> <<>>,
          rules |-> <<>>, made |-> <<>>, said |-> Nil, path |-> <<>>, fd |-> "none",
          out |-> Absent, since |-> 0, alone |-> TRUE]

\* What registries answered before may be in the cache.
GenInit(earlier) ==
    /\ time = 0 /\ answers = earlier
    /\ caches = [p \in CachePaths |->
         LET n == IndexOf(earlier, LAMBDA a : a.path = p)
         IN [dest |-> IF n = 0 THEN Absent ELSE Cached(earlier[n].said), tmp |-> Absent]]
    /\ job = [p \in Maker |-> NoJob]
    /\ jobs = 0

Running(p) == job[p].pc \notin {"idle", "done"}

Input(p) == job[p].inputs[job[p].at]
Becomes(p, j) == job' = [job EXCEPT ![p] = j]

\* A job gets to its n-th manifest, to clear or to generate; at the end it has
\* all the rules.
AtInput(j, n) ==
    IF n <= Len(j.inputs)
    THEN [j EXCEPT !.at = n, !.rules = <<>>, !.path = <<>>, !.out = Absent,
                   !.queue = IF j.pc = "clear" THEN <<outputPath(j.inputs[n])>> ELSE <<>>]
    ELSE IF j.pc = "clear" /\ j.inputs # <<>>
    THEN [j EXCEPT !.pc = "generate", !.at = 1, !.queue = <<>>]
    ELSE [NoJob EXCEPT !.pc = "done", !.kind = j.kind, !.inputs = j.inputs,
                       !.made = j.made, !.since = j.since, !.alone = j.alone]

\* Compile after its gate, or Refresh.
StartJob(p) ==
    /\ ~Running(p) /\ jobs < MaxJobs
    /\ \E j \in Jobs[p] :
        LET others == {q \in Maker \ {p} : Running(q)}
            new == [NoJob EXCEPT !.kind = j.kind, !.inputs = j.inputs,
                                 !.pc = IF j.kind = "refresh" THEN "clear" ELSE "generate",
                                 !.since = Len(answers), !.alone = others = {}]
        IN job' = [q \in Maker |->
                    IF q = p THEN AtInput(new, 1)
                    ELSE IF q \in others THEN [job[q] EXCEPT !.alone = FALSE]
                    ELSE job[q]]
    /\ jobs' = jobs + 1
    /\ UNCHANGED <<time, caches, answers>>

(***************************************************************************)
(* Refresh clears, for each manifest, its output and then the entry of     *)
(* each dependency: RemoveIfPresent looks, and removes.                    *)
(***************************************************************************)

\* A bug that would matter: the entry of the last dependency stays.
Slip_Cleared(p) ==
    IF Head(job[p].queue) = outputPath(Input(p))
    THEN LET names == deps(Input(p))
         IN [i \in 1..Len(names) - 1 |-> entryPath(Input(p).eco, names[i])]
    ELSE Tail(job[p].queue)

\* The paths that remain when the first one is cleared.
Cleared(p) ==
    IF Head(job[p].queue) = outputPath(Input(p))
    THEN LET names == deps(Input(p))
         IN [i \in DOMAIN names |-> entryPath(Input(p).eco, names[i])]
    ELSE Tail(job[p].queue)

\* The manifest is parsed when its output is gone.
AfterClearing(p) ==
    IF Head(job[p].queue) = outputPath(Input(p)) /\ ~Input(p).doc.valid THEN NoJob
    ELSE IF Cleared(p) = <<>> THEN AtInput([job[p] EXCEPT !.pc = "clear"], job[p].at + 1)
    ELSE [job[p] EXCEPT !.pc = "clear", !.queue = Cleared(p)]

StatCached(p) ==
    /\ job[p].pc = "clear"
    /\ LET path == Head(job[p].queue)
       IN Becomes(p,
            IF path[1] = "registries" /\ ~validatePackage(path[3]) THEN NoJob
            ELSE IF caches[path].dest = Absent THEN AfterClearing(p)
            ELSE [job[p] EXCEPT !.pc = "remove"])
    /\ UNCHANGED <<time, caches, answers, jobs>>

\* The names of the files others have open when one is moved or removed.
Renamed(fd) == CASE fd = "tmp" -> "dest" [] fd = "dest" -> "gone" [] OTHER -> fd
Unlinked(fd, name) == IF fd = name THEN "gone" ELSE fd

RemoveCached(p) ==
    LET path == Head(job[p].queue)
    IN /\ job[p].pc = "remove"
       /\ caches' = [caches EXCEPT ![path].dest = Absent]
       /\ job' = [q \in Maker |->
            IF q = p
            THEN IF caches[path].dest = Absent THEN NoJob ELSE AfterClearing(p)
            ELSE IF job[q].path = path
            THEN [job[q] EXCEPT !.fd = Unlinked(@, "dest")] ELSE job[q]]
       /\ UNCHANGED <<time, answers, jobs>>

(***************************************************************************)
(* Generate                                                                *)
(***************************************************************************)

Storing(j, path) == [j EXCEPT !.pc = "open", !.path = path]

\* The next dependency; at their end the rules are stored.
NextDep(p, said, queue) ==
    LET j == job[p]
        more == PackageRules(Input(p).eco, Head(j.queue), said)
        walked == [j EXCEPT !.pc = "walk", !.queue = queue, !.said = Nil,
                            !.rules = @ \o more]
    IN IF queue = <<>> THEN Storing(walked, outputPath(Input(p))) ELSE walked

readCache(p) ==
    /\ job[p].pc = "generate"
    /\ LET j == job[p]
           found == caches[outputPath(Input(p))].dest
           names == deps(Input(p))
       IN Becomes(p,
            IF found.is = "output"
            THEN AtInput([j EXCEPT !.made = Append(@, found.rules)], j.at + 1)
            ELSE IF ~Input(p).doc.valid THEN NoJob
            ELSE IF names = <<>> THEN Storing(j, outputPath(Input(p)))
            ELSE [j EXCEPT !.pc = "walk", !.queue = names])
    /\ UNCHANGED <<time, caches, answers, jobs>>

Fresh(entry) == entry.is = "entry" /\ time - entry.at < refreshInterval

\* Lookup, as far as the cache goes.
readFreshCache(p) ==
    /\ job[p].pc = "walk"
    /\ LET name == Head(job[p].queue)
           path == entryPath(Input(p).eco, name)
       IN Becomes(p,
            IF ~validatePackage(name) THEN NoJob
            ELSE IF Fresh(caches[path].dest)
            THEN NextDep(p, caches[path].dest.said, Tail(job[p].queue))
            ELSE IF ~validName(registryOf(Input(p).eco), name) THEN NoJob
            ELSE [job[p] EXCEPT !.pc = "fetch"])
    /\ UNCHANGED <<time, caches, answers, jobs>>

\* The registry describes the package, or does not know it.
fetch(p) ==
    /\ job[p].pc = "fetch" /\ Len(answers) < MaxAsked
    /\ LET name == Head(job[p].queue)
           path == entryPath(Input(p).eco, name)
       IN \E said \in {Nil} \cup {Some(md) : md \in Published} :
            /\ answers' = Append(answers, [path |-> path, said |-> said])
            /\ Becomes(p, IF said = Nil THEN NextDep(p, Nil, Tail(job[p].queue))
                          ELSE Storing([job[p] EXCEPT !.said = said], path))
    /\ UNCHANGED <<time, caches, jobs>>

(***************************************************************************)
(* writeCache, of either cache                                             *)
(***************************************************************************)

\* What is written is settled, and os.WriteFile opens the temporary name.
OpenCache(p) ==
    LET path == job[p].path
    IN /\ job[p].pc = "open"
       /\ caches' = [caches EXCEPT ![path].tmp = Empty]
       /\ Becomes(p, [job[p] EXCEPT !.pc = "write", !.fd = "tmp",
                        !.out = IF path[1] = "registries" THEN Cached(job[p].said)
                                                         ELSE Output(job[p].rules)])
       /\ UNCHANGED <<time, answers, jobs>>

\* Over other bytes, those of a longer file remain at the end.
Overwritten(old, new) == {new} \cup IF old \in {Empty, new} THEN {} ELSE {Torn}

\* The bytes go to wherever the opened file is by now.
IntoCache(p, all) ==
    IF job[p].fd = "gone" THEN UNCHANGED caches
    ELSE \E new \in IF all THEN Overwritten(caches[job[p].path][job[p].fd], job[p].out)
                            ELSE {Torn} :
            caches' = [caches EXCEPT ![job[p].path][job[p].fd] = new]

WriteCache(p) ==
    /\ job[p].pc = "write"
    /\ IntoCache(p, TRUE)
    /\ Becomes(p, [job[p] EXCEPT !.pc = "rename", !.fd = "none"])
    /\ UNCHANGED <<time, answers, jobs>>

\* What follows once a file is in place.
Stored(p) ==
    IF job[p].path[1] = "registries" THEN NextDep(p, job[p].said, Tail(job[p].queue))
    ELSE AtInput([job[p] EXCEPT !.pc = "generate", !.made = Append(@, job[p].rules)],
                 job[p].at + 1)

RenameCache(p) ==
    LET path == job[p].path
    IN /\ job[p].pc = "rename" /\ caches[path].tmp # Absent
       /\ caches' = [caches EXCEPT ![path] = [dest |-> @.tmp, tmp |-> Absent]]
       /\ job' = [q \in Maker |->
            IF q = p THEN Stored(p)
            ELSE IF job[q].path = path THEN [job[q] EXCEPT !.fd = Renamed(@)]
            ELSE job[q]]
       /\ UNCHANGED <<time, answers, jobs>>

\* The temporary file is gone, or the rename fails otherwise.
RenameCacheFails(p) ==
    /\ job[p].pc = "rename"
    /\ Becomes(p, [job[p] EXCEPT !.pc = "cleanup"])
    /\ UNCHANGED <<time, caches, answers, jobs>>

\* The clean-up removes whoever's temporary file is there now.
RemoveCacheTmp(p) ==
    LET path == job[p].path
    IN /\ job[p].pc = "cleanup"
       /\ caches' = [caches EXCEPT ![path].tmp = Absent]
       /\ job' = [q \in Maker |->
            IF q = p THEN NoJob
            ELSE IF job[q].path = path THEN [job[q] EXCEPT !.fd = Unlinked(@, "tmp")]
            ELSE job[q]]
       /\ UNCHANGED <<time, answers, jobs>>

\* A registry or a file fails, or the process is killed, in the middle of a
\* write perhaps.
Breaks(p) ==
    /\ Running(p)
    /\ UNCHANGED caches \/ (job[p].pc = "write" /\ IntoCache(p, FALSE))
    /\ Becomes(p, NoJob)
    /\ UNCHANGED <<time, answers, jobs>>

Tick ==
    /\ time < MaxTime
    /\ time' = time + 1
    /\ UNCHANGED <<caches, answers, job, jobs>>

GenNext ==
    \/ Tick
    \/ \E p \in Maker :
        \/ StartJob(p) \/ StatCached(p) \/ RemoveCached(p)
        \/ readCache(p) \/ readFreshCache(p) \/ fetch(p)
        \/ OpenCache(p) \/ WriteCache(p) \/ RenameCache(p)
        \/ RenameCacheFails(p) \/ RemoveCacheTmp(p) \/ Breaks(p)

GenSpec(earlier) == GenInit(earlier) /\ [][GenNext]_genVars

-----------------------------------------------------------------------------
\* Where the answers begin that a job may use: any of the past, but for a
\* refresh that no other job overlapped.
UsableFrom(j) == IF j.kind = "refresh" /\ j.alone THEN j.since + 1 ELSE 1

MadeFrom(input, rules, from) ==
    LET names == deps(input)
    IN \E k \in [DOMAIN names -> from..Len(answers)] :
        /\ \A i \in DOMAIN names :
             answers[k[i]].path = entryPath(input.eco, names[i])
        /\ rules = Concat([i \in DOMAIN names |->
                      PackageRules(input.eco, names[i], answers[k[i]].said)])

\* The rules a compile generates are, manifest by manifest and package by
\* package, what one answer of the package's own registry amounts to, whatever
\* other jobs, failures and kills did to the caches; and those of a refresh are
\* of answers given since it began, if no other job ran meanwhile.
RulesAsAnswered ==
    \A p \in Maker :
        LET j == job[p]
        IN j.pc = "done" =>
            /\ Len(j.made) = Len(j.inputs)
            /\ \A i \in DOMAIN j.inputs :
                 MadeFrom(j.inputs[i], j.made[i], UsableFrom(j))
=============================================================================

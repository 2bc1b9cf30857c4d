----------------------------- MODULE ConfigLoad -----------------------------
(***************************************************************************)
(* From files to one effective config (internal/config/load.go, merge.go): *)
(* includes are resolved recursively, with cycles, depth and the           *)
(* directories they may reach into checked on the way; layers are merged.  *)
(* The disk is a function from the canonical paths of the files that exist *)
(* to their texts.  A path is the sequence of its names; an include entry  *)
(* is a path with the form it is written in.                               *)
(***************************************************************************)
EXTENDS ConfigFile

CONSTANTS
    Home,               \* the home directory
    ProjectDir,         \* the directory of the project
    Links,              \* symbolic links: a function from paths to paths
    Paths,              \* the paths of the model
    maxIncludeDepth

GlobalPath == Home \o <<".config", "agent-creance.yaml">>
ProjectPath == Append(ProjectDir, ".agent-creance.yaml")

ASSUME LoadAssumption ==
    /\ maxIncludeDepth \in Nat
    /\ DOMAIN Links \subseteq Paths
    /\ \A p \in DOMAIN Links : Links[p] \in Paths
    /\ {GlobalPath, ProjectPath} \subseteq Paths

Dir(path) == SubSeq(path, 1, Len(path) - 1)
Canon(path) == IF path \in DOMAIN Links THEN Links[path] ELSE path

\* filepath.Join: a ".." takes the name before it away.
Join(dir, path) ==
    LET c[i \in 0..Len(path)] ==
            IF i = 0 THEN dir
            ELSE IF path[i] = ".." THEN Dir(c[i - 1])
            ELSE Append(c[i - 1], path[i])
    IN c[Len(path)]

pathWithin(dir, target) ==
    Len(dir) <= Len(target) /\ SubSeq(target, 1, Len(dir)) = dir

\* An include stays below the file that declares it, or in ~/.config.
resolveIncludePath(declaring, inc) ==
    LET resolved == CASE inc.form = "home" -> Join(Home, inc.path)
                      [] inc.form = "abs" -> inc.path
                      [] inc.form = "rel" -> Join(Dir(declaring), inc.path)
    IN IF \/ pathWithin(Dir(declaring), resolved)
          \/ pathWithin(Append(Home, ".config"), resolved)
       THEN Some(resolved) ELSE Nil

(***************************************************************************)
(* Merging: what the later layer says of a scalar wins, lists are joined   *)
(***************************************************************************)

Dedupe(s) == DedupeBy(s, s)

concat(a, b) == Dedupe(a \o b)
firstNonEmpty(over, base) == IF over = "" THEN base ELSE over
mergeEnv(base, over) == over @@ base

\* The names of both layers; a name both define is the later layer's.
mergeCredentials(base, over) ==
    Among(base, {c \in Elements(base) : c.name \notin Names(over)}) \o over

merge(base, over) ==
    [allow |-> concat(base.allow, over.allow),
     deny |-> concat(base.deny, over.deny),
     include |-> <<>>,
     services |-> concat(base.services, over.services),
     rw |-> concat(base.rw, over.rw), ro |-> concat(base.ro, over.ro),
     generators |-> concat(base.generators, over.generators),
     credentials |-> mergeCredentials(base.credentials, over.credentials),
     env |-> mergeEnv(base.env, over.env),
     workdir |-> firstNonEmpty(over.workdir, base.workdir)]

(***************************************************************************)
(* Resolving.  The stack holds the files on the way to this one, and there *)
(* are depth of them.                                                      *)
(***************************************************************************)

Ok(cfg) == [err |-> "", cfg |-> cfg]
Err(err) == [err |-> err, cfg |-> EmptyConfig]

OnStack(path, stack) == Canon(path) \in stack

\* What stops a file from being used before its includes are looked at.
FileError(files, path, stack, depth) ==
    IF depth > maxIncludeDepth THEN "depth"
    ELSE IF Canon(path) \notin DOMAIN files THEN "missing"
    ELSE IF OnStack(path, stack) THEN "cycle"
    ELSE IF Parse(files[Canon(path)]) = Nil THEN "parse" ELSE ""

\* A layer over what is below it; an error of either is the result.
over(below, layer) ==
    IF below.err # "" THEN below
    ELSE IF layer.err # "" THEN layer
    ELSE Ok(merge(below.cfg, layer.cfg))

\* A file over what it includes; deeper resolves the files one level down.
Included(files, path, stack, deeper) ==
    LET own == Parse(files[Canon(path)])[1]
        acc[i \in 0..Len(own.include)] ==
            LET inc == resolveIncludePath(path, own.include[i])
            IN IF i = 0 THEN Ok(EmptyConfig)
               ELSE over(acc[i - 1],
                         IF inc = Nil THEN Err("scope")
                         ELSE deeper[inc[1]][stack \cup {Canon(path)}])
    IN over(acc[Len(own.include)], Ok(own))

resolve(files, file) ==
    LET r[depth \in 0..(maxIncludeDepth + 1)] ==
            [path \in Paths |-> [stack \in SUBSET Paths |->
                LET err == FileError(files, path, stack, depth)
                IN IF err # "" THEN Err(err)
                   ELSE Included(files, path, stack, r[depth + 1])]]
    IN r[0][file][{}]

ResolveLayer(files, path, optional) ==
    IF optional /\ Canon(path) \notin DOMAIN files THEN Ok(EmptyConfig)
    ELSE resolve(files, path)

Injected(cfg) ==
    {r.inject : r \in Elements(cfg.allow) \cup Elements(cfg.deny)} \ {""}

\* An injected credential must be defined somewhere; one that no rule injects
\* is only worth a warning.
ValidateEffective(cfg) ==
    [err |-> IF Injected(cfg) \subseteq Names(cfg.credentials) THEN "" ELSE "inject",
     warnings |-> Names(cfg.credentials) \ Injected(cfg)]

Effective(merged) ==
    LET invalid == ValidateEffective(merged.cfg).err
    IN IF merged.err # "" THEN merged
       ELSE IF invalid # "" THEN Err(invalid) ELSE merged

Load(files) ==
    Effective(over(over(Ok(EmptyConfig), ResolveLayer(files, GlobalPath, TRUE)),
                   ResolveLayer(files, ProjectPath, FALSE)))

(***************************************************************************)
(* The files a session watches: the same walk, but a file that was seen    *)
(* before is not walked again.                                             *)
(***************************************************************************)

Walk(err, seen) == [err |-> err, seen |-> seen]

\* A file and, one after the other, what it includes.
Collected(files, path, stack, seen, deeper) ==
    LET own == Parse(files[Canon(path)])[1]
        acc[i \in 0..Len(own.include)] ==
            LET inc == resolveIncludePath(path, own.include[i])
            IN IF i = 0 THEN Walk("", seen \cup {Canon(path)})
               ELSE IF acc[i - 1].err # "" THEN acc[i - 1]
               ELSE IF inc = Nil THEN Walk("scope", {})
               ELSE deeper[inc[1]][stack \cup {Canon(path)}][acc[i - 1].seen]
    IN acc[Len(own.include)]

\* A bug that would matter: fragments of fragments are not collected.
Slip_collectFiles(files, file, seen0) ==
    Walk("", seen0 \cup ({Canon(file)} \cap DOMAIN files))

collectFiles(files, file, seen0) ==
    LET c[depth \in 0..(maxIncludeDepth + 1)] ==
            [path \in Paths |-> [stack \in SUBSET Paths |-> [seen \in SUBSET Paths |->
                LET err == FileError(files, path, stack, depth)
                IN IF err \notin {"", "parse"} THEN Walk(err, {})
                   ELSE IF Canon(path) \in seen THEN Walk("", seen)
                   ELSE IF err # "" THEN Walk(err, {})
                   ELSE Collected(files, path, stack, seen, c[depth + 1])]]]
    IN c[0][file][{}][seen0]

WalkOn(files, global) ==
    IF global.err # "" THEN global ELSE collectFiles(files, ProjectPath, global.seen)

ResolveFiles(files) ==
    WalkOn(files, IF Canon(GlobalPath) \in DOMAIN files
                  THEN collectFiles(files, GlobalPath, {}) ELSE Walk("", {}))

\* One entry is checked before it is written: not what it includes itself.
ValidateInclude(files, declaring, inc) ==
    LET path == resolveIncludePath(declaring, inc)
    IN IF path = Nil THEN "scope"
       ELSE IF Canon(path[1]) \notin DOMAIN files THEN "missing"
       ELSE IF Parse(files[Canon(path[1])]) = Nil THEN "parse" ELSE ""
=============================================================================

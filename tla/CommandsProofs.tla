--------------------------- MODULE CommandsProofs ---------------------------
(***************************************************************************)
(* Every command leaves files that are typed, and every compile of them a  *)
(* policy that the matchers may count on; so that what PolicyMatchProofs   *)
(* shows of one such policy holds at every moment.                         *)
(*                                                                         *)
(* The proof goes along the code: parsing, merging and resolving of files, *)
(* the compile, each editor under its gate, the rules that command lines   *)
(* mean, and then the commands.  At the end stands the loop of GlobMatch,  *)
(* which finds what GlobMatches defines.                                   *)
(***************************************************************************)
EXTENDS Commands, GlobMatch, PolicyMatchProofs

(***************************************************************************)
(* Lists.                                                                  *)
(***************************************************************************)

\* Some and Nil are what an optional value can be.
LEMMA OptType ==
    ASSUME NEW S
    PROVE  /\ Nil \in Opt(S)
           /\ \A x \in S : Some(x) \in Opt(S)
           /\ \A o \in Opt(S) : o # Nil => o = Some(o[1]) /\ o[1] \in S
<1>1. Nil \in Opt(S)
  BY DEF Opt, Nil
<1>2. \A x \in S : Some(x) \in Opt(S)
  BY DEF Opt, Some
<1>3. ASSUME NEW o \in Opt(S), o # Nil PROVE o = Some(o[1]) /\ o[1] \in S
  <2>1. o \in Seq(S) /\ Len(o) <= 1 /\ o # <<>>
    BY <1>3 DEF Opt, Nil
  <2>2. Len(o) \in Nat \ {0}
    BY <2>1, EmptySeq, Zenon
  <2>3. \A n \in Nat \ {0} : n <= 1 => n = 1
    OBVIOUS
  <2>4. Len(o) = 1
    BY <2>1, <2>2, <2>3, Zenon
  <2> QED BY <2>1, <2>4 DEF Some
<1> QED BY <1>1, <1>2, <1>3

\* The least index that something holds of is one that it holds of.
LEMMA LeastIndex ==
    ASSUME NEW at, at \subseteq Nat, at # {}
    PROVE  (CHOOSE i \in at : \A j \in at : i <= j) \in at
<1>1. \E i \in at : \A j \in at : i <= j
  BY Least
<1> QED BY <1>1

\* What is left of a sequence.
LEMMA WithoutType ==
    ASSUME NEW S, NEW s \in Seq(S), NEW i \in 0..Len(s)
    PROVE  Without(s, i) \in Seq(S)
<1>1. SubSeq(s, 1, i - 1) \in Seq(S)
  <2>1. CASE i <= 1
    <3>1. SubSeq(s, 1, i - 1) = <<>>
      BY <2>1
    <3> QED BY <3>1
  <2>2. CASE i > 1
    BY <2>2
  <2> QED BY <2>1, <2>2
<1>2. SubSeq(s, i + 1, Len(s)) \in Seq(S)
  OBVIOUS
<1> QED BY <1>1, <1>2 DEF Without

\* Sequences joined are a sequence.
LEMMA ConcatType ==
    ASSUME NEW S, NEW seqs \in Seq(Seq(S))
    PROVE  Concat(seqs) \in Seq(S)
<1>1. <<>> \in Seq(S) /\ \A e, x \in Seq(S) : e \o x \in Seq(S)
  OBVIOUS
<1>2. Closed(Seq(S))
  BY <1>1, Zenon DEF Closed
<1> QED BY <1>2, ConcatGrows, Zenon DEF SequencesOf

\* A sequence made element by element.
LEMMA MapType ==
    ASSUME NEW S, NEW s \in Seq(S), NEW T, NEW f,
           f = [i \in DOMAIN s |-> f[i]], \A i \in DOMAIN s : f[i] \in T
    PROVE  f \in Seq(T) /\ DOMAIN f = DOMAIN s
<1>1. DOMAIN s = 1..Len(s) /\ Len(s) \in Nat
  OBVIOUS
<1>2. f \in [1..Len(s) -> T]
  BY <1>1
<1> QED BY <1>1, <1>2

\* A sequence of elements that have more to them.
LEMMA NarrowType ==
    ASSUME NEW S, NEW s \in Seq(S), NEW T, \A i \in DOMAIN s : s[i] \in T
    PROVE  s \in Seq(T)
<1>1. s = [i \in DOMAIN s |-> s[i]]
  OBVIOUS
<1> QED BY <1>1, MapType

(***************************************************************************)
(* Configs.                                                                *)
(***************************************************************************)

ValidRules == {r \in ConfigRules : validateRule(r)}

ManifestEntries == [type : STRING, path : STRING]

ConfigOK(cfg) ==
    /\ cfg.allow \in Seq(ValidRules) /\ cfg.deny \in Seq(ValidRules)
    /\ cfg.generators \in Seq(ManifestEntries)
    /\ cfg.credentials \in Seq(Elements(cfg.credentials))

\* A rule with other fields is a rule.
LEMMA FieldsReplaced ==
    ASSUME NEW H, NEW P, NEW M, NEW T, NEW U, NEW B, NEW R,
           R = [host : H, paths : P, methods : M, mode : T, reason : U,
                inject : U, in_cage : B],
           NEW r \in R
    PROVE  /\ \A x \in T : [r EXCEPT !.mode = x] \in R
           /\ \A p \in P : [r EXCEPT !.paths = p] \in R
           /\ \A p \in P, m \in M, x \in T :
                [r EXCEPT !.paths = p, !.methods = m, !.mode = x] \in R
           /\ \A y, z \in U, b \in B :
                [r EXCEPT !.inject = y, !.in_cage = b, !.reason = z] \in R
OBVIOUS

PathLists == Opt(Seq(Seq(Seq(Words))))
MethodLists == Opt(Seq(Words))
OtherKeys == {"rw", "ro", "credentials"}
RuleKeys == {"allow", "deny"}
Modes == {""} \cup Words
Notes == {""} \cup STRING

\* A rule of a file with other fields that such a rule may have.
LEMMA RuleFields ==
    ASSUME NEW r \in ConfigRules
    PROVE  /\ \A x \in Modes : [r EXCEPT !.mode = x] \in ConfigRules
           /\ \A p \in PathLists : [r EXCEPT !.paths = p] \in ConfigRules
           /\ \A p \in PathLists, m \in MethodLists, x \in Modes :
                [r EXCEPT !.paths = p, !.methods = m, !.mode = x] \in ConfigRules
           /\ \A y, z \in Notes, b \in BOOLEAN :
                [r EXCEPT !.inject = y, !.in_cage = b, !.reason = z] \in ConfigRules
<1> DEFINE H == Seq(Words)
<1>1. ConfigRules = [host : H, paths : PathLists, methods : MethodLists, mode : Modes,
                     reason : Notes, inject : Notes, in_cage : BOOLEAN]
  BY Zenon DEF ConfigRules, PathLists, MethodLists, Modes, Notes
<1> HIDE DEF H
<1> QED BY <1>1, FieldsReplaced, Zenon

\* Rules with their modes filled in.
LEMMA ModesType ==
    ASSUME NEW rules \in Seq(ConfigRules)
    PROVE  /\ defaultRuleModes(rules) \in Seq(ConfigRules)
           /\ DOMAIN defaultRuleModes(rules) = DOMAIN rules
           /\ \A i \in DOMAIN rules :
                defaultRuleModes(rules)[i] =
                    IF rules[i].mode = "" THEN [rules[i] EXCEPT !.mode = "intercept"]
                    ELSE rules[i]
<1>1. ASSUME NEW r \in ConfigRules PROVE [r EXCEPT !.mode = "intercept"] \in ConfigRules
  <2>1. "intercept" \in Modes
    BY CodeAssumption DEF Modes
  <2> QED BY <2>1, RuleFields, Zenon
<1>2. \A i \in DOMAIN rules :
        (IF rules[i].mode = "" THEN [rules[i] EXCEPT !.mode = "intercept"]
         ELSE rules[i]) \in ConfigRules
  <2>1. \A i \in DOMAIN rules : rules[i] \in ConfigRules
    OBVIOUS
  <2> QED BY <1>1, <2>1, Zenon
<1>3. defaultRuleModes(rules) =
        [i \in DOMAIN rules |->
            IF rules[i].mode = "" THEN [rules[i] EXCEPT !.mode = "intercept"]
            ELSE rules[i]]
  BY DEF defaultRuleModes
<1>4. \A i \in DOMAIN rules : defaultRuleModes(rules)[i] =
            IF rules[i].mode = "" THEN [rules[i] EXCEPT !.mode = "intercept"]
            ELSE rules[i]
  BY <1>3, Zenon
<1>5. defaultRuleModes(rules) = [i \in DOMAIN rules |-> defaultRuleModes(rules)[i]]
  BY <1>3, Zenon
<1>6. \A i \in DOMAIN rules : defaultRuleModes(rules)[i] \in ConfigRules
  BY <1>2, <1>4, Zenon
<1> QED BY <1>4, <1>5, <1>6, MapType, Zenon

\* Credentials with their defaults filled in.
LEMMA DefaultsType ==
    ASSUME NEW creds, creds \in Seq(Elements(creds))
    PROVE  /\ defaultCredentials(creds) \in Seq(Elements(defaultCredentials(creds)))
           /\ DOMAIN defaultCredentials(creds) = DOMAIN creds
<1> DEFINE F(c) == [c EXCEPT !.cred = defaultCredentialMinting(defaultCredentialHeader(@))]
           out == defaultCredentials(creds)
<1>1. out = [i \in DOMAIN creds |-> F(creds[i])]
  BY Zenon DEF defaultCredentials
<1> HIDE DEF F, out
<1>2. out = [i \in DOMAIN creds |-> out[i]] /\ DOMAIN out = DOMAIN creds
  BY <1>1
<1>3. \A i \in DOMAIN creds : out[i] \in Elements(out)
  BY <1>2 DEF Elements
<1> QED BY <1>2, <1>3, MapType DEF out

\* What a typed text parses to, if it does.
LEMMA ParseType ==
    ASSUME NEW text, TextOK(text), Parse(text) # Nil
    PROVE  /\ Parse(text) = Some(applyDefaults(text))
           /\ ConfigOK(applyDefaults(text))
           /\ applyDefaults(text).include = text.include.items
           /\ text.include.items \in Seq(Includes)
           /\ applyDefaults(text).services \in Seq(Services)
<1> DEFINE cfg == applyDefaults(text)
<1>1. Parse(text) = Some(cfg) /\ validate(cfg)
  BY Zenon DEF Parse, Valid
<1>2. /\ text.allow.items \in Seq(ConfigRules) /\ text.deny.items \in Seq(ConfigRules)
      /\ text.include.items \in Seq(Includes)
      /\ text.generators.items \in Seq(ManifestEntries)
      /\ text.services.items \in Seq(Services)
      /\ text.credentials.items \in Seq(Elements(text.credentials.items))
  BY DEF TextOK, ListsOf, ManifestEntries
<1>3. /\ cfg.credentials = defaultCredentials(text.credentials.items)
      /\ cfg.allow = defaultRuleModes(text.allow.items)
      /\ cfg.deny = defaultRuleModes(text.deny.items)
      /\ cfg.generators = text.generators.items
      /\ cfg.include = text.include.items
      /\ cfg.services = text.services.items
  BY DEF applyDefaults
<1> HIDE DEF cfg
<1>4. cfg.allow \in Seq(ConfigRules) /\ cfg.deny \in Seq(ConfigRules)
  BY <1>2, <1>3, ModesType
<1>5. \A i \in DOMAIN cfg.allow : cfg.allow[i] \in ValidRules
  BY <1>1, <1>4 DEF validate, Elements, ValidRules
<1>6. \A i \in DOMAIN cfg.deny : cfg.deny[i] \in ValidRules
  BY <1>1, <1>4 DEF validate, Elements, ValidRules
<1>7. cfg.credentials \in Seq(Elements(cfg.credentials))
  BY <1>2, <1>3, DefaultsType
<1>8. ConfigOK(cfg)
  BY <1>2, <1>3, <1>4, <1>5, <1>6, <1>7, NarrowType DEF ConfigOK
<1> QED BY <1>1, <1>2, <1>3, <1>8 DEF cfg

\* What an empty file parses to.
LEMMA EmptyIs ==
    /\ EmptyConfig.allow = <<>> /\ EmptyConfig.deny = <<>>
    /\ EmptyConfig.generators = <<>> /\ EmptyConfig.credentials = <<>>
<1>1. /\ EmptyText.allow.items = <<>> /\ EmptyText.deny.items = <<>>
      /\ EmptyText.generators.items = <<>> /\ EmptyText.credentials.items = <<>>
  BY DEF EmptyText, NoList, Listed
<1>2. /\ EmptyConfig.allow = defaultRuleModes(EmptyText.allow.items)
      /\ EmptyConfig.deny = defaultRuleModes(EmptyText.deny.items)
      /\ EmptyConfig.generators = EmptyText.generators.items
      /\ EmptyConfig.credentials = defaultCredentials(EmptyText.credentials.items)
  BY DEF EmptyConfig, applyDefaults
<1>3. defaultRuleModes(<<>>) = <<>> /\ defaultCredentials(<<>>) = <<>>
  BY DEF defaultRuleModes, defaultCredentials
<1> QED BY <1>1, <1>2, <1>3

\* An empty file is typed, and so is what it parses to.
LEMMA EmptyTyped ==
    /\ TextOK(EmptyText) /\ TextOK(Unparsable)
    /\ ConfigOK(EmptyConfig)
<1>1. NoList \in ListsOf(ConfigRules) /\ NoList \in ListsOf(Includes)
      /\ NoList \in ListsOf([type : STRING, path : STRING])
      /\ NoList \in ListsOf(Services)
  <2>1. \A S : NoList \in ListsOf(S)
    BY DEF NoList, Listed, ListsOf
  <2> QED BY <2>1
<1>2. /\ EmptyText.allow = NoList /\ EmptyText.deny = NoList
      /\ EmptyText.include = NoList /\ EmptyText.generators = NoList
      /\ EmptyText.services = NoList
      /\ EmptyText.oneLine = {}
  BY DEF EmptyText
<1>3. /\ Unparsable.allow = NoList /\ Unparsable.deny = NoList
      /\ Unparsable.include = NoList /\ Unparsable.generators = NoList
      /\ Unparsable.services = NoList
      /\ DOMAIN Unparsable = DOMAIN EmptyText /\ Unparsable.oneLine = {}
  BY DEF EmptyText, Unparsable
<1>4. /\ <<>> \in Seq(ValidRules) /\ <<>> \in Seq(ManifestEntries)
      /\ <<>> \in Seq(Elements(<<>>))
  OBVIOUS
<1>5. /\ \A key \in OtherKeys : EmptyText[key] = NoList /\ Unparsable[key] = NoList
      /\ NoList \in ListsOf(Elements(NoList.items))
  BY DEF OtherKeys, EmptyText, Unparsable, NoList, Listed, ListsOf
<1>6. ConfigOK(EmptyConfig)
  BY <1>4, EmptyIs DEF ConfigOK
<1>7. TextOK(EmptyText)
  BY <1>1, <1>2, <1>5 DEF TextOK, OtherKeys
<1>8. TextOK(Unparsable)
  BY <1>1, <1>3, <1>5 DEF TextOK, OtherKeys
<1> QED BY <1>6, <1>7, <1>8

\* Two lists joined.
LEMMA ConcatListsType ==
    ASSUME NEW S, NEW a \in Seq(S), NEW b \in Seq(S)
    PROVE  concat(a, b) \in Seq(S)
<1>1. a \o b \in Seq(S)
  OBVIOUS
<1> QED BY <1>1, DedupeType DEF concat, Dedupe

\* The credentials of two layers.
LEMMA CredentialsMerged ==
    ASSUME NEW a, a \in Seq(Elements(a)), NEW b, b \in Seq(Elements(b))
    PROVE  /\ mergeCredentials(a, b) \in Seq(Elements(mergeCredentials(a, b)))
           /\ Names(mergeCredentials(a, b)) = Names(a) \cup Names(b)
<1> DEFINE U == {c \in Elements(a) : c.name \notin Names(b)}
           rest == Among(a, U)
           T == Elements(a) \cup Elements(b)
<1>1. mergeCredentials(a, b) = rest \o b
  BY Zenon DEF mergeCredentials
<1>2. rest \in Seq(Elements(a) \cap U) /\ Elements(rest) = Elements(a) \cap U
  <2> HIDE DEF U
  <2> QED BY AmongType, AmongElements
<1>3. rest \in Seq(T) /\ b \in Seq(T)
  <2>1. \A i \in DOMAIN rest : rest[i] \in T
    <3> HIDE DEF rest, U
    <3> QED BY <1>2
  <2>2. \A i \in DOMAIN b : b[i] \in T
    BY DEF Elements
  <2> HIDE DEF T, rest
  <2> QED BY <1>2, <2>1, <2>2, NarrowType
<1>4. \A s : Names(s) = {c.name : c \in Elements(s)}
  BY DEF Names, Elements
<1>5. Elements(rest) = U
  <2>1. U \subseteq Elements(a)
    OBVIOUS
  <2> HIDE DEF U, rest
  <2> QED BY <1>2, <2>1
<1>6. Names(rest) \cup Names(b) = Names(a) \cup Names(b)
  <2> HIDE DEF rest
  <2>1. Names(rest) = {c.name : c \in U}
    BY <1>4, <1>5
  <2> QED BY <1>4, <2>1
<1> HIDE DEF rest, U, T
<1>7. rest \o b \in Seq(Elements(rest \o b)) /\ Elements(rest \o b) = Elements(rest) \cup Elements(b)
  BY <1>3, JoinedElements
<1>8. Names(rest \o b) = Names(rest) \cup Names(b)
  BY <1>4, <1>7
<1> QED BY <1>1, <1>6, <1>7, <1>8

\* What a file or a layer may come to: reading it never fails for a credential,
\* which only a whole config can lack.
ResultOK(x) == ConfigOK(x.cfg) /\ x.err # "inject"

LEMMA PlainResults ==
    /\ ResultOK(Ok(EmptyConfig)) /\ ResultOK(Err("scope")) /\ ResultOK(Err("overlay"))
    /\ \A c : ConfigOK(c) => ResultOK(Ok(c))
    /\ \A fs, path, stack, depth : ResultOK(Err(FileError(fs, path, stack, depth)))
<1>1. \A c : Ok(c).cfg = c /\ Ok(c).err = ""
  BY DEF Ok
<1>2. \A e : Err(e).cfg = EmptyConfig /\ Err(e).err = e
  BY DEF Err
<1>3. ASSUME NEW fs, NEW path, NEW stack, NEW depth
      PROVE  FileError(fs, path, stack, depth) # "inject"
  BY DEF FileError
<1>4. "" # "inject" /\ "scope" # "inject" /\ "overlay" # "inject"
  OBVIOUS
<1>5. \A c : ConfigOK(c) => ResultOK(Ok(c))
  BY <1>1, <1>4, Zenon DEF ResultOK
<1>6. \A e : e # "inject" => ResultOK(Err(e))
  BY <1>2, EmptyTyped, Zenon DEF ResultOK
<1> QED BY <1>3, <1>4, <1>5, <1>6, EmptyTyped, Zenon

\* Layers over one another.
LEMMA OverType ==
    ASSUME NEW a, NEW b, ResultOK(a), ResultOK(b)
    PROVE  ResultOK(over(a, b))
<1>0. ConfigOK(a.cfg) /\ ConfigOK(b.cfg)
  BY DEF ResultOK
<1>1. ConfigOK(merge(a.cfg, b.cfg))
  <2>1. /\ merge(a.cfg, b.cfg).allow = concat(a.cfg.allow, b.cfg.allow)
        /\ merge(a.cfg, b.cfg).deny = concat(a.cfg.deny, b.cfg.deny)
        /\ merge(a.cfg, b.cfg).generators = concat(a.cfg.generators, b.cfg.generators)
        /\ merge(a.cfg, b.cfg).credentials =
                mergeCredentials(a.cfg.credentials, b.cfg.credentials)
    BY DEF merge
  <2> QED BY <1>0, <2>1, ConcatListsType, CredentialsMerged DEF ConfigOK
<1>2. ResultOK(Ok(merge(a.cfg, b.cfg)))
  BY <1>1, PlainResults, Zenon
<1> QED BY <1>2, Zenon DEF over

\* The files that a file includes can be merged one after the other.
LEMMA MergesExist ==
    ASSUME NEW n \in Nat, NEW x
    PROVE  \E a : a = [i \in 0..n |-> IF i = 0 THEN Ok(EmptyConfig)
                                     ELSE over(a[i - 1], x[i])]
<1> DEFINE Body(a, i) == IF i = 0 THEN Ok(EmptyConfig) ELSE over(a[i - 1], x[i])
           S == {m \in 0..n : \E a : a = [i \in 0..m |-> Body(a, i)]}
<1>1. 0 \in S
  <2> DEFINE z == [i \in 0..0 |-> Ok(EmptyConfig)]
  <2>1. z = [i \in 0..0 |-> Body(z, i)]
    OBVIOUS
  <2> HIDE DEF z, Body
  <2> QED BY <2>1
<1>2. ASSUME NEW m \in 1..n, m - 1 \in S PROVE m \in S
  <2>1. PICK a : a = [i \in 0..(m - 1) |-> Body(a, i)]
    <3> HIDE DEF Body
    <3> QED BY <1>2
  <2> DEFINE b == [i \in 0..m |-> IF i = m THEN over(a[m - 1], x[m]) ELSE a[i]]
  <2>2. ASSUME NEW i \in 0..m PROVE b[i] = Body(b, i)
    <3>1. CASE i = m
      <4>1. m # 0 /\ m \in 0..m /\ m - 1 \in 0..m /\ m - 1 # m
        OBVIOUS
      <4>2. \A j \in 0..m : b[j] = IF j = m THEN over(a[m - 1], x[m]) ELSE a[j]
        BY Zenon
      <4> HIDE DEF b
      <4> QED BY <3>1, <4>1, <4>2
    <3>2. CASE i # m
      <4>1. i \in 0..(m - 1) /\ (i # 0 => i - 1 \in 0..m /\ i - 1 # m)
        BY <3>2
      <4>2. \A j \in 0..m : j # m => b[j] = a[j]
        BY Zenon
      <4>3. b[i] = a[i] /\ (i # 0 => b[i - 1] = a[i - 1])
        <5> HIDE DEF b
        <5> QED BY <3>2, <4>1, <4>2
      <4>4. a[i] = Body(a, i)
        <5> HIDE DEF Body
        <5> QED BY <2>1, <4>1
      <4> HIDE DEF b
      <4> QED BY <4>3, <4>4
    <3> QED BY <3>1, <3>2
  <2>3. b = [i \in 0..m |-> Body(b, i)]
    <3> HIDE DEF Body
    <3> QED BY <2>2
  <2> HIDE DEF b, Body
  <2> QED BY <2>3
<1>3. \A m \in 0..n : m \in S
  <2> HIDE DEF S
  <2> QED BY <1>1, <1>2, UpTo
<1> QED BY <1>3

\* What one include of a file resolves to.
Fetched(path, own, stack, deeper, i) ==
    IF resolveIncludePath(path, own.include[i]) = Nil THEN Err("scope")
    ELSE deeper[resolveIncludePath(path, own.include[i])[1]][stack \cup {Canon(path)}]

\* A file is put over its includes, one after the other.
LEMMA IncludedHistory ==
    ASSUME NEW fs, NEW path, NEW stack, NEW deeper,
           NEW own, own = Parse(fs[Canon(path)])[1], Len(own.include) \in Nat
    PROVE  \E acc : /\ acc[0] = Ok(EmptyConfig)
                    /\ \A i \in 1..Len(own.include) :
                          acc[i] = over(acc[i - 1], Fetched(path, own, stack, deeper, i))
                    /\ Included(fs, path, stack, deeper)
                          = over(acc[Len(own.include)], Ok(own))
<1> DEFINE n == Len(own.include)
           X(i) == IF resolveIncludePath(path, own.include[i]) = Nil THEN Err("scope")
                   ELSE deeper[resolveIncludePath(path, own.include[i])[1]]
                              [stack \cup {Canon(path)}]
           Body(a, i) == IF i = 0 THEN Ok(EmptyConfig) ELSE over(a[i - 1], X(i))
<1>1. \E a : a = [i \in 0..n |-> Body(a, i)]
  <2> DEFINE x == [i \in 1..n |-> X(i)]
  <2>1. PICK a : a = [i \in 0..n |-> IF i = 0 THEN Ok(EmptyConfig) ELSE over(a[i - 1], x[i])]
    <3> HIDE DEF x
    <3> QED BY MergesExist
  <2>2. \A i \in 0..n : i # 0 => x[i] = X(i)
    <3> HIDE DEF X
    <3> QED OBVIOUS
  <2>3. \A i \in 0..n : Body(a, i) = IF i = 0 THEN Ok(EmptyConfig) ELSE over(a[i - 1], x[i])
    <3> HIDE DEF X, x, n
    <3> QED BY <2>2, Zenon
  <2>4. a = [i \in 0..n |-> Body(a, i)]
    <3> HIDE DEF Body, x, n
    <3> QED BY <2>1, <2>3
  <2> HIDE DEF Body, n
  <2> QED BY <2>4
<1> DEFINE acc == CHOOSE a : a = [i \in 0..n |-> Body(a, i)]
<1>2. acc = [i \in 0..n |-> Body(acc, i)]
  BY <1>1, Zenon
<1>3. Included(fs, path, stack, deeper) = over(acc[n], Ok(own))
  BY Zenon DEF Included
<1> HIDE DEF acc
<1>4. n \in Nat /\ \A i \in 1..n : X(i) = Fetched(path, own, stack, deeper, i)
  BY DEF Fetched
<1>5. 0 \in 0..n /\ \A i \in 1..n : i \in 0..n /\ i # 0
  <2> HIDE DEF n
  <2> QED BY <1>4
<1>6. acc[0] = Ok(EmptyConfig) /\ \A i \in 1..n : acc[i] = over(acc[i - 1], X(i))
  <2> HIDE DEF n, X
  <2> QED BY <1>2, <1>5
<1> HIDE DEF X
<1> QED BY <1>3, <1>4, <1>6

\* A file over what it includes.
LEMMA IncludedType ==
    ASSUME NEW fs, FilesOK(fs), NEW path \in Paths, NEW stack \in SUBSET Paths,
           Canon(path) \in DOMAIN fs, Parse(fs[Canon(path)]) # Nil,
           NEW deeper, \A p \in Paths, st \in SUBSET Paths : ResultOK(deeper[p][st])
    PROVE  ResultOK(Included(fs, path, stack, deeper))
<1> PICK own : own = Parse(fs[Canon(path)])[1]
  OBVIOUS
<1> DEFINE n == Len(own.include)
           X(i) == Fetched(path, own, stack, deeper, i)
<1>1. ConfigOK(own) /\ own.include \in Seq(Includes)
  <2>1. TextOK(fs[Canon(path)])
    BY DEF FilesOK
  <2>2. \A y : Some(y)[1] = y
    BY DEF Some
  <2>3. own = applyDefaults(fs[Canon(path)])
    BY <2>1, <2>2, ParseType
  <2> QED BY <2>1, <2>3, ParseType
<1>2. n \in Nat /\ \A i \in 1..n : own.include[i] \in Includes
  BY <1>1
<1>3. ASSUME NEW i \in 1..n PROVE ResultOK(X(i))
  <2> DEFINE to == resolveIncludePath(path, own.include[i])
  <2>1. to = Nil \/ to[1] \in Paths
    BY <1>2 DEF Includes
  <2>2. stack \cup {Canon(path)} \in SUBSET Paths
    BY LoadAssumption DEF Canon
  <2> HIDE DEF to
  <2> QED BY <2>1, <2>2, PlainResults, Zenon DEF to, Fetched
<1>4. PICK acc : /\ acc[0] = Ok(EmptyConfig)
                 /\ \A i \in 1..n : acc[i] = over(acc[i - 1], X(i))
                 /\ Included(fs, path, stack, deeper) = over(acc[n], Ok(own))
  BY <1>2, IncludedHistory
<1> HIDE DEF n, X
<1> DEFINE S == {i \in 0..n : ResultOK(acc[i])}
<1>5. 0 \in S
  BY <1>2, <1>4, PlainResults
<1>6. ASSUME NEW i \in 1..n, i - 1 \in S PROVE i \in S
  <2>1. i \in 0..n /\ acc[i] = over(acc[i - 1], X(i)) /\ ResultOK(acc[i - 1])
    BY <1>2, <1>4, <1>6
  <2> QED BY <1>3, <2>1, OverType
<1>7. ResultOK(acc[n])
  <2>1. \A i \in 0..n : i \in S
    <3> HIDE DEF S
    <3> QED BY <1>2, <1>5, <1>6, UpTo
  <2>2. n \in 0..n
    BY <1>2
  <2> QED BY <2>1, <2>2
<1>8. ResultOK(Ok(own))
  BY <1>1, PlainResults, Zenon
<1> QED BY <1>4, <1>7, <1>8, OverType, Zenon

\* The files at one depth, from those one level down in r.
Level(fs, r, depth) ==
    [path \in Paths |-> [stack \in SUBSET Paths |->
        IF FileError(fs, path, stack, depth) # ""
        THEN Err(FileError(fs, path, stack, depth))
        ELSE Included(fs, path, stack, r[depth + 1])]]

Deepest == maxIncludeDepth + 1
Levels(fs) == CHOOSE r : r = [depth \in 0..Deepest |-> Level(fs, r, depth)]

\* A walk from the files at one depth, from those one level down in c.
WalkLevel(fs, c, depth) ==
    [path \in Paths |-> [stack \in SUBSET Paths |-> [seen \in SUBSET Paths |->
        IF FileError(fs, path, stack, depth) \notin {"", "parse"}
        THEN Walk(FileError(fs, path, stack, depth), {})
        ELSE IF Canon(path) \in seen THEN Walk("", seen)
        ELSE IF FileError(fs, path, stack, depth) # ""
        THEN Walk(FileError(fs, path, stack, depth), {})
        ELSE Collected(fs, path, stack, seen, c[depth + 1])]]]

WalkLevels(fs) == CHOOSE c : c = [depth \in 0..Deepest |-> WalkLevel(fs, c, depth)]

\* One level of either.
LevelOf(walk, fs, r, depth) ==
    IF walk THEN WalkLevel(fs, r, depth) ELSE Level(fs, r, depth)

\* A level depends on the next one only, and the deepest on none.
LEMMA LevelLocal ==
    ASSUME NEW walk \in BOOLEAN, NEW fs, NEW r, NEW o, NEW depth \in 0..Deepest,
           depth < Deepest => r[depth + 1] = o[depth + 1]
    PROVE  LevelOf(walk, fs, r, depth) = LevelOf(walk, fs, o, depth)
<1>0. maxIncludeDepth \in Nat
  BY LoadAssumption
<1>1. CASE depth < Deepest
  BY <1>1, ZenonT(30) DEF LevelOf, WalkLevel, Level
<1>2. CASE ~(depth < Deepest)
  <2>1. depth > maxIncludeDepth
    BY <1>0, <1>2 DEF Deepest
  <2>2. \A path, stack : FileError(fs, path, stack, depth) = "depth"
    BY <2>1 DEF FileError
  <2>3. "depth" # "" /\ "depth" \notin {"", "parse"}
    OBVIOUS
  <2>4. Level(fs, r, depth) = Level(fs, o, depth)
    BY <2>2, <2>3, Zenon DEF Level
  <2>5. WalkLevel(fs, r, depth) = WalkLevel(fs, o, depth)
    BY <2>2, <2>3, Zenon DEF WalkLevel
  <2> QED BY <2>4, <2>5, Zenon DEF LevelOf
<1> QED BY <1>1, <1>2

\* There are such levels, from the deepest up.
LEMMA LevelsExist ==
    ASSUME NEW fs
    PROVE  /\ Levels(fs) = [depth \in 0..Deepest |-> Level(fs, Levels(fs), depth)]
           /\ WalkLevels(fs)
                = [depth \in 0..Deepest |-> WalkLevel(fs, WalkLevels(fs), depth)]
<1>1. \A walk \in BOOLEAN :
        \E r : r = [depth \in 0..Deepest |-> LevelOf(walk, fs, r, depth)]
  <2> SUFFICES ASSUME NEW walk \in BOOLEAN
               PROVE  \E r : r = [depth \in 0..Deepest |-> LevelOf(walk, fs, r, depth)]
    BY Zenon
  <2> DEFINE N == Deepest
             S == {n \in 0..N : \E r : r = [d \in (N - n)..N |-> LevelOf(walk, fs, r, d)]}
  <2>0. N \in Nat
    BY LoadAssumption DEF Deepest
  <2>1. 0 \in S
    <3> DEFINE z == [d \in N..N |-> LevelOf(walk, fs, <<>>, d)]
    <3>1. z = [d \in N..N |-> LevelOf(walk, fs, z, d)]
      <4>1. ASSUME NEW d \in N..N PROVE LevelOf(walk, fs, <<>>, d) = LevelOf(walk, fs, z, d)
        <5>1. d \in 0..N /\ ~(d < N)
          BY <2>0
        <5> HIDE DEF z
        <5> QED BY <5>1, LevelLocal DEF N
      <4> QED BY <4>1
    <3>2. \E r : r = [d \in N..N |-> LevelOf(walk, fs, r, d)]
      <4> HIDE DEF z
      <4> QED BY <3>1
    <3>3. N - 0 = N /\ 0 \in 0..N
      BY <2>0
    <3> HIDE DEF N
    <3> QED BY <3>2, <3>3
  <2>2. ASSUME NEW n \in 1..N, n - 1 \in S PROVE n \in S
    <3> DEFINE f == N - n
    <3>0. f \in 0..(N - 1) /\ f \in Int /\ N - (n - 1) = f + 1
      <4> HIDE DEF N
      <4> QED BY <2>0
    <3>1. PICK g : g = [d \in (f + 1)..N |-> LevelOf(walk, fs, g, d)]
      <4> HIDE DEF N
      <4> QED BY <2>2, <3>0
    <3> DEFINE h == [d \in f..N |-> IF d = f THEN LevelOf(walk, fs, g, f) ELSE g[d]]
    <3> HIDE DEF N, f
    <3>2. \A d \in f..N : h[d] = IF d = f THEN LevelOf(walk, fs, g, f) ELSE g[d]
      BY Zenon
    <3>3. ASSUME NEW d \in f..N PROVE h[d] = LevelOf(walk, fs, h, d)
      <4> HIDE DEF h
      <4>1. d \in 0..N /\ (d < N => d + 1 \in (f + 1)..N /\ d + 1 \in f..N /\ d + 1 # f)
        BY <2>0, <3>0
      <4>2. d < N => g[d + 1] = h[d + 1]
        BY <3>2, <4>1
      <4>3. LevelOf(walk, fs, g, d) = LevelOf(walk, fs, h, d)
        BY <4>1, <4>2, LevelLocal DEF N
      <4>4. h[d] = LevelOf(walk, fs, g, d)
        <5>1. CASE d = f
          BY <3>2, <5>1
        <5>2. CASE d # f
          <6>1. d \in (f + 1)..N
            BY <3>0, <5>2
          <6> QED BY <3>1, <3>2, <5>2, <6>1
        <5> QED BY <5>1, <5>2
      <4> QED BY <4>3, <4>4
    <3>4. h = [d \in f..N |-> LevelOf(walk, fs, h, d)]
      <4>1. h = [d \in f..N |-> h[d]]
        OBVIOUS
      <4> HIDE DEF h
      <4> QED BY <3>3, <4>1
    <3> HIDE DEF h
    <3> QED BY <3>4 DEF f
  <2>3. \A n \in 0..N : n \in S
    <3> HIDE DEF S, N
    <3> QED BY <2>0, <2>1, <2>2, UpTo
  <2>4. \E r : r = [d \in 0..N |-> LevelOf(walk, fs, r, d)]
    <3>1. N \in 0..N /\ N - N = 0
      <4> HIDE DEF N
      <4> QED BY <2>0
    <3> HIDE DEF N
    <3> QED BY <2>3, <3>1
  <2> QED BY <2>4 DEF N
<1>2. \E r : r = [depth \in 0..Deepest |-> Level(fs, r, depth)]
  <2>1. PICK r : r = [depth \in 0..Deepest |-> LevelOf(FALSE, fs, r, depth)]
    BY <1>1
  <2>2. \A depth : LevelOf(FALSE, fs, r, depth) = Level(fs, r, depth)
    BY DEF LevelOf
  <2> QED BY <2>1, <2>2, ZenonT(30)
<1>3. \E c : c = [depth \in 0..Deepest |-> WalkLevel(fs, c, depth)]
  <2>1. PICK r : r = [depth \in 0..Deepest |-> LevelOf(TRUE, fs, r, depth)]
    BY <1>1
  <2>2. \A depth : LevelOf(TRUE, fs, r, depth) = WalkLevel(fs, r, depth)
    BY DEF LevelOf
  <2> QED BY <2>1, <2>2, ZenonT(30)
<1> QED BY <1>2, <1>3, Zenon DEF Levels, WalkLevels

\* What a file comes to, at a depth and with a stack.
LEMMA LevelIs ==
    ASSUME NEW fs
    PROVE  \A d \in 0..Deepest, p \in Paths, st \in SUBSET Paths :
                Levels(fs)[d][p][st] =
                    IF FileError(fs, p, st, d) # "" THEN Err(FileError(fs, p, st, d))
                    ELSE Included(fs, p, st, Levels(fs)[d + 1])
<1> DEFINE r == Levels(fs)
<1>1. \A d \in 0..Deepest : r[d] = Level(fs, r, d)
  BY LevelsExist, Zenon
<1>2. \A d : \A p \in Paths, st \in SUBSET Paths :
      Level(fs, r, d)[p][st] =
          IF FileError(fs, p, st, d) # "" THEN Err(FileError(fs, p, st, d))
          ELSE Included(fs, p, st, r[d + 1])
  <2> HIDE DEF r
  <2> QED BY Zenon DEF Level
<1> HIDE DEF r
<1>3. \A d \in 0..Deepest, p \in Paths, st \in SUBSET Paths :
        r[d][p][st] = IF FileError(fs, p, st, d) # "" THEN Err(FileError(fs, p, st, d))
                      ELSE Included(fs, p, st, r[d + 1])
  BY <1>1, <1>2, Zenon
<1> QED BY <1>3, Zenon DEF r

LEMMA NotBelow ==
    ASSUME NEW m \in Nat, NEW k \in 0..(m + 1), ~(k > m)
    PROVE  k < m + 1
OBVIOUS

\* Above the deepest level a file is there and parses.
LEMMA LevelAbove ==
    ASSUME NEW fs, NEW p, NEW st, NEW d \in 0..Deepest, FileError(fs, p, st, d) = ""
    PROVE  /\ d < Deepest /\ Canon(p) \in DOMAIN fs
           /\ Parse(fs[Canon(p)]) # Nil
<1>0. maxIncludeDepth \in Nat
  BY LoadAssumption
<1>1. ~(d > maxIncludeDepth) /\ Canon(p) \in DOMAIN fs /\ Parse(fs[Canon(p)]) # Nil
  BY DEF FileError
<1>2. d \in 0..(maxIncludeDepth + 1)
  BY Zenon DEF Deepest
<1>3. d < Deepest
  BY <1>0, <1>1, <1>2, NotBelow, Zenon DEF Deepest
<1> QED BY <1>1, <1>3, Zenon

\* What is so at a level if it is at the next one is so at each.
LEMMA LevelsUp ==
    ASSUME NEW T, \A d \in 0..Deepest : (d < Deepest => d + 1 \in T) => d \in T
    PROVE  \A d \in 0..Deepest : d \in T
<1> DEFINE S == {n \in 0..Deepest : Deepest - n \in T}
<1>0. Deepest \in Nat
  BY LoadAssumption DEF Deepest
<1>1. 0 \in S
  <2>1. Deepest - 0 = Deepest /\ Deepest \in 0..Deepest /\ ~(Deepest < Deepest)
        /\ 0 \in 0..Deepest
    BY <1>0
  <2> QED BY <2>1
<1>2. ASSUME NEW n \in 1..Deepest, n - 1 \in S PROVE n \in S
  <2>1. Deepest - n \in 0..Deepest /\ Deepest - (n - 1) = (Deepest - n) + 1
        /\ n \in 0..Deepest
    BY <1>0
  <2>2. Deepest - n \in T
    BY <1>2, <2>1
  <2> QED BY <2>1, <2>2
<1>3. \A n \in 0..Deepest : n \in S
  <2> HIDE DEF S
  <2> QED BY <1>0, <1>1, <1>2, UpTo
<1> SUFFICES ASSUME NEW d \in 0..Deepest PROVE d \in T
  OBVIOUS
<1>4. Deepest - d \in 0..Deepest /\ Deepest - (Deepest - d) = d
  BY <1>0
<1> QED BY <1>3, <1>4

\* A file that is there, resolved, at each level.
LEMMA LevelsType ==
    ASSUME NEW fs, FilesOK(fs)
    PROVE  \A d \in 0..Deepest, p \in Paths, st \in SUBSET Paths :
                ResultOK(Levels(fs)[d][p][st])
<1> DEFINE r == Levels(fs)
           Typed(d) == \A p \in Paths, st \in SUBSET Paths : ResultOK(r[d][p][st])
           T == {d \in 0..Deepest : Typed(d)}
<1>1. \A d \in 0..Deepest, p \in Paths, st \in SUBSET Paths :
        r[d][p][st] = IF FileError(fs, p, st, d) # "" THEN Err(FileError(fs, p, st, d))
                      ELSE Included(fs, p, st, r[d + 1])
  BY LevelIs, Zenon
<1> HIDE DEF r
<1>2. ASSUME NEW d \in 0..Deepest, d < Deepest => d + 1 \in T PROVE d \in T
  <2> SUFFICES ASSUME NEW p \in Paths, NEW st \in SUBSET Paths
               PROVE  ResultOK(r[d][p][st])
    OBVIOUS
  <2>1. CASE FileError(fs, p, st, d) # ""
    <3>1. r[d][p][st] = Err(FileError(fs, p, st, d))
      BY <1>1, <2>1, Zenon
    <3> QED BY <3>1, PlainResults
  <2>2. CASE FileError(fs, p, st, d) = ""
    <3>1. d < Deepest /\ Canon(p) \in DOMAIN fs /\ Parse(fs[Canon(p)]) # Nil
      BY <2>2, LevelAbove, Zenon
    <3>2. Typed(d + 1)
      BY <1>2, <3>1
    <3>3. ResultOK(Included(fs, p, st, r[d + 1]))
      BY <3>1, <3>2, IncludedType
    <3>4. r[d][p][st] = Included(fs, p, st, r[d + 1])
      BY <1>1, <2>2, Zenon
    <3> QED BY <3>3, <3>4
  <2> QED BY <2>1, <2>2
<1>3. \A d \in 0..Deepest : d \in T
  <2> HIDE DEF T
  <2> QED BY <1>2, LevelsUp
<1>4. \A d \in 0..Deepest : Typed(d)
  BY <1>3
<1> QED BY <1>4, Zenon DEF r, Typed

LEMMA ResolveType ==
    ASSUME NEW fs, FilesOK(fs), NEW file \in Paths
    PROVE  /\ resolve(fs, file) = Levels(fs)[0][file][{}]
           /\ ResultOK(resolve(fs, file))
<1>1. resolve(fs, file) = Levels(fs)[0][file][{}]
  BY Zenon DEF resolve, Levels, Level, Deepest
<1>2. 0 \in 0..Deepest /\ {} \in SUBSET Paths
  BY LoadAssumption DEF Deepest
<1> QED BY <1>1, <1>2, LevelsType, Zenon

\* A layer of the config.
LEMMA LayerType ==
    ASSUME NEW fs, FilesOK(fs)
    PROVE  /\ ResultOK(ResolveLayer(fs, GlobalPath, TRUE))
           /\ ResultOK(ResolveLayer(fs, ProjectPath, FALSE))
           /\ ResultOK(loadOverlay(fs))
<1>1. GlobalPath \in Paths /\ ProjectPath \in Paths
  BY LoadAssumption
<1>2. ResultOK(Ok(EmptyConfig)) /\ ResultOK(Err("overlay"))
  BY PlainResults, Zenon
<1>3. /\ ResultOK(ResolveLayer(fs, GlobalPath, TRUE))
      /\ ResultOK(ResolveLayer(fs, ProjectPath, FALSE))
  BY <1>1, <1>2, ResolveType, Zenon DEF ResolveLayer
<1>4. ResultOK(loadOverlay(fs))
  <2>1. CASE OverlayPath \notin DOMAIN fs
    BY <1>2, <2>1 DEF loadOverlay
  <2>2. CASE OverlayPath \in DOMAIN fs /\ Parse(fs[OverlayPath]) = Nil
    BY <1>2, <2>2 DEF loadOverlay
  <2>3. CASE OverlayPath \in DOMAIN fs /\ Parse(fs[OverlayPath]) # Nil
    <3>1. TextOK(fs[OverlayPath])
      BY <2>3 DEF FilesOK
    <3>2. /\ Parse(fs[OverlayPath]) = Some(applyDefaults(fs[OverlayPath]))
          /\ ConfigOK(applyDefaults(fs[OverlayPath]))
      BY <2>3, <3>1, ParseType
    <3>3. \A y : Some(y)[1] = y
      BY DEF Some
    <3>4. loadOverlay(fs) = Ok(Parse(fs[OverlayPath])[1])
      BY <2>3, Zenon DEF loadOverlay
    <3> QED BY <3>2, <3>3, <3>4, PlainResults, Zenon
  <2> QED BY <2>1, <2>2, <2>3
<1> QED BY <1>3, <1>4

(***************************************************************************)
(* Compiled policies.                                                      *)
(***************************************************************************)

Sources == {"global", "explicit", "generated", "once"}

\* Rules that may be in a policy before its empty lists are left out; and what
\* a generator finds, before it is checked.
DraftRules ==
    [host : Seq(Words), paths : PathLists, methods : MethodLists, mode : Modes,
     reason : Notes, inject : Notes, in_cage : BOOLEAN, source : Sources]

PolicyRules ==
    {r \in DraftRules :
        /\ r.host # <<>> /\ r.mode \in {"intercept", "passthrough"}
        /\ r.mode = "passthrough" => r.paths = Nil /\ r.methods = Nil}

FoundRules ==
    {r \in DraftRules : r.mode = "intercept" /\ r.inject = "" /\ r.source = "generated"}

\* PolicyOK, of any policy.
Enforceable(p) ==
    /\ DOMAIN p = DOMAIN NoPolicy
    /\ p.allow \in Seq(Elements(p.allow)) /\ p.deny \in Seq(Elements(p.deny))
    /\ \A r \in Elements(p.allow) \cup Elements(p.deny) : RuleOK(r)

\* A host that is valid is not empty.
LEMMA HostNotEmpty == ~ValidateHost(<<>>)
<1>1. <<>> # <<"*">>
  OBVIOUS
<1> QED BY <1>1, Zenon DEF ValidateHost

\* A rule of a file with its source.
LEMMA DraftType ==
    ASSUME NEW r \in ConfigRules, NEW source \in Sources
    PROVE  /\ RuleFromConfig(r, source) \in DraftRules
           /\ RuleFromConfig(r, source).host = r.host
           /\ RuleFromConfig(r, source).mode = r.mode
           /\ RuleFromConfig(r, source).paths = r.paths
           /\ RuleFromConfig(r, source).methods = r.methods
           /\ RuleFromConfig(r, source).inject = r.inject
           /\ RuleFromConfig(r, source).source = source
<1>1. /\ r.host \in Seq(Words) /\ r.paths \in PathLists /\ r.methods \in MethodLists
      /\ r.mode \in Modes /\ r.reason \in Notes /\ r.inject \in Notes
      /\ r.in_cage \in BOOLEAN
  <2> DEFINE H == Seq(Words)
  <2>1. ConfigRules = [host : H, paths : PathLists, methods : MethodLists, mode : Modes,
                       reason : Notes, inject : Notes, in_cage : BOOLEAN]
    BY Zenon DEF ConfigRules, PathLists, MethodLists, Modes, Notes
  <2> HIDE DEF H
  <2>2. /\ r.host \in H /\ r.paths \in PathLists /\ r.methods \in MethodLists
        /\ r.mode \in Modes /\ r.reason \in Notes /\ r.inject \in Notes
        /\ r.in_cage \in BOOLEAN
    BY <2>1
  <2> QED BY <2>2 DEF H
<1>2. RuleFromConfig(r, source) \in DraftRules
  BY <1>1, Zenon DEF RuleFromConfig, DraftRules
<1> QED BY <1>2 DEF RuleFromConfig

\* The rules of a layer with their source.
LEMMA AnnotateType ==
    ASSUME NEW rules \in Seq(ConfigRules), NEW source \in Sources, NEW T,
           \A i \in DOMAIN rules : RuleFromConfig(rules[i], source) \in T
    PROVE  annotate(rules, source) \in Seq(T)
<1>1. annotate(rules, source) = [i \in DOMAIN rules |-> RuleFromConfig(rules[i], source)]
  BY DEF annotate
<1>2. \A i \in DOMAIN rules : annotate(rules, source)[i] = RuleFromConfig(rules[i], source)
  BY <1>1
<1>3. annotate(rules, source) = [i \in DOMAIN rules |-> annotate(rules, source)[i]]
  BY <1>1
<1>4. \A i \in DOMAIN rules : annotate(rules, source)[i] \in T
  BY <1>2
<1> QED BY <1>3, <1>4, MapType

\* The rules of a layer, with their source.
LEMMA LayerRules ==
    ASSUME NEW rules \in Seq(ValidRules), NEW source \in Sources
    PROVE  annotate(rules, source) \in Seq(PolicyRules)
<1>1. \A i \in DOMAIN rules : rules[i] \in ValidRules
  OBVIOUS
<1>2. rules \in Seq(ConfigRules)
  <2>1. \A i \in DOMAIN rules : rules[i] \in ConfigRules
    BY <1>1 DEF ValidRules
  <2> QED BY <2>1, NarrowType
<1>3. ASSUME NEW r \in ValidRules PROVE RuleFromConfig(r, source) \in PolicyRules
  <2>1. /\ r \in ConfigRules /\ ValidateHost(r.host)
        /\ r.mode \in {"intercept", "passthrough"}
        /\ r.mode = "passthrough" => r.paths = Nil /\ r.methods = Nil
    BY <1>3 DEF ValidRules, validateRule
  <2>2. r.host # <<>>
    BY <2>1, HostNotEmpty
  <2>3. /\ RuleFromConfig(r, source) \in DraftRules
        /\ RuleFromConfig(r, source).host = r.host
        /\ RuleFromConfig(r, source).mode = r.mode
        /\ RuleFromConfig(r, source).paths = r.paths
        /\ RuleFromConfig(r, source).methods = r.methods
    BY <2>1, DraftType
  <2> QED BY <2>1, <2>2, <2>3 DEF PolicyRules
<1>4. \A i \in DOMAIN rules : RuleFromConfig(rules[i], source) \in PolicyRules
  BY <1>1, <1>3
<1> QED BY <1>2, <1>4, AnnotateType

\* The rules of the manifests.
LEMMA FoundType ==
    ASSUME NEW gens \in Seq(ManifestEntries)
    PROVE  runGenerators(readManifests(resolveGenerators(gens))) \in Seq(FoundRules)
<1> DEFINE Resolved(g) == [g EXCEPT !.path = IF @ = "" THEN ManifestOf[g.type] ELSE @]
           T == {Resolved(gens[i]) : i \in DOMAIN gens}
           all == [i \in DOMAIN gens |-> Resolved(gens[i])]
           once == resolveGenerators(gens)
           Mute == {r \in ConfigRules : r.mode = "" /\ r.inject = ""}
           read == readManifests(once)
           found == [i \in DOMAIN read |-> annotate(defaultRuleModes(read[i]), "generated")]
<1>1. once = DedupeBy(all, all)
  BY Zenon DEF resolveGenerators, Dedupe
<1>2. once \in Seq(T)
  <2>1. all = [i \in DOMAIN gens |-> all[i]] /\ \A i \in DOMAIN gens : all[i] \in T
    BY Zenon
  <2>2. all \in Seq(T)
    <3> HIDE DEF all, T
    <3> QED BY <2>1, MapType
  <2> HIDE DEF all, T, once
  <2> QED BY <1>1, <2>2, DedupeType
<1> HIDE DEF all, T, once
<1>3. read \in Seq(Seq(Mute))
  <2> DEFINE Of(i) == IF once[i].path \in DOMAIN Generated THEN Generated[once[i].path]
                      ELSE <<>>
  <2>1. read = [i \in DOMAIN once |-> Of(i)]
    BY Zenon DEF readManifests
  <2>2. ASSUME NEW i \in DOMAIN once PROVE Of(i) \in Seq(Mute)
    <3>1. <<>> \in Seq(Mute)
      OBVIOUS
    <3>2. \A m \in DOMAIN Generated : Generated[m] \in Seq(Mute)
      BY CompileAssumption
    <3> HIDE DEF Mute
    <3> QED BY <3>1, <3>2
  <2> HIDE DEF read, Of, Mute
  <2>3. read = [i \in DOMAIN once |-> read[i]] /\ \A i \in DOMAIN once : read[i] = Of(i)
    BY <2>1
  <2>4. \A i \in DOMAIN once : read[i] \in Seq(Mute)
    BY <2>2, <2>3
  <2> QED BY <1>2, <2>3, <2>4, MapType
<1> HIDE DEF read
<1>4. ASSUME NEW rules \in Seq(Mute)
      PROVE  annotate(defaultRuleModes(rules), "generated") \in Seq(FoundRules)
  <2>1. rules \in Seq(ConfigRules) /\ \A i \in DOMAIN rules : rules[i] \in Mute
    <3>1. \A i \in DOMAIN rules : rules[i] \in Mute
      <4> HIDE DEF Mute
      <4> QED OBVIOUS
    <3>2. \A i \in DOMAIN rules : rules[i] \in ConfigRules
      BY <3>1
    <3> HIDE DEF Mute
    <3> QED BY <3>1, <3>2, NarrowType
  <2> DEFINE full == defaultRuleModes(rules)
  <2>2. /\ full \in Seq(ConfigRules) /\ DOMAIN full = DOMAIN rules
        /\ \A i \in DOMAIN rules : full[i] = [rules[i] EXCEPT !.mode = "intercept"]
    BY <2>1, ModesType
  <2> HIDE DEF full
  <2>3. "generated" \in Sources
    BY DEF Sources
  <2>4. ASSUME NEW i \in DOMAIN full
        PROVE  RuleFromConfig(full[i], "generated") \in FoundRules
    <3>1. full[i] \in ConfigRules /\ rules[i] \in ConfigRules
      <4> HIDE DEF Mute
      <4> QED BY <2>1, <2>2, <2>4
    <3>2. full[i].mode = "intercept" /\ full[i].inject = ""
      <4>1. "mode" \in DOMAIN rules[i] /\ "inject" \in DOMAIN rules[i]
        BY <3>1 DEF ConfigRules
      <4>2. rules[i].inject = ""
        BY <2>1, <2>2, <2>4
      <4> QED BY <2>2, <2>4, <4>1, <4>2
    <3> QED BY <2>3, <3>1, <3>2, DraftType DEF FoundRules
  <2> QED BY <2>2, <2>3, <2>4, AnnotateType DEF full
<1>5. found \in Seq(Seq(FoundRules))
  <2>1. found = [i \in DOMAIN read |-> found[i]]
        /\ \A i \in DOMAIN read : found[i] = annotate(defaultRuleModes(read[i]), "generated")
    BY Zenon
  <2> HIDE DEF found, Mute
  <2>2. \A i \in DOMAIN read : found[i] \in Seq(FoundRules)
    BY <1>3, <1>4, <2>1
  <2> QED BY <1>3, <2>1, <2>2, MapType
<1>6. runGenerators(read) = Concat(found)
  BY Zenon DEF runGenerators
<1> HIDE DEF found
<1> QED BY <1>5, <1>6, ConcatType DEF read, once

\* What the generators find goes into the policy if it is valid.
LEMMA ValidFound ==
    ASSUME NEW rules \in Seq(FoundRules), ValidGenerated(rules)
    PROVE  rules \in Seq(PolicyRules)
<1>1. \A i \in DOMAIN rules : rules[i] \in FoundRules /\ ValidateHost(rules[i].host)
  BY DEF ValidGenerated, Elements
<1>2. "intercept" # "passthrough"
  OBVIOUS
<1>3. \A i \in DOMAIN rules : rules[i] \in PolicyRules
  BY <1>1, <1>2, HostNotEmpty DEF FoundRules, PolicyRules
<1> QED BY <1>3, NarrowType

\* The rules of all layers.
LEMMA BuiltType ==
    ASSUME NEW g, ConfigOK(g), NEW p, ConfigOK(p), NEW o, ConfigOK(o),
           NEW found \in Seq(PolicyRules)
    PROVE  /\ buildRuleSet(g, p, found, o).allow \in Seq(PolicyRules)
           /\ buildRuleSet(g, p, found, o).deny \in Seq(PolicyRules)
<1>1. {"global", "explicit", "once"} \subseteq Sources
  BY DEF Sources
<1>2. /\ annotate(g.allow, "global") \in Seq(PolicyRules)
      /\ annotate(p.allow, "explicit") \in Seq(PolicyRules)
      /\ annotate(o.allow, "once") \in Seq(PolicyRules)
      /\ annotate(g.deny, "global") \in Seq(PolicyRules)
      /\ annotate(p.deny, "explicit") \in Seq(PolicyRules)
      /\ annotate(o.deny, "once") \in Seq(PolicyRules)
  BY <1>1, LayerRules DEF ConfigOK
<1>3. \A a, b \in Seq(PolicyRules) : a \o b \in Seq(PolicyRules)
  OBVIOUS
<1>4. \A s \in Seq(PolicyRules) : dedupe(s) \in Seq(PolicyRules)
  BY DedupeType DEF dedupe
<1> QED BY <1>2, <1>3, <1>4 DEF buildRuleSet

\* A rule as policy.json has it.
LEMMA MarshalType ==
    ASSUME NEW r \in PolicyRules
    PROVE  RuleOK(Marshal(r))
<1> DEFINE ps == IF r.paths = Some(<<>>) THEN Nil ELSE r.paths
           ms == IF r.methods = Some(<<>>) THEN Nil ELSE r.methods
           H == Seq(Words)
           x == Marshal(r)
<1>1. r \in [host : H, paths : PathLists, methods : MethodLists, mode : Modes,
            reason : Notes, inject : Notes, in_cage : BOOLEAN, source : Sources]
  BY Zenon DEF PolicyRules, DraftRules
<1>2. /\ r.host # <<>> /\ r.mode \in {"intercept", "passthrough"}
      /\ r.mode = "passthrough" => r.paths = Nil /\ r.methods = Nil
  BY DEF PolicyRules
<1>3. x = [r EXCEPT !.paths = ps, !.methods = ms]
  BY Zenon DEF Marshal
<1> HIDE DEF H, x, ps, ms
<1>4. /\ x.host = r.host /\ x.mode = r.mode /\ x.source = r.source
      /\ x.paths = ps /\ x.methods = ms
  BY <1>1, <1>3
<1>5. r.host \in H /\ r.paths \in PathLists /\ r.methods \in MethodLists /\ r.source \in Sources
  BY <1>1
<1>6. Some(<<>>) # Nil
  BY DEF Some, Nil
<1>7. ps # Nil => ps = Some(ps[1]) /\ ps # Some(<<>>) /\ ps[1] \in Seq(Seq(Seq(Words)))
  BY <1>5, OptType DEF ps, PathLists
<1>8. ms # Nil => ms = Some(ms[1]) /\ ms # Some(<<>>) /\ ms[1] \in Seq(Words)
  BY <1>5, OptType DEF ms, MethodLists
<1>9. x.mode = "passthrough" => x.paths = Nil /\ x.methods = Nil
  BY <1>2, <1>4, <1>6 DEF ps, ms
<1> QED BY <1>2, <1>4, <1>5, <1>7, <1>8, <1>9, Zenon DEF RuleOK, Sources, H, x

\* The rules as policy.json has them.
LEMMA MarshalAllType ==
    ASSUME NEW rules \in Seq(PolicyRules)
    PROVE  /\ MarshalAll(rules) \in Seq(Elements(MarshalAll(rules)))
           /\ \A r \in Elements(MarshalAll(rules)) : RuleOK(r)
<1> DEFINE out == MarshalAll(rules)
<1>1. out = [i \in DOMAIN rules |-> Marshal(rules[i])]
  BY DEF MarshalAll
<1> HIDE DEF out
<1>2. /\ DOMAIN out = DOMAIN rules
      /\ out = [i \in DOMAIN rules |-> out[i]]
      /\ \A i \in DOMAIN rules : out[i] = Marshal(rules[i])
  BY <1>1
<1>3. \A i \in DOMAIN rules : out[i] \in Elements(out)
  BY <1>2 DEF Elements
<1>4. out \in Seq(Elements(out))
  BY <1>2, <1>3, MapType
<1>5. \A i \in DOMAIN rules : RuleOK(out[i])
  <2>1. \A i \in DOMAIN rules : rules[i] \in PolicyRules
    OBVIOUS
  <2> QED BY <1>2, <2>1, MarshalType
<1> QED BY <1>2, <1>4, <1>5 DEF out, Elements

\* What a compile of typed files writes.
LEMMA CompileType ==
    ASSUME NEW fs, FilesOK(fs)
    PROVE  Enforceable(Compile(fs).policy)
<1> DEFINE g == ResolveLayer(fs, GlobalPath, TRUE)
           p == ResolveLayer(fs, ProjectPath, FALSE)
           o == loadOverlay(fs)
           gens == mergeGenerators(g.cfg.generators, p.cfg.generators)
           found == runGenerators(readManifests(resolveGenerators(gens)))
           rs == buildRuleSet(g.cfg, p.cfg, found, o.cfg)
           creds == mergeCredentials(mergeCredentials(g.cfg.credentials, p.cfg.credentials),
                                     o.cfg.credentials)
<1>1. ConfigOK(g.cfg) /\ ConfigOK(p.cfg) /\ ConfigOK(o.cfg)
  BY LayerType, Zenon DEF ResultOK
<1>2. Compile(fs) = CompileLayers(g, p, o)
  BY Zenon DEF Compile
<1> HIDE DEF g, p, o
<1>3. Enforceable(NoPolicy) /\ \A e : NotCompiled(e).policy = NoPolicy
  BY DEF Enforceable, NoPolicy, Elements, NotCompiled
<1>4. gens \in Seq(ManifestEntries)
  <2>1. g.cfg.generators \o p.cfg.generators \in Seq(ManifestEntries)
    BY <1>1 DEF ConfigOK
  <2> QED BY <2>1, DedupeType DEF mergeGenerators, Dedupe
<1>5. found \in Seq(FoundRules)
  BY <1>4, FoundType
<1> HIDE DEF gens
<1>6. CASE ~ValidGenerated(found) \/ ~validateInjectRefs(rs, creds) \/ g.err # ""
           \/ p.err # "" \/ o.err # "" \/ \E e \in Elements(gens) : e.type \notin DOMAIN ManifestOf
  <2> HIDE DEF found, creds, rs
  <2>1. CASE g.err # "" \/ p.err # "" \/ o.err # ""
    <3>1. Compile(fs) \in {NotCompiled(g.err), NotCompiled(p.err), NotCompiled(o.err)}
      BY <1>2, <2>1 DEF CompileLayers
    <3> QED BY <1>3, <3>1
  <2> DEFINE known == \A e \in Elements(gens) : e.type \in DOMAIN ManifestOf
  <2>2. CASE ~(g.err # "" \/ p.err # "" \/ o.err # "") /\ ~known
    <3>1. Compile(fs) = NotCompiled("generator")
      BY <1>2, <2>2, Zenon DEF CompileLayers, CompileConfigs, gens
    <3> QED BY <1>3, <3>1
  <2>3. CASE ~(g.err # "" \/ p.err # "" \/ o.err # "") /\ known
    <3>1. Compile(fs) = CompileWith(g.cfg, p.cfg, o.cfg, found)
      BY <1>2, <2>3, Zenon DEF CompileLayers, CompileConfigs, gens, found
    <3>2. CASE ~ValidGenerated(found)
      BY <1>3, <3>1, <3>2 DEF CompileWith
    <3>3. CASE ValidGenerated(found) /\ ~validateInjectRefs(rs, creds)
      <4>1. Compile(fs) = CompileRules(rs, creds)
        BY <3>1, <3>3, Zenon DEF CompileWith, rs, creds
      <4> QED BY <1>3, <3>3, <4>1 DEF CompileRules
    <3> QED BY <1>6, <2>3, <3>2, <3>3, Zenon
  <2> HIDE DEF known
  <2> QED BY <2>1, <2>2, <2>3, Zenon
<1>7. CASE ValidGenerated(found) /\ validateInjectRefs(rs, creds)
           /\ Compile(fs) = CompileRules(rs, creds)
  <2> HIDE DEF found
  <2>1. found \in Seq(PolicyRules)
    BY <1>5, <1>7, ValidFound
  <2>2. rs.allow \in Seq(PolicyRules) /\ rs.deny \in Seq(PolicyRules)
    BY <1>1, <2>1, BuiltType
  <2> HIDE DEF rs, creds
  <2> DEFINE out == [allow |-> MarshalAll(rs.allow), deny |-> MarshalAll(rs.deny),
                     credentials |-> CredentialsFromConfig(creds)]
  <2>3. Compile(fs).policy = out
    <3>1. Compile(fs) = Compiled(out)
      BY <1>7, Zenon DEF CompileRules
    <3>2. Compiled(out).policy = out
      BY Zenon DEF Compiled
    <3> QED BY <3>1, <3>2
  <2>4. /\ DOMAIN out = DOMAIN NoPolicy
        /\ out.allow = MarshalAll(rs.allow) /\ out.deny = MarshalAll(rs.deny)
    BY DEF NoPolicy
  <2> HIDE DEF out
  <2>5. Enforceable(out)
    BY <2>2, <2>4, MarshalAllType DEF Enforceable
  <2> QED BY <2>3, <2>5
<1>8. \/ Compile(fs) = CompileRules(rs, creds)
      \/ ~ValidGenerated(found) \/ g.err # "" \/ p.err # "" \/ o.err # ""
      \/ \E e \in Elements(gens) : e.type \notin DOMAIN ManifestOf
  BY <1>2, Zenon DEF CompileLayers, CompileConfigs, CompileWith, gens
<1> QED BY <1>6, <1>7, <1>8, Zenon

(***************************************************************************)
(* Edits.                                                                  *)
(***************************************************************************)

\* A list of whatever it has.
AnyList(list) == list \in ListsOf(Elements(list.items))

\* A list that may stand under a key, and an entry of it.
Fits(key, list) ==
    \/ key \in RuleKeys /\ list \in ListsOf(ConfigRules)
    \/ key = "include" /\ list \in ListsOf(Includes)
    \/ key = "services" /\ list \in ListsOf(Services)
    \/ key \in OtherKeys /\ AnyList(list)

FitsIn(key, item) ==
    \/ key \in RuleKeys /\ item \in ConfigRules
    \/ key = "services" /\ item \in Services
    \/ key = "include" /\ item \in Includes
    \/ key \in OtherKeys

\* A text with another list in the place of one.
LEMMA ListReplaced ==
    ASSUME NEW t, TextOK(t), NEW list, NEW key, Fits(key, list),
           NEW u, u = [t EXCEPT ![key] = list]
    PROVE  TextOK(u)
<1> DEFINE Ms == ListsOf([type : STRING, path : STRING])
<1>1. /\ DOMAIN t = DOMAIN EmptyText /\ t.oneLine \subseteq Sections
      /\ t.allow \in ListsOf(ConfigRules) /\ t.deny \in ListsOf(ConfigRules)
      /\ t.include \in ListsOf(Includes) /\ t.generators \in Ms
      /\ t.services \in ListsOf(Services)
      /\ \A k \in OtherKeys : AnyList(t[k])
  BY Zenon DEF TextOK, OtherKeys, AnyList
<1>2. {"allow", "deny", "include", "services", "generators", "oneLine"} \cup OtherKeys
        \subseteq DOMAIN t
  BY <1>1 DEF EmptyText, OtherKeys
<1>8. key # "oneLine"
  BY DEF RuleKeys, OtherKeys, Fits
<1>3. /\ DOMAIN u = DOMAIN t
      /\ \A k \in DOMAIN t : u[k] = IF k = key THEN list ELSE t[k]
  OBVIOUS
<1> HIDE DEF Ms
<1>4. /\ u.allow = IF key = "allow" THEN list ELSE t.allow
      /\ u.deny = IF key = "deny" THEN list ELSE t.deny
      /\ u.include = IF key = "include" THEN list ELSE t.include
      /\ u.generators = IF key = "generators" THEN list ELSE t.generators
      /\ u.services = IF key = "services" THEN list ELSE t.services
      /\ \A k \in OtherKeys : u[k] = IF k = key THEN list ELSE t[k]
      /\ u.oneLine = t.oneLine
  BY <1>2, <1>3, <1>8
<1>5. /\ key = "allow" \/ key = "deny" => list \in ListsOf(ConfigRules)
      /\ key = "include" => list \in ListsOf(Includes)
      /\ key # "generators"
      /\ key = "services" => list \in ListsOf(Services)
      /\ key \in OtherKeys => AnyList(list)
  BY DEF RuleKeys, OtherKeys, Fits
<1>6. /\ u.allow \in ListsOf(ConfigRules) /\ u.deny \in ListsOf(ConfigRules)
      /\ u.include \in ListsOf(Includes) /\ u.generators \in Ms
      /\ u.services \in ListsOf(Services)
  BY <1>1, <1>4, <1>5
<1>7. \A k \in OtherKeys : AnyList(u[k])
  BY <1>1, <1>4, <1>5, Zenon
<1> QED BY <1>1, <1>3, <1>4, <1>6, <1>7, Zenon DEF TextOK, Ms, OtherKeys, AnyList

\* The styles a list may have.
Styles == {"none", "flow", "block", "flush"}

\* Lists of whatever they have.
LEMMA AnyListTypes ==
    ASSUME NEW l, AnyList(l)
    PROVE  /\ l.items \in Seq(Elements(l.items)) /\ l.style \in Styles
           /\ \A x : AnyList(WithItem(l, x))
           /\ \A x : AnyList(Listed("flow", Append(l.items, x)))
           /\ \A i \in 0..Len(l.items) :
                /\ AnyList(Restyled(l.style, Without(l.items, i)))
                /\ AnyList(Listed("flow", Without(l.items, i)))
           /\ AnyList(NoList)
<1>1. l.items \in Seq(Elements(l.items)) /\ l.style \in Styles
  BY DEF AnyList, ListsOf, Styles
<1>2. ASSUME NEW S, NEW s \in Seq(S), NEW style \in Styles
      PROVE  AnyList(Listed(style, s))
  <2>1. s \in Seq(Elements(s))
    BY DEF Elements
  <2> QED BY <2>1 DEF AnyList, Listed, ListsOf, Styles
<1>3. AnyList(NoList)
  <2>1. <<>> \in Seq({}) /\ "none" \in Styles
    BY DEF Styles
  <2> QED BY <1>2, <2>1 DEF NoList
<1>4. ASSUME NEW x
      PROVE  AnyList(WithItem(l, x)) /\ AnyList(Listed("flow", Append(l.items, x)))
  <2> DEFINE T == Elements(l.items) \cup {x}
  <2>1. Append(l.items, x) \in Seq(T) /\ <<x>> \o l.items \in Seq(T)
    <3>1. <<x>> \in Seq(T) /\ l.items \in Seq(T)
      BY <1>1
    <3> HIDE DEF T
    <3>2. x \in T
      BY DEF T
    <3> QED BY <3>1, <3>2
  <2>2. {"block", "flow", "flush"} \subseteq Styles
    BY DEF Styles
  <2> HIDE DEF T
  <2> QED BY <1>2, <2>1, <2>2 DEF WithItem
<1>5. ASSUME NEW i \in 0..Len(l.items)
      PROVE  /\ AnyList(Restyled(l.style, Without(l.items, i)))
             /\ AnyList(Listed("flow", Without(l.items, i)))
  <2>1. Without(l.items, i) \in Seq(Elements(l.items)) /\ "flow" \in Styles
    BY <1>1, WithoutType DEF Styles
  <2> QED BY <1>1, <1>2, <1>3, <2>1 DEF Restyled
<1> QED BY <1>1, <1>3, <1>4, <1>5

\* Lists that are typed.
LEMMA ListTypes ==
    ASSUME NEW S, NEW l \in ListsOf(S)
    PROVE  /\ l.items \in Seq(S)
           /\ \A x \in S : WithItem(l, x) \in ListsOf(S)
           /\ \A x \in S : Listed("block", <<x>>) \in ListsOf(S)
           /\ \A i \in DOMAIN l.items : Restyled(l.style, Without(l.items, i)) \in ListsOf(S)
           /\ \A i \in DOMAIN l.items, x \in S :
                [l EXCEPT !.items = [l.items EXCEPT ![i] = x]] \in ListsOf(S)
           /\ NoList \in ListsOf(S)
<1>1. l.items \in Seq(S) /\ l.style \in Styles
  BY DEF ListsOf, Styles
<1>2. \A style \in Styles, items \in Seq(S) : Listed(style, items) \in ListsOf(S)
  BY DEF Listed, ListsOf, Styles
<1>3. NoList \in ListsOf(S)
  BY DEF NoList, Listed, ListsOf
<1>4. ASSUME NEW x \in S
      PROVE  WithItem(l, x) \in ListsOf(S) /\ Listed("block", <<x>>) \in ListsOf(S)
  <2>1. /\ Append(l.items, x) \in Seq(S) /\ <<x>> \o l.items \in Seq(S)
        /\ <<x>> \in Seq(S)
    BY <1>1
  <2>2. {"block", "flush"} \subseteq Styles
    BY DEF Styles
  <2> QED BY <1>2, <2>1, <2>2 DEF WithItem
<1>5. ASSUME NEW i \in DOMAIN l.items
      PROVE  Restyled(l.style, Without(l.items, i)) \in ListsOf(S)
  <2>1. i \in 0..Len(l.items)
    BY <1>1
  <2>2. Without(l.items, i) \in Seq(S)
    BY <1>1, <2>1, WithoutType
  <2> QED BY <1>1, <1>2, <1>3, <2>2 DEF Restyled
<1>6. ASSUME NEW i \in DOMAIN l.items, NEW x \in S
      PROVE  [l EXCEPT !.items = [l.items EXCEPT ![i] = x]] \in ListsOf(S)
  <2>1. [l.items EXCEPT ![i] = x] \in Seq(S)
    BY <1>1
  <2> DEFINE items == [l.items EXCEPT ![i] = x]
  <2> HIDE DEF items
  <2>2. items \in Seq(S)
    BY <2>1 DEF items
  <2>3. [l EXCEPT !.items = items] \in ListsOf(S)
    BY <2>2 DEF ListsOf
  <2> QED BY <2>3 DEF items
<1> QED BY <1>1, <1>3, <1>4, <1>5, <1>6

\* The lists of a text.
LEMMA ListsOfText ==
    ASSUME NEW t, TextOK(t)
    PROVE  /\ \A key \in RuleKeys : t[key] \in ListsOf(ConfigRules)
           /\ t.include \in ListsOf(Includes)
           /\ t.services \in ListsOf(Services)
           /\ \A key \in OtherKeys : AnyList(t[key])
           /\ DOMAIN t = DOMAIN EmptyText
           /\ {"allow", "deny", "include", "services", "rw", "ro", "credentials"}
                \subseteq DOMAIN t
<1>1. DOMAIN t = DOMAIN EmptyText
  BY DEF TextOK
<1>2. {"allow", "deny", "include", "services", "rw", "ro", "credentials"}
                \subseteq DOMAIN t
  BY <1>1 DEF EmptyText
<1>3. \A key \in OtherKeys : AnyList(t[key])
  BY Zenon DEF TextOK, AnyList, OtherKeys
<1> QED BY <1>1, <1>2, <1>3 DEF TextOK, RuleKeys

\* Splices leave a typed text.
LEMMA SpliceType ==
    ASSUME NEW t, TextOK(t), NEW item,
           NEW key, FitsIn(key, item)
    PROVE  TextOK(Splice(t, key, item))
<1>1. key \in DOMAIN t
  BY ListsOfText DEF RuleKeys, OtherKeys, FitsIn
<1> DEFINE list == WithItem(t[key], item)
<1>2. CASE t[key].style = "flow" \/ Crowded(t, key)
  BY <1>2, EmptyTyped, Zenon DEF Splice
<1>3. CASE ~(t[key].style = "flow" \/ Crowded(t, key))
  <2>1. Splice(t, key, item) = [t EXCEPT ![key] = list]
    BY <1>1, <1>3 DEF Splice
  <2>2. Fits(key, list)
    <3>1. CASE key \in RuleKeys /\ item \in ConfigRules
      BY <3>1, ListsOfText, ListTypes, Zenon DEF Fits
    <3>2. CASE key = "services" /\ item \in Services
      BY <3>2, ListsOfText, ListTypes, Zenon DEF Fits
    <3>3. CASE key \in OtherKeys
      BY <3>3, ListsOfText, AnyListTypes, Zenon DEF Fits
    <3>4. CASE key = "include" /\ item \in Includes
      BY <3>4, ListsOfText, ListTypes, Zenon DEF Fits
    <3> QED BY <3>1, <3>2, <3>3, <3>4, Zenon DEF FitsIn
  <2> HIDE DEF list
  <2> QED BY <2>1, <2>2, ListReplaced, Zenon
<1> QED BY <1>2, <1>3

\* A text without a line of it.
LEMMA DroppedType ==
    ASSUME NEW t, TextOK(t), NEW key
    PROVE  TextOK(Dropped(t, key))
<1> DEFINE gone == LineOf(t, key)
           u == Dropped(t, key)
           Ms == ListsOf([type : STRING, path : STRING])
<1>1. /\ DOMAIN t = DOMAIN EmptyText /\ t.oneLine \subseteq Sections
      /\ t.allow \in ListsOf(ConfigRules) /\ t.deny \in ListsOf(ConfigRules)
      /\ t.include \in ListsOf(Includes) /\ t.generators \in Ms
      /\ t.services \in ListsOf(Services)
      /\ \A k \in OtherKeys : AnyList(t[k])
  BY Zenon DEF TextOK, OtherKeys, AnyList
<1>2. /\ EmptyText.allow \in ListsOf(ConfigRules) /\ EmptyText.deny \in ListsOf(ConfigRules)
      /\ EmptyText.include \in ListsOf(Includes) /\ EmptyText.generators \in Ms
      /\ EmptyText.services \in ListsOf(Services) /\ EmptyText.oneLine \subseteq Sections
      /\ \A k \in OtherKeys : AnyList(EmptyText[k])
  BY EmptyTyped, Zenon DEF TextOK, OtherKeys, AnyList
<1>3. {"allow", "deny", "include", "services", "generators", "oneLine"} \cup OtherKeys
        \subseteq DOMAIN t
  BY <1>1 DEF EmptyText, OtherKeys
<1> HIDE DEF Ms
<1>4. /\ DOMAIN u = DOMAIN t
      /\ \A k \in DOMAIN t : u[k] =
            IF k \in gone THEN EmptyText[k]
            ELSE IF k = "oneLine" THEN {s \in t.oneLine : ~(Holds[s] \subseteq gone)}
            ELSE t[k]
  BY DEF Dropped
<1> HIDE DEF u, gone
<1>5. ASSUME NEW k \in DOMAIN t, k # "oneLine" PROVE u[k] = EmptyText[k] \/ u[k] = t[k]
  BY <1>4, <1>5, Zenon
<1>6. /\ u.allow \in ListsOf(ConfigRules) /\ u.deny \in ListsOf(ConfigRules)
      /\ u.include \in ListsOf(Includes) /\ u.generators \in Ms
      /\ u.services \in ListsOf(Services)
  BY <1>1, <1>2, <1>3, <1>5
<1>7. \A k \in OtherKeys : AnyList(u[k])
  <2>1. \A k \in OtherKeys : k # "oneLine" /\ k \in DOMAIN t
    BY <1>3 DEF OtherKeys
  <2> QED BY <1>1, <1>2, <1>5, <2>1, Zenon
<1>8. u.oneLine \subseteq Sections
  <2>1. \/ u.oneLine = EmptyText.oneLine
        \/ u.oneLine = {s \in t.oneLine : ~(Holds[s] \subseteq gone)}
    BY <1>3, <1>4
  <2> QED BY <1>1, <1>2, <2>1
<1> QED BY <1>1, <1>4, <1>6, <1>7, <1>8, Zenon DEF TextOK, Ms, OtherKeys, AnyList, u

\* An include spliced in.
LEMMA SpliceIncludeType ==
    ASSUME NEW t, TextOK(t), NEW inc \in Includes
    PROVE  TextOK(SpliceInclude(t, inc))
<1> DEFINE u == Dropped(t, "include")
           list == Listed("block", <<inc>>)
<1>1. CASE t.include = Listed("flow", <<>>)
  <2>1. TextOK(u)
    BY DroppedType
  <2>2. SpliceInclude(t, inc) = [u EXCEPT !["include"] = list]
    BY <1>1 DEF SpliceInclude
  <2>3. Fits("include", list)
    BY ListsOfText, ListTypes, Zenon DEF Fits
  <2> HIDE DEF u, list
  <2> QED BY <2>1, <2>2, <2>3, ListReplaced, Zenon
<1>2. CASE t.include # Listed("flow", <<>>)
  <2>1. FitsIn("include", inc)
    BY DEF FitsIn
  <2> QED BY <1>2, <2>1, SpliceType, Zenon DEF SpliceInclude
<1> QED BY <1>1, <1>2

\* A directory spliced in, in either style.
LEMMA SpliceDirType ==
    ASSUME NEW t, TextOK(t), NEW key \in {"rw", "ro"}, NEW dir
    PROVE  TextOK(SpliceDir(t, key, dir))
<1>1. key \in OtherKeys /\ key \in DOMAIN t
  BY ListsOfText DEF OtherKeys
<1> DEFINE list == IF t[key].style \in {"block", "flush"} THEN WithItem(t[key], dir)
                   ELSE Listed("flow", Append(t[key].items, dir))
<1>2. SpliceDir(t, key, dir) =
        IF Crowded(t, key) THEN Unparsable ELSE [t EXCEPT ![key] = list]
  BY <1>1 DEF SpliceDir
<1>3. AnyList(list)
  BY <1>1, ListsOfText, AnyListTypes, Zenon
<1> HIDE DEF list
<1>4. Fits(key, list)
  BY <1>1, <1>3, Zenon DEF Fits
<1>5. TextOK([t EXCEPT ![key] = list])
  BY <1>4, ListReplaced, Zenon
<1> QED BY <1>2, <1>5, EmptyTyped, Zenon

\* What is cut out of a typed text leaves one.
LEMMA CutType ==
    ASSUME NEW t, TextOK(t), NEW i,
           NEW key, \/ key \in OtherKeys /\ i \in 0..Len(t[key].items)
                    \/ key \in RuleKeys \cup {"services"} /\ i \in DOMAIN t[key].items
    PROVE  TextOK(Cut(t, key, i))
<1>1. key \in DOMAIN t
  BY ListsOfText DEF RuleKeys, OtherKeys
<1>3. CASE t[key].style = "flow" \/ Crowded(t, key)
  BY <1>3, DroppedType, Zenon DEF Cut
<1>4. CASE ~(t[key].style = "flow" \/ Crowded(t, key))
  <2> DEFINE list == Restyled(t[key].style, Without(t[key].items, i))
  <2>1. Cut(t, key, i) = [t EXCEPT ![key] = list]
    BY <1>1, <1>4 DEF Cut
  <2>2. Fits(key, list)
    <3>1. CASE key \in RuleKeys /\ i \in DOMAIN t[key].items
      BY <3>1, ListsOfText, ListTypes, Zenon DEF Fits
    <3>2. CASE key = "services" /\ i \in DOMAIN t[key].items
      BY <3>2, ListsOfText, ListTypes, Zenon DEF Fits
    <3>3. CASE key \in OtherKeys /\ i \in 0..Len(t[key].items)
      <4>1. AnyList(list)
        BY <3>3, ListsOfText, AnyListTypes
      <4> QED BY <3>3, <4>1, Zenon DEF Fits
    <3> QED BY <3>1, <3>2, <3>3
  <2> HIDE DEF list
  <2> QED BY <2>1, <2>2, ListReplaced, Zenon
<1> QED BY <1>3, <1>4

\* A directory cut out.
LEMMA CutDirType ==
    ASSUME NEW t, TextOK(t), NEW key \in {"rw", "ro"}, NEW i \in 0..Len(t[key].items)
    PROVE  TextOK(CutDir(t, key, i))
<1>1. key \in OtherKeys /\ key \in DOMAIN t
  BY ListsOfText DEF OtherKeys
<1> DEFINE list == IF t[key].style = "flow" THEN Listed("flow", Without(t[key].items, i))
                   ELSE Restyled(t[key].style, Without(t[key].items, i))
<1>2. CutDir(t, key, i) =
        IF Crowded(t, key) THEN Unparsable ELSE [t EXCEPT ![key] = list]
  BY <1>1 DEF CutDir
<1>3. AnyList(list)
  BY <1>1, ListsOfText, AnyListTypes
<1> HIDE DEF list
<1>4. Fits(key, list)
  BY <1>1, <1>3, Zenon DEF Fits
<1>5. TextOK([t EXCEPT ![key] = list])
  BY <1>4, ListReplaced, Zenon
<1> QED BY <1>2, <1>5, EmptyTyped, Zenon

\* A rule in the place of another.
LEMMA ReplaceType ==
    ASSUME NEW t, TextOK(t), NEW key \in RuleKeys, NEW i \in DOMAIN t[key].items,
           NEW item \in ConfigRules
    PROVE  TextOK(Replace(t, key, i, item))
<1>1. key \in DOMAIN t
  BY ListsOfText DEF RuleKeys
<1>2. CASE t[key].style = "flow" \/ Crowded(t, key)
  BY <1>2, EmptyTyped, Zenon DEF Replace
<1>3. CASE ~(t[key].style = "flow" \/ Crowded(t, key))
  <2> DEFINE list == [t[key] EXCEPT !.items = [t[key].items EXCEPT ![i] = item]]
  <2>1. Replace(t, key, i, item) = [t EXCEPT ![key] = list]
    BY <1>1, <1>3 DEF Replace
  <2>2. Fits(key, list)
    BY ListsOfText, ListTypes, Zenon DEF Fits
  <2> HIDE DEF list
  <2> QED BY <2>1, <2>2, ListReplaced, Zenon
<1> QED BY <1>2, <1>3

(***************************************************************************)
(* The editors.                                                            *)
(***************************************************************************)

\* What is written is a typed text, if the candidate is one.
LEMMA GatedType ==
    ASSUME NEW t, TextOK(t), NEW u, TextOK(u), NEW valid
    PROVE  TextOK(Gated(t, u, valid).out)
BY DEF Gated, Edited, Failed

\* A result that is typed.
LEMMA SameText ==
    ASSUME NEW t, TextOK(t)
    PROVE  /\ TextOK(Unchanged(t).out) /\ TextOK(Edited(t).out)
           /\ \A err : TextOK(Failed(t, err).out)
BY DEF Unchanged, Edited, Failed

\* An edit of a text that parses.
LEMMA EditType ==
    ASSUME NEW t, TextOK(t), NEW edit, Parse(t) # Nil => TextOK(edit.out)
    PROVE  TextOK(Edit(t, Parse(t), edit).out)
BY SameText DEF Edit

\* The rules and services that a text parses to are those of its lists.
LEMMA RulesOfText ==
    ASSUME NEW t, TextOK(t), Parse(t) # Nil
    PROVE  /\ \A list \in RuleKeys :
                /\ Parse(t)[1][list] \in Seq(ConfigRules)
                /\ DOMAIN Parse(t)[1][list] = DOMAIN t[list].items
           /\ Parse(t)[1].services \in Seq(Services)
           /\ Parse(t)[1].services = t.services.items
           /\ \A key \in OtherKeys : DOMAIN Parse(t)[1][key] = 1..Len(t[key].items)
<1> DEFINE cfg == applyDefaults(t)
<1>1. Parse(t)[1] = cfg
  <2>1. \A x : Some(x)[1] = x
    BY DEF Some
  <2> QED BY <2>1, ParseType, Zenon
<1>2. /\ cfg.allow = defaultRuleModes(t.allow.items)
      /\ cfg.deny = defaultRuleModes(t.deny.items)
      /\ cfg.services = t.services.items
      /\ cfg.rw = t.rw.items /\ cfg.ro = t.ro.items
      /\ cfg.credentials = defaultCredentials(t.credentials.items)
  BY DEF applyDefaults
<1>3. t.allow.items \in Seq(ConfigRules) /\ t.deny.items \in Seq(ConfigRules)
  BY DEF TextOK, ListsOf
<1>4. cfg.services \in Seq(Services)
  BY ParseType
<1> HIDE DEF cfg
<1>5. \A list \in RuleKeys : /\ cfg[list] \in Seq(ConfigRules)
                             /\ DOMAIN cfg[list] = DOMAIN t[list].items
  <2>1. ASSUME NEW s \in Seq(ConfigRules)
        PROVE  defaultRuleModes(s) \in Seq(ConfigRules)
               /\ DOMAIN defaultRuleModes(s) = DOMAIN s
    BY ModesType
  <2>2. /\ cfg.allow \in Seq(ConfigRules) /\ DOMAIN cfg.allow = DOMAIN t.allow.items
        /\ cfg.deny \in Seq(ConfigRules) /\ DOMAIN cfg.deny = DOMAIN t.deny.items
    BY <1>2, <1>3, <2>1, Zenon
  <2> QED BY <2>2 DEF RuleKeys
<1>6. \A key \in OtherKeys : DOMAIN cfg[key] = 1..Len(t[key].items)
  <2>1. \A key \in OtherKeys : t[key].items \in Seq(Elements(t[key].items))
    BY ListsOfText, AnyListTypes
  <2>2. /\ t.rw.items \in Seq(Elements(t.rw.items))
        /\ t.ro.items \in Seq(Elements(t.ro.items))
        /\ t.credentials.items \in Seq(Elements(t.credentials.items))
    BY <2>1 DEF OtherKeys
  <2>3. DOMAIN cfg.credentials = DOMAIN t.credentials.items
    BY <1>2, <2>2, DefaultsType
  <2> QED BY <1>2, <2>2, <2>3 DEF OtherKeys
<1> QED BY <1>1, <1>2, <1>4, <1>5, <1>6, Zenon

\* The first index of an element with some property is one, or 0.
LEMMA IndexType ==
    ASSUME NEW S, NEW s \in Seq(S), NEW at, at \subseteq DOMAIN s
    PROVE  at # {} => (CHOOSE i \in at : \A j \in at : i <= j) \in at
<1>1. at \subseteq Nat
  OBVIOUS
<1> QED BY <1>1, LeastIndex

\* 0 stands for none.
LEMMA FirstIndexType ==
    ASSUME NEW n \in Nat, NEW at, at \subseteq 1..n
    PROVE  (IF at = {} THEN 0 ELSE CHOOSE i \in at : \A j \in at : i <= j) \in 0..n
<1> DEFINE least == CHOOSE i \in at : \A j \in at : i <= j
<1>1. at # {} => least \in at
  <2>1. at \subseteq Nat
    OBVIOUS
  <2> QED BY <2>1, LeastIndex
<1> HIDE DEF least
<1>2. 0 \in 0..n /\ \A i \in 1..n : i \in 0..n
  OBVIOUS
<1>3. at # {} => least \in 0..n
  BY <1>1, <1>2, Zenon
<1> QED BY <1>2, <1>3, Zenon DEF least

\* A rule as it is written is a rule.
LEMMA RenderType ==
    ASSUME NEW r \in ConfigRules
    PROVE  renderRuleItem(r) \in ConfigRules
<1> DEFINE p == IF r.paths = Some(<<>>) THEN Nil ELSE r.paths
           m == IF r.methods = Some(<<>>) THEN Nil ELSE r.methods
           x == IF r.mode = "intercept" THEN "" ELSE r.mode
<1>1. r.paths \in PathLists /\ r.methods \in MethodLists /\ r.mode \in Modes
  BY DEF ConfigRules, PathLists, MethodLists, Modes
<1>2. Nil \in PathLists /\ Nil \in MethodLists /\ "" \in Modes
  BY OptType DEF PathLists, MethodLists, Modes
<1>3. p \in PathLists /\ m \in MethodLists /\ x \in Modes
  BY <1>1, <1>2, Zenon
<1>4. renderRuleItem(r) = [r EXCEPT !.paths = p, !.methods = m, !.mode = x]
  BY DEF renderRuleItem, ConfigRules
<1> HIDE DEF p, m, x
<1>5. [r EXCEPT !.paths = p, !.methods = m, !.mode = x] \in ConfigRules
  BY <1>3, RuleFields, Zenon
<1> QED BY <1>4, <1>5

\* `allow` and `deny` of a rule that is not there.
LEMMA AppendRuleToType ==
    ASSUME NEW t, TextOK(t), NEW before, NEW list \in RuleKeys, NEW rule \in ConfigRules
    PROVE  TextOK(AppendRuleTo(t, before, list, rule).out)
<1> DEFINE u == Splice(t, list, renderRuleItem(rule))
<1>1. TextOK(u)
  <2>1. FitsIn(list, renderRuleItem(rule))
    BY RenderType, Zenon DEF FitsIn
  <2> QED BY <2>1, SpliceType, Zenon
<1>2. \/ AppendRuleTo(t, before, list, rule) = Unchanged(t)
      \/ AppendRuleTo(t, before, list, rule) =
            Gated(t, u, validateAppend(before, Parse(u)[1], list, rule))
  BY Zenon DEF AppendRuleTo
<1> HIDE DEF u
<1> QED BY <1>1, <1>2, GatedType, SameText, Zenon

\* So of a text that may not parse: it is left as it is.
LEMMA AppendRuleType ==
    ASSUME NEW t, TextOK(t), NEW list \in RuleKeys, NEW rule \in ConfigRules
    PROVE  TextOK(AppendRule(t, list, rule).out)
<1>1. AppendRule(t, list, rule) =
        Edit(t, Parse(t), AppendRuleTo(t, Parse(t)[1], list, rule))
  BY Zenon DEF AppendRule
<1> QED BY <1>1, AppendRuleToType, EditType, Zenon

\* A rule whose credential is changed.
LEMMA UpdateRuleType ==
    ASSUME NEW t, TextOK(t), NEW before, NEW list \in RuleKeys,
           NEW i \in DOMAIN t[list].items, NEW rule \in ConfigRules
    PROVE  TextOK(UpdateRule(t, before, list, i, rule).out)
<1> DEFINE u == Replace(t, list, i, renderRuleItem(rule))
<1>1. TextOK(u)
  BY RenderType, ReplaceType, Zenon
<1>2. \/ UpdateRule(t, before, list, i, rule) = Unchanged(t)
      \/ UpdateRule(t, before, list, i, rule) =
            Gated(t, u, validateSetRuleAuth(before, Parse(u)[1], list, i, rule))
  BY Zenon DEF UpdateRule
<1> HIDE DEF u
<1> QED BY <1>1, <1>2, GatedType, SameText, Zenon

\* A rule with the credential of another.
LEMMA AuthorizedType ==
    ASSUME NEW old \in ConfigRules, NEW rule \in ConfigRules
    PROVE  Authorized(old, rule) \in ConfigRules
<1> DEFINE z == IF rule.reason = "" THEN old.reason ELSE rule.reason
<1>1. /\ old.reason \in Notes /\ rule.reason \in Notes /\ rule.inject \in Notes
      /\ rule.in_cage \in BOOLEAN
  BY DEF ConfigRules, Notes
<1>2. z \in Notes
  BY <1>1, Zenon
<1>3. Authorized(old, rule) =
        [old EXCEPT !.inject = rule.inject, !.in_cage = rule.in_cage, !.reason = z]
  BY DEF Authorized, ConfigRules
<1> HIDE DEF z
<1>4. [old EXCEPT !.inject = rule.inject, !.in_cage = rule.in_cage, !.reason = z]
        \in ConfigRules
  BY <1>1, <1>2, RuleFields, Zenon
<1> QED BY <1>3, <1>4

\* A rule that binds a credential: a new one, or the one that is there.
LEMMA SetRuleAuthType ==
    ASSUME NEW t, TextOK(t), NEW list \in RuleKeys, NEW rule \in ConfigRules
    PROVE  TextOK(SetRuleAuth(t, list, rule).out)
<1> DEFINE cfg == Parse(t)[1]
           i == indexOfIdentity(cfg[list], rule)
           edit == SetRuleAuthIn(t, cfg, list, rule)
<1>1. ASSUME Parse(t) # Nil PROVE TextOK(edit.out)
  <2>1. /\ cfg[list] \in Seq(ConfigRules)
        /\ DOMAIN cfg[list] = DOMAIN t[list].items
    BY <1>1, RulesOfText
  <2>2. i = 0 \/ i \in DOMAIN cfg[list]
    <3> DEFINE rules == cfg[list]
               at == {k \in DOMAIN rules : ruleIdentity(rules[k]) = ruleIdentity(rule)}
    <3>1. at # {} => (CHOOSE k \in at : \A j \in at : k <= j) \in DOMAIN rules
      <4>1. at \subseteq DOMAIN rules /\ rules \in Seq(ConfigRules)
        BY <2>1
      <4> HIDE DEF at, rules
      <4> QED BY <4>1, IndexType
    <3>2. i = IF at = {} THEN 0 ELSE CHOOSE k \in at : \A j \in at : k <= j
      BY DEF indexOfIdentity, IndexOf
    <3> QED BY <3>1, <3>2, Zenon
  <2>3. edit = IF i = 0 THEN AppendRuleTo(t, cfg, list, rule)
               ELSE UpdateRule(t, cfg, list, i, Authorized(cfg[list][i], rule))
    BY Zenon DEF SetRuleAuthIn
  <2> HIDE DEF cfg, i, edit
  <2>4. CASE i = 0
    BY <2>3, <2>4, AppendRuleToType, Zenon
  <2>5. CASE i # 0
    <3>1. i \in DOMAIN t[list].items /\ cfg[list][i] \in ConfigRules
      BY <2>1, <2>2, <2>5
    <3>2. Authorized(cfg[list][i], rule) \in ConfigRules
      BY <3>1, AuthorizedType
    <3> QED BY <2>3, <2>5, <3>1, <3>2, UpdateRuleType, Zenon
  <2> QED BY <2>4, <2>5
<1>2. SetRuleAuth(t, list, rule) = Edit(t, Parse(t), edit)
  BY Zenon DEF SetRuleAuth
<1> HIDE DEF edit
<1> QED BY <1>1, <1>2, EditType, Zenon

\* What is left of a rule that has the path which is taken away.
LEMMA NarrowedType ==
    ASSUME NEW r \in ConfigRules, NEW path,
           path # Nil => r.paths # Nil /\ path[1] \in Elements(r.paths[1]),
           Narrowed(r, path) # Nil
    PROVE  Narrowed(r, path)[1] \in ConfigRules
<1> DEFINE S == Seq(Seq(Words))
           ps == r.paths[1]
           at == {k \in DOMAIN ps : ps[k] = path[1]}
           i == IF at = {} THEN 0 ELSE CHOOSE k \in at : \A j \in at : k <= j
           left == Without(ps, i)
           p == [r.paths EXCEPT ![1] = left]
<1>1. path # Nil
  BY Zenon DEF Narrowed
<1>2. r.paths \in Opt(Seq(S))
  BY DEF ConfigRules
<1>3. r.paths = Some(ps) /\ ps \in Seq(S)
  <2> HIDE DEF S
  <2> QED BY <1>1, <1>2, OptType
<1>4. i \in 0..Len(ps)
  <2>1. at # {} => (CHOOSE k \in at : \A j \in at : k <= j) \in at
    <3>1. at \subseteq DOMAIN ps
      OBVIOUS
    <3> HIDE DEF at, ps, S
    <3> QED BY <1>3, <3>1, IndexType
  <2>2. at \subseteq 0..Len(ps) /\ 0 \in 0..Len(ps)
    <3> HIDE DEF S
    <3> QED BY <1>3
  <2> HIDE DEF at, ps
  <2> QED BY <2>1, <2>2
<1>5. left \in Seq(S)
  <2> HIDE DEF i, ps, S
  <2> QED BY <1>3, <1>4, WithoutType
<1>6. Narrowed(r, path) = Some([r EXCEPT !.paths = p])
  BY <1>1 DEF Narrowed, IndexOf
<1> HIDE DEF i, left, at
<1>7. p = Some(left)
  <2> HIDE DEF ps
  <2> QED BY <1>3 DEF Some
<1>8. p \in PathLists
  <2>1. Some(left) \in Opt(Seq(S))
    <3> HIDE DEF S
    <3> QED BY <1>5, OptType
  <2> QED BY <1>7, <2>1 DEF PathLists
<1> HIDE DEF p
<1>9. [r EXCEPT !.paths = p] \in ConfigRules
  BY <1>8, RuleFields, Zenon
<1>10. \A x : Some(x)[1] = x
  BY DEF Some
<1> QED BY <1>6, <1>9, <1>10, Zenon

\* A rule taken away, or one of its paths.
LEMMA RemoveRuleType ==
    ASSUME NEW t, TextOK(t), NEW list \in RuleKeys, NEW host, NEW path
    PROVE  TextOK(RemoveRule(t, list, host, path).out)
<1> DEFINE cfg == Parse(t)[1]
           i == findRuleIndex(cfg[list], host, path)
           left == Narrowed(cfg[list][i], path)
           edit == RemoveRuleFrom(t, cfg, list, host, path)
<1>1. ASSUME Parse(t) # Nil PROVE TextOK(edit.out)
  <2>1. /\ cfg[list] \in Seq(ConfigRules)
        /\ DOMAIN cfg[list] = DOMAIN t[list].items
    BY <1>1, RulesOfText
  <2> DEFINE rules == cfg[list]
             Hit(r) == /\ r.host = host
                       /\ path # Nil => r.paths # Nil /\ path[1] \in Elements(r.paths[1])
             at == {k \in DOMAIN rules : Hit(rules[k])}
  <2>2. i = 0 \/ i \in at
    <3>1. at # {} => (CHOOSE k \in at : \A j \in at : k <= j) \in at
      <4>1. at \subseteq DOMAIN rules /\ rules \in Seq(ConfigRules)
        BY <2>1
      <4> HIDE DEF at, rules
      <4> QED BY <4>1, IndexType
    <3>2. i = IF at = {} THEN 0 ELSE CHOOSE k \in at : \A j \in at : k <= j
      BY DEF findRuleIndex, IndexOf
    <3> QED BY <3>1, <3>2, Zenon
  <2>3. edit = RemoveRuleAt(t, cfg, list, i, left)
    BY Zenon DEF RemoveRuleFrom
  <2> DEFINE u == IF left = Nil THEN Cut(t, list, i)
                  ELSE Replace(t, list, i, renderRuleItem(left[1]))
             expected == expectedAfterRuleRemoval(cfg[list], i, left)
  <2>4. RemoveRuleAt(t, cfg, list, i, left) =
            IF i = 0 THEN Failed(t, "not_found")
            ELSE Gated(t, u, validateRemoveRule(cfg, Parse(u)[1], list, expected))
    BY Zenon DEF RemoveRuleAt
  <2>5. CASE i = 0
    BY <2>3, <2>4, <2>5, SameText, Zenon
  <2>6. CASE i # 0
    <3>1. i \in DOMAIN rules /\ Hit(rules[i]) /\ rules[i] \in ConfigRules
      BY <2>1, <2>2, <2>6
    <3>2. i \in DOMAIN t[list].items
      BY <2>1, <3>1
    <3>3. left # Nil => left[1] \in ConfigRules
      BY <3>1, NarrowedType, Zenon
    <3>4. TextOK(u)
      <4>1. CASE left = Nil
        <5>1. TextOK(Cut(t, list, i))
          <6> HIDE DEF i
          <6> QED BY <3>2, CutType, Zenon
        <5> QED BY <4>1, <5>1, Zenon
      <4>2. CASE left # Nil
        <5>1. renderRuleItem(left[1]) \in ConfigRules
          BY <3>3, <4>2, RenderType, Zenon
        <5>2. TextOK(Replace(t, list, i, renderRuleItem(left[1])))
          <6> HIDE DEF i, left
          <6> QED BY <3>2, <5>1, ReplaceType, Zenon
        <5> QED BY <4>2, <5>2, Zenon
      <4> QED BY <4>1, <4>2
    <3> HIDE DEF u, i, left, cfg, edit, expected
    <3> QED BY <2>3, <2>4, <2>6, <3>4, GatedType, Zenon
  <2> QED BY <2>5, <2>6
<1>2. RemoveRule(t, list, host, path) = Edit(t, Parse(t), edit)
  BY Zenon DEF RemoveRule
<1> HIDE DEF edit
<1> QED BY <1>1, <1>2, EditType, Zenon

\* A fragment included.
LEMMA AppendIncludeType ==
    ASSUME NEW t, TextOK(t), NEW inc \in Includes
    PROVE  TextOK(AppendInclude(t, inc).out)
<1> DEFINE u == SpliceInclude(t, inc)
           cfg == Parse(t)[1]
           edit == AppendIncludeTo(t, cfg, inc)
<1>1. TextOK(u)
  BY SpliceIncludeType
<1>2. \/ edit = Unchanged(t)
      \/ edit = Gated(t, u, validateAppendInclude(cfg, Parse(u)[1], inc))
  BY Zenon DEF AppendIncludeTo
<1>3. AppendInclude(t, inc) = Edit(t, Parse(t), edit)
  BY Zenon DEF AppendInclude
<1> HIDE DEF u, edit, cfg
<1>4. TextOK(edit.out)
  BY <1>1, <1>2, GatedType, SameText, Zenon
<1> QED BY <1>3, <1>4, EditType, Zenon

\* A service added.
LEMMA AppendHostServiceType ==
    ASSUME NEW t, TextOK(t), NEW hs \in Services
    PROVE  TextOK(AppendHostService(t, hs).out)
<1> DEFINE u == Splice(t, "services", hs)
           cfg == Parse(t)[1]
           edit == AppendHostServiceTo(t, cfg, hs)
<1>1. TextOK(u)
  <2>1. FitsIn("services", hs)
    BY DEF FitsIn
  <2> QED BY <2>1, SpliceType, Zenon
<1>2. \/ edit = Unchanged(t)
      \/ edit = Gated(t, u, validateServices(cfg, Parse(u)[1], Append(cfg.services, hs)))
  BY Zenon DEF AppendHostServiceTo
<1>3. AppendHostService(t, hs) = Edit(t, Parse(t), edit)
  BY Zenon DEF AppendHostService
<1> HIDE DEF u, edit, cfg
<1>4. TextOK(edit.out)
  BY <1>1, <1>2, GatedType, SameText, Zenon
<1> QED BY <1>3, <1>4, EditType, Zenon

\* A service taken away.
LEMMA RemoveHostServiceType ==
    ASSUME NEW t, TextOK(t), NEW port
    PROVE  TextOK(RemoveHostService(t, port).out)
<1> DEFINE cfg == Parse(t)[1]
           i == indexOfPort(cfg.services, port)
           u == Cut(t, "services", i)
           edit == RemoveHostServiceAt(t, cfg, i)
<1>1. ASSUME Parse(t) # Nil PROVE TextOK(edit.out)
  <2> DEFINE services == cfg.services
             at == {k \in DOMAIN services : services[k].port = port}
  <2>1. services \in Seq(Services) /\ services = t.services.items
    BY <1>1, RulesOfText
  <2>2. i = 0 \/ i \in DOMAIN t.services.items
    <3>1. at # {} => (CHOOSE k \in at : \A j \in at : k <= j) \in DOMAIN services
      <4>1. at \subseteq DOMAIN services
        OBVIOUS
      <4> HIDE DEF at, services
      <4> QED BY <2>1, <4>1, IndexType
    <3>2. i = IF at = {} THEN 0 ELSE CHOOSE k \in at : \A j \in at : k <= j
      BY DEF indexOfPort, IndexOf
    <3> QED BY <2>1, <3>1, <3>2, Zenon
  <2>3. edit = IF i = 0 THEN Failed(t, "not_found")
               ELSE Gated(t, u, validateServices(cfg, Parse(u)[1], Without(cfg.services, i)))
    BY Zenon DEF RemoveHostServiceAt
  <2>4. i # 0 => TextOK(u)
    <3> HIDE DEF i
    <3> QED BY <2>2, CutType
  <2> HIDE DEF cfg, i, u, edit
  <2> QED BY <2>3, <2>4, GatedType, SameText, Zenon
<1>2. RemoveHostService(t, port) = Edit(t, Parse(t), edit)
  BY Zenon DEF RemoveHostService
<1> HIDE DEF edit
<1> QED BY <1>1, <1>2, EditType, Zenon

\* A directory added.
LEMMA AppendDirType ==
    ASSUME NEW t, TextOK(t), NEW key \in {"rw", "ro"}, NEW dir
    PROVE  TextOK(AppendDir(t, key, dir).out)
<1> DEFINE u == SpliceDir(t, key, dir)
           cfg == Parse(t)[1]
           after == Parse(u)[1]
           edit == AppendDirTo(t, cfg, key, dir)
           fits == /\ SameRules(cfg, after)
                   /\ sameHostServices(cfg.services, after.services)
                   /\ validateDirs(cfg, after, key, Append(cfg[key], dir))
<1>1. TextOK(u)
  BY SpliceDirType
<1>2. \/ edit = Unchanged(t)
      \/ edit = Gated(t, u, fits)
  BY Zenon DEF AppendDirTo
<1>3. AppendDir(t, key, dir) = Edit(t, Parse(t), edit)
  BY Zenon DEF AppendDir
<1> HIDE DEF u, edit, cfg, fits
<1>4. TextOK(edit.out)
  BY <1>1, <1>2, GatedType, SameText, Zenon
<1> QED BY <1>3, <1>4, EditType, Zenon

\* A directory taken out of one list, and out of both.
LEMMA RemoveDirOnceType ==
    ASSUME NEW t, TextOK(t), NEW key \in {"rw", "ro"}, NEW dir
    PROVE  TextOK(removeDirOnce(t, key, dir).out)
<1> DEFINE cfg == Parse(t)[1]
           Is(d) == d = dir
           at == {k \in DOMAIN cfg[key] : cfg[key][k] = dir}
           i == IF at = {} THEN 0 ELSE CHOOSE k \in at : \A j \in at : k <= j
           u == CutDir(t, key, i)
           edit == RemoveDirFrom(t, cfg, key, dir)
<1>1. Parse(t) # Nil => TextOK(u)
  <2> HAVE Parse(t) # Nil
  <2>1. i \in 0..Len(t[key].items)
    <3>1. DOMAIN cfg[key] = 1..Len(t[key].items) /\ AnyList(t[key])
      BY RulesOfText, ListsOfText DEF OtherKeys
    <3>2. Len(t[key].items) \in Nat
      BY <3>1, AnyListTypes
    <3>3. at \subseteq 1..Len(t[key].items)
      BY <3>1
    <3> HIDE DEF at
    <3> QED BY <3>2, <3>3, FirstIndexType, Zenon
  <2> HIDE DEF i
  <2> QED BY <2>1, CutDirType
<1>2. edit = IF i = 0 THEN Unchanged(t)
             ELSE Gated(t, u, validateDirs(cfg, Parse(u)[1], key, Without(cfg[key], i)))
  BY Zenon DEF RemoveDirFrom, IndexOf
<1>3. removeDirOnce(t, key, dir) = Edit(t, Parse(t), edit)
  BY Zenon DEF removeDirOnce
<1> HIDE DEF u, edit, cfg, i
<1>4. Parse(t) # Nil => TextOK(edit.out)
  BY <1>1, <1>2, GatedType, SameText, Zenon
<1> QED BY <1>3, <1>4, EditType, Zenon

\* And so out of both.
LEMMA RemoveDirType ==
    ASSUME NEW t, TextOK(t), NEW dir
    PROVE  TextOK(RemoveDir(t, dir).out)
<1> DEFINE first == removeDirOnce(t, "rw", dir)
           second == removeDirOnce(first.out, "ro", dir)
<1>1. TextOK(first.out)
  BY RemoveDirOnceType
<1>2. TextOK(second.out)
  <2> HIDE DEF first
  <2> QED BY <1>1, RemoveDirOnceType
<1>3. RemoveDir(t, dir) = RemovedDirs(t, first, second)
  BY Zenon DEF RemoveDir, RemoveFromRo
<1> HIDE DEF first, second
<1>4. \/ \E err : RemovedDirs(t, first, second) = Failed(t, err)
      \/ RemovedDirs(t, first, second) = Edited(second.out)
  BY Zenon DEF RemovedDirs
<1> QED BY <1>2, <1>3, <1>4, SameText, Zenon

\* A credential added.
LEMMA AppendCredentialType ==
    ASSUME NEW t, TextOK(t), NEW name, NEW cred
    PROVE  TextOK(AppendCredential(t, name, cred).out)
<1> DEFINE entry == [name |-> name, cred |-> renderCredentialEntry(cred)]
           u == Splice(t, "credentials", entry)
           cfg == Parse(t)[1]
           edit == AppendCredentialTo(t, cfg, name, cred)
<1>1. TextOK(u)
  <2>1. FitsIn("credentials", entry)
    BY DEF FitsIn, OtherKeys
  <2> HIDE DEF entry
  <2> QED BY <2>1, SpliceType, Zenon
<1>2. \/ edit = Unchanged(t)
      \/ edit = Gated(t, u, validateAppendCredential(cfg, Parse(u)[1], name, cred))
  BY Zenon DEF AppendCredentialTo
<1>3. AppendCredential(t, name, cred) = Edit(t, Parse(t), edit)
  BY Zenon DEF AppendCredential
<1> HIDE DEF u, edit, cfg
<1>4. TextOK(edit.out)
  BY <1>1, <1>2, GatedType, SameText, Zenon
<1> QED BY <1>3, <1>4, EditType, Zenon

\* A credential taken away.
LEMMA RemoveCredentialType ==
    ASSUME NEW t, TextOK(t), NEW name
    PROVE  TextOK(RemoveCredential(t, name).out)
<1> DEFINE cfg == Parse(t)[1]
           creds == cfg.credentials
           at == {k \in DOMAIN creds : creds[k].name = name}
           i == IF at = {} THEN 0 ELSE CHOOSE k \in at : \A j \in at : k <= j
           u == Cut(t, "credentials", i)
           edit == RemoveCredentialFrom(t, cfg, name)
<1>1. Parse(t) # Nil => TextOK(u)
  <2> HAVE Parse(t) # Nil
  <2>1. i \in 0..Len(t.credentials.items)
    <3>1. DOMAIN cfg.credentials = 1..Len(t.credentials.items) /\ AnyList(t.credentials)
      BY RulesOfText, ListsOfText DEF OtherKeys
    <3>2. Len(t.credentials.items) \in Nat
      BY <3>1, AnyListTypes
    <3>3. at \subseteq 1..Len(t.credentials.items)
      BY <3>1
    <3> HIDE DEF at
    <3> QED BY <3>2, <3>3, FirstIndexType, Zenon
  <2> HIDE DEF i
  <2> QED BY <2>1, CutType DEF OtherKeys
<1>2. edit = IF i = 0 THEN Failed(t, "not_found")
             ELSE Gated(t, u, validateRemoveCredential(cfg, Parse(u)[1], name))
  BY Zenon DEF RemoveCredentialFrom, IndexOf
<1>3. RemoveCredential(t, name) = Edit(t, Parse(t), edit)
  BY Zenon DEF RemoveCredential
<1> HIDE DEF u, edit, cfg, i
<1>4. Parse(t) # Nil => TextOK(edit.out)
  BY <1>1, <1>2, GatedType, SameText, Zenon
<1> QED BY <1>3, <1>4, EditType, Zenon

(***************************************************************************)
(* What an edit keeps of a file.                                           *)
(***************************************************************************)

LEMMA SameSeq ==
    ASSUME NEW S, NEW a \in Seq(S), NEW T, NEW b \in Seq(T), Len(a) = Len(b),
           \A i \in 1..Len(a) : a[i] = b[i]
    PROVE  a = b
OBVIOUS

\* A sequence is within another from some place on.
LEMMA WithinIs ==
    ASSUME NEW S, NEW a \in Seq(S), NEW T, NEW b \in Seq(T), NEW n \in Nat,
           n + Len(a) <= Len(b), \A i \in 1..Len(a) : b[n + i] = a[i]
    PROVE  Within(a, b)
<1>1. n \in 0..(Len(b) - Len(a)) /\ DOMAIN a = 1..Len(a)
  OBVIOUS
<1> QED BY <1>1, Zenon DEF Within

\* Within is a partial order, as far as it is needed.
LEMMA WithinOn ==
    ASSUME NEW S, NEW a \in Seq(S), NEW T, NEW b \in Seq(T), NEW U, NEW c \in Seq(U)
    PROVE  /\ Within(a, a)
           /\ Within(a, b) /\ Within(b, c) => Within(a, c)
<1>0. DOMAIN a = 1..Len(a) /\ DOMAIN b = 1..Len(b)
  OBVIOUS
<1>1. Within(a, a)
  <2>1. 0 \in Nat /\ 0 + Len(a) <= Len(a) /\ \A i \in 1..Len(a) : a[0 + i] = a[i]
    OBVIOUS
  <2> QED BY <2>1, WithinIs
<1>2. ASSUME Within(a, b), Within(b, c) PROVE Within(a, c)
  <2>1. PICK n \in 0..(Len(b) - Len(a)) : \A i \in 1..Len(a) : b[n + i] = a[i]
    BY <1>0, <1>2 DEF Within
  <2>2. PICK m \in 0..(Len(c) - Len(b)) : \A i \in 1..Len(b) : c[m + i] = b[i]
    BY <1>0, <1>2 DEF Within
  <2>3. m + n \in Nat /\ (m + n) + Len(a) <= Len(c)
    OBVIOUS
  <2>4. ASSUME NEW i \in 1..Len(a) PROVE c[(m + n) + i] = a[i]
    <3>1. n + i \in 1..Len(b) /\ (m + n) + i = m + (n + i)
      OBVIOUS
    <3> QED BY <2>1, <2>2, <3>1
  <2> QED BY <2>3, <2>4, WithinIs
<1> QED BY <1>1, <1>2

\* What Without leaves, by index.
LEMMA WithoutIs ==
    ASSUME NEW S, NEW s \in Seq(S), NEW i \in 1..Len(s)
    PROVE  /\ Without(s, i) \in Seq(S)
           /\ Len(Without(s, i)) = Len(s) - 1
           /\ \A j \in 1..(Len(s) - 1) :
                Without(s, i)[j] = IF j < i THEN s[j] ELSE s[j + 1]
<1> DEFINE a == SubSeq(s, 1, i - 1)
           b == SubSeq(s, i + 1, Len(s))
<1>1. Len(s) \in Nat /\ i \in Nat /\ i <= Len(s) /\ 1 <= i
  OBVIOUS
<1>2. a \in Seq(S) /\ Len(a) = i - 1 /\ \A j \in 1..(i - 1) : a[j] = s[j]
  BY <1>1
<1>3. b \in Seq(S) /\ Len(b) = Len(s) - i /\ \A j \in 1..(Len(s) - i) : b[j] = s[i + j]
  BY <1>1
<1>4. Without(s, i) = a \o b
  BY DEF Without
<1> HIDE DEF a, b
<1>5. /\ a \o b \in Seq(S) /\ Len(a \o b) = Len(s) - 1
      /\ \A j \in 1..(Len(s) - 1) : (a \o b)[j] = IF j < i THEN a[j] ELSE b[j - (i - 1)]
  BY <1>1, <1>2, <1>3
<1>6. \A j \in 1..(Len(s) - 1) :
        (IF j < i THEN a[j] ELSE b[j - (i - 1)]) = IF j < i THEN s[j] ELSE s[j + 1]
  <2> TAKE j \in 1..(Len(s) - 1)
  <2>1. CASE j < i
    BY <1>1, <1>2, <2>1
  <2>2. CASE ~(j < i)
    <3>1. j - (i - 1) \in 1..(Len(s) - i) /\ i + (j - (i - 1)) = j + 1
      BY <1>1, <2>2
    <3> QED BY <1>3, <2>2, <3>1
  <2> QED BY <2>1, <2>2
<1> QED BY <1>4, <1>5, <1>6

\* What becomes of an entry of a file when it is parsed, and of the list.
One(key, x) ==
    IF key \in RuleKeys THEN IF x.mode = "" THEN [x EXCEPT !.mode = "intercept"] ELSE x
    ELSE IF key = "credentials"
    THEN [x EXCEPT !.cred = defaultCredentialMinting(defaultCredentialHeader(@))]
    ELSE x

All(key, items) == [i \in DOMAIN items |-> One(key, items[i])]

LEMMA AllIs ==
    ASSUME NEW key, NEW S, NEW s \in Seq(S)
    PROVE  /\ All(key, s) \in Seq({One(key, x) : x \in S})
           /\ Len(All(key, s)) = Len(s)
           /\ \A i \in 1..Len(s) : All(key, s)[i] = One(key, s[i])
<1> DEFINE out == All(key, s)
           T == {One(key, x) : x \in S}
<1>1. out = [i \in DOMAIN s |-> One(key, s[i])]
  BY Zenon DEF All
<1>2. \A x \in S : One(key, x) \in T
  OBVIOUS
<1> HIDE DEF out, T
<1>3. DOMAIN s = 1..Len(s) /\ Len(s) \in Nat /\ \A i \in 1..Len(s) : s[i] \in S
  OBVIOUS
<1>4. \A i \in 1..Len(s) : out[i] = One(key, s[i]) /\ out[i] \in T
  BY <1>1, <1>2, <1>3
<1>5. out = [i \in 1..Len(s) |-> out[i]]
  BY <1>1, <1>3
<1>6. out \in Seq(T) /\ Len(out) = Len(s)
  BY <1>3, <1>4, <1>5
<1> QED BY <1>4, <1>6 DEF out, T

\* A list with its entries from some place of another.
LEMMA AllWithin ==
    ASSUME NEW key, NEW S, NEW s \in Seq(S), NEW T, NEW t \in Seq(T), NEW n \in Nat,
           n + Len(s) <= Len(t), \A i \in 1..Len(s) : t[n + i] = s[i]
    PROVE  Within(All(key, s), All(key, t))
<1> DEFINE a == All(key, s)
           b == All(key, t)
           U == {One(key, y) : y \in S}
           V == {One(key, y) : y \in T}
<1>1. a \in Seq(U) /\ Len(a) = Len(s) /\ \A i \in 1..Len(s) : a[i] = One(key, s[i])
  BY AllIs
<1>2. b \in Seq(V) /\ Len(b) = Len(t) /\ \A i \in 1..Len(t) : b[i] = One(key, t[i])
  BY AllIs
<1> HIDE DEF a, b, U, V
<1>3. ASSUME NEW i \in 1..Len(a) PROVE b[n + i] = a[i]
  <2>1. i \in 1..Len(s) /\ n + i \in 1..Len(t)
    BY <1>1
  <2> QED BY <1>1, <1>2, <2>1
<1>4. n + Len(a) <= Len(b)
  BY <1>1, <1>2
<1> QED BY <1>1, <1>2, <1>3, <1>4, WithinIs DEF a, b

\* An entry more, at the end or at the beginning.
LEMMA AllAppended ==
    ASSUME NEW key, NEW S, NEW s \in Seq(S), NEW x
    PROVE  /\ Within(All(key, s), All(key, Append(s, x)))
           /\ Within(All(key, s), All(key, <<x>> \o s))
<1> DEFINE t == Append(s, x)
           v == <<x>> \o s
           T == S \cup {x}
<1>1. s \in Seq(T) /\ t \in Seq(T) /\ Len(t) = Len(s) + 1 /\ Len(s) \in Nat
      /\ \A i \in 1..Len(s) : t[0 + i] = s[i]
  OBVIOUS
<1>2. v \in Seq(T) /\ Len(v) = 1 + Len(s) /\ \A i \in 1..Len(s) : v[1 + i] = s[i]
  <2>1. <<x>> \in Seq(T) /\ Len(<<x>>) = 1 /\ s \in Seq(T)
    BY <1>1
  <2> DEFINE w == <<x>>
  <2> HIDE DEF w, T
  <2>2. w \o s \in Seq(T) /\ Len(w \o s) = 1 + Len(s)
        /\ \A i \in 1..Len(s) : (w \o s)[1 + i] = s[i]
    BY <2>1 DEF w
  <2> QED BY <2>2 DEF w
<1> HIDE DEF t, v, T
<1>3. 0 + Len(s) <= Len(t) /\ 1 + Len(s) <= Len(v) /\ 0 \in Nat /\ 1 \in Nat
  BY <1>1, <1>2
<1>4. Within(All(key, s), All(key, t))
  BY <1>1, <1>3, AllWithin
<1>5. Within(All(key, s), All(key, v))
  BY <1>1, <1>2, <1>3, AllWithin
<1> QED BY <1>4, <1>5 DEF t, v

\* An entry less.
LEMMA AllWithout ==
    ASSUME NEW key, NEW S, NEW s \in Seq(S), NEW i \in 1..Len(s)
    PROVE  All(key, Without(s, i)) = Without(All(key, s), i)
<1> DEFINE t == Without(s, i)
           a == All(key, s)
           b == All(key, t)
           c == Without(a, i)
           U == {One(key, y) : y \in S}
<1>1. t \in Seq(S) /\ Len(t) = Len(s) - 1 /\ Len(s) \in Nat
      /\ \A j \in 1..(Len(s) - 1) : t[j] = IF j < i THEN s[j] ELSE s[j + 1]
  <2>1. Len(s) \in Nat
    OBVIOUS
  <2> QED BY <2>1, WithoutIs, Zenon
<1> HIDE DEF t
<1>2. a \in Seq(U) /\ Len(a) = Len(s) /\ \A j \in 1..Len(s) : a[j] = One(key, s[j])
  BY AllIs
<1>3. b \in Seq(U) /\ Len(b) = Len(t) /\ \A j \in 1..Len(t) : b[j] = One(key, t[j])
  BY <1>1, AllIs
<1> HIDE DEF a, b, U
<1>4. c \in Seq(U) /\ Len(c) = Len(a) - 1
      /\ \A j \in 1..(Len(a) - 1) : c[j] = IF j < i THEN a[j] ELSE a[j + 1]
  <2>1. i \in 1..Len(a)
    BY <1>2
  <2> QED BY <1>2, <2>1, WithoutIs, Zenon
<1> HIDE DEF c
<1>5. ASSUME NEW j \in 1..(Len(s) - 1) PROVE b[j] = c[j]
  <2>1. j \in 1..Len(s) /\ j + 1 \in 1..Len(s) /\ j \in 1..Len(t) /\ j \in 1..(Len(a) - 1)
    BY <1>1, <1>2
  <2>2. CASE j < i
    BY <1>1, <1>2, <1>3, <1>4, <2>1, <2>2
  <2>3. CASE ~(j < i)
    BY <1>1, <1>2, <1>3, <1>4, <2>1, <2>3
  <2> QED BY <2>2, <2>3
<1>6. b = c
  BY <1>1, <1>2, <1>3, <1>4, <1>5, SameSeq
<1> QED BY <1>6 DEF b, c, a, t

\* An entry changed: the others are what they were.
Swap(s, i, x) == [s EXCEPT ![i] = x]

LEMMA AllReplaced ==
    ASSUME NEW key, NEW S, NEW s \in Seq(S), NEW i \in 1..Len(s), NEW x
    PROVE  /\ Len(All(key, Swap(s, i, x))) = Len(All(key, s))
           /\ Without(All(key, Swap(s, i, x)), i) = Without(All(key, s), i)
<1> DEFINE t == Swap(s, i, x)
           T == S \cup {x}
<1>1. s \in Seq(T) /\ t \in Seq(T) /\ Len(t) = Len(s) /\ Len(s) \in Nat
      /\ \A j \in 1..Len(s) : j # i => t[j] = s[j]
  BY DEF Swap
<1> HIDE DEF t, T
<1> DEFINE a == All(key, s)
           b == All(key, t)
           U == {One(key, y) : y \in T}
<1>2. a \in Seq(U) /\ Len(a) = Len(s) /\ \A j \in 1..Len(s) : a[j] = One(key, s[j])
  BY <1>1, AllIs
<1>3. b \in Seq(U) /\ Len(b) = Len(t) /\ \A j \in 1..Len(t) : b[j] = One(key, t[j])
  BY <1>1, AllIs
<1> HIDE DEF a, b, U
<1>4. \A j \in 1..Len(s) : j # i => b[j] = a[j]
  BY <1>1, <1>2, <1>3
<1>5. Without(a, i) = Without(b, i)
  <2> DEFINE c == Without(a, i)
             d == Without(b, i)
  <2>1. c \in Seq(U) /\ Len(c) = Len(a) - 1
        /\ \A j \in 1..(Len(a) - 1) : c[j] = IF j < i THEN a[j] ELSE a[j + 1]
    BY <1>2, WithoutIs
  <2>2. d \in Seq(U) /\ Len(d) = Len(b) - 1
        /\ \A j \in 1..(Len(b) - 1) : d[j] = IF j < i THEN b[j] ELSE b[j + 1]
    BY <1>1, <1>3, WithoutIs
  <2> HIDE DEF c, d
  <2>3. ASSUME NEW j \in 1..(Len(s) - 1) PROVE c[j] = d[j]
    BY <1>1, <1>2, <1>3, <1>4, <2>1, <2>2
  <2>4. c = d
    BY <1>1, <1>2, <1>3, <2>1, <2>2, <2>3, SameSeq
  <2> QED BY <2>4 DEF c, d
<1> QED BY <1>1, <1>2, <1>3, <1>5 DEF a, b, t

\* The lists of a file that parses, as they are parsed.
LEMMA ListKeysAre ==
    ListKeys = {"allow", "deny", "include", "services", "generators"} \cup OtherKeys
<1>1. DOMAIN EmptyConfig = {"allow", "deny", "include", "services", "rw", "ro",
                           "generators", "credentials", "env", "workdir"}
  BY DEF EmptyConfig, applyDefaults
<1> QED BY <1>1 DEF ListKeys, OtherKeys

LEMMA ParsedLists ==
    ASSUME NEW t, TextOK(t), Parse(t) # Nil
    PROVE  /\ \A key \in ListKeys : key \in DOMAIN t
           /\ \A key \in ListKeys : t[key].items \in Seq(Elements(t[key].items))
           /\ \A key \in ListKeys : t[key].style \in Styles
<1>1. \A S, list : list \in ListsOf(S) =>
        /\ list.items \in Seq(Elements(list.items))
        /\ list.style \in Styles
  <2> SUFFICES ASSUME NEW S, NEW list \in ListsOf(S)
               PROVE  /\ list.items \in Seq(Elements(list.items))
                      /\ list.style \in Styles
    OBVIOUS
  <2>1. list.items \in Seq(S) /\ list.style \in Styles
    BY DEF ListsOf, Styles
  <2> QED BY <2>1 DEF Elements
<1>2. DOMAIN t = DOMAIN EmptyText
  BY DEF TextOK
<1>3. {"allow", "deny", "include", "services", "generators"} \cup OtherKeys \subseteq DOMAIN t
  BY <1>2 DEF EmptyText, OtherKeys
<1>4. \A key \in ListKeys : \E S : t[key] \in ListsOf(S)
  <2>1. \A key \in OtherKeys : \E S : t[key] \in ListsOf(S)
    BY Zenon DEF TextOK, OtherKeys
  <2>2. \A key \in {"allow", "deny", "include", "services", "generators"} :
            \E S : t[key] \in ListsOf(S)
    BY Zenon DEF TextOK
  <2> QED BY <2>1, <2>2, ListKeysAre, Zenon
<1> QED BY <1>1, <1>3, <1>4, ListKeysAre, Zenon

LEMMA ParsedAs ==
    ASSUME NEW t, Parse(t) # Nil,
           \A key \in ListKeys : t[key].items \in Seq(Elements(t[key].items))
    PROVE  \A key \in ListKeys : Parse(t)[1][key] = All(key, t[key].items)
<1> DEFINE cfg == applyDefaults(t)
<1>1. Parse(t)[1] = cfg
  <2>1. Parse(t) = Some(cfg)
    BY Zenon DEF Parse, Valid
  <2>2. \A y : Some(y)[1] = y
    BY DEF Some
  <2> QED BY <2>1, <2>2, Zenon
<1>2. /\ cfg.allow = defaultRuleModes(t.allow.items)
      /\ cfg.deny = defaultRuleModes(t.deny.items)
      /\ cfg.credentials = defaultCredentials(t.credentials.items)
      /\ \A key \in {"include", "services", "generators", "rw", "ro"} : cfg[key] = t[key].items
  BY DEF applyDefaults
<1> HIDE DEF cfg
<1>3. \A items : \A key \in RuleKeys : All(key, items) = defaultRuleModes(items)
  BY Zenon DEF All, One, defaultRuleModes
<1>4. \A items : All("credentials", items) = defaultCredentials(items)
  <2>1. "credentials" \notin RuleKeys
    BY DEF RuleKeys
  <2> QED BY <2>1, Zenon DEF All, One, defaultCredentials
<1>5. ASSUME NEW key \in {"include", "services", "generators", "rw", "ro"}
      PROVE  All(key, t[key].items) = t[key].items
  <2>1. key \notin RuleKeys /\ key # "credentials"
    BY DEF RuleKeys
  <2>2. \A x : One(key, x) = x
    BY <2>1, Zenon DEF One
  <2>3. key \in ListKeys
    BY ListKeysAre DEF OtherKeys
  <2> DEFINE s == t[key].items
  <2>4. s \in Seq(Elements(s))
    BY <2>3
  <2> HIDE DEF s
  <2>5. Len(All(key, s)) = Len(s) /\ All(key, s) \in Seq({One(key, x) : x \in Elements(s)})
        /\ \A i \in 1..Len(s) : All(key, s)[i] = s[i]
    BY <2>2, <2>4, AllIs, ZenonT(60)
  <2>6. All(key, s) = s
    <3> DEFINE a == All(key, s)
               U == {One(key, x) : x \in Elements(s)}
    <3> HIDE DEF a, U
    <3>1. a \in Seq(U) /\ Len(a) = Len(s) /\ \A i \in 1..Len(a) : a[i] = s[i]
      BY <2>5 DEF a, U
    <3>2. a = s
      BY <2>4, <3>1, SameSeq
    <3> QED BY <3>2 DEF a
  <2> QED BY <2>6 DEF s
<1>6. "allow" \in RuleKeys /\ "deny" \in RuleKeys
  BY DEF RuleKeys
<1>7. \A key \in ListKeys : key \in {"include", "services", "generators", "rw", "ro"}
                                \/ key = "allow" \/ key = "deny" \/ key = "credentials"
  BY ListKeysAre DEF OtherKeys
<1> QED BY <1>1, <1>2, <1>3, <1>4, <1>5, <1>6, <1>7, Zenon

\* What a text may become: with more at one end of its lists; with one list
\* from which an entry went, or in which one changed; with whole lists lost that
\* were on one line; any of these.
Grown(t, u) ==
    Parse(u) # Nil /\ \A key \in ListKeys : Within(Parse(t)[1][key], Parse(u)[1][key])
OnlyKept(t, u, key) ==
    /\ Parse(u) # Nil
    /\ \A k \in ListKeys \ {key} : Parse(u)[1][k] = Parse(t)[1][k]
    /\ KeepsList(Parse(t)[1][key], Parse(u)[1][key])
Lost(t, u, key) == key \notin RuleKeys /\ Crowded(t, key) /\ Parse(u)[1][key] = <<>>
KeptText(t, u) ==
    /\ Parse(u) # Nil
    /\ \A key \in ListKeys : \/ KeepsList(Parse(t)[1][key], Parse(u)[1][key])
                             \/ Lost(t, u, key)

\* The lists of a parsed text are sequences.
IsSeq(s) == s \in Seq(Elements(s))

LEMMA SeqIs ==
    ASSUME NEW S, NEW s \in Seq(S)
    PROVE  IsSeq(s)
BY DEF IsSeq, Elements

LEMMA WithinItself ==
    ASSUME NEW a, IsSeq(a)
    PROVE  Within(a, a)
BY WithinOn DEF IsSeq

LEMMA WithinOnward ==
    ASSUME NEW a, IsSeq(a), NEW b, IsSeq(b), NEW c, IsSeq(c), Within(a, b), Within(b, c)
    PROVE  Within(a, c)
BY WithinOn DEF IsSeq

LEMMA AllIsSeq ==
    ASSUME NEW key, NEW s, IsSeq(s)
    PROVE  IsSeq(All(key, s))
<1>1. All(key, s) \in Seq({One(key, x) : x \in Elements(s)})
  BY AllIs DEF IsSeq
<1> QED BY <1>1, SeqIs

LEMMA TextSeqs ==
    ASSUME NEW t, TextOK(t), Parse(t) # Nil
    PROVE  \A key \in ListKeys : key \in DOMAIN t /\ IsSeq(t[key].items)
BY ParsedLists, Zenon DEF IsSeq

LEMMA ParsedSeqs ==
    ASSUME NEW t, TextOK(t), Parse(t) # Nil
    PROVE  \A key \in ListKeys :
                /\ Parse(t)[1][key] = All(key, t[key].items)
                /\ IsSeq(Parse(t)[1][key])
<1>1. \A key \in ListKeys : t[key].items \in Seq(Elements(t[key].items))
  BY ParsedLists
<1>2. \A key \in ListKeys : Parse(t)[1][key] = All(key, t[key].items)
  BY <1>1, ParsedAs, Zenon
<1>3. \A key \in ListKeys : IsSeq(All(key, t[key].items))
  BY TextSeqs, AllIsSeq, Zenon
<1> QED BY <1>2, <1>3, Zenon

\* An entry more at the end, one less, or another in its place.
LEMMA KeptIfGrown ==
    ASSUME NEW t, NEW u, Grown(t, u)
    PROVE  KeptText(t, u)
BY Zenon DEF Grown, KeptText, KeepsList

LEMMA KeptIfOnly ==
    ASSUME NEW t, TextOK(t), Parse(t) # Nil, NEW u, NEW key, OnlyKept(t, u, key)
    PROVE  KeptText(t, u)
<1>1. ASSUME NEW k \in ListKeys PROVE KeepsList(Parse(t)[1][k], Parse(u)[1][k])
  <2>1. CASE k = key
    BY <2>1, Zenon DEF OnlyKept
  <2>2. CASE k # key
    <3>1. Parse(u)[1][k] = Parse(t)[1][k]
      BY <2>2 DEF OnlyKept
    <3>2. Within(Parse(t)[1][k], Parse(t)[1][k])
      BY ParsedSeqs, WithinItself, Zenon
    <3> QED BY <3>1, <3>2, Zenon DEF KeepsList
  <2> QED BY <2>1, <2>2
<1> QED BY <1>1, Zenon DEF OnlyKept, KeptText

LEMMA GrownOn ==
    ASSUME NEW t, TextOK(t), Parse(t) # Nil
    PROVE  Grown(t, t)
BY ParsedSeqs, WithinItself, Zenon DEF Grown

LEMMA GrownFurther ==
    ASSUME NEW t, TextOK(t), Parse(t) # Nil, NEW u, TextOK(u), NEW v, TextOK(v),
           Grown(t, u), Grown(u, v)
    PROVE  Grown(t, v)
<1>1. Parse(u) # Nil /\ Parse(v) # Nil
  BY Zenon DEF Grown
<1>2. ASSUME NEW key \in ListKeys PROVE Within(Parse(t)[1][key], Parse(v)[1][key])
  <2> DEFINE a == Parse(t)[1][key]
             b == Parse(u)[1][key]
             c == Parse(v)[1][key]
  <2>1. Within(a, b) /\ Within(b, c)
    BY Zenon DEF Grown
  <2>2. IsSeq(a) /\ IsSeq(b) /\ IsSeq(c)
    BY <1>1, ParsedSeqs, Zenon
  <2> HIDE DEF a, b, c
  <2>3. Within(a, c)
    BY <2>1, <2>2, WithinOnward, Zenon
  <2> QED BY <2>3 DEF a, c
<1> QED BY <1>1, <1>2, Zenon DEF Grown

\* Another list in the place of one, if that parses.
Put(t, key, list) == [t EXCEPT ![key] = list]

Changed(t, u, key, items) ==
    /\ Parse(u)[1][key] = All(key, items)
    /\ \A k \in ListKeys \ {key} : Parse(u)[1][k] = Parse(t)[1][k]

LEMMA ListChanged ==
    ASSUME NEW t, TextOK(t), Parse(t) # Nil, NEW key \in ListKeys,
           NEW list, IsSeq(list.items), Parse(Put(t, key, list)) # Nil
    PROVE  Changed(t, Put(t, key, list), key, list.items)
<1> DEFINE u == Put(t, key, list)
<1>1. \A k \in ListKeys : k \in DOMAIN t /\ IsSeq(t[k].items)
  BY TextSeqs, Zenon
<1>2. u[key] = list /\ \A k \in ListKeys \ {key} : u[k] = t[k]
  BY <1>1 DEF Put
<1> HIDE DEF u
<1>3. ASSUME NEW k \in ListKeys PROVE IsSeq(u[k].items)
  <2>1. CASE k = key
    BY <1>2, <2>1
  <2>2. CASE k # key
    <3>1. u[k] = t[k]
      BY <1>2, <2>2
    <3> QED BY <1>1, <3>1
  <2> QED BY <2>1, <2>2
<1>4. \A k \in ListKeys : Parse(t)[1][k] = All(k, t[k].items)
  BY ParsedSeqs, Zenon
<1>5. \A k \in ListKeys : Parse(u)[1][k] = All(k, u[k].items)
  <2>1. \A k \in ListKeys : u[k].items \in Seq(Elements(u[k].items))
    BY <1>3, Zenon DEF IsSeq
  <2>2. Parse(u) # Nil
    BY DEF u
  <2> QED BY <2>1, <2>2, ParsedAs, Zenon
<1>6. Parse(u)[1][key] = All(key, list.items)
  BY <1>2, <1>5, Zenon
<1>7. ASSUME NEW k \in ListKeys \ {key} PROVE Parse(u)[1][k] = Parse(t)[1][k]
  <2>1. k \in ListKeys /\ u[k] = t[k]
    BY <1>2
  <2> QED BY <1>4, <1>5, <2>1, Zenon
<1> QED BY <1>6, <1>7, Zenon DEF u, Changed

LEMMA SeqAppended ==
    ASSUME NEW key, NEW s, IsSeq(s), NEW x
    PROVE  /\ IsSeq(Append(s, x)) /\ Within(All(key, s), All(key, Append(s, x)))
           /\ IsSeq(<<x>> \o s) /\ Within(All(key, s), All(key, <<x>> \o s))
<1>1. Append(s, x) \in Seq(Elements(s) \cup {x}) /\ <<x>> \o s \in Seq(Elements(s) \cup {x})
  <2> DEFINE T == Elements(s) \cup {x}
  <2>1. s \in Seq(T) /\ <<x>> \in Seq(T) /\ x \in T
    BY DEF IsSeq
  <2> HIDE DEF T
  <2>2. Append(s, x) \in Seq(T) /\ <<x>> \o s \in Seq(T)
    BY <2>1
  <2> QED BY <2>2 DEF T
<1>2. IsSeq(Append(s, x)) /\ IsSeq(<<x>> \o s)
  BY <1>1, SeqIs
<1>3. s \in Seq(Elements(s))
  BY DEF IsSeq
<1> QED BY <1>2, <1>3, AllAppended

LEMMA SeqShortened ==
    ASSUME NEW key, NEW s, IsSeq(s), NEW i \in 1..Len(s)
    PROVE  /\ IsSeq(Without(s, i))
           /\ KeepsList(All(key, s), All(key, Without(s, i)))
           /\ i \in DOMAIN All(key, s)
<1>1. Without(s, i) \in Seq(Elements(s))
  BY WithoutIs DEF IsSeq
<1>2. IsSeq(Without(s, i))
  BY <1>1, SeqIs
<1>3. All(key, Without(s, i)) = Without(All(key, s), i)
  BY AllWithout DEF IsSeq
<1>4. i \in DOMAIN All(key, s)
  <2>1. DOMAIN All(key, s) = DOMAIN s
    BY DEF All
  <2> QED BY <2>1 DEF IsSeq
<1> QED BY <1>2, <1>3, <1>4, Zenon DEF KeepsList

LEMMA SeqReplaced ==
    ASSUME NEW key, NEW s, IsSeq(s), NEW i \in 1..Len(s), NEW x
    PROVE  /\ IsSeq(Swap(s, i, x))
           /\ KeepsList(All(key, s), All(key, Swap(s, i, x)))
<1> DEFINE z == Swap(s, i, x)
<1>1. z \in Seq(Elements(s) \cup {x})
  BY DEF IsSeq, Swap
<1>2. /\ Len(All(key, z)) = Len(All(key, s))
      /\ Without(All(key, z), i) = Without(All(key, s), i)
  <2>1. s \in Seq(Elements(s))
    BY DEF IsSeq
  <2> QED BY <2>1, AllReplaced, ZenonT(60)
<1> HIDE DEF z
<1>3. IsSeq(z)
  BY <1>1, SeqIs
<1>4. i \in DOMAIN All(key, s)
  BY SeqShortened, Zenon
<1>5. KeepsList(All(key, s), All(key, z))
  BY <1>2, <1>4, Zenon DEF KeepsList
<1> QED BY <1>3, <1>5 DEF z

\* An entry more.
LEMMA GrownBy ==
    ASSUME NEW t, TextOK(t), Parse(t) # Nil, NEW key \in ListKeys,
           NEW list, NEW x,
           list.items = Append(t[key].items, x) \/ list.items = <<x>> \o t[key].items,
           Parse(Put(t, key, list)) # Nil
    PROVE  Grown(t, Put(t, key, list))
<1> DEFINE u == Put(t, key, list)
<1>1. IsSeq(list.items) /\ Within(All(key, t[key].items), All(key, list.items))
  <2>1. IsSeq(t[key].items)
    BY TextSeqs, Zenon
  <2> QED BY <2>1, SeqAppended, Zenon
<1>2. Changed(t, u, key, list.items)
  BY <1>1, ListChanged
<1>3. Parse(t)[1][key] = All(key, t[key].items)
  BY ParsedSeqs, Zenon
<1> HIDE DEF u
<1>4. ASSUME NEW k \in ListKeys PROVE Within(Parse(t)[1][k], Parse(u)[1][k])
  <2>1. CASE k = key
    BY <1>1, <1>2, <1>3, <2>1, Zenon DEF Changed
  <2>2. CASE k # key
    <3>1. Parse(u)[1][k] = Parse(t)[1][k]
      BY <1>2, <2>2 DEF Changed
    <3>2. Within(Parse(t)[1][k], Parse(t)[1][k])
      BY ParsedSeqs, WithinItself, Zenon
    <3> QED BY <3>1, <3>2, Zenon
  <2> QED BY <2>1, <2>2
<1> QED BY <1>4, Zenon DEF Grown, u

\* An entry less, or another entry; or a list that had one entry emptied.
Shrunk(t, key, i, list) ==
    \/ list.items = Without(t[key].items, i)
    \/ \E x : list.items = Swap(t[key].items, i, x)
    \/ list.items = <<>> /\ Without(Parse(t)[1][key], i) = <<>>

LEMMA CutBy ==
    ASSUME NEW t, TextOK(t), Parse(t) # Nil, NEW key \in ListKeys,
           NEW i \in 1..Len(t[key].items), NEW list, Shrunk(t, key, i, list),
           Parse(Put(t, key, list)) # Nil
    PROVE  OnlyKept(t, Put(t, key, list), key)
<1> DEFINE s == t[key].items
           before == Parse(t)[1][key]
           u == Put(t, key, list)
<1>1. IsSeq(s)
  BY TextSeqs, Zenon
<1>2. before = All(key, s)
  BY ParsedSeqs, Zenon
<1>3. /\ \A x : IsSeq(Swap(s, i, x))
      /\ \A x : KeepsList(All(key, s), All(key, Swap(s, i, x)))
  BY <1>1, SeqReplaced, Zenon
<1>4. /\ IsSeq(Without(s, i)) /\ KeepsList(All(key, s), All(key, Without(s, i)))
      /\ i \in DOMAIN All(key, s)
  BY <1>1, SeqShortened, Zenon
<1>5. \/ list.items = Without(s, i)
      \/ \E x : list.items = Swap(s, i, x)
      \/ list.items = <<>> /\ Without(before, i) = <<>>
  BY Zenon DEF Shrunk
<1> HIDE DEF s, before
<1>6. IsSeq(list.items) /\ KeepsList(before, All(key, list.items))
  <2>1. CASE list.items = Without(s, i)
    BY <1>2, <1>4, <2>1, Zenon
  <2>2. ASSUME NEW x, list.items = Swap(s, i, x)
        PROVE  IsSeq(list.items) /\ KeepsList(before, All(key, list.items))
    BY <1>2, <1>3, <2>2, Zenon
  <2>3. CASE list.items = <<>> /\ Without(before, i) = <<>>
    <3>1. IsSeq(<<>>) /\ All(key, <<>>) = <<>>
      BY DEF IsSeq, Elements, All
    <3> QED BY <1>2, <1>4, <2>3, <3>1, Zenon DEF KeepsList
  <2> QED BY <1>5, <2>1, <2>2, <2>3, Zenon
<1>7. Changed(t, u, key, list.items)
  BY <1>6, ListChanged
<1> QED BY <1>6, <1>7, Zenon DEF OnlyKept, before, Changed

(***************************************************************************)
(* What an editor does to its text: it grows, or it is kept otherwise.     *)
(***************************************************************************)
Grows(t, edit) == Parse(t) # Nil => Grown(t, edit.out)
Keeps(t, edit) == Parse(t) # Nil => KeptText(t, edit.out)

LEMMA KeepsIfGrows ==
    ASSUME NEW t, NEW edit, Grows(t, edit)
    PROVE  Keeps(t, edit)
BY KeptIfGrown, Zenon DEF Grows, Keeps

LEMMA OutIs ==
    ASSUME NEW t
    PROVE  /\ Edited(t).out = t /\ Unchanged(t).out = t
           /\ \A err : Failed(t, err).out = t
BY DEF Edited, Unchanged, Failed

LEMMA SameGrows ==
    ASSUME NEW t, TextOK(t)
    PROVE  Grows(t, Unchanged(t)) /\ \A err : Grows(t, Failed(t, err))
BY OutIs, GrownOn, Zenon DEF Grows

LEMMA GatedGrows ==
    ASSUME NEW t, TextOK(t), NEW u, NEW valid,
           Parse(t) # Nil /\ Parse(u) # Nil /\ valid => Grown(t, u)
    PROVE  Grows(t, Gated(t, u, valid))
<1>1. CASE Parse(u) # Nil /\ valid
  BY <1>1, OutIs, Zenon DEF Gated, Grows
<1>2. CASE ~(Parse(u) # Nil /\ valid)
  BY <1>2, SameGrows, Zenon DEF Gated
<1> QED BY <1>1, <1>2, Zenon

LEMMA GatedKeeps ==
    ASSUME NEW t, TextOK(t), NEW u, NEW valid,
           Parse(t) # Nil /\ Parse(u) # Nil /\ valid => KeptText(t, u)
    PROVE  Keeps(t, Gated(t, u, valid))
<1>1. CASE Parse(u) # Nil /\ valid
  BY <1>1, OutIs, Zenon DEF Gated, Keeps
<1>2. CASE ~(Parse(u) # Nil /\ valid)
  BY <1>2, SameGrows, KeepsIfGrows, Zenon DEF Gated
<1> QED BY <1>1, <1>2, Zenon

\* An editor of a text that parses; another text it leaves alone.
LEMMA EditGrows ==
    ASSUME NEW t, TextOK(t), NEW edit, Parse(t) # Nil => Grows(t, edit)
    PROVE  Grows(t, Edit(t, Parse(t), edit))
BY SameGrows, Zenon DEF Edit, Grows

LEMMA EditKeeps ==
    ASSUME NEW t, TextOK(t), NEW edit, Parse(t) # Nil => Keeps(t, edit)
    PROVE  Keeps(t, Edit(t, Parse(t), edit))
BY Zenon DEF Edit, Keeps

LEMMA UnparsableIs == Parse(Unparsable) = Nil
<1>1. Unparsable.wellFormed = FALSE
  BY DEF Unparsable, EmptyText
<1>2. ~Unparsable.wellFormed
  BY <1>1
<1> QED BY <1>2, Zenon DEF Parse, Valid

LEMMA ListedIs ==
    ASSUME NEW style, NEW items
    PROVE  Listed(style, items).items = items
BY DEF Listed

LEMMA WithItemIs ==
    ASSUME NEW list, NEW x
    PROVE  \/ WithItem(list, x).items = Append(list.items, x)
           \/ WithItem(list, x).items = <<x>> \o list.items
BY ListedIs, Zenon DEF WithItem

\* The splices put one entry at one end.
LEMMA SpliceGrown ==
    ASSUME NEW t, TextOK(t), Parse(t) # Nil, NEW key \in ListKeys, NEW item,
           Parse(Splice(t, key, item)) # Nil
    PROVE  Grown(t, Splice(t, key, item))
<1> DEFINE list == WithItem(t[key], item)
<1>1. ~(t[key].style = "flow" \/ Crowded(t, key))
  BY UnparsableIs, Zenon DEF Splice
<1>2. Splice(t, key, item) = Put(t, key, list)
  BY <1>1 DEF Splice, Put
<1>3. list.items = Append(t[key].items, item) \/ list.items = <<item>> \o t[key].items
  BY WithItemIs
<1> HIDE DEF list
<1> QED BY <1>2, <1>3, GrownBy, Zenon

LEMMA SpliceDirGrown ==
    ASSUME NEW t, TextOK(t), Parse(t) # Nil, NEW key \in {"rw", "ro"}, NEW dir,
           Parse(SpliceDir(t, key, dir)) # Nil
    PROVE  Grown(t, SpliceDir(t, key, dir))
<1> DEFINE list == IF t[key].style \in {"block", "flush"} THEN WithItem(t[key], dir)
                   ELSE Listed("flow", Append(t[key].items, dir))
<1>1. ~Crowded(t, key)
  BY UnparsableIs, Zenon DEF SpliceDir
<1>2. SpliceDir(t, key, dir) = Put(t, key, list)
  BY <1>1 DEF SpliceDir, Put
<1>3. list.items = Append(t[key].items, dir) \/ list.items = <<dir>> \o t[key].items
  BY WithItemIs, ListedIs, Zenon
<1>4. key \in ListKeys
  BY ListKeysAre DEF OtherKeys
<1> HIDE DEF list
<1> QED BY <1>2, <1>3, <1>4, GrownBy, Zenon

\* A line that goes: what was on it is empty, and was on one line with it.
LEMMA LineCrowds ==
    ASSUME NEW t, NEW key, NEW k \in LineOf(t, key), k # key
    PROVE  Crowded(t, k)
<1>1. PICK s \in OneLine(t, key) : k \in Holds[s]
  BY Zenon DEF LineOf
<1>2. s \in OneLine(t, k)
  BY <1>1, Zenon DEF OneLine
<1> QED BY <1>2, Zenon DEF Crowded

LEMMA DroppedLists ==
    ASSUME NEW t, TextOK(t), NEW key
    PROVE  \A k \in ListKeys :
                /\ k \in LineOf(t, key) => Dropped(t, key)[k].items = <<>>
                /\ k \notin LineOf(t, key) => Dropped(t, key)[k] = t[k]
<1> DEFINE gone == LineOf(t, key)
           u == Dropped(t, key)
<1>1. \A k \in ListKeys : k \in DOMAIN t /\ k # "oneLine" /\ EmptyText[k].items = <<>>
  <2>1. DOMAIN t = DOMAIN EmptyText
    BY DEF TextOK
  <2>2. \A k \in ListKeys : k \in DOMAIN EmptyText /\ k # "oneLine" /\ EmptyText[k] = NoList
    <3>1. /\ EmptyText["allow"] = NoList /\ EmptyText["deny"] = NoList
          /\ EmptyText["include"] = NoList /\ EmptyText["services"] = NoList
          /\ EmptyText["generators"] = NoList /\ EmptyText["rw"] = NoList
          /\ EmptyText["ro"] = NoList /\ EmptyText["credentials"] = NoList
      BY DEF EmptyText
    <3>2. {"allow", "deny", "include", "services", "generators"} \cup OtherKeys
            \subseteq DOMAIN EmptyText
      BY DEF EmptyText, OtherKeys
    <3>3. "oneLine" \notin ListKeys
      BY ListKeysAre DEF OtherKeys
    <3>4. \A k \in ListKeys : EmptyText[k] = NoList
      BY <3>1, ListKeysAre, Zenon DEF OtherKeys
    <3> QED BY <3>2, <3>3, <3>4, ListKeysAre
  <2>3. NoList.items = <<>>
    BY DEF NoList, Listed
  <2> QED BY <2>1, <2>2, <2>3
<1>2. \A k \in DOMAIN t : u[k] =
            IF k \in gone THEN EmptyText[k]
            ELSE IF k = "oneLine" THEN {s \in t.oneLine : ~(Holds[s] \subseteq gone)}
            ELSE t[k]
  BY DEF Dropped
<1> HIDE DEF gone, u
<1>3. \A k \in ListKeys : /\ k \in gone => u[k].items = <<>>
                          /\ k \notin gone => u[k] = t[k]
  BY <1>1, <1>2, Zenon
<1> QED BY <1>3 DEF gone, u

\* A gate that compares the rules by host, paths and methods lets none go.
LEMMA SameEmpty ==
    ASSUME NEW w, IsSeq(w), sameIdentities(w, <<>>)
    PROVE  w = <<>>
<1> DEFINE b == [k \in DOMAIN w |-> ruleIdentity(w[k])]
<1>1. Identities(w) = Identities(<<>>) /\ Identities(w) = Bag(b)
  BY Zenon DEF sameIdentities, Identities
<1>2. DOMAIN Identities(<<>>) = {}
  BY DEF Identities, Bag, Elements
<1>3. DOMAIN Bag(b) = {b[k] : k \in DOMAIN b}
  BY DEF Bag, Elements
<1>4. DOMAIN w = {}
  <2>1. DOMAIN Bag(b) = {}
    BY <1>1, <1>2, Zenon
  <2>2. DOMAIN b = DOMAIN w
    OBVIOUS
  <2> HIDE DEF b
  <2> QED BY <1>3, <2>1, <2>2
<1> QED BY <1>4 DEF IsSeq

LEMMA SameRulesEmpty ==
    ASSUME NEW t, TextOK(t), Parse(t) # Nil, NEW after, SameRules(Parse(t)[1], after),
           NEW k \in RuleKeys, after[k] = <<>>
    PROVE  Parse(t)[1][k] = <<>>
<1>1. k \in ListKeys
  BY ListKeysAre DEF RuleKeys
<1>2. IsSeq(Parse(t)[1][k])
  BY <1>1, ParsedSeqs, Zenon
<1>3. sameIdentities(Parse(t)[1][k], after[k])
  BY Zenon DEF SameRules, RuleKeys
<1>4. sameIdentities(Parse(t)[1][k], <<>>)
  BY <1>3, Zenon
<1> QED BY <1>2, <1>4, SameEmpty, Zenon

\* A line dropped, with no rule on it but of one list.
LEMMA DroppedKept ==
    ASSUME NEW t, TextOK(t), Parse(t) # Nil, NEW key \in ListKeys, NEW u, Parse(u) # Nil,
           TextOK(u),
           \A k \in ListKeys \ {key} : u[k] = Dropped(t, key)[k],
           KeepsList(Parse(t)[1][key], Parse(u)[1][key]),
           \A k \in RuleKeys \ {key} : Parse(u)[1][k] = <<>> => Parse(t)[1][k] = <<>>
    PROVE  KeptText(t, u)
<1>1. \A k \in ListKeys : /\ Parse(t)[1][k] = All(k, t[k].items)
                          /\ Parse(u)[1][k] = All(k, u[k].items)
                          /\ IsSeq(Parse(t)[1][k])
  BY ParsedSeqs, Zenon
<1>2. ASSUME NEW k \in ListKeys
      PROVE  KeepsList(Parse(t)[1][k], Parse(u)[1][k]) \/ Lost(t, u, k)
  <2>1. CASE k = key
    BY <2>1
  <2>2. CASE k # key /\ k \in LineOf(t, key)
    <3>1. u[k].items = <<>>
      BY <2>2, DroppedLists
    <3>2. All(k, <<>>) = <<>>
      BY DEF All
    <3>3. Parse(u)[1][k] = <<>>
      BY <1>1, <3>1, <3>2, Zenon
    <3>4. CASE k \in RuleKeys
      <4>1. Parse(u)[1][k] = Parse(t)[1][k]
        BY <2>2, <3>3, <3>4
      <4>2. Within(Parse(t)[1][k], Parse(t)[1][k])
        BY <1>1, WithinItself, Zenon
      <4> QED BY <4>1, <4>2, Zenon DEF KeepsList
    <3>5. CASE k \notin RuleKeys
      BY <2>2, <3>3, <3>5, LineCrowds, Zenon DEF Lost
    <3> QED BY <3>4, <3>5, Zenon
  <2>3. CASE k # key /\ k \notin LineOf(t, key)
    <3>1. u[k] = t[k]
      BY <2>3, DroppedLists
    <3>2. Parse(u)[1][k] = Parse(t)[1][k]
      BY <1>1, <3>1, Zenon
    <3>3. Within(Parse(t)[1][k], Parse(t)[1][k])
      BY <1>1, WithinItself, Zenon
    <3> QED BY <3>2, <3>3, Zenon DEF KeepsList
  <2> QED BY <2>1, <2>2, <2>3, Zenon
<1> QED BY <1>2, Zenon DEF KeptText

\* An include appended, or in the place of a line.
LEMMA SpliceIncludeKept ==
    ASSUME NEW t, TextOK(t), Parse(t) # Nil, NEW inc \in Includes,
           Parse(SpliceInclude(t, inc)) # Nil,
           SameRules(Parse(t)[1], Parse(SpliceInclude(t, inc))[1])
    PROVE  KeptText(t, SpliceInclude(t, inc))
<1> DEFINE u == SpliceInclude(t, inc)
<1>0. "include" \in ListKeys
  BY ListKeysAre
<1>1. CASE t.include # Listed("flow", <<>>)
  <2>1. u = Splice(t, "include", inc)
    BY <1>1, Zenon DEF SpliceInclude
  <2> HIDE DEF u
  <2>2. Grown(t, u)
    BY <1>0, <2>1, SpliceGrown, Zenon DEF u
  <2> QED BY <2>2, KeptIfGrown, Zenon DEF u
<1>2. CASE t.include = Listed("flow", <<>>)
  <2>1. TextOK(u)
    BY SpliceIncludeType
  <2>2. \A k \in ListKeys \ {"include"} : u[k] = Dropped(t, "include")[k]
    <3> DEFINE d == Dropped(t, "include")
    <3>1. u = [d EXCEPT !["include"] = Listed("block", <<inc>>)]
      BY <1>2 DEF SpliceInclude
    <3>2. DOMAIN d = DOMAIN t /\ \A k \in ListKeys : k \in DOMAIN t
      BY TextSeqs DEF Dropped
    <3> HIDE DEF d, u
    <3>3. \A k \in ListKeys \ {"include"} : u[k] = d[k]
      BY <3>1, <3>2
    <3> QED BY <3>3 DEF d
  <2>3. KeepsList(Parse(t)[1]["include"], Parse(u)[1]["include"])
    <3>1. t["include"].items = <<>>
      BY <1>2, ListedIs
    <3>2. Parse(t)[1]["include"] = All("include", <<>>)
      BY <1>0, <3>1, ParsedSeqs, Zenon
    <3>3. All("include", <<>>) = <<>>
      BY DEF All
    <3>4. IsSeq(Parse(u)[1]["include"])
      BY <1>0, <2>1, ParsedSeqs, Zenon
    <3> DEFINE b == Parse(u)[1]["include"]
    <3> HIDE DEF b, u
    <3>5. Within(<<>>, b)
      <4>1. b \in Seq(Elements(b))
        BY <3>4 DEF IsSeq, b
      <4>2. 0 \in 0..(Len(b) - Len(<<>>)) /\ DOMAIN <<>> = {}
        BY <4>1
      <4> QED BY <4>2 DEF Within
    <3> QED BY <3>2, <3>3, <3>5, Zenon DEF KeepsList, b
  <2>4. \A k \in RuleKeys \ {"include"} : Parse(u)[1][k] = <<>> => Parse(t)[1][k] = <<>>
    <3> HIDE DEF u
    <3> QED BY SameRulesEmpty, Zenon DEF u
  <2> HIDE DEF u
  <2>5. Parse(u) # Nil
    BY DEF u
  <2> QED BY <1>0, <2>1, <2>2, <2>3, <2>4, <2>5, DroppedKept, Zenon DEF u
<1> QED BY <1>1, <1>2

LEMMA RestyledIs ==
    ASSUME NEW style, NEW items
    PROVE  Restyled(style, items).items = items
BY ListedIs, Zenon DEF Restyled, NoList

LEMMA ListHasItems ==
    ASSUME NEW t, TextOK(t), NEW key \in ListKeys, NEW items
    PROVE  [t[key] EXCEPT !.items = items].items = items
<1>1. \A S, list : list \in ListsOf(S) => "items" \in DOMAIN list
  BY DEF ListsOf
<1>2. \E S : t[key] \in ListsOf(S)
  <2>1. \A k \in OtherKeys : \E S : t[k] \in ListsOf(S)
    BY Zenon DEF TextOK, OtherKeys
  <2>2. \A k \in {"allow", "deny", "include", "services", "generators"} :
            \E S : t[k] \in ListsOf(S)
    BY Zenon DEF TextOK
  <2> QED BY <2>1, <2>2, ListKeysAre, Zenon
<1>3. "items" \in DOMAIN t[key]
  BY <1>1, <1>2, Zenon
<1> QED BY <1>3

\* One entry of a list changes.
LEMMA ReplaceKept ==
    ASSUME NEW t, TextOK(t), Parse(t) # Nil, NEW key \in ListKeys,
           NEW i \in 1..Len(t[key].items), NEW item,
           Parse(Replace(t, key, i, item)) # Nil
    PROVE  OnlyKept(t, Replace(t, key, i, item), key)
<1> DEFINE list == [t[key] EXCEPT !.items = Swap(t[key].items, i, item)]
<1>1. ~(t[key].style = "flow" \/ Crowded(t, key))
  BY UnparsableIs, Zenon DEF Replace
<1>2. Replace(t, key, i, item) = Put(t, key, list)
  BY <1>1 DEF Replace, Put, Swap
<1>3. list.items = Swap(t[key].items, i, item)
  BY ListHasItems
<1> HIDE DEF list
<1>4. Shrunk(t, key, i, list)
  BY <1>3, Zenon DEF Shrunk
<1> QED BY <1>2, <1>4, CutBy, Zenon

\* A line does not go for one of the entries or the rules on it.
LEMMA CutKept ==
    ASSUME NEW t, TextOK(t), Parse(t) # Nil, NEW key \in ListKeys,
           NEW i \in 1..Len(t[key].items), Parse(Cut(t, key, i)) # Nil,
           Parse(Cut(t, key, i))[1][key] = <<>> => Without(Parse(t)[1][key], i) = <<>>,
           \A k \in RuleKeys \ {key} :
                Parse(Cut(t, key, i))[1][k] = <<>> => Parse(t)[1][k] = <<>>
    PROVE  KeptText(t, Cut(t, key, i))
<1> DEFINE u == Cut(t, key, i)
<1>0. IsSeq(t[key].items)
  BY TextSeqs
<1>1. CASE t[key].style = "flow" \/ Crowded(t, key)
  <2>1. u = Dropped(t, key)
    BY <1>1, Zenon DEF Cut
  <2>2. TextOK(u)
    BY <2>1, DroppedType
  <2>3. KeepsList(Parse(t)[1][key], Parse(u)[1][key])
    <3>1. key \in LineOf(t, key)
      BY DEF LineOf
    <3>2. u[key].items = <<>>
      <4>1. Dropped(t, key)[key].items = <<>>
        BY <3>1, DroppedLists
      <4> HIDE DEF u
      <4> QED BY <2>1, <4>1, Zenon
    <3>3. All(key, <<>>) = <<>>
      BY DEF All
    <3>4. Parse(u)[1][key] = <<>>
      <4> HIDE DEF u
      <4>1. Parse(u) # Nil
        BY DEF u
      <4> QED BY <2>2, <3>2, <3>3, <4>1, ParsedSeqs, Zenon
    <3>5. Without(Parse(t)[1][key], i) = <<>>
      BY <3>4
    <3>6. i \in DOMAIN Parse(t)[1][key]
      <4>1. Parse(t)[1][key] = All(key, t[key].items)
        BY ParsedSeqs, Zenon
      <4>2. i \in DOMAIN All(key, t[key].items)
        BY <1>0, SeqShortened, Zenon
      <4> QED BY <4>1, <4>2, Zenon
    <3> HIDE DEF u
    <3> QED BY <3>4, <3>5, <3>6, Zenon DEF KeepsList
  <2>4. \A k \in ListKeys \ {key} : u[k] = Dropped(t, key)[k]
    BY <2>1, Zenon
  <2> HIDE DEF u
  <2>5. Parse(u) # Nil /\ \A k \in RuleKeys \ {key} :
                            Parse(u)[1][k] = <<>> => Parse(t)[1][k] = <<>>
    BY DEF u
  <2>6. KeptText(t, u)
    BY <2>2, <2>3, <2>4, <2>5, DroppedKept, Zenon
  <2> QED BY <2>6 DEF u
<1>2. CASE ~(t[key].style = "flow" \/ Crowded(t, key))
  <2> DEFINE list == Restyled(t[key].style, Without(t[key].items, i))
  <2>1. u = Put(t, key, list)
    BY <1>2 DEF Cut, Put
  <2>2. list.items = Without(t[key].items, i)
    BY RestyledIs
  <2> HIDE DEF list
  <2>3. Shrunk(t, key, i, list)
    BY <2>2, Zenon DEF Shrunk
  <2>4. OnlyKept(t, u, key)
    BY <2>1, <2>3, CutBy, Zenon
  <2> QED BY <2>4, KeptIfOnly, Zenon
<1> QED BY <1>1, <1>2

LEMMA CutDirKept ==
    ASSUME NEW t, TextOK(t), Parse(t) # Nil, NEW key \in ListKeys,
           NEW i \in 1..Len(t[key].items), Parse(CutDir(t, key, i)) # Nil
    PROVE  OnlyKept(t, CutDir(t, key, i), key)
<1> DEFINE list == IF t[key].style = "flow" THEN Listed("flow", Without(t[key].items, i))
                   ELSE Restyled(t[key].style, Without(t[key].items, i))
<1>1. ~Crowded(t, key)
  BY UnparsableIs, Zenon DEF CutDir
<1>2. CutDir(t, key, i) = Put(t, key, list)
  BY <1>1 DEF CutDir, Put
<1>3. list.items = Without(t[key].items, i)
  BY RestyledIs, ListedIs, Zenon
<1> HIDE DEF list
<1>4. Shrunk(t, key, i, list)
  BY <1>3, Zenon DEF Shrunk
<1> QED BY <1>2, <1>4, CutBy, Zenon

(***************************************************************************)
(* The editors.                                                            *)
(***************************************************************************)

\* A rule, an include, a service, a directory, a credential added.
LEMMA AppendRuleToGrows ==
    ASSUME NEW t, TextOK(t), NEW before, NEW list \in RuleKeys, NEW rule
    PROVE  Grows(t, AppendRuleTo(t, before, list, rule))
<1> DEFINE u == Splice(t, list, renderRuleItem(rule))
<1>1. \/ AppendRuleTo(t, before, list, rule) = Unchanged(t)
      \/ AppendRuleTo(t, before, list, rule) =
            Gated(t, u, validateAppend(before, Parse(u)[1], list, rule))
  BY Zenon DEF AppendRuleTo
<1>2. list \in ListKeys
  BY ListKeysAre DEF RuleKeys
<1>3. Parse(t) # Nil /\ Parse(u) # Nil => Grown(t, u)
  BY <1>2, SpliceGrown, Zenon
<1> HIDE DEF u
<1> QED BY <1>1, <1>3, GatedGrows, SameGrows, Zenon

LEMMA AppendRuleGrows ==
    ASSUME NEW t, TextOK(t), NEW list \in RuleKeys, NEW rule
    PROVE  Grows(t, AppendRule(t, list, rule))
<1>1. AppendRule(t, list, rule) =
        Edit(t, Parse(t), AppendRuleTo(t, Parse(t)[1], list, rule))
  BY Zenon DEF AppendRule
<1> QED BY <1>1, AppendRuleToGrows, EditGrows, Zenon

LEMMA AppendIncludeKeeps ==
    ASSUME NEW t, TextOK(t), NEW inc \in Includes
    PROVE  Keeps(t, AppendInclude(t, inc))
<1> DEFINE u == SpliceInclude(t, inc)
           cfg == Parse(t)[1]
           edit == AppendIncludeTo(t, cfg, inc)
           valid == validateAppendInclude(cfg, Parse(u)[1], inc)
<1>1. edit = Unchanged(t) \/ edit = Gated(t, u, valid)
  BY Zenon DEF AppendIncludeTo
<1>2. AppendInclude(t, inc) = Edit(t, Parse(t), edit)
  BY Zenon DEF AppendInclude
<1>3. Parse(t) # Nil /\ Parse(u) # Nil /\ valid => KeptText(t, u)
  <2>1. valid => SameRules(Parse(t)[1], Parse(u)[1])
    BY Zenon DEF validateAppendInclude
  <2> HIDE DEF valid
  <2> QED BY <2>1, SpliceIncludeKept, Zenon
<1> HIDE DEF u, edit, cfg, valid
<1> QED BY <1>1, <1>2, <1>3, GatedKeeps, SameGrows, KeepsIfGrows, EditKeeps, Zenon

LEMMA AppendHostServiceGrows ==
    ASSUME NEW t, TextOK(t), NEW hs
    PROVE  Grows(t, AppendHostService(t, hs))
<1> DEFINE u == Splice(t, "services", hs)
           cfg == Parse(t)[1]
           edit == AppendHostServiceTo(t, cfg, hs)
<1>1. \/ edit = Unchanged(t)
      \/ edit = Gated(t, u, validateServices(cfg, Parse(u)[1], Append(cfg.services, hs)))
  BY Zenon DEF AppendHostServiceTo
<1>2. AppendHostService(t, hs) = Edit(t, Parse(t), edit)
  BY Zenon DEF AppendHostService
<1>3. Parse(t) # Nil /\ Parse(u) # Nil => Grown(t, u)
  <2>1. "services" \in ListKeys
    BY ListKeysAre
  <2> QED BY <2>1, SpliceGrown, Zenon
<1> HIDE DEF u, edit, cfg
<1> QED BY <1>1, <1>2, <1>3, GatedGrows, SameGrows, EditGrows, Zenon

LEMMA AppendDirGrows ==
    ASSUME NEW t, TextOK(t), NEW key \in {"rw", "ro"}, NEW dir
    PROVE  Grows(t, AppendDir(t, key, dir))
<1> DEFINE u == SpliceDir(t, key, dir)
           cfg == Parse(t)[1]
           after == Parse(u)[1]
           edit == AppendDirTo(t, cfg, key, dir)
           fits == /\ SameRules(cfg, after)
                   /\ sameHostServices(cfg.services, after.services)
                   /\ validateDirs(cfg, after, key, Append(cfg[key], dir))
<1>1. \/ edit = Unchanged(t)
      \/ edit = Gated(t, u, fits)
  BY Zenon DEF AppendDirTo
<1>2. AppendDir(t, key, dir) = Edit(t, Parse(t), edit)
  BY Zenon DEF AppendDir
<1>3. Parse(t) # Nil /\ Parse(u) # Nil => Grown(t, u)
  BY SpliceDirGrown, Zenon
<1> HIDE DEF u, edit, cfg, fits
<1> QED BY <1>1, <1>2, <1>3, GatedGrows, SameGrows, EditGrows, Zenon

LEMMA AppendCredentialGrows ==
    ASSUME NEW t, TextOK(t), NEW name, NEW cred
    PROVE  Grows(t, AppendCredential(t, name, cred))
<1> DEFINE entry == [name |-> name, cred |-> renderCredentialEntry(cred)]
           u == Splice(t, "credentials", entry)
           cfg == Parse(t)[1]
           edit == AppendCredentialTo(t, cfg, name, cred)
<1>1. \/ edit = Unchanged(t)
      \/ edit = Gated(t, u, validateAppendCredential(cfg, Parse(u)[1], name, cred))
  BY Zenon DEF AppendCredentialTo
<1>2. AppendCredential(t, name, cred) = Edit(t, Parse(t), edit)
  BY Zenon DEF AppendCredential
<1>3. Parse(t) # Nil /\ Parse(u) # Nil => Grown(t, u)
  <2>1. "credentials" \in ListKeys
    BY ListKeysAre DEF OtherKeys
  <2> HIDE DEF entry
  <2> QED BY <2>1, SpliceGrown, Zenon
<1> HIDE DEF u, edit, cfg
<1> QED BY <1>1, <1>2, <1>3, GatedGrows, SameGrows, EditGrows, Zenon

\* A rule that binds a credential: one more, or another in its place.
LEMMA SetRuleAuthKeeps ==
    ASSUME NEW t, TextOK(t), NEW list \in RuleKeys, NEW rule
    PROVE  Keeps(t, SetRuleAuth(t, list, rule))
<1> DEFINE cfg == Parse(t)[1]
           rules == cfg[list]
           at == {k \in DOMAIN rules : ruleIdentity(rules[k]) = ruleIdentity(rule)}
           i == IF at = {} THEN 0 ELSE CHOOSE k \in at : \A j \in at : k <= j
           new == Authorized(rules[i], rule)
           u == Replace(t, list, i, renderRuleItem(new))
           edit == SetRuleAuthIn(t, cfg, list, rule)
<1>1. SetRuleAuth(t, list, rule) = Edit(t, Parse(t), edit)
  BY Zenon DEF SetRuleAuth
<1>2. edit = IF i = 0 THEN AppendRuleTo(t, cfg, list, rule) ELSE UpdateRule(t, cfg, list, i, new)
  BY Zenon DEF SetRuleAuthIn, indexOfIdentity, IndexOf
<1>3. \/ UpdateRule(t, cfg, list, i, new) = Unchanged(t)
      \/ UpdateRule(t, cfg, list, i, new) =
            Gated(t, u, validateSetRuleAuth(cfg, Parse(u)[1], list, i, new))
  BY Zenon DEF UpdateRule
<1>4. Parse(t) # Nil => i \in 0..Len(t[list].items)
  <2> HAVE Parse(t) # Nil
  <2>1. cfg[list] \in Seq(ConfigRules) /\ DOMAIN cfg[list] = DOMAIN t[list].items
    BY RulesOfText
  <2>2. at \subseteq 1..Len(t[list].items) /\ Len(t[list].items) \in Nat
    <3>1. IsSeq(t[list].items)
      BY TextSeqs, ListKeysAre DEF RuleKeys
    <3> QED BY <2>1, <3>1 DEF IsSeq
  <2> HIDE DEF at
  <2> QED BY <2>2, FirstIndexType, Zenon
<1> HIDE DEF i
<1>5. Parse(t) # Nil /\ i # 0 /\ Parse(u) # Nil => OnlyKept(t, u, list)
  <2> HAVE Parse(t) # Nil /\ i # 0 /\ Parse(u) # Nil
  <2>1. i \in 1..Len(t[list].items)
    BY <1>4
  <2>2. list \in ListKeys
    BY ListKeysAre DEF RuleKeys
  <2> QED BY <2>1, <2>2, ReplaceKept, Zenon
<1> HIDE DEF u, edit, cfg, new, rules
<1>6. Parse(t) # Nil /\ i # 0 => Keeps(t, edit)
  <2>1. Parse(t) # Nil /\ i # 0 /\ Parse(u) # Nil => KeptText(t, u)
    BY <1>5, KeptIfOnly, Zenon
  <2> QED BY <1>2, <1>3, <2>1, GatedKeeps, SameGrows, KeepsIfGrows, Zenon
<1>7. i = 0 => Keeps(t, edit)
  BY <1>2, AppendRuleToGrows, KeepsIfGrows, Zenon
<1> QED BY <1>1, <1>6, <1>7, EditKeeps, Zenon


\* A service taken away.
LEMMA RemoveHostServiceKeeps ==
    ASSUME NEW t, TextOK(t), NEW port
    PROVE  Keeps(t, RemoveHostService(t, port))
<1> DEFINE cfg == Parse(t)[1]
           at == {k \in DOMAIN cfg.services : cfg.services[k].port = port}
           i == IF at = {} THEN 0 ELSE CHOOSE k \in at : \A j \in at : k <= j
           u == Cut(t, "services", i)
           valid == validateServices(cfg, Parse(u)[1], Without(cfg.services, i))
           edit == RemoveHostServiceAt(t, cfg, i)
<1>1. RemoveHostService(t, port) = Edit(t, Parse(t), edit)
  BY Zenon DEF RemoveHostService, indexOfPort, IndexOf
<1>2. edit = IF i = 0 THEN Failed(t, "not_found") ELSE Gated(t, u, valid)
  BY Zenon DEF RemoveHostServiceAt
<1>3. Parse(t) # Nil => i \in 0..Len(t.services.items)
  <2> HAVE Parse(t) # Nil
  <2>1. cfg.services = t.services.items /\ cfg.services \in Seq(Services)
    BY RulesOfText
  <2>2. at \subseteq 1..Len(t.services.items) /\ Len(t.services.items) \in Nat
    BY <2>1
  <2> HIDE DEF at
  <2> QED BY <2>2, FirstIndexType, Zenon
<1> HIDE DEF i
<1>4. Parse(t) # Nil /\ i # 0 /\ Parse(u) # Nil /\ valid => KeptText(t, u)
  <2> HAVE Parse(t) # Nil /\ i # 0 /\ Parse(u) # Nil /\ valid
  <2>1. i \in 1..Len(t["services"].items) /\ "services" \in ListKeys
    BY <1>3, ListKeysAre
  <2>2. ASSUME Parse(u)[1]["services"] = <<>> PROVE Without(Parse(t)[1]["services"], i) = <<>>
    <3> DEFINE w == Without(Parse(t)[1].services, i)
    <3>1. Bag(w) = Bag(<<>>)
      BY <2>2, Zenon DEF validateServices, sameHostServices
    <3>2. IsSeq(w)
      <4>1. Parse(t)[1].services = t.services.items /\ Parse(t)[1].services \in Seq(Services)
        BY RulesOfText
      <4>2. w \in Seq(Services)
        BY <2>1, <4>1, WithoutIs
      <4> HIDE DEF w
      <4> QED BY <4>2, SeqIs
    <3> HIDE DEF w
    <3>3. DOMAIN Bag(w) = {} /\ DOMAIN Bag(w) = {w[k] : k \in DOMAIN w}
      BY <3>1 DEF Bag, Elements
    <3>4. DOMAIN w = {}
      BY <3>3
    <3>5. w = <<>>
      BY <3>2, <3>4 DEF IsSeq
    <3> QED BY <3>5 DEF w
  <2>3. \A k \in RuleKeys \ {"services"} :
            Parse(u)[1][k] = <<>> => Parse(t)[1][k] = <<>>
    <3>1. SameRules(cfg, Parse(u)[1])
      BY Zenon DEF validateServices
    <3> QED BY <3>1, SameRulesEmpty, Zenon
  <2> HIDE DEF cfg, valid
  <2> QED BY <2>1, <2>2, <2>3, CutKept, Zenon
<1> HIDE DEF u, edit, cfg, valid
<1>5. Parse(t) # Nil => Keeps(t, edit)
  BY <1>2, <1>4, GatedKeeps, SameGrows, KeepsIfGrows, Zenon
<1> QED BY <1>1, <1>5, EditKeeps, Zenon

\* A rule taken away, or one of its paths.
LEMMA RemoveRuleKeeps ==
    ASSUME NEW t, TextOK(t), NEW list \in RuleKeys, NEW host, NEW path
    PROVE  Keeps(t, RemoveRule(t, list, host, path))
<1> DEFINE cfg == Parse(t)[1]
           rules == cfg[list]
           at == {k \in DOMAIN rules :
                    /\ rules[k].host = host
                    /\ path # Nil => /\ rules[k].paths # Nil
                                    /\ path[1] \in Elements(rules[k].paths[1])}
           i == IF at = {} THEN 0 ELSE CHOOSE k \in at : \A j \in at : k <= j
           left == Narrowed(rules[i], path)
           edit == RemoveRuleAt(t, cfg, list, i, left)
           u == IF left = Nil THEN Cut(t, list, i)
                ELSE Replace(t, list, i, renderRuleItem(left[1]))
           expected == expectedAfterRuleRemoval(rules, i, left)
           valid == validateRemoveRule(cfg, Parse(u)[1], list, expected)
<1>1. RemoveRule(t, list, host, path) = Edit(t, Parse(t), edit)
  BY Zenon DEF RemoveRule, RemoveRuleFrom, findRuleIndex, IndexOf
<1>2. edit = IF i = 0 THEN Failed(t, "not_found") ELSE Gated(t, u, valid)
  BY Zenon DEF RemoveRuleAt
<1>3. Parse(t) # Nil =>
        rules \in Seq(ConfigRules) /\ DOMAIN rules = DOMAIN t[list].items /\ IsSeq(t[list].items)
  <2> HAVE Parse(t) # Nil
  <2>1. rules \in Seq(ConfigRules) /\ DOMAIN rules = DOMAIN t[list].items
    BY RulesOfText
  <2>2. IsSeq(t[list].items)
    BY TextSeqs, ListKeysAre DEF RuleKeys
  <2> QED BY <2>1, <2>2
<1>4. Parse(t) # Nil => i \in 0..Len(t[list].items)
  <2> HAVE Parse(t) # Nil
  <2>1. at \subseteq 1..Len(t[list].items) /\ Len(t[list].items) \in Nat
    BY <1>3 DEF IsSeq
  <2> HIDE DEF at
  <2> QED BY <2>1, FirstIndexType, Zenon
<1> HIDE DEF i
<1>5. Parse(t) # Nil /\ i # 0 /\ Parse(u) # Nil /\ valid => KeptText(t, u)
  <2> HAVE Parse(t) # Nil /\ i # 0 /\ Parse(u) # Nil /\ valid
  <2>1. i \in 1..Len(t[list].items)
    BY <1>4
  <2>2. list \in ListKeys
    BY ListKeysAre DEF RuleKeys
  <2>3. CASE left # Nil
    <3>1. u = Replace(t, list, i, renderRuleItem(left[1]))
      BY <2>3
    <3> HIDE DEF u, left, cfg, valid
    <3> QED BY <2>1, <2>2, <3>1, ReplaceKept, KeptIfOnly, Zenon
  <2>4. CASE left = Nil
    <3>1. u = Cut(t, list, i) /\ expected = Without(rules, i)
      BY <2>4, Zenon DEF expectedAfterRuleRemoval
    <3>2. ASSUME Parse(u)[1][list] = <<>> PROVE Without(rules, i) = <<>>
      <4> DEFINE w == Without(rules, i)
      <4>1. sameIdentities(expected, Parse(u)[1][list])
        BY Zenon DEF validateRemoveRule
      <4>2. sameIdentities(w, <<>>)
        BY <3>1, <3>2, <4>1, Zenon
      <4>3. w \in Seq(ConfigRules)
        <5> HIDE DEF u, left, expected, valid, rules
        <5>1. i \in 1..Len(rules)
          BY <1>3, <2>1 DEF IsSeq
        <5> QED BY <1>3, <5>1, WithoutIs
      <4> HIDE DEF w
      <4>4. w = <<>>
        BY <4>2, <4>3, SeqIs, SameEmpty, Zenon
      <4> QED BY <4>4 DEF w
    <3>3. ASSUME NEW k \in RuleKeys \ {list}, Parse(u)[1][k] = <<>>
          PROVE  Parse(t)[1][k] = <<>>
      <4>1. k = Other(list) /\ k \in ListKeys
        BY ListKeysAre DEF Other, RuleKeys
      <4>2. sameIdentities(cfg[Other(list)], Parse(u)[1][Other(list)])
        BY Zenon DEF validateRemoveRule
      <4>3. sameIdentities(Parse(t)[1][k], <<>>)
        BY <3>3, <4>1, <4>2, Zenon
      <4>4. IsSeq(Parse(t)[1][k])
        BY <4>1, ParsedSeqs, Zenon
      <4> QED BY <4>3, <4>4, SameEmpty, Zenon
    <3> HIDE DEF u, left, valid, expected
    <3> QED BY <2>1, <2>2, <3>1, <3>2, <3>3, CutKept, Zenon
  <2> QED BY <2>3, <2>4
<1> HIDE DEF u, edit, cfg, valid
<1>6. Parse(t) # Nil => Keeps(t, edit)
  BY <1>2, <1>5, GatedKeeps, SameGrows, KeepsIfGrows, Zenon
<1> QED BY <1>1, <1>6, EditKeeps, Zenon

\* A directory taken out of one list, and so out of both.
LEMMA RemoveDirOnceKeeps ==
    ASSUME NEW t, TextOK(t), Parse(t) # Nil, NEW key \in {"rw", "ro"}, NEW dir
    PROVE  LET u == removeDirOnce(t, key, dir).out IN u = t \/ OnlyKept(t, u, key)
<1> DEFINE cfg == Parse(t)[1]
           at == {k \in DOMAIN cfg[key] : cfg[key][k] = dir}
           i == IF at = {} THEN 0 ELSE CHOOSE k \in at : \A j \in at : k <= j
           u == CutDir(t, key, i)
           valid == validateDirs(cfg, Parse(u)[1], key, Without(cfg[key], i))
           edit == RemoveDirFrom(t, cfg, key, dir)
<1>1. removeDirOnce(t, key, dir) = edit
  BY Zenon DEF removeDirOnce, Edit
<1>2. edit = IF i = 0 THEN Unchanged(t) ELSE Gated(t, u, valid)
  BY Zenon DEF RemoveDirFrom, IndexOf
<1>3. i \in 0..Len(t[key].items)
  <2>1. DOMAIN cfg[key] = 1..Len(t[key].items)
    BY RulesOfText DEF OtherKeys
  <2>2. Len(t[key].items) \in Nat
    <3>1. IsSeq(t[key].items)
      BY TextSeqs, ListKeysAre DEF OtherKeys
    <3> QED BY <3>1 DEF IsSeq
  <2>3. at \subseteq 1..Len(t[key].items)
    BY <2>1
  <2> HIDE DEF at
  <2> QED BY <2>2, <2>3, FirstIndexType, Zenon
<1> HIDE DEF i
<1>4. i # 0 /\ Parse(u) # Nil => OnlyKept(t, u, key)
  <2> HAVE i # 0 /\ Parse(u) # Nil
  <2>1. i \in 1..Len(t[key].items) /\ key \in ListKeys
    BY <1>3, ListKeysAre DEF OtherKeys
  <2> QED BY <2>1, CutDirKept, Zenon
<1>5. edit.out = t \/ (i # 0 /\ Parse(u) # Nil /\ edit.out = u)
  BY <1>2, OutIs, Zenon DEF Gated
<1> HIDE DEF u, edit, cfg, valid
<1> QED BY <1>1, <1>4, <1>5, Zenon

LEMMA TwoCuts ==
    ASSUME NEW t, TextOK(t), Parse(t) # Nil, NEW u, NEW v,
           OnlyKept(t, u, "rw"), OnlyKept(u, v, "ro")
    PROVE  KeptText(t, v)
<1>1. Parse(v) # Nil
  BY Zenon DEF OnlyKept
<1>2. ASSUME NEW k \in ListKeys PROVE KeepsList(Parse(t)[1][k], Parse(v)[1][k])
  <2>1. CASE k = "rw"
    <3>1. k \in ListKeys \ {"ro"}
      BY <2>1
    <3>2. Parse(v)[1][k] = Parse(u)[1][k]
      BY <3>1, Zenon DEF OnlyKept
    <3>3. KeepsList(Parse(t)[1][k], Parse(u)[1][k])
      BY <2>1, Zenon DEF OnlyKept
    <3> QED BY <3>2, <3>3, Zenon
  <2>2. CASE k = "ro"
    <3>1. k \in ListKeys \ {"rw"}
      BY <2>2
    <3>2. Parse(u)[1][k] = Parse(t)[1][k]
      BY <3>1, Zenon DEF OnlyKept
    <3>3. KeepsList(Parse(u)[1][k], Parse(v)[1][k])
      BY <2>2, Zenon DEF OnlyKept
    <3> QED BY <3>2, <3>3, Zenon
  <2>3. CASE k # "rw" /\ k # "ro"
    <3>1. k \in ListKeys \ {"rw"} /\ k \in ListKeys \ {"ro"}
      BY <2>3
    <3>2. Parse(v)[1][k] = Parse(u)[1][k] /\ Parse(u)[1][k] = Parse(t)[1][k]
      BY <3>1, Zenon DEF OnlyKept
    <3>3. Within(Parse(t)[1][k], Parse(t)[1][k])
      BY ParsedSeqs, WithinItself, Zenon
    <3> QED BY <3>2, <3>3, Zenon DEF KeepsList
  <2> QED BY <2>1, <2>2, <2>3, Zenon
<1> QED BY <1>1, <1>2, Zenon DEF KeptText

LEMMA RemoveDirKeeps ==
    ASSUME NEW t, TextOK(t), NEW dir
    PROVE  Keeps(t, RemoveDir(t, dir))
<1> DEFINE first == removeDirOnce(t, "rw", dir)
           u == first.out
           second == removeDirOnce(u, "ro", dir)
           v == second.out
<1> SUFFICES ASSUME Parse(t) # Nil PROVE KeptText(t, RemoveDir(t, dir).out)
  BY Zenon DEF Keeps
<1>1. TextOK(u) /\ (u = t \/ OnlyKept(t, u, "rw"))
  BY RemoveDirOnceType, RemoveDirOnceKeeps
<1>2. Parse(u) # Nil
  BY <1>1, Zenon DEF OnlyKept
<1>3. v = u \/ OnlyKept(u, v, "ro")
  <2> HIDE DEF first
  <2> QED BY <1>1, <1>2, RemoveDirOnceKeeps
<1>4. RemoveDir(t, dir) = RemovedDirs(t, first, second)
  BY Zenon DEF RemoveDir, RemoveFromRo
<1>5. RemoveDir(t, dir).out = t \/ RemoveDir(t, dir).out = v
  <2> HIDE DEF first, second
  <2>1. \/ \E err : RemovedDirs(t, first, second) = Failed(t, err)
        \/ RemovedDirs(t, first, second) = Edited(v)
    BY Zenon DEF RemovedDirs
  <2>2. Edited(v).out = v /\ \A err : Failed(t, err).out = t
    BY OutIs
  <2> HIDE DEF v
  <2>3. RemovedDirs(t, first, second).out = t \/ RemovedDirs(t, first, second).out = v
    BY <2>1, <2>2, Zenon
  <2> QED BY <1>4, <2>3, Zenon
<1> HIDE DEF u, v
<1>6. KeptText(t, t)
  BY GrownOn, KeptIfGrown, Zenon
<1>7. KeptText(t, v)
  <2>1. CASE u = t
    BY <1>3, <1>6, <2>1, KeptIfOnly, Zenon
  <2>2. CASE OnlyKept(t, u, "rw")
    BY <1>1, <1>3, <2>2, KeptIfOnly, TwoCuts, Zenon
  <2> QED BY <1>1, <2>1, <2>2
<1> QED BY <1>5, <1>6, <1>7, Zenon

\* A credential taken away.
LEMMA LastCredential ==
    ASSUME NEW b, IsSeq(b), NamedOnce(b), NEW name, Names(b) \subseteq {name},
           NEW i \in 1..Len(b)
    PROVE  Without(b, i) = <<>>
<1>1. \A j \in DOMAIN b : b[j].name = name
  BY Zenon DEF Names
<1>2. DOMAIN b = 1..Len(b) /\ Len(b) \in Nat
  BY DEF IsSeq
<1>3. \A j \in 1..Len(b) : j = i
  BY <1>1, <1>2, Zenon DEF NamedOnce
<1>4. Len(b) = 1
  <2>1. 1 \in 1..Len(b) /\ Len(b) \in 1..Len(b)
    BY <1>2
  <2> QED BY <1>3, <2>1
<1>5. Without(b, i) \in Seq(Elements(b)) /\ Len(Without(b, i)) = Len(b) - 1
  BY WithoutIs DEF IsSeq
<1> QED BY <1>4, <1>5

LEMMA ParsedNamed ==
    ASSUME NEW t, Parse(t) # Nil
    PROVE  NamedOnce(Parse(t)[1].credentials)
<1> DEFINE cfg == applyDefaults(t)
<1>1. NamedOnce(cfg.credentials) /\ Parse(t) = Some(cfg)
  BY Zenon DEF Parse, Valid
<1>2. \A y : Some(y)[1] = y
  BY DEF Some
<1> QED BY <1>1, <1>2, Zenon

LEMMA RemoveCredentialKeeps ==
    ASSUME NEW t, TextOK(t), NEW name
    PROVE  Keeps(t, RemoveCredential(t, name))
<1> DEFINE cfg == Parse(t)[1]
           creds == cfg.credentials
           at == {k \in DOMAIN creds : creds[k].name = name}
           i == IF at = {} THEN 0 ELSE CHOOSE k \in at : \A j \in at : k <= j
           u == Cut(t, "credentials", i)
           valid == validateRemoveCredential(cfg, Parse(u)[1], name)
           edit == RemoveCredentialFrom(t, cfg, name)
<1>1. RemoveCredential(t, name) = Edit(t, Parse(t), edit)
  BY Zenon DEF RemoveCredential
<1>2. edit = IF i = 0 THEN Failed(t, "not_found") ELSE Gated(t, u, valid)
  BY Zenon DEF RemoveCredentialFrom, IndexOf
<1>3. "credentials" \in ListKeys
  BY ListKeysAre DEF OtherKeys
<1>4. Parse(t) # Nil => /\ i \in 0..Len(t.credentials.items) /\ IsSeq(creds)
                        /\ DOMAIN creds = 1..Len(t.credentials.items)
  <2> HAVE Parse(t) # Nil
  <2>1. IsSeq(t["credentials"].items) /\ IsSeq(cfg["credentials"])
    BY <1>3, TextSeqs, ParsedSeqs, Zenon
  <2>2. DOMAIN creds = 1..Len(t.credentials.items)
    BY RulesOfText DEF OtherKeys
  <2>3. Len(t.credentials.items) \in Nat
    BY <2>1 DEF IsSeq
  <2>4. at \subseteq 1..Len(t.credentials.items)
    BY <2>2
  <2> HIDE DEF at
  <2>5. i \in 0..Len(t.credentials.items)
    BY <2>3, <2>4, FirstIndexType, Zenon
  <2> QED BY <2>1, <2>2, <2>5
<1> HIDE DEF i
<1>5. Parse(t) # Nil /\ i # 0 /\ Parse(u) # Nil /\ valid => KeptText(t, u)
  <2> HAVE Parse(t) # Nil /\ i # 0 /\ Parse(u) # Nil /\ valid
  <2>1. i \in 1..Len(t["credentials"].items)
    BY <1>4
  <2>2. ASSUME Parse(u)[1]["credentials"] = <<>>
        PROVE  Without(Parse(t)[1]["credentials"], i) = <<>>
    <3>1. CredMap(<<>>) = [n \in Names(creds) \ {name} |-> CredMap(creds)[n]]
      BY <2>2, Zenon DEF validateRemoveCredential
    <3>2. DOMAIN CredMap(<<>>) = {}
      BY DEF CredMap, Names
    <3>3. Names(creds) \subseteq {name}
      <4> DEFINE N == Names(creds)
                 M == CredMap(creds)
      <4>1. CredMap(<<>>) = [n \in N \ {name} |-> M[n]]
        BY <3>1
      <4> HIDE DEF N, M
      <4>2. N \ {name} = {}
        BY <3>2, <4>1
      <4> QED BY <4>2 DEF N
    <3>4. NamedOnce(creds)
      BY ParsedNamed
    <3>5. i \in 1..Len(creds) /\ IsSeq(creds)
      <4>1. IsSeq(creds) /\ DOMAIN creds = 1..Len(t["credentials"].items)
        BY <1>4
      <4> HIDE DEF creds, cfg
      <4>2. DOMAIN creds = 1..Len(creds)
        BY <4>1 DEF IsSeq
      <4> QED BY <2>1, <4>1, <4>2, Zenon
    <3> HIDE DEF creds
    <3>6. Without(creds, i) = <<>>
      BY <3>3, <3>4, <3>5, LastCredential, Zenon
    <3> QED BY <3>6 DEF creds
  <2>3. \A k \in RuleKeys \ {"credentials"} :
            Parse(u)[1][k] = <<>> => Parse(t)[1][k] = <<>>
    <3>1. SameRules(cfg, Parse(u)[1])
      BY Zenon DEF validateRemoveCredential
    <3> QED BY <3>1, SameRulesEmpty, Zenon
  <2> HIDE DEF cfg, valid, creds
  <2> QED BY <1>3, <2>1, <2>2, <2>3, CutKept, Zenon
<1> HIDE DEF u, edit, cfg, valid
<1>6. Parse(t) # Nil => Keeps(t, edit)
  BY <1>2, <1>5, GatedKeeps, SameGrows, KeepsIfGrows, Zenon
<1> QED BY <1>1, <1>6, EditKeeps, Zenon

(***************************************************************************)
(* A fragment imported: a sequence of edits.                               *)
(***************************************************************************)

\* The edits of a fragment's first n entries.
EntriesGo(h, t, frag, n) ==
    h = [i \in 0..n |-> IF i = 0 THEN Unchanged(t) ELSE applyEntry(t, frag, h[i - 1], i)]

\* Edits can be made one after the other.
LEMMA EditsExist ==
    ASSUME NEW n \in Nat, NEW t, NEW frag
    PROVE  \E h : EntriesGo(h, t, frag, n)
<1> DEFINE first == Unchanged(t)
           Applied(e, i) == applyEntry(t, frag, e, i)
           Body(a, i) == IF i = 0 THEN first ELSE Applied(a[i - 1], i)
           S == {m \in 0..n : \E a : a = [i \in 0..m |-> Body(a, i)]}
<1>1. 0 \in S
  <2> DEFINE z == [i \in 0..0 |-> first]
  <2>1. z = [i \in 0..0 |-> Body(z, i)]
    OBVIOUS
  <2> HIDE DEF z, Body
  <2> QED BY <2>1
<1>2. ASSUME NEW m \in 1..n, m - 1 \in S PROVE m \in S
  <2>1. PICK a : a = [i \in 0..(m - 1) |-> Body(a, i)]
    <3> HIDE DEF Body
    <3> QED BY <1>2
  <2> DEFINE b == [i \in 0..m |-> IF i = m THEN Applied(a[m - 1], m) ELSE a[i]]
  <2>2. ASSUME NEW i \in 0..m PROVE b[i] = Body(b, i)
    <3>1. CASE i = m
      <4>1. m # 0 /\ m \in 0..m /\ m - 1 \in 0..m /\ m - 1 # m
        OBVIOUS
      <4>2. \A j \in 0..m : b[j] = IF j = m THEN Applied(a[m - 1], m) ELSE a[j]
        BY Zenon
      <4> HIDE DEF b
      <4> QED BY <3>1, <4>1, <4>2
    <3>2. CASE i # m
      <4>1. i \in 0..(m - 1) /\ (i # 0 => i - 1 \in 0..m /\ i - 1 # m)
        BY <3>2
      <4>2. \A j \in 0..m : j # m => b[j] = a[j]
        BY Zenon
      <4>3. b[i] = a[i] /\ (i # 0 => b[i - 1] = a[i - 1])
        <5> HIDE DEF b
        <5> QED BY <3>2, <4>1, <4>2
      <4>4. a[i] = Body(a, i)
        <5> HIDE DEF Body
        <5> QED BY <2>1, <4>1
      <4> HIDE DEF b
      <4> QED BY <4>3, <4>4
    <3> QED BY <3>1, <3>2
  <2>3. b = [i \in 0..m |-> Body(b, i)]
    <3> HIDE DEF Body
    <3> QED BY <2>2
  <2> HIDE DEF b, Body
  <2> QED BY <2>3
<1>3. \A m \in 0..n : m \in S
  <2> HIDE DEF S
  <2> QED BY <1>1, <1>2, UpTo
<1>4. PICK h : h = [i \in 0..n |-> Body(h, i)]
  <2>1. n \in S
    BY <1>3
  <2> HIDE DEF Body
  <2> QED BY <2>1
<1> QED BY <1>4, Zenon DEF EntriesGo

\* A fragment's next entry goes into a typed text.
LEMMA EntryType ==
    ASSUME NEW t, TextOK(t), NEW sofar, TextOK(sofar.out), NEW frag,
           frag.allow \in Seq(ConfigRules), frag.deny \in Seq(ConfigRules),
           frag.services \in Seq(Services),
           NEW i \in 1..(Len(frag.allow) + Len(frag.deny) + Len(frag.services))
    PROVE  TextOK(applyEntry(t, frag, sofar, i).out)
<1> DEFINE a == Len(frag.allow)
           d == Len(frag.deny)
           s == Len(frag.services)
           e == AppendEntry(sofar.out, frag, i)
<1>1. /\ a \in Nat /\ d \in Nat /\ s \in Nat /\ i \in 1..(a + d + s)
      /\ \A k \in 1..a : frag.allow[k] \in ConfigRules
      /\ \A k \in 1..d : frag.deny[k] \in ConfigRules
      /\ \A k \in 1..s : frag.services[k] \in Services
  <2>1. /\ a \in Nat /\ \A k \in 1..a : frag.allow[k] \in ConfigRules
        /\ d \in Nat /\ \A k \in 1..d : frag.deny[k] \in ConfigRules
        /\ s \in Nat /\ \A k \in 1..s : frag.services[k] \in Services
    OBVIOUS
  <2> QED BY <2>1, Zenon
<1>2. TextOK(e.out)
  <2>1. CASE i <= a
    <3>1. frag.allow[i] \in ConfigRules
      <4>1. i \in 1..a
        <5> HIDE DEF a, d, s
        <5> QED BY <1>1, <2>1
      <4> QED BY <1>1, <4>1, Zenon
    <3>2. e = AppendRule(sofar.out, "allow", frag.allow[i])
      BY <2>1, Zenon DEF AppendEntry
    <3>3. "allow" \in RuleKeys
      BY DEF RuleKeys
    <3> QED BY <3>1, <3>2, <3>3, AppendRuleType, Zenon
  <2>2. CASE ~(i <= a) /\ i <= a + d
    <3>1. frag.deny[i - a] \in ConfigRules
      <4>1. i - a \in 1..d
        <5> HIDE DEF a, d, s
        <5> QED BY <1>1, <2>2
      <4> QED BY <1>1, <4>1, Zenon
    <3>3. e = AppendRule(sofar.out, "deny", frag.deny[i - a])
      BY <2>2, Zenon DEF AppendEntry
    <3>4. "deny" \in RuleKeys
      BY DEF RuleKeys
    <3> QED BY <3>1, <3>3, <3>4, AppendRuleType, Zenon
  <2>3. CASE ~(i <= a) /\ ~(i <= a + d)
    <3>1. i - a - d \in 1..s
      <4> HIDE DEF a, d, s
      <4> QED BY <1>1, <2>3
    <3>2. frag.services[i - a - d] \in Services
      BY <1>1, <3>1, Zenon
    <3>3. e = AppendHostService(sofar.out, frag.services[i - a - d])
      BY <2>3, Zenon DEF AppendEntry
    <3> QED BY <3>2, <3>3, AppendHostServiceType, Zenon
  <2> QED BY <2>1, <2>2, <2>3
<1> HIDE DEF e
<1>3. TextOK(mergeOne(t, e, sofar).out)
  <2>1. \A x : [out |-> e.out, changed |-> x, err |-> ""].out = e.out
    OBVIOUS
  <2> QED BY <1>2, <2>1, SameText, Zenon DEF mergeOne
<1> QED BY <1>3, Zenon DEF applyEntry, e

\* A fragment's next entry: the text so far grows, or is as it was before all.
LEMMA EntryGrows ==
    ASSUME NEW t, TextOK(t), NEW sofar, TextOK(sofar.out), Grows(t, sofar), NEW frag,
           frag.allow \in Seq(ConfigRules), frag.deny \in Seq(ConfigRules),
           frag.services \in Seq(Services),
           NEW i \in 1..(Len(frag.allow) + Len(frag.deny) + Len(frag.services))
    PROVE  Grows(t, applyEntry(t, frag, sofar, i))
<1> DEFINE e == AppendEntry(sofar.out, frag, i)
<1>1. Grows(sofar.out, e)
  <2>1. \/ \E rule : e = AppendRule(sofar.out, "allow", rule)
        \/ \E rule : e = AppendRule(sofar.out, "deny", rule)
        \/ \E hs : e = AppendHostService(sofar.out, hs)
    BY Zenon DEF AppendEntry
  <2>2. "allow" \in RuleKeys /\ "deny" \in RuleKeys
    BY DEF RuleKeys
  <2> HIDE DEF e
  <2> QED BY <2>1, <2>2, AppendRuleGrows, AppendHostServiceGrows, Zenon
<1>2. TextOK(applyEntry(t, frag, sofar, i).out)
  BY EntryType
<1>3. \/ applyEntry(t, frag, sofar, i) = sofar
      \/ \E err : applyEntry(t, frag, sofar, i) = Failed(t, err)
      \/ applyEntry(t, frag, sofar, i).out = e.out
  <2> DEFINE m == mergeOne(t, e, sofar)
  <2>1. \/ \E err : m = Failed(t, err)
        \/ m = [out |-> e.out, changed |-> e.changed \/ sofar.changed, err |-> ""]
    <3> HIDE DEF e
    <3> QED BY Zenon DEF mergeOne
  <2>2. \A x : [out |-> e.out, changed |-> x, err |-> ""].out = e.out
    OBVIOUS
  <2>3. applyEntry(t, frag, sofar, i) = sofar \/ applyEntry(t, frag, sofar, i) = m
    BY Zenon DEF applyEntry
  <2> HIDE DEF e, m
  <2> QED BY <2>1, <2>2, <2>3, Zenon
<1> HIDE DEF e
<1>4. CASE applyEntry(t, frag, sofar, i) = sofar
  BY <1>4, Zenon
<1>5. ASSUME NEW err, applyEntry(t, frag, sofar, i) = Failed(t, err)
      PROVE  Grows(t, applyEntry(t, frag, sofar, i))
  BY <1>5, SameGrows, Zenon
<1>6. CASE applyEntry(t, frag, sofar, i).out = e.out
  <2> SUFFICES ASSUME Parse(t) # Nil PROVE Grown(t, e.out)
    BY <1>6, Zenon DEF Grows
  <2>1. Grown(t, sofar.out)
    BY Zenon DEF Grows
  <2>2. Parse(sofar.out) # Nil
    BY <2>1, Zenon DEF Grown
  <2>3. Grown(sofar.out, e.out)
    BY <1>1, <2>2, Zenon DEF Grows
  <2>4. TextOK(e.out)
    BY <1>2, <1>6, Zenon
  <2> QED BY <2>1, <2>3, <2>4, GrownFurther, Zenon
<1> QED BY <1>3, <1>4, <1>5, <1>6

\* And so a whole fragment.
LEMMA FragmentGrows ==
    ASSUME NEW t, TextOK(t), NEW frag,
           frag.allow \in Seq(ConfigRules), frag.deny \in Seq(ConfigRules),
           frag.services \in Seq(Services)
    PROVE  TextOK(applyFragment(t, frag).out) /\ Grows(t, applyFragment(t, frag))
<1> DEFINE n == Len(frag.allow) + Len(frag.deny) + Len(frag.services)
           Body(a, i) == IF i = 0 THEN Unchanged(t) ELSE applyEntry(t, frag, a[i - 1], i)
           h == CHOOSE a : a = [i \in 0..n |-> Body(a, i)]
           V == {m \in 0..n : TextOK(h[m].out) /\ Grows(t, h[m])}
<1>1. n \in Nat
  <2>1. Len(frag.allow) \in Nat /\ Len(frag.deny) \in Nat /\ Len(frag.services) \in Nat
    OBVIOUS
  <2>2. \A x, y, z \in Nat : x + y + z \in Nat
    OBVIOUS
  <2> QED BY <2>1, <2>2, Zenon
<1>2. h = [i \in 0..n |-> Body(h, i)]
  <2>1. \E a : a = [i \in 0..n |-> Body(a, i)]
    <3>1. PICK a : EntriesGo(a, t, frag, n)
      <4> HIDE DEF n
      <4> QED BY <1>1, EditsExist, Zenon
    <3>2. a = [i \in 0..n |-> Body(a, i)]
      BY <3>1, Zenon DEF EntriesGo
    <3> HIDE DEF Body, n
    <3> QED BY <3>2
  <2> HIDE DEF n, Body
  <2> QED BY <2>1, Zenon
<1>3. applyFragment(t, frag) = h[n]
  BY Zenon DEF applyFragment
<1> HIDE DEF h
<1>4. \A i \in 0..n : h[i] = Body(h, i)
  <2> HIDE DEF n, Body
  <2> QED BY <1>2, Zenon
<1>5. 0 \in V
  <2>1. h[0] = Unchanged(t) /\ 0 \in 0..n
    <3> HIDE DEF n
    <3>1. 0 \in 0..n
      BY <1>1
    <3> QED BY <1>4, <3>1, Zenon
  <2> QED BY <2>1, SameText, SameGrows, Zenon
<1>6. ASSUME NEW i \in 1..n, i - 1 \in V PROVE i \in V
  <2>1. i \in 0..n /\ i # 0
    <3> HIDE DEF n
    <3> QED BY <1>1
  <2>2. h[i] = applyEntry(t, frag, h[i - 1], i)
    <3> HIDE DEF n
    <3> QED BY <1>4, <2>1, Zenon
  <2>3. TextOK(h[i - 1].out) /\ Grows(t, h[i - 1])
    BY <1>6, Zenon
  <2>4. TextOK(applyEntry(t, frag, h[i - 1], i).out)
    BY <2>3, EntryType
  <2>5. Grows(t, applyEntry(t, frag, h[i - 1], i))
    BY <2>3, EntryGrows
  <2> QED BY <2>1, <2>2, <2>4, <2>5, Zenon
<1>7. \A i \in 0..n : i \in V
  <2> HIDE DEF V, n
  <2> QED BY <1>1, <1>5, <1>6, UpTo
<1>8. n \in 0..n
  <2> HIDE DEF n
  <2> QED BY <1>1
<1> QED BY <1>3, <1>7, <1>8, Zenon

(***************************************************************************)
(* Command lines.                                                          *)
(***************************************************************************)

\* Flags with other values of some.
LEMMA FlagsReplaced ==
    ASSUME NEW B, NEW P, NEW M, NEW T, NEW U, NEW A, NEW R,
           R = [once : B, global : B, deny : B, allPaths : B, paths : P, methods : M,
                mode : T, reason : U, inject : U, inCage : B, answer : A],
           NEW o \in R
    PROVE  /\ \A b \in B : [o EXCEPT !.allPaths = b] \in R
           /\ \A p \in P : [o EXCEPT !.paths = p] \in R
           /\ \A b \in B, u \in U : [o EXCEPT !.deny = b, !.reason = u] \in R
OBVIOUS

Paths3 == Seq(Seq(Seq(Words)))

\* The flags of what the URL says.
LEMMA URLType ==
    ASSUME NEW opts \in Flags, NEW path \in Seq(Seq(Words))
    PROVE  setURLPath(opts, path) \in Flags
<1> DEFINE M == Seq(Words)
           A == Opt(PathLists)
<1>1. Flags = [once : BOOLEAN, global : BOOLEAN, deny : BOOLEAN, allPaths : BOOLEAN,
               paths : Paths3, methods : M, mode : Modes, reason : Notes,
               inject : Notes, inCage : BOOLEAN, answer : A]
  BY Zenon DEF Flags, Paths3, PathLists, Modes, Notes
<1>2. <<path>> \in Paths3
  BY DEF Paths3
<1> HIDE DEF M, A
<1>3. /\ \A b \in BOOLEAN : [opts EXCEPT !.allPaths = b] \in Flags
      /\ \A p \in Paths3 : [opts EXCEPT !.paths = p] \in Flags
  BY <1>1, FlagsReplaced, Zenon
<1>4. [opts EXCEPT !.allPaths = TRUE] \in Flags
  BY <1>3, Zenon
<1>5. [opts EXCEPT !.paths = <<path>>] \in Flags
  BY <1>2, <1>3, Zenon
<1> QED BY <1>4, <1>5, Zenon DEF setURLPath

\* The flags of a deny.
LEMMA DenyFlags ==
    ASSUME NEW reason \in STRING
    PROVE  [domainAddOpts EXCEPT !.deny = TRUE, !.reason = reason] \in Flags
<1> DEFINE M == Seq(Words)
           A == Opt(PathLists)
           R == [once : BOOLEAN, global : BOOLEAN, deny : BOOLEAN, allPaths : BOOLEAN,
                 paths : Paths3, methods : M, mode : Modes, reason : Notes,
                 inject : Notes, inCage : BOOLEAN, answer : A]
<1>1. Flags = R
  BY Zenon DEF Flags, Paths3, PathLists, Modes, Notes
<1>2. /\ <<>> \in Paths3 /\ <<>> \in M /\ "" \in Modes /\ "" \in Notes /\ Nil \in A
      /\ reason \in Notes
  <2>1. <<>> \in Paths3 /\ <<>> \in M
    BY DEF Paths3
  <2>2. Nil \in A
    BY OptType
  <2>3. "" \in Modes /\ "" \in Notes /\ reason \in Notes
    BY DEF Modes, Notes
  <2> QED BY <2>1, <2>2, <2>3
<1> HIDE DEF M, A
<1>3. domainAddOpts \in R
  BY <1>2 DEF domainAddOpts
<1> HIDE DEF R
<1>4. \A b \in BOOLEAN, u \in Notes :
        [domainAddOpts EXCEPT !.deny = b, !.reason = u] \in R
  BY <1>3, FlagsReplaced, Zenon DEF R
<1> QED BY <1>1, <1>2, <1>4, Zenon

\* What a rule of the command line is.
AddedOK(a) ==
    /\ a.target \in {"once", "global", "project"}
    /\ a.list \in RuleKeys
    /\ a.rule \in ConfigRules

\* The paths that a command line settles on.
LEMMA PathsDecided ==
    ASSUME NEW opts \in Flags, DecidedPaths(opts) # Nil
    PROVE  DecidedPaths(opts)[1] \in PathLists
<1>1. opts.paths \in Paths3 /\ opts.answer \in Opt(PathLists)
  BY DEF Flags, Paths3, PathLists
<1>2. Some(opts.paths) \in PathLists /\ Nil \in PathLists
  BY <1>1, OptType DEF PathLists, Paths3
<1>3. opts.answer # Nil => opts.answer[1] \in PathLists
  BY <1>1, OptType, Zenon
<1>4. \A x : Some(x)[1] = x
  BY DEF Some
<1> QED BY <1>2, <1>3, <1>4, Zenon DEF DecidedPaths, promptPaths

\* What `domain add` makes of its host and flags.
LEMMA DomainAddType ==
    ASSUME NEW host \in Seq(Words), NEW opts \in Flags, runDomainAdd(host, opts) # Nil
    PROVE  AddedOK(runDomainAdd(host, opts)[1])
<1> DEFINE paths == DecidedPaths(opts)
           tunnel == opts.mode = "passthrough"
           methods == IF opts.methods = <<>> THEN Nil ELSE Some(opts.methods)
           mode == IF tunnel THEN opts.mode ELSE ""
           rule == [host |-> host, paths |-> paths[1], methods |-> methods,
                    mode |-> mode, reason |-> opts.reason, inject |-> opts.inject,
                    in_cage |-> opts.inCage]
           target == Target(opts.once, opts.global)
           list == IF opts.deny THEN "deny" ELSE "allow"
           added == [target |-> target, list |-> list, rule |-> rule]
<1>1. runDomainAdd(host, opts) = Some(added) /\ paths # Nil
  BY Zenon DEF runDomainAdd
<1>2. paths[1] \in PathLists
  BY <1>1, PathsDecided
<1>3. /\ opts.methods \in Seq(Words) /\ opts.mode \in Modes /\ opts.reason \in Notes
      /\ opts.inject \in Notes /\ opts.inCage \in BOOLEAN
  BY DEF Flags, Modes, Notes
<1>4. methods \in MethodLists
  <2>1. Nil \in MethodLists /\ Some(opts.methods) \in MethodLists
    BY <1>3, OptType DEF MethodLists
  <2> QED BY <2>1, Zenon
<1>5. mode \in Modes
  <2>1. "" \in Modes
    BY DEF Modes
  <2> QED BY <1>3, <2>1, Zenon
<1>6. ConfigRules = [host : Seq(Words), paths : PathLists, methods : MethodLists,
                     mode : Modes, reason : Notes, inject : Notes, in_cage : BOOLEAN]
  BY Zenon DEF ConfigRules, PathLists, MethodLists, Modes, Notes
<1>7. rule \in ConfigRules
  <2> HIDE DEF paths, methods, mode
  <2> QED BY <1>2, <1>3, <1>4, <1>5, <1>6
<1>8. target \in {"once", "global", "project"}
  BY Zenon DEF Target
<1>9. list \in RuleKeys
  BY DEF RuleKeys
<1> HIDE DEF target, list, rule
<1>10. AddedOK(added)
  BY <1>7, <1>8, <1>9 DEF AddedOK
<1>11. \A x : Some(x)[1] = x
  BY DEF Some
<1> QED BY <1>1, <1>10, <1>11, Zenon

\* The rule that a command line means.
LEMMA AddedType ==
    ASSUME NEW c, NEW fs, CommandOK(c, fs), Adds(c), Added(c) # Nil
    PROVE  AddedOK(Added(c)[1])
<1>1. CASE c.op = "allow"
  <2>1. /\ c.url.host \in Seq(Words) /\ c.url.path \in Seq(Seq(Words))
        /\ c.opts \in Flags
    BY <1>1 DEF CommandOK
  <2>2. Added(c) = runDomainAdd(c.url.host, setURLPath(c.opts, c.url.path))
    BY <1>1, Zenon DEF Added, runAllowWith
  <2> QED BY <2>1, <2>2, URLType, DomainAddType, Zenon
<1>2. CASE c.op = "deny"
  <2> DEFINE opts == [domainAddOpts EXCEPT !.deny = TRUE, !.reason = c.reason]
  <2>1. /\ c.url.host \in Seq(Words) /\ c.url.path \in Seq(Seq(Words))
        /\ c.reason \in STRING
    BY <1>2 DEF CommandOK
  <2>2. opts \in Flags
    BY <2>1, DenyFlags
  <2>3. Added(c) = runDomainAdd(c.url.host, setURLPath(opts, c.url.path))
    BY <1>2 DEF Added, runDeny
  <2> HIDE DEF opts
  <2> QED BY <2>1, <2>2, <2>3, URLType, DomainAddType, Zenon
<1>3. CASE c.op = "domain add"
  <2>1. c.host \in Seq(Words) /\ c.opts \in Flags
    BY <1>3 DEF CommandOK
  <2>2. Added(c) = runDomainAdd(c.host, c.opts)
    BY <1>3 DEF Added
  <2> QED BY <2>1, <2>2, DomainAddType, Zenon
<1> QED BY <1>1, <1>2, <1>3 DEF Adds, AddOps

(***************************************************************************)
(* The files a session watches: those that were read, by the same walk     *)
(* over the includes, but for the files that were seen before.             *)
(***************************************************************************)

Fine(x) == x.err = ""

\* What has no error is made of what has none.
LEMMA OverError ==
    ASSUME NEW a, NEW b, Fine(over(a, b))
    PROVE  Fine(a) /\ Fine(b)
BY DEF over, Fine

\* If layers put over one another come to no error, none of them is one.
LEMMA AllFine ==
    ASSUME NEW n \in Nat, NEW acc, Fine(acc[n]),
           NEW X, \A i \in 1..n : acc[i] = over(acc[i - 1], X[i])
    PROVE  \A i \in 1..n : Fine(X[i])
<1> DEFINE S == {k \in 0..n : Fine(acc[n - k])}
<1>1. 0 \in S
  OBVIOUS
<1>2. ASSUME NEW k \in 1..n, k - 1 \in S PROVE k \in S
  <2>1. n - (k - 1) \in 1..n /\ (n - (k - 1)) - 1 = n - k /\ k \in 0..n
    OBVIOUS
  <2>2. Fine(acc[n - (k - 1)])
    BY <1>2
  <2>3. Fine(acc[n - k])
    BY <2>1, <2>2, OverError
  <2> QED BY <2>1, <2>3
<1>3. \A k \in 0..n : k \in S
  <2> HIDE DEF S
  <2> QED BY <1>1, <1>2, UpTo
<1> SUFFICES ASSUME NEW i \in 1..n PROVE Fine(X[i])
  OBVIOUS
<1>4. n - i \in 0..n /\ n - (n - i) = i
  OBVIOUS
<1>5. Fine(acc[i])
  BY <1>3, <1>4
<1> QED BY <1>5, OverError

\* A file that was resolved at some depth was there and parsed.
LEMMA ResolvedRow ==
    ASSUME NEW fs, FilesOK(fs), NEW d \in 0..Deepest, NEW path \in Paths,
           NEW stack \in SUBSET Paths, Fine(Levels(fs)[d][path][stack])
    PROVE  /\ FileError(fs, path, stack, d) = ""
           /\ d \in 0..maxIncludeDepth
           /\ Parse(fs[Canon(path)])[1].include \in Seq(Includes)
           /\ Fine(Included(fs, path, stack, Levels(fs)[d + 1]))
<1>0. maxIncludeDepth \in Nat
  BY LoadAssumption
<1>1. Levels(fs)[d] = Level(fs, Levels(fs), d)
  BY LevelsExist, Zenon
<1>2. Level(fs, Levels(fs), d)[path][stack] =
        IF FileError(fs, path, stack, d) # "" THEN Err(FileError(fs, path, stack, d))
        ELSE Included(fs, path, stack, Levels(fs)[d + 1])
  BY Zenon DEF Level
<1>3. FileError(fs, path, stack, d) = ""
  <2>1. \A e : Err(e).err = e
    BY DEF Err
  <2> QED BY <1>1, <1>2, <2>1, Zenon DEF Fine
<1>4. ~(d > maxIncludeDepth) /\ Canon(path) \in DOMAIN fs /\ Parse(fs[Canon(path)]) # Nil
  BY <1>3 DEF FileError
<1>5. d \in 0..maxIncludeDepth
  <2>1. \A m \in Nat : \A k \in 0..(m + 1) : ~(k > m) => k \in 0..m
    OBVIOUS
  <2>2. d \in 0..(maxIncludeDepth + 1)
    BY Zenon DEF Deepest
  <2> QED BY <1>0, <1>4, <2>1, <2>2, Zenon
<1>6. Parse(fs[Canon(path)])[1].include \in Seq(Includes)
  <2>1. TextOK(fs[Canon(path)])
    BY <1>4 DEF FilesOK
  <2>2. \A y : Some(y)[1] = y
    BY DEF Some
  <2>3. Parse(fs[Canon(path)])[1] = applyDefaults(fs[Canon(path)])
    BY <1>4, <2>1, <2>2, ParseType
  <2> QED BY <1>4, <2>1, <2>3, ParseType
<1> QED BY <1>1, <1>2, <1>3, <1>5, <1>6, Zenon

\* An include of a file, and the file it names.
IncludeOf(path, own, i) == resolveIncludePath(path, own.include[i])

\* And each of its includes is in scope and was resolved, one deeper.
LEMMA ResolvedFile ==
    ASSUME NEW fs, FilesOK(fs), NEW d \in 0..Deepest, NEW path \in Paths,
           NEW stack \in SUBSET Paths, Fine(Levels(fs)[d][path][stack]),
           NEW own, own = Parse(fs[Canon(path)])[1], NEW i \in 1..Len(own.include)
    PROVE  /\ IncludeOf(path, own, i) # Nil
           /\ IncludeOf(path, own, i)[1] \in Paths
           /\ Fine(Levels(fs)[d + 1][IncludeOf(path, own, i)[1]][stack \cup {Canon(path)}])
<1> PICK r : r = Levels(fs)
  OBVIOUS
<1> DEFINE n == Len(own.include)
<1>1. own.include \in Seq(Includes) /\ Fine(Included(fs, path, stack, r[d + 1]))
  BY ResolvedRow, Zenon
<1>2. \A s \in Seq(Includes) : Len(s) \in Nat /\ \A j \in 1..Len(s) : s[j] \in Includes
  OBVIOUS
<1>3. n \in Nat /\ i \in 1..n /\ own.include[i] \in Includes
  BY <1>1, <1>2, Zenon
<1>4. PICK acc : /\ acc[0] = Ok(EmptyConfig)
                 /\ \A j \in 1..n :
                       acc[j] = over(acc[j - 1], Fetched(path, own, stack, r[d + 1], j))
                 /\ Included(fs, path, stack, r[d + 1]) = over(acc[n], Ok(own))
  BY <1>3, IncludedHistory, SMTT(30)
<1>5. Fine(acc[n])
  <2>1. Fine(over(acc[n], Ok(own)))
    BY <1>1, <1>4, Zenon
  <2> HIDE DEF n
  <2> QED BY <2>1, OverError, Zenon
<1> HIDE DEF n
<1> DEFINE X == [j \in 1..n |-> Fetched(path, own, stack, r[d + 1], j)]
<1>6. \A j \in 1..n : X[j] = Fetched(path, own, stack, r[d + 1], j)
  BY Zenon
<1> HIDE DEF X
<1>7. Fine(X[i])
  <2>1. \A j \in 1..n : acc[j] = over(acc[j - 1], X[j])
    BY <1>4, <1>6, Zenon
  <2> QED BY <1>3, <1>5, <2>1, AllFine, Zenon
<1>8. Fine(Fetched(path, own, stack, r[d + 1], i))
  BY <1>3, <1>6, <1>7, Zenon
<1>9. ~Fine(Err("scope"))
  BY DEF Err, Fine
<1>10. IncludeOf(path, own, i) # Nil
  BY <1>8, <1>9, Zenon DEF Fetched, IncludeOf
<1>11. Fetched(path, own, stack, r[d + 1], i)
       = r[d + 1][IncludeOf(path, own, i)[1]][stack \cup {Canon(path)}]
  BY <1>10, Zenon DEF Fetched, IncludeOf
<1>12. IncludeOf(path, own, i)[1] \in Paths
  BY <1>3, <1>10, Zenon DEF IncludeOf, Includes
<1> QED BY <1>8, <1>10, <1>11, <1>12, Zenon

\* The places of a list.
LEMMA Places ==
    ASSUME NEW n \in Nat
    PROVE  /\ 0 \in 0..n /\ n \in 0..n /\ 0 \in 0..(n + 1)
           /\ \A i \in 1..n : i \in 0..n /\ i # 0 /\ i - 1 \in 0..n
           /\ \A i \in 0..n : i # 0 => i \in 1..n
           /\ \A i \in 1..n : \A j \in 1..i : j = i \/ j \in 1..(i - 1)
           /\ 1..0 = {}
OBVIOUS

\* A walk from s comes to path and ends without an error, at t.
WalksTo(walk, s, path, t) ==
    walk = Walk("", t) /\ s \cup {Canon(path)} \subseteq t

\* If every include of a file is walked without an error, from what V says was
\* seen to what V says was seen, then so is the file, and all includes are seen.
LEMMA CollectedWalks ==
    ASSUME NEW fs, NEW path, NEW stack, NEW seen, NEW deeper,
           NEW own, own = Parse(fs[Canon(path)])[1],
           NEW n \in Nat, n = Len(own.include),
           NEW V, seen \cup {Canon(path)} \in V,
           \A i \in 1..n : IncludeOf(path, own, i) # Nil,
           \A i \in 1..n, s \in V : \E t \in V :
                WalksTo(deeper[IncludeOf(path, own, i)[1]][stack \cup {Canon(path)}][s],
                        s, IncludeOf(path, own, i)[1], t)
    PROVE  \E t \in V : /\ WalksTo(Collected(fs, path, stack, seen, deeper), seen, path, t)
                        /\ \A i \in 1..n : Canon(IncludeOf(path, own, i)[1]) \in t
<1> DEFINE W(i, w) == IF w.err # "" THEN w
                      ELSE IF resolveIncludePath(path, own.include[i]) = Nil
                      THEN Walk("scope", {})
                      ELSE deeper[resolveIncludePath(path, own.include[i])[1]]
                                 [stack \cup {Canon(path)}][w.seen]
           z == seen \cup {Canon(path)}
           Body(a, i) == IF i = 0 THEN Walk("", z) ELSE W(i, a[i - 1])
           Fit(i, s, t) ==
                WalksTo(deeper[IncludeOf(path, own, i)[1]][stack \cup {Canon(path)}][s],
                        s, IncludeOf(path, own, i)[1], t)
           next == [i \in 1..n |-> [s \in V |-> CHOOSE t \in V : Fit(i, s, t)]]
<1>1. \A i \in 1..n, s \in V : next[i][s] \in V /\ Fit(i, s, next[i][s])
  <2>1. \A i \in 1..n, s \in V : \E t \in V : Fit(i, s, t)
    OBVIOUS
  <2> HIDE DEF Fit
  <2> QED BY <2>1, Zenon
<1>2. next \in [1..n -> [V -> V]]
  <2>0. \A i \in 1..n, s \in V : \E t \in V : Fit(i, s, t)
    OBVIOUS
  <2>1. \A i \in 1..n : next[i] \in [V -> V]
    <3> SUFFICES ASSUME NEW i \in 1..n PROVE next[i] \in [V -> V]
      OBVIOUS
    <3> DEFINE row == [s \in V |-> CHOOSE t \in V : Fit(i, s, t)]
    <3> HIDE DEF Fit
    <3>1. next[i] = row
      BY Zenon
    <3>2. row \in [V -> V]
      <4>1. \A s \in V : (CHOOSE t \in V : Fit(i, s, t)) \in V
        BY <2>0, Zenon
      <4> QED BY <4>1, Zenon
    <3> QED BY <3>1, <3>2, Zenon
  <2>2. next = [i \in 1..n |-> next[i]]
    BY Zenon
  <2> HIDE DEF next
  <2> QED BY <2>1, <2>2, Zenon
<1>3. \A i \in 1..n, s \in V : W(i, Walk("", s)) = Walk("", next[i][s])
  <2>1. \A s : Walk("", s).err = "" /\ Walk("", s).seen = s
    BY DEF Walk
  <2> HIDE DEF next, Fit
  <2> SUFFICES ASSUME NEW i \in 1..n, NEW s \in V
               PROVE  W(i, Walk("", s)) = Walk("", next[i][s])
    BY Zenon
  <2>2. deeper[IncludeOf(path, own, i)[1]][stack \cup {Canon(path)}][s] = Walk("", next[i][s])
    BY <1>1, Zenon DEF Fit, WalksTo
  <2>3. IncludeOf(path, own, i) # Nil
    BY Zenon
  <2>4. resolveIncludePath(path, own.include[i]) # Nil
        /\ deeper[resolveIncludePath(path, own.include[i])[1]][stack \cup {Canon(path)}][s]
             = Walk("", next[i][s])
    BY <2>2, <2>3, Zenon DEF IncludeOf
  <2> QED BY <2>1, <2>4, Zenon
<1>4. z \in V
  OBVIOUS
<1>5. \A i \in 1..n, s \in V : s \cup {Canon(IncludeOf(path, own, i)[1])} \subseteq next[i][s]
  <2> HIDE DEF next
  <2> QED BY <1>1, Zenon DEF Fit, WalksTo
<1> HIDE DEF next, z, Fit
<1>6. PICK g \in [0..n -> V] : Goes(g, n, z, next)
  BY <1>2, <1>4, Iterate
<1>7. g[0] = z /\ \A i \in 1..n : g[i] = next[i][g[i - 1]] /\ g[i - 1] \in V
  <2> QED BY <1>6, Places, Zenon DEF Goes
<1>8. \E a : a = [i \in 0..n |-> Body(a, i)]
  <2> DEFINE a == [i \in 0..n |-> Walk("", g[i])]
  <2>1. \A i \in 0..n : a[i] = Walk("", g[i])
    BY Zenon
  <2>2. ASSUME NEW i \in 0..n PROVE Walk("", g[i]) = Body(a, i)
    <3>1. CASE i = 0
      BY <1>7, <3>1, Zenon
    <3>2. CASE i # 0
      <4>1. i \in 1..n /\ i - 1 \in 0..n
        BY <3>2, Places, Zenon
      <4>2. W(i, a[i - 1]) = Walk("", g[i])
        <5> HIDE DEF a, W
        <5>1. a[i - 1] = Walk("", g[i - 1])
          BY <2>1, <4>1, Zenon
        <5>2. W(i, Walk("", g[i - 1])) = Walk("", next[i][g[i - 1]])
          BY <1>3, <1>7, <4>1, Zenon
        <5> QED BY <1>7, <4>1, <5>1, <5>2, Zenon
      <4> HIDE DEF a, W
      <4> QED BY <3>2, <4>2, Zenon
    <3> QED BY <3>1, <3>2
  <2>3. a = [i \in 0..n |-> Body(a, i)]
    <3> HIDE DEF Body
    <3> QED BY <2>2, Zenon
  <2> HIDE DEF a, Body
  <2> QED BY <2>3, Zenon
<1> DEFINE acc == CHOOSE a : a = [i \in 0..n |-> Body(a, i)]
<1>9. acc = [i \in 0..n |-> Body(acc, i)]
  <2> HIDE DEF Body
  <2> QED BY <1>8, Zenon
<1>10. Collected(fs, path, stack, seen, deeper) = acc[n]
  BY Zenon DEF Collected, z
<1> HIDE DEF acc
<1>11. acc[0] = Walk("", z) /\ \A i \in 1..n : acc[i] = W(i, acc[i - 1])
  <2>1. \A i \in 0..n : acc[i] = Body(acc, i)
    <3> HIDE DEF Body
    <3> QED BY <1>9, Zenon
  <2> HIDE DEF W
  <2> QED BY <2>1, Places, Zenon
<1> HIDE DEF W
<1> DEFINE S == {i \in 0..n : /\ acc[i] = Walk("", g[i]) /\ z \subseteq g[i]
                              /\ \A j \in 1..i : Canon(IncludeOf(path, own, j)[1]) \in g[i]}
<1>12. 0 \in S
  BY <1>7, <1>11, Places, Zenon
<1>13. ASSUME NEW i \in 1..n, i - 1 \in S PROVE i \in S
  <2>1. /\ acc[i - 1] = Walk("", g[i - 1]) /\ z \subseteq g[i - 1]
        /\ \A j \in 1..(i - 1) : Canon(IncludeOf(path, own, j)[1]) \in g[i - 1]
    BY <1>13, Zenon
  <2>2. g[i - 1] \in V /\ g[i] = next[i][g[i - 1]] /\ acc[i] = W(i, acc[i - 1])
    BY <1>7, <1>11, Zenon
  <2>3. g[i - 1] \cup {Canon(IncludeOf(path, own, i)[1])} \subseteq g[i]
    BY <1>5, <2>2, Zenon
  <2>4. acc[i] = Walk("", g[i])
    BY <1>3, <2>1, <2>2, ZenonT(60)
  <2>5. i \in 0..n /\ \A j \in 1..i : j = i \/ j \in 1..(i - 1)
    BY Places, Zenon
  <2>6. \A j \in 1..i : Canon(IncludeOf(path, own, j)[1]) \in g[i]
    BY <2>1, <2>3, <2>5, Zenon
  <2>7. z \subseteq g[i]
    BY <2>1, <2>3, Zenon
  <2> QED BY <2>4, <2>5, <2>6, <2>7, Zenon
<1>14. n \in S
  <2>1. \A i \in 0..n : i \in S
    <3> HIDE DEF S
    <3> QED BY <1>12, <1>13, UpTo
  <2> QED BY <2>1, Places, Zenon
<1>15. g[n] \in V
  BY <1>6, Places, Zenon
<1> QED BY <1>10, <1>14, <1>15, Zenon DEF z, WalksTo

\* Paths, and what the files of these names include.
AndIncluded(read) == read \cup UNION {IncludedBy(p) : p \in read}

Roots == {p \in {GlobalPath, ProjectPath} : Canon(p) \in DOMAIN files}

\* The paths that are read, by how many includes they are away.
ReadBy(reach) ==
    /\ reach[0] = Roots
    /\ \A n \in 1..maxIncludeDepth : reach[n] = AndIncluded(reach[n - 1])
    /\ reach[maxIncludeDepth] = ReadPaths
    /\ \A n \in 0..maxIncludeDepth : reach[n] \subseteq ReadPaths

LEMMA ReadHistory ==
    /\ ReadPaths \subseteq Paths
    /\ \E reach : ReadBy(reach)
<1> DEFINE n == maxIncludeDepth
           V == SUBSET Paths
           step == [i \in 1..n |-> [X \in V |-> AndIncluded(X)]]
           Body(r, i) ==
                IF i = 0 THEN {p \in {GlobalPath, ProjectPath} : Canon(p) \in DOMAIN files}
                ELSE r[i - 1] \cup UNION {IncludedBy(p) : p \in r[i - 1]}
<1>1. n \in Nat /\ Roots \in V
  BY LoadAssumption DEF Roots
<1>2. \A X \in V : AndIncluded(X) \in V
  <2>1. \A p : IncludedBy(p) \subseteq Paths
    BY DEF IncludedBy
  <2> QED BY <2>1, Zenon DEF AndIncluded
<1>3. step \in [1..n -> [V -> V]] /\ \A i \in 1..n, X \in V : step[i][X] = AndIncluded(X)
  <2>1. [X \in V |-> AndIncluded(X)] \in [V -> V]
    BY <1>2, Zenon
  <2> HIDE DEF V, n
  <2> QED BY <2>1, Zenon
<1> HIDE DEF V, n, step
<1>4. PICK g \in [0..n -> V] : Goes(g, n, Roots, step)
  BY <1>1, <1>3, Iterate
<1>5. g[0] = Roots /\ \A i \in 1..n : g[i] = AndIncluded(g[i - 1]) /\ g[i - 1] \in V
  <2>1. g[0] = Roots /\ \A i \in 1..n : g[i] = step[i][g[i - 1]] /\ g[i - 1] \in V
    BY <1>1, <1>4, Places, Zenon DEF Goes
  <2> QED BY <1>3, <2>1, Zenon
<1>6. \E r : r = [i \in 0..n |-> Body(r, i)]
  <2>1. \A i \in 0..n : g[i] = Body(g, i)
    <3> SUFFICES ASSUME NEW i \in 0..n PROVE g[i] = Body(g, i)
      BY Zenon
    <3>1. CASE i = 0
      BY <1>5, <3>1, Zenon DEF Roots
    <3>2. CASE i # 0
      BY <1>1, <1>5, <3>2, Places, Zenon DEF AndIncluded
    <3> QED BY <3>1, <3>2
  <2>2. g = [i \in 0..n |-> Body(g, i)]
    <3> HIDE DEF Body
    <3> QED BY <1>4, <2>1
  <2> HIDE DEF Body
  <2> QED BY <2>2, Zenon
<1> DEFINE reach == CHOOSE r : r = [i \in 0..n |-> Body(r, i)]
<1>7. reach = [i \in 0..n |-> Body(reach, i)]
  <2> HIDE DEF Body
  <2> QED BY <1>6, Zenon
<1>8. ReadPaths = reach[n]
  BY Zenon DEF ReadPaths, n
<1> HIDE DEF reach
<1>9. /\ reach[0] = Roots
      /\ \A i \in 1..n : reach[i] = AndIncluded(reach[i - 1])
  <2>1. \A i \in 0..n : reach[i] = Body(reach, i)
    <3> HIDE DEF Body
    <3> QED BY <1>7, Zenon
  <2>2. reach[0] = Roots
    BY <1>1, <2>1, Places, Zenon DEF Roots
  <2> SUFFICES ASSUME NEW i \in 1..n PROVE reach[i] = AndIncluded(reach[i - 1])
    BY <2>2, Zenon
  <2>3. i \in 0..n /\ i # 0
    BY <1>1
  <2> QED BY <2>1, <2>3, Zenon DEF AndIncluded
<1> HIDE DEF Body
<1>10. \A i \in 0..n : reach[i] \in V
  <2> DEFINE S == {i \in 0..n : reach[i] \in V}
  <2>1. 0 \in S
    BY <1>1, <1>9, Places, Zenon
  <2>2. ASSUME NEW i \in 1..n, i - 1 \in S PROVE i \in S
    <3>1. i \in 0..n
      BY <1>1, Places, Zenon
    <3>2. AndIncluded(reach[i - 1]) \in V
      BY <1>2, <2>2, Zenon
    <3> QED BY <1>9, <3>1, <3>2, Zenon
  <2>3. \A i \in 0..n : i \in S
    <3> HIDE DEF S
    <3> QED BY <1>1, <2>1, <2>2, UpTo
  <2> QED BY <2>3, Zenon
<1>11. \A i \in 0..n : reach[i] \subseteq reach[n]
  <2> DEFINE S == {k \in 0..n : reach[n - k] \subseteq reach[n]}
  <2>1. 0 \in S
    <3>1. n - 0 = n
      BY <1>1
    <3> QED BY <1>1, <3>1, Places, Zenon
  <2>2. ASSUME NEW k \in 1..n, k - 1 \in S PROVE k \in S
    <3>1. n - (k - 1) \in 1..n /\ (n - (k - 1)) - 1 = n - k /\ k \in 0..n
      BY <1>1
    <3>2. reach[n - k] \subseteq reach[n - (k - 1)]
      BY <1>9, <3>1, Zenon DEF AndIncluded
    <3> QED BY <2>2, <3>1, <3>2, Zenon
  <2>3. \A k \in 0..n : k \in S
    <3> HIDE DEF S
    <3> QED BY <1>1, <2>1, <2>2, UpTo
  <2> SUFFICES ASSUME NEW i \in 0..n PROVE reach[i] \subseteq reach[n]
    BY Zenon
  <2>4. n - i \in 0..n /\ n - (n - i) = i
    BY <1>1
  <2>5. n - i \in S
    BY <2>3, <2>4, Zenon
  <2> QED BY <2>4, <2>5, Zenon
<1>12. ReadBy(reach)
  BY <1>8, <1>9, <1>11, Zenon DEF ReadBy, n
<1>13. ReadPaths \subseteq Paths
  BY <1>1, <1>8, <1>10, Places, Zenon DEF V
<1> QED BY <1>12, <1>13, Zenon

\* What a file of this name includes is what its includes name.
LEMMA IncludesNamed ==
    ASSUME NEW path, NEW own, own = Parse(files[Canon(path)])[1],
           own.include \in Seq(Includes)
    PROVE  /\ \A i \in 1..Len(own.include) :
                IncludeOf(path, own, i) # Nil /\ IncludeOf(path, own, i)[1] \in Paths
                    => IncludeOf(path, own, i)[1] \in IncludedBy(path)
           /\ \A p \in IncludedBy(path) :
                \E i \in 1..Len(own.include) : IncludeOf(path, own, i)[1] = p
<1>1. \A inc, p : resolveIncludePath(path, inc) = Some(p)
            <=> resolveIncludePath(path, inc) # Nil /\ resolveIncludePath(path, inc)[1] = p
  <2>1. \A p : Some(p) # Nil /\ Some(p)[1] = p
    BY DEF Some, Nil
  <2>2. \A inc : resolveIncludePath(path, inc) # Nil
            => \E p : resolveIncludePath(path, inc) = Some(p)
    BY Zenon DEF resolveIncludePath
  <2> QED BY <2>1, <2>2, Zenon
<1>2. \A s \in Seq(Includes) : DOMAIN s = 1..Len(s)
  OBVIOUS
<1>3. DOMAIN own.include = 1..Len(own.include)
  BY <1>2, Zenon
<1> QED BY <1>1, <1>3, ZenonT(90) DEF IncludedBy, Elements, IncludeOf

\* What was seen is complete, except for the files on the way to this one:
\* whatever a file that was seen includes was seen too, under any name.
SeenAround(seen, stack) ==
    \A q \in ReadPaths : Canon(q) \in seen \ stack =>
        \A p \in IncludedBy(q) : Canon(p) \in seen

WalkStates(stack) ==
    {s \in SUBSET Paths : s \subseteq {Canon(p) : p \in ReadPaths} /\ SeenAround(s, stack)}

LEMMA CanonType == \A p \in Paths : Canon(p) \in Paths
BY LoadAssumption DEF Canon

\* A file that is entered is on the way; it is complete once its includes are.
LEMMA EnterAndLeave ==
    ASSUME NEW path \in ReadPaths, NEW stack \in SUBSET Paths
    PROVE  /\ \A s \in WalkStates(stack) :
                s \cup {Canon(path)} \in WalkStates(stack \cup {Canon(path)})
           /\ NamesAgree =>
                \A t \in WalkStates(stack \cup {Canon(path)}) :
                    (\A p \in IncludedBy(path) : Canon(p) \in t) => t \in WalkStates(stack)
<1>0. path \in Paths /\ Canon(path) \in Paths
  BY ReadHistory, CanonType
<1>1. ASSUME NEW s \in WalkStates(stack)
      PROVE  s \cup {Canon(path)} \in WalkStates(stack \cup {Canon(path)})
  <2>1. s \in SUBSET Paths /\ s \subseteq {Canon(p) : p \in ReadPaths} /\ SeenAround(s, stack)
    BY Zenon DEF WalkStates
  <2>2. s \cup {Canon(path)} \in SUBSET Paths
        /\ s \cup {Canon(path)} \subseteq {Canon(p) : p \in ReadPaths}
    BY <1>0, <2>1
  <2>3. SeenAround(s \cup {Canon(path)}, stack \cup {Canon(path)})
    BY <2>1, Zenon DEF SeenAround
  <2> QED BY <2>2, <2>3, Zenon DEF WalkStates
<1>2. ASSUME NamesAgree, NEW t \in WalkStates(stack \cup {Canon(path)}),
             \A p \in IncludedBy(path) : Canon(p) \in t
      PROVE  t \in WalkStates(stack)
  <2>1. t \in SUBSET Paths /\ t \subseteq {Canon(p) : p \in ReadPaths}
        /\ SeenAround(t, stack \cup {Canon(path)})
    BY Zenon DEF WalkStates
  <2>2. SeenAround(t, stack)
    <3> SUFFICES ASSUME NEW q \in ReadPaths, Canon(q) \in t \ stack, NEW p \in IncludedBy(q)
                 PROVE  Canon(p) \in t
      BY Zenon DEF SeenAround
    <3>1. CASE Canon(q) = Canon(path)
      <4>1. IncludedBy(q) = IncludedBy(path)
        BY <1>2, <3>1, Zenon DEF NamesAgree
      <4> QED BY <1>2, <4>1, Zenon
    <3>2. CASE Canon(q) # Canon(path)
      BY <2>1, <3>2, Zenon DEF SeenAround
    <3> QED BY <3>1, <3>2
  <2> QED BY <2>1, <2>2, Zenon DEF WalkStates
<1> QED BY <1>1, <1>2, Zenon

\* The walk of files that are read at some depth: it meets no error.
Walked(reach, d) ==
    \A p \in Paths, stack \in SUBSET Paths, s \in SUBSET Paths :
        Fine(Levels(files)[d][p][stack]) /\ p \in reach[d] /\ s \in WalkStates(stack) =>
            \E t \in WalkStates(stack) :
                WalksTo(WalkLevels(files)[d][p][stack][s], s, p, t)

LEMMA WalkedAt ==
    ASSUME FilesOK(files), NamesAgree, NEW reach, ReadBy(reach),
           NEW d \in 0..Deepest, d \in 0..maxIncludeDepth => Walked(reach, d + 1)
    PROVE  Walked(reach, d)
<1> SUFFICES ASSUME NEW path \in Paths, NEW stack \in SUBSET Paths, NEW s \in SUBSET Paths,
                    Fine(Levels(files)[d][path][stack]), path \in reach[d],
                    s \in WalkStates(stack)
             PROVE  \E t \in WalkStates(stack) :
                        WalksTo(WalkLevels(files)[d][path][stack][s], s, path, t)
  BY Zenon DEF Walked
<1> PICK own : own = Parse(files[Canon(path)])[1]
  OBVIOUS
<1> DEFINE n == Len(own.include)
           below == WalkLevels(files)[d + 1]
<1>1. /\ FileError(files, path, stack, d) = ""
      /\ d \in 0..maxIncludeDepth
      /\ own.include \in Seq(Includes)
  BY ResolvedRow, Zenon
<1>2. WalkLevels(files)[d][path][stack][s] =
        IF Canon(path) \in s THEN Walk("", s)
        ELSE Collected(files, path, stack, s, below)
  <2>1. WalkLevels(files)[d] = WalkLevel(files, WalkLevels(files), d)
    BY LevelsExist, Zenon
  <2>2. WalkLevel(files, WalkLevels(files), d)[path][stack][s] =
          IF FileError(files, path, stack, d) \notin {"", "parse"}
          THEN Walk(FileError(files, path, stack, d), {})
          ELSE IF Canon(path) \in s THEN Walk("", s)
          ELSE IF FileError(files, path, stack, d) # ""
          THEN Walk(FileError(files, path, stack, d), {})
          ELSE Collected(files, path, stack, s, below)
    BY Zenon DEF WalkLevel
  <2> QED BY <1>1, <2>1, <2>2, Zenon
<1> HIDE DEF below
<1>3. path \in ReadPaths
  BY <1>1, Zenon DEF ReadBy
<1>4. CASE Canon(path) \in s
  <2>1. s \cup {Canon(path)} \subseteq s
    BY <1>4
  <2> QED BY <1>2, <1>4, <2>1, Zenon DEF WalksTo
<1>5. CASE Canon(path) \notin s
  <2> DEFINE V == WalkStates(stack \cup {Canon(path)})
  <2>1. n \in Nat
    <3>1. \A q \in Seq(Includes) : Len(q) \in Nat
      OBVIOUS
    <3> QED BY <1>1, <3>1, Zenon
  <2>2. s \cup {Canon(path)} \in V
    BY <1>3, EnterAndLeave, Zenon
  <2>3. ASSUME NEW i \in 1..n
        PROVE  /\ IncludeOf(path, own, i) # Nil /\ IncludeOf(path, own, i)[1] \in Paths
               /\ Fine(Levels(files)[d + 1][IncludeOf(path, own, i)[1]]
                                    [stack \cup {Canon(path)}])
    BY ResolvedFile, Zenon
  <2>4. \A i \in 1..n : IncludeOf(path, own, i)[1] \in IncludedBy(path)
    BY <1>1, <2>3, IncludesNamed, Zenon
  <2>5. ASSUME NEW i \in 1..n, NEW u \in V
        PROVE  \E t \in V :
                  WalksTo(below[IncludeOf(path, own, i)[1]][stack \cup {Canon(path)}][u],
                          u, IncludeOf(path, own, i)[1], t)
    <3> PICK to : to = IncludeOf(path, own, i)[1]
      OBVIOUS
    <3>1. to \in Paths /\ Fine(Levels(files)[d + 1][to][stack \cup {Canon(path)}])
      BY <2>3, Zenon
    <3>2. stack \cup {Canon(path)} \in SUBSET Paths
      BY CanonType
    <3>3. d + 1 \in 0..maxIncludeDepth
      <4>1. d + 1 \in 0..Deepest
        <5>1. \A m \in Nat : \A k \in 0..m : k + 1 \in 0..(m + 1)
          OBVIOUS
        <5> QED BY <1>1, <5>1, LoadAssumption, Zenon DEF Deepest
      <4> QED BY <3>1, <3>2, <4>1, ResolvedRow, Zenon
    <3>4. to \in reach[d + 1]
      <4>1. \A m \in Nat : \A k \in 0..m : k + 1 \in 0..m => k + 1 \in 1..m /\ (k + 1) - 1 = k
        OBVIOUS
      <4>2. d + 1 \in 1..maxIncludeDepth /\ (d + 1) - 1 = d
        BY <1>1, <3>3, <4>1, LoadAssumption, Zenon
      <4>3. reach[d + 1] = AndIncluded(reach[(d + 1) - 1])
        BY <4>2, Zenon DEF ReadBy
      <4>4. reach[d + 1] = AndIncluded(reach[d])
        BY <4>2, <4>3, Zenon
      <4>5. to \in IncludedBy(path)
        BY <2>4, Zenon
      <4> QED BY <4>4, <4>5, Zenon DEF AndIncluded
    <3>5. u \in SUBSET Paths
      BY Zenon DEF WalkStates
    <3>6. \E t \in V : WalksTo(below[to][stack \cup {Canon(path)}][u], u, to, t)
      BY <1>1, <3>1, <3>2, <3>4, <3>5, Zenon DEF Walked, below
    <3> QED BY <3>6, Zenon
  <2> HIDE DEF V
  <2>6. PICK t \in V :
            /\ WalksTo(Collected(files, path, stack, s, below), s, path, t)
            /\ \A i \in 1..n : Canon(IncludeOf(path, own, i)[1]) \in t
    <3> HIDE DEF n
    <3> QED BY <2>1, <2>2, <2>3, <2>5, CollectedWalks, Zenon DEF n
  <2>7. \A p \in IncludedBy(path) : Canon(p) \in t
    <3> SUFFICES ASSUME NEW p \in IncludedBy(path) PROVE Canon(p) \in t
      BY Zenon
    <3>1. PICK i \in 1..n : IncludeOf(path, own, i)[1] = p
      BY <1>1, IncludesNamed, Zenon
    <3> QED BY <2>6, <3>1, Zenon
  <2>8. t \in WalkStates(stack)
    BY <1>3, <2>7, EnterAndLeave, Zenon DEF V
  <2> QED BY <1>2, <1>5, <2>6, <2>8, Zenon
<1> QED BY <1>4, <1>5

\* From the deepest files up.
LEMMA WalkedFromTop ==
    ASSUME FilesOK(files), NamesAgree, NEW reach, ReadBy(reach)
    PROVE  Walked(reach, 0)
<1> DEFINE m == maxIncludeDepth
           S == {k \in 0..Deepest : Walked(reach, Deepest - k)}
<1>0. m \in Nat /\ Deepest = m + 1
  BY LoadAssumption DEF Deepest
<1> HIDE DEF m
<1>1. ASSUME NEW d \in 0..Deepest, d < Deepest => Walked(reach, d + 1)
      PROVE  Walked(reach, d)
  <2>1. d \in 0..m => d < Deepest
    BY <1>0
  <2> QED BY <1>1, <2>1, WalkedAt, Zenon DEF m
<1>2. 0 \in S
  <2>1. Deepest - 0 = Deepest /\ Deepest \in 0..Deepest /\ 0 \in 0..Deepest
        /\ ~(Deepest < Deepest)
    BY <1>0
  <2>2. Walked(reach, Deepest)
    BY <1>1, <2>1, Zenon
  <2> QED BY <2>1, <2>2, Zenon
<1>3. ASSUME NEW k \in 1..Deepest, k - 1 \in S PROVE k \in S
  <2>1. Deepest - k \in 0..Deepest /\ Deepest - (k - 1) = (Deepest - k) + 1
        /\ k \in 0..Deepest
    BY <1>0
  <2>2. Walked(reach, Deepest - k)
    BY <1>1, <1>3, <2>1, Zenon
  <2> QED BY <2>1, <2>2, Zenon
<1>4. \A k \in 0..Deepest : k \in S
  <2>1. Deepest \in Nat
    BY <1>0
  <2> HIDE DEF S
  <2> QED BY <1>2, <1>3, <2>1, UpTo
<1>5. Deepest \in 0..Deepest /\ Deepest - Deepest = 0
  BY <1>0
<1> QED BY <1>4, <1>5, Zenon

\* A layer that was loaded is walked from what was seen before.
LEMMA LayerWalked ==
    ASSUME FilesOK(files), NamesAgree, NEW reach, ReadBy(reach),
           NEW file \in Paths, Fine(resolve(files, file)), file \in reach[0],
           NEW s \in WalkStates({})
    PROVE  \E t \in WalkStates({}) : WalksTo(collectFiles(files, file, s), s, file, t)
<1>1. resolve(files, file) = Levels(files)[0][file][{}]
  BY Zenon DEF resolve, Levels, Level, Deepest
<1>2. collectFiles(files, file, s) = WalkLevels(files)[0][file][{}][s]
  BY Zenon DEF collectFiles, WalkLevels, WalkLevel, Deepest
<1>3. {} \in SUBSET Paths /\ s \in SUBSET Paths
  BY Zenon DEF WalkStates
<1> QED BY <1>1, <1>2, <1>3, WalkedFromTop, Zenon DEF Walked

\* Files that load have two layers that do, and the project's is there.
LEMMA LayersLoad ==
    ASSUME NEW fs, FilesOK(fs), Load(fs).err = ""
    PROVE  /\ Canon(GlobalPath) \in DOMAIN fs => Fine(resolve(fs, GlobalPath))
           /\ Canon(ProjectPath) \in DOMAIN fs /\ Fine(resolve(fs, ProjectPath))
<1> DEFINE global == ResolveLayer(fs, GlobalPath, TRUE)
           project == ResolveLayer(fs, ProjectPath, FALSE)
           merged == over(over(Ok(EmptyConfig), global), project)
<1>1. Fine(merged)
  <2>1. Load(fs) = Effective(merged)
    BY Zenon DEF Load
  <2> HIDE DEF merged
  <2>2. merged.err # "" => Effective(merged) = merged
    BY Zenon DEF Effective
  <2> QED BY <2>1, <2>2, Zenon DEF Fine
<1>2. Fine(global) /\ Fine(project)
  <2> HIDE DEF global, project
  <2> QED BY <1>1, OverError, Zenon
<1>3. Fine(resolve(fs, ProjectPath))
  BY <1>2, Zenon DEF ResolveLayer
<1>4. Canon(GlobalPath) \in DOMAIN fs => Fine(resolve(fs, GlobalPath))
  BY <1>2, Zenon DEF ResolveLayer
<1>5. Canon(ProjectPath) \in DOMAIN fs
  <2>1. resolve(fs, ProjectPath) = Levels(fs)[0][ProjectPath][{}]
    BY Zenon DEF resolve, Levels, Level, Deepest
  <2>2. ProjectPath \in Paths /\ 0 \in 0..Deepest
    <3>1. ProjectPath \in Paths /\ maxIncludeDepth \in Nat
      BY LoadAssumption
    <3> QED BY <3>1, Places, Zenon DEF Deepest
  <2>3. FileError(fs, ProjectPath, {}, 0) = ""
    <3>1. {} \in SUBSET Paths /\ Fine(Levels(fs)[0][ProjectPath][{}])
      BY <1>3, <2>1, Zenon
    <3> QED BY <2>2, <3>1, ResolvedRow, Zenon
  <2> HIDE DEF ProjectPath
  <2> QED BY <2>3 DEF FileError
<1> QED BY <1>3, <1>4, <1>5

\* What is complete and has the roots has all that is read.
LEMMA AllSeen ==
    ASSUME NEW reach, ReadBy(reach), NEW t \in WalkStates({}),
           \A p \in Roots : Canon(p) \in t
    PROVE  t = {Canon(p) : p \in ReadPaths}
<1> PICK m : m = maxIncludeDepth
  OBVIOUS
<1>1. m \in Nat
  BY LoadAssumption
<1>2. /\ reach[0] = Roots
      /\ \A n \in 1..m : reach[n] = AndIncluded(reach[n - 1])
      /\ reach[m] = ReadPaths
      /\ \A n \in 0..m : reach[n] \subseteq ReadPaths
  BY Zenon DEF ReadBy
<1>3. t \subseteq {Canon(p) : p \in ReadPaths} /\ SeenAround(t, {})
  BY Zenon DEF WalkStates
<1> DEFINE S == {n \in 0..m : \A p \in reach[n] : Canon(p) \in t}
<1>4. 0 \in S
  BY <1>1, <1>2, Places, Zenon
<1>5. ASSUME NEW n \in 1..m, n - 1 \in S PROVE n \in S
  <2>1. n \in 0..m /\ n - 1 \in 0..m
    BY <1>1
  <2>2. reach[n] = AndIncluded(reach[n - 1]) /\ reach[n - 1] \subseteq ReadPaths
    BY <1>2, <2>1, Zenon
  <2>3. \A p \in reach[n - 1] : Canon(p) \in t
    BY <1>5, Zenon
  <2>4. ASSUME NEW p \in AndIncluded(reach[n - 1]) PROVE Canon(p) \in t
    <3>1. CASE p \in reach[n - 1]
      BY <2>3, <3>1, Zenon
    <3>2. CASE p \notin reach[n - 1]
      <4>1. PICK q \in reach[n - 1] : p \in IncludedBy(q)
        BY <3>2, Zenon DEF AndIncluded
      <4>2. q \in ReadPaths /\ Canon(q) \in t \ {}
        BY <2>2, <2>3, <4>1, Zenon
      <4> QED BY <1>3, <4>1, <4>2, Zenon DEF SeenAround
    <3> QED BY <3>1, <3>2
  <2> QED BY <2>1, <2>2, <2>4, Zenon
<1>6. m \in S
  <2>1. \A n \in 0..m : n \in S
    <3> HIDE DEF S
    <3> QED BY <1>1, <1>4, <1>5, UpTo
  <2> QED BY <1>1, <2>1, Places, Zenon
<1>7. \A p \in ReadPaths : Canon(p) \in t
  BY <1>2, <1>6, Zenon
<1> QED BY <1>3, <1>7, Zenon

\* Files of any shape: those that load are watched.
LEMMA WatchOfFiles == FilesOK(files) => WatchCoversRead
<1> SUFFICES ASSUME FilesOK(files), Load(files).err = "", NamesAgree
             PROVE  ResolveFiles(files) = Walk("", {Canon(p) : p \in ReadPaths})
  BY Zenon DEF WatchCoversRead
<1> PICK reach : ReadBy(reach)
  BY ReadHistory, Zenon
<1>1. {GlobalPath, ProjectPath} \subseteq Paths
  BY LoadAssumption
<1>2. reach[0] = Roots
  BY Zenon DEF ReadBy
<1>3. {} \in WalkStates({})
  BY Zenon DEF WalkStates, SeenAround
<1>4. \A w : WalkOn(files, Walk("", w)) = collectFiles(files, ProjectPath, w)
  <2>1. \A w : Walk("", w).err = "" /\ Walk("", w).seen = w
    BY DEF Walk
  <2> QED BY <2>1, Zenon DEF WalkOn
<1>5. \E s \in WalkStates({}) :
        /\ ResolveFiles(files) = WalkOn(files, Walk("", s))
        /\ GlobalPath \in Roots => Canon(GlobalPath) \in s
  <2>1. CASE Canon(GlobalPath) \in DOMAIN files
    <3>1. Fine(resolve(files, GlobalPath)) /\ GlobalPath \in reach[0] /\ GlobalPath \in Paths
      BY <1>1, <1>2, <2>1, LayersLoad, Zenon DEF Roots
    <3>2. PICK s \in WalkStates({}) :
              WalksTo(collectFiles(files, GlobalPath, {}), {}, GlobalPath, s)
      BY <1>3, <3>1, LayerWalked, Zenon
    <3>3. ResolveFiles(files) = WalkOn(files, Walk("", s)) /\ Canon(GlobalPath) \in s
      BY <2>1, <3>2, Zenon DEF ResolveFiles, WalksTo
    <3> QED BY <3>3, Zenon
  <2>2. CASE Canon(GlobalPath) \notin DOMAIN files
    BY <1>3, <2>2, Zenon DEF ResolveFiles, Roots
  <2> QED BY <2>1, <2>2
<1>6. PICK s \in WalkStates({}) :
        /\ ResolveFiles(files) = collectFiles(files, ProjectPath, s)
        /\ GlobalPath \in Roots => Canon(GlobalPath) \in s
  BY <1>4, <1>5, Zenon
<1>7. PICK t \in WalkStates({}) :
        WalksTo(collectFiles(files, ProjectPath, s), s, ProjectPath, t)
  <2>1. Fine(resolve(files, ProjectPath)) /\ ProjectPath \in reach[0] /\ ProjectPath \in Paths
    BY <1>1, <1>2, LayersLoad, Zenon DEF Roots
  <2> QED BY <2>1, LayerWalked, Zenon
<1>8. \A p \in Roots : Canon(p) \in t
  BY <1>6, <1>7, Zenon DEF Roots, WalksTo
<1>9. t = {Canon(p) : p \in ReadPaths}
  BY <1>8, AllSeen, Zenon
<1> QED BY <1>6, <1>7, <1>9, Zenon DEF WalksTo

(***************************************************************************)
(* Two views of the layers: the compiler annotates the rules of each layer *)
(* and drops doubles among all of them; `run` merges the layers first.     *)
(***************************************************************************)

\* A rule as either view has it.
View(r) == ruleKey(Marshal(RuleFromConfig(r, "")))

Trim(list) == IF list = Some(<<>>) THEN Nil ELSE list
Bare(r) ==
    [host |-> r.host, paths |-> Trim(r.paths), methods |-> Trim(r.methods),
     mode |-> r.mode, reason |-> r.reason, inject |-> r.inject,
     in_cage |-> r.in_cage, source |-> ""]

\* Rules with such paths, methods and sources.
HostWords == Seq(Words)
RulesOf(P, M, S) ==
    [host : HostWords, paths : P, methods : M, mode : Modes, reason : Notes,
     inject : Notes, in_cage : BOOLEAN, source : S]

\* A rule is its fields, and another rule but for some of them.
LEMMA RuleIs ==
    ASSUME NEW P, NEW M, NEW S, NEW r \in RulesOf(P, M, S)
    PROVE  r = [host |-> r.host, paths |-> r.paths, methods |-> r.methods,
                mode |-> r.mode, reason |-> r.reason, inject |-> r.inject,
                in_cage |-> r.in_cage, source |-> r.source]
BY DEF RulesOf

LEMMA KeyIs ==
    ASSUME NEW P, NEW M, NEW S, NEW r \in RulesOf(P, M, S)
    PROVE  ruleKey(r) = [host |-> r.host, paths |-> r.paths, methods |-> r.methods,
                         mode |-> r.mode, reason |-> r.reason, inject |-> r.inject,
                         in_cage |-> r.in_cage, source |-> ""]
<1> DEFINE y == [r EXCEPT !.source = ""]
<1>1. /\ y \in RulesOf(P, M, {""})
      /\ y.host = r.host /\ y.paths = r.paths /\ y.methods = r.methods
      /\ y.mode = r.mode /\ y.reason = r.reason /\ y.inject = r.inject
      /\ y.in_cage = r.in_cage /\ y.source = ""
  BY DEF RulesOf
<1> HIDE DEF y
<1>2. y = [host |-> y.host, paths |-> y.paths, methods |-> y.methods,
           mode |-> y.mode, reason |-> y.reason, inject |-> y.inject,
           in_cage |-> y.in_cage, source |-> y.source]
  BY <1>1, RuleIs, Zenon
<1>3. ruleKey(r) = y
  BY Zenon DEF ruleKey, y
<1> QED BY <1>1, <1>2, <1>3, Zenon

\* A rule but for its source and its empty lists.
LEMMA BareRule ==
    ASSUME NEW P, NEW M, NEW S, NEW r \in RulesOf(P, M, S)
    PROVE  /\ ruleKey(Marshal(r)) = Bare(r)
           /\ Marshal(r).source = r.source /\ Marshal(r).inject = r.inject
<1> DEFINE ps == Trim(r.paths)
           ms == Trim(r.methods)
           x == [r EXCEPT !.paths = ps, !.methods = ms]
<1>1. Marshal(r) = x
  BY Zenon DEF Marshal, Trim
<1> HIDE DEF ps, ms
<1>2. /\ x \in RulesOf({ps}, {ms}, S)
      /\ x.host = r.host /\ x.mode = r.mode /\ x.reason = r.reason
      /\ x.inject = r.inject /\ x.in_cage = r.in_cage /\ x.source = r.source
      /\ x.paths = ps /\ x.methods = ms
  BY DEF RulesOf
<1> HIDE DEF x
<1>3. ruleKey(x) = [host |-> x.host, paths |-> x.paths, methods |-> x.methods,
                    mode |-> x.mode, reason |-> x.reason, inject |-> x.inject,
                    in_cage |-> x.in_cage, source |-> ""]
  BY <1>2, KeyIs, ZenonT(90)
<1>4. ruleKey(x) = Bare(r)
  BY <1>2, <1>3, Zenon DEF Bare, ps, ms
<1> QED BY <1>1, <1>2, <1>4, Zenon

\* Two rules that are alike but for their source look alike.
LEMMA SameBare ==
    ASSUME NEW x, NEW y,
           x.host = y.host, x.paths = y.paths, x.methods = y.methods,
           x.mode = y.mode, x.reason = y.reason, x.inject = y.inject,
           x.in_cage = y.in_cage
    PROVE  Bare(x) = Bare(y)
BY Zenon DEF Bare

\* The view of a rule does not depend on where it comes from, nor on which of
\* two rules with the same key is kept.
LEMMA RuleViews ==
    /\ \A r \in ConfigRules, source \in Sources :
            ruleKey(Marshal(RuleFromConfig(r, source))) = View(r)
    /\ \A x, y \in DraftRules :
            ruleKey(x) = ruleKey(y) =>
                ruleKey(Marshal(x)) = ruleKey(Marshal(y)) /\ x.inject = y.inject
    /\ \A x \in DraftRules : Marshal(x).source = x.source
<1>1. DraftRules = RulesOf(PathLists, MethodLists, Sources)
  BY Zenon DEF DraftRules, RulesOf, HostWords
<1>2. ConfigRules = [host : HostWords, paths : PathLists, methods : MethodLists, mode : Modes,
                     reason : Notes, inject : Notes, in_cage : BOOLEAN]
  BY Zenon DEF ConfigRules, PathLists, MethodLists, Modes, Notes, HostWords
<1>3. ASSUME NEW r \in ConfigRules, NEW source
      PROVE  /\ ruleKey(Marshal(RuleFromConfig(r, source))) = Bare(RuleFromConfig(r, source))
             /\ Bare(RuleFromConfig(r, source)) = Bare(RuleFromConfig(r, ""))
  <2> DEFINE x == RuleFromConfig(r, source)
             y == RuleFromConfig(r, "")
  <2>1. /\ x \in RulesOf(PathLists, MethodLists, {source})
        /\ x.host = y.host /\ x.paths = y.paths /\ x.methods = y.methods
        /\ x.mode = y.mode /\ x.reason = y.reason /\ x.inject = y.inject
        /\ x.in_cage = y.in_cage
    BY <1>2 DEF RuleFromConfig, RulesOf
  <2> HIDE DEF x, y
  <2>2. ruleKey(Marshal(x)) = Bare(x)
    BY <2>1, BareRule, Zenon
  <2>3. Bare(x) = Bare(y)
    BY <2>1, SameBare, Zenon
  <2> QED BY <2>2, <2>3, Zenon DEF x, y
<1>4. \A r \in ConfigRules, source \in Sources :
        ruleKey(Marshal(RuleFromConfig(r, source))) = View(r)
  BY <1>3, Zenon DEF View
<1>5. \A x, y \in DraftRules :
        ruleKey(x) = ruleKey(y) =>
            ruleKey(Marshal(x)) = ruleKey(Marshal(y)) /\ x.inject = y.inject
  <2> SUFFICES ASSUME NEW x \in DraftRules, NEW y \in DraftRules, ruleKey(x) = ruleKey(y)
               PROVE  ruleKey(Marshal(x)) = ruleKey(Marshal(y)) /\ x.inject = y.inject
    OBVIOUS
  <2>1. ruleKey(Marshal(x)) = Bare(x) /\ ruleKey(Marshal(y)) = Bare(y)
    BY <1>1, BareRule, Zenon
  <2>2. [host |-> x.host, paths |-> x.paths, methods |-> x.methods,
         mode |-> x.mode, reason |-> x.reason, inject |-> x.inject,
         in_cage |-> x.in_cage, source |-> ""] =
        [host |-> y.host, paths |-> y.paths, methods |-> y.methods,
         mode |-> y.mode, reason |-> y.reason, inject |-> y.inject,
         in_cage |-> y.in_cage, source |-> ""]
    BY <1>1, KeyIs, Zenon
  <2>3. /\ x.host = y.host /\ x.paths = y.paths /\ x.methods = y.methods
        /\ x.mode = y.mode /\ x.reason = y.reason /\ x.inject = y.inject
        /\ x.in_cage = y.in_cage
    BY <2>2
  <2> QED BY <2>1, <2>3, SameBare, Zenon
<1>6. \A x \in DraftRules : Marshal(x).source = x.source
  BY <1>1, BareRule, ZenonT(30)
<1> QED BY <1>4, <1>5, <1>6

\* What becomes of the elements of a list of rules.
LEMMA RuleElements ==
    ASSUME NEW rules, NEW source
    PROVE  /\ Elements(annotate(rules, source)) =
                {RuleFromConfig(r, source) : r \in Elements(rules)}
           /\ Elements(MarshalAll(rules)) = {Marshal(r) : r \in Elements(rules)}
<1>1. Elements(annotate(rules, source)) =
        {RuleFromConfig(r, source) : r \in Elements(rules)}
  <2> DEFINE out == annotate(rules, source)
  <2>1. out = [i \in DOMAIN rules |-> RuleFromConfig(rules[i], source)]
    BY Zenon DEF annotate
  <2> HIDE DEF out
  <2>2. /\ DOMAIN out = DOMAIN rules
        /\ \A i \in DOMAIN rules : out[i] = RuleFromConfig(rules[i], source)
    BY <2>1, Zenon
  <2> QED BY <2>2, Zenon DEF Elements, out
<1>2. Elements(MarshalAll(rules)) = {Marshal(r) : r \in Elements(rules)}
  <2> DEFINE out == MarshalAll(rules)
  <2>1. out = [i \in DOMAIN rules |-> Marshal(rules[i])]
    BY Zenon DEF MarshalAll
  <2> HIDE DEF out
  <2>2. /\ DOMAIN out = DOMAIN rules
        /\ \A i \in DOMAIN rules : out[i] = Marshal(rules[i])
    BY <2>1, Zenon
  <2> QED BY <2>2, Zenon DEF Elements, out
<1> QED BY <1>1, <1>2

\* What is joined without its repetitions has the elements of both.
LEMMA ConcatElements ==
    ASSUME NEW S, NEW a \in Seq(S), NEW b \in Seq(S)
    PROVE  concat(a, b) \in Seq(S) /\ Elements(concat(a, b)) = Elements(a) \cup Elements(b)
<1>1. a \o b \in Seq(S)
  OBVIOUS
<1>2. Elements(concat(a, b)) = Elements(a \o b)
  BY <1>1, DedupeElements DEF concat, Dedupe
<1> QED BY <1>2, JoinedElements, ConcatListsType

\* A list merged from the layers has the entries of the layers.
LEMMA MergedLists ==
    ASSUME NEW g, ConfigOK(g), NEW p, ConfigOK(p)
    PROVE  LET m == merge(merge(EmptyConfig, g), p)
           IN /\ Elements(m.allow) = Elements(g.allow) \cup Elements(p.allow)
              /\ Elements(m.deny) = Elements(g.deny) \cup Elements(p.deny)
              /\ Names(m.credentials) = Names(g.credentials) \cup Names(p.credentials)
<1> DEFINE e == merge(EmptyConfig, g)
           m == merge(e, p)
<1>1. /\ e.allow = concat(EmptyConfig.allow, g.allow)
      /\ e.deny = concat(EmptyConfig.deny, g.deny)
      /\ e.credentials = mergeCredentials(EmptyConfig.credentials, g.credentials)
  BY DEF merge
<1>2. /\ m.allow = concat(e.allow, p.allow) /\ m.deny = concat(e.deny, p.deny)
      /\ m.credentials = mergeCredentials(e.credentials, p.credentials)
  BY Zenon DEF merge
<1> HIDE DEF e, m
<1>3. /\ EmptyConfig.allow = <<>> /\ EmptyConfig.deny = <<>> /\ EmptyConfig.credentials = <<>>
      /\ Elements(<<>>) = {} /\ Names(<<>>) = {}
  BY EmptyIs DEF Elements, Names
<1>4. /\ EmptyConfig.allow \in Seq(ValidRules) /\ EmptyConfig.deny \in Seq(ValidRules)
      /\ g.allow \in Seq(ValidRules) /\ g.deny \in Seq(ValidRules)
      /\ p.allow \in Seq(ValidRules) /\ p.deny \in Seq(ValidRules)
      /\ EmptyConfig.credentials \in Seq(Elements(EmptyConfig.credentials))
      /\ g.credentials \in Seq(Elements(g.credentials))
      /\ p.credentials \in Seq(Elements(p.credentials))
  BY EmptyTyped DEF ConfigOK
<1>5. /\ e.allow \in Seq(ValidRules) /\ e.deny \in Seq(ValidRules)
      /\ Elements(e.allow) = Elements(EmptyConfig.allow) \cup Elements(g.allow)
      /\ Elements(e.deny) = Elements(EmptyConfig.deny) \cup Elements(g.deny)
  <2>1. e.allow \in Seq(ValidRules)
        /\ Elements(e.allow) = Elements(EmptyConfig.allow) \cup Elements(g.allow)
    BY <1>1, <1>4, ConcatElements, SMTT(30)
  <2>2. e.deny \in Seq(ValidRules)
        /\ Elements(e.deny) = Elements(EmptyConfig.deny) \cup Elements(g.deny)
    BY <1>1, <1>4, ConcatElements, SMTT(30)
  <2> QED BY <2>1, <2>2
<1>6. /\ e.credentials \in Seq(Elements(e.credentials))
      /\ Names(e.credentials) = Names(EmptyConfig.credentials) \cup Names(g.credentials)
  BY <1>1, <1>4, CredentialsMerged, Zenon
<1>7. /\ Elements(m.allow) = Elements(e.allow) \cup Elements(p.allow)
      /\ Elements(m.deny) = Elements(e.deny) \cup Elements(p.deny)
  <2>1. /\ e.allow \in Seq(ValidRules) /\ e.deny \in Seq(ValidRules)
        /\ p.allow \in Seq(ValidRules) /\ p.deny \in Seq(ValidRules)
    BY <1>4, <1>5
  <2>2. Elements(concat(e.allow, p.allow)) = Elements(e.allow) \cup Elements(p.allow)
    BY <2>1, ConcatElements
  <2>3. Elements(concat(e.deny, p.deny)) = Elements(e.deny) \cup Elements(p.deny)
    BY <2>1, ConcatElements
  <2> QED BY <1>2, <2>2, <2>3, Zenon
<1>8. Names(m.credentials) = Names(e.credentials) \cup Names(p.credentials)
  BY <1>2, <1>4, <1>6, CredentialsMerged, Zenon
<1>9. \A X : {} \cup X = X
  OBVIOUS
<1> QED BY <1>3, <1>5, <1>6, <1>7, <1>8, <1>9, Zenon DEF m, e

\* An entry of the policy shows a rule of a layer.
Shows(x, r) == ruleKey(Marshal(x)) = View(r) /\ x.inject = r.inject

\* A list that is joined from layers and drops doubles shows the rules of the
\* layers, and what is not of them is a generator's and injects nothing.
ShowsAll(list, rules, found) ==
    /\ \A r \in rules : \E x \in Elements(list) : x.source # "generated" /\ Shows(x, r)
    /\ \A x \in Elements(list) :
            IF x.source = "generated" THEN x.inject = "" /\ x \in found
            ELSE \E r \in rules : Shows(x, r)
    /\ \A x \in Elements(list) : Marshal(x).source = x.source

\* The rules of a layer under their source.
LEMMA LayerShown ==
    ASSUME NEW rules \in Seq(ValidRules), NEW source \in Sources
    PROVE  /\ annotate(rules, source) \in Seq(DraftRules)
           /\ \A x \in Elements(annotate(rules, source)) :
                x.source = source /\ \E r \in Elements(rules) : Shows(x, r)
           /\ \A r \in Elements(rules) :
                \E x \in Elements(annotate(rules, source)) : Shows(x, r)
<1>1. annotate(rules, source) \in Seq(DraftRules)
  <2>1. annotate(rules, source) \in Seq(PolicyRules)
    BY LayerRules
  <2> DEFINE out == annotate(rules, source)
  <2> HIDE DEF out
  <2>2. out \in Seq(PolicyRules) /\ \A i \in DOMAIN out : out[i] \in DraftRules
    BY <2>1 DEF out, PolicyRules
  <2> QED BY <2>2, NarrowType DEF out
<1>2. \A r \in Elements(rules) : r \in ConfigRules
  BY DEF Elements, ValidRules
<1>3. \A r \in Elements(rules) :
        /\ Shows(RuleFromConfig(r, source), r)
        /\ RuleFromConfig(r, source).source = source
  BY <1>2, DraftType, RuleViews, Zenon DEF Shows
<1>4. Elements(annotate(rules, source)) = {RuleFromConfig(r, source) : r \in Elements(rules)}
  BY RuleElements, Zenon
<1>5. \A x \in Elements(annotate(rules, source)) :
        \E r \in Elements(rules) : x = RuleFromConfig(r, source)
  BY <1>4, Zenon
<1>6. \A r \in Elements(rules) :
        RuleFromConfig(r, source) \in Elements(annotate(rules, source))
  BY <1>4, Zenon
<1> QED BY <1>1, <1>3, <1>5, <1>6, Zenon

\* The elements of a sequence over a set are in the set.
LEMMA ElementsIn ==
    ASSUME NEW S, NEW s \in Seq(S)
    PROVE  \A x \in Elements(s) : x \in S
BY DEF Elements

\* Two layers and what was found, without doubles.
LEMMA OneList ==
    ASSUME NEW ga \in Seq(ValidRules), NEW pa \in Seq(ValidRules),
           NEW found \in Seq(FoundRules)
    PROVE  ShowsAll(dedupe(annotate(ga, "global") \o annotate(pa, "explicit") \o found),
                    Elements(ga) \cup Elements(pa), Elements(found))
<1> DEFINE A == annotate(ga, "global")
           B == annotate(pa, "explicit")
           own == A \o B
           s == own \o found
           keys == [i \in DOMAIN s |-> ruleKey(s[i])]
           D == DedupeBy(s, keys)
           R == Elements(ga) \cup Elements(pa)
<1>1. /\ A \in Seq(DraftRules) /\ B \in Seq(DraftRules)
      /\ \A x \in Elements(A) : x.source = "global" /\ \E r \in Elements(ga) : Shows(x, r)
      /\ \A x \in Elements(B) : x.source = "explicit" /\ \E r \in Elements(pa) : Shows(x, r)
      /\ \A r \in Elements(ga) : \E x \in Elements(A) : Shows(x, r)
      /\ \A r \in Elements(pa) : \E x \in Elements(B) : Shows(x, r)
  <2>1. "global" \in Sources /\ "explicit" \in Sources
    BY DEF Sources
  <2> QED BY <2>1, LayerShown, Zenon
<1> HIDE DEF A, B
<1>2. /\ own \in Seq(DraftRules) /\ Elements(own) = Elements(A) \cup Elements(B)
      /\ found \in Seq(DraftRules)
      /\ \A x \in Elements(found) : x.source = "generated" /\ x.inject = ""
  <2>1. own \in Seq(DraftRules)
    BY <1>1
  <2>2. Elements(own) = Elements(A) \cup Elements(B)
    <3>1. A \in Seq(DraftRules) /\ B \in Seq(DraftRules)
      BY <1>1
    <3> QED BY <3>1, JoinedElements
  <2>3. \A i \in DOMAIN found : found[i] \in FoundRules
    OBVIOUS
  <2>4. \A i \in DOMAIN found : /\ found[i] \in DraftRules
                               /\ found[i].source = "generated" /\ found[i].inject = ""
    BY <2>3 DEF FoundRules
  <2>5. found \in Seq(DraftRules)
    BY <2>4, NarrowType
  <2> QED BY <2>1, <2>2, <2>4, <2>5, Zenon DEF Elements
<1> HIDE DEF own
<1>3. /\ s \in Seq(DraftRules) /\ Elements(s) = Elements(own) \cup Elements(found)
      /\ s \in Seq(Elements(s))
      /\ Len(own) \in Nat /\ Len(own) <= Len(s)
      /\ \A i \in 1..Len(own) : s[i] = own[i]
      /\ DOMAIN own = 1..Len(own) /\ DOMAIN s = 1..Len(s)
  <2>1. own \in Seq(DraftRules) /\ found \in Seq(DraftRules)
    BY <1>2
  <2>2. /\ s \in Seq(DraftRules) /\ Len(s) = Len(own) + Len(found)
        /\ Len(own) \in Nat /\ Len(found) \in Nat
        /\ DOMAIN own = 1..Len(own) /\ DOMAIN s = 1..Len(s)
    BY <2>1
  <2>3. \A i \in 1..Len(own) : s[i] = own[i]
    BY <2>1, <2>2
  <2>4. Elements(s) = Elements(own) \cup Elements(found) /\ s \in Seq(Elements(s))
    BY <2>1, JoinedElements
  <2>5. Len(own) <= Len(s)
    BY <2>2
  <2> QED BY <2>2, <2>3, <2>4, <2>5
<1> HIDE DEF s
<1>4. \A i \in DOMAIN s : keys[i] = ruleKey(s[i])
  OBVIOUS
<1> HIDE DEF keys
<1>5. \A x \in Elements(own) : x \in DraftRules /\ x.source # "generated"
        /\ \E r \in R : Shows(x, r)
  <2>1. \A x \in Elements(own) : x \in DraftRules
    BY <1>2, ElementsIn
  <2>2. "global" # "generated" /\ "explicit" # "generated"
    OBVIOUS
  <2>3. ASSUME NEW x \in Elements(own)
        PROVE  x.source # "generated" /\ \E r \in R : Shows(x, r)
    <3>1. CASE x \in Elements(A)
      BY <1>1, <2>2, <3>1, Zenon
    <3>2. CASE x \in Elements(B)
      BY <1>1, <2>2, <3>2, Zenon
    <3> QED BY <1>2, <2>3, <3>1, <3>2, Zenon
  <2> QED BY <2>1, <2>3
<1>6. ASSUME NEW r \in R
      PROVE  \E x \in Elements(D) : x.source # "generated" /\ Shows(x, r)
  <2>1. PICK y \in Elements(own) : Shows(y, r)
    <3>1. CASE r \in Elements(ga)
      BY <1>1, <1>2, <3>1, Zenon
    <3>2. CASE r \in Elements(pa)
      BY <1>1, <1>2, <3>2, Zenon
    <3> QED BY <3>1, <3>2
  <2>2. PICK at \in 1..Len(own) : y = own[at]
    BY <1>3, <2>1 DEF Elements
  <2>3. at \in 1..Len(s) /\ s[at] = y
    BY <1>3, <2>2
  <2>4. PICK k \in 1..at : keys[k] = keys[at] /\ s[k] \in Elements(D)
    BY <1>3, <2>3, DedupeKeeps
  <2>5. k \in 1..Len(own) /\ k \in 1..Len(s)
    BY <1>3, <2>2
  <2>6. s[k] \in Elements(own)
    BY <1>3, <2>5 DEF Elements
  <2>7. ruleKey(s[k]) = ruleKey(y)
    BY <1>3, <1>4, <2>3, <2>4, <2>5
  <2>8. Shows(s[k], r)
    BY <1>5, <2>1, <2>6, <2>7, RuleViews, Zenon DEF Shows
  <2> QED BY <1>5, <2>4, <2>6, <2>8
<1>7. ASSUME NEW x \in Elements(D) PROVE x \in Elements(own) \cup Elements(found)
  <2>1. D \in Seq(Elements(s))
    BY <1>3, DedupeType
  <2>2. x \in Elements(s)
    <3> HIDE DEF D
    <3> QED BY <2>1 DEF Elements
  <2> QED BY <1>3, <2>2
<1>8. ASSUME NEW x \in Elements(D)
      PROVE  /\ IF x.source = "generated" THEN x.inject = "" /\ x \in Elements(found)
                ELSE \E r \in R : Shows(x, r)
             /\ Marshal(x).source = x.source
  <2>1. x \in DraftRules
    BY <1>2, <1>7, ElementsIn, Zenon
  <2>2. CASE x \in Elements(own)
    BY <1>5, <2>1, <2>2, RuleViews, Zenon
  <2>3. CASE x \in Elements(found)
    BY <1>2, <2>1, <2>3, RuleViews, Zenon
  <2> QED BY <1>7, <2>2, <2>3, Zenon
<1>9. dedupe(s) = D
  BY Zenon DEF dedupe, keys
<1> HIDE DEF D, R
<1>10. ShowsAll(D, R, Elements(found))
  BY <1>6, <1>8, Zenon DEF ShowsAll
<1> QED BY <1>9, <1>10, Zenon DEF s, own, A, B, R

\* Such a list has the views of the rules.
LEMMA SameShown ==
    ASSUME NEW list, NEW rules, NEW found, ShowsAll(list, Elements(rules), found)
    PROVE  /\ AsRules(rules) =
                {ruleKey(r) : r \in {r \in Elements(MarshalAll(list)) : r.source # "generated"}}
           /\ found = {} => AsRules(rules) = Sourceless(MarshalAll(list))
<1>1. /\ \A r \in Elements(rules) :
            \E x \in Elements(list) : x.source # "generated" /\ Shows(x, r)
      /\ \A x \in Elements(list) :
            /\ x.source = "generated" => x.inject = "" /\ x \in found
            /\ x.source # "generated" => \E r \in Elements(rules) : Shows(x, r)
      /\ \A x \in Elements(list) : Marshal(x).source = x.source
  BY Zenon DEF ShowsAll
<1>2. Elements(MarshalAll(list)) = {Marshal(x) : x \in Elements(list)}
  BY RuleElements, Zenon
<1> DEFINE views == {View(r) : r \in Elements(rules)}
           named == {ruleKey(r) : r \in {r \in Elements(MarshalAll(list)) : r.source # "generated"}}
<1>3. AsRules(rules) = views
  <2>1. Elements(annotate(rules, "")) = {RuleFromConfig(r, "") : r \in Elements(rules)}
    BY RuleElements, Zenon
  <2>2. Elements(MarshalAll(annotate(rules, ""))) =
            {Marshal(x) : x \in Elements(annotate(rules, ""))}
    BY RuleElements, Zenon
  <2>3. AsRules(rules) = {ruleKey(y) : y \in Elements(MarshalAll(annotate(rules, "")))}
    BY Zenon DEF AsRules, Sourceless
  <2>4. AsRules(rules) =
            {ruleKey(y) : y \in {Marshal(x) : x \in {RuleFromConfig(r, "") : r \in Elements(rules)}}}
    BY <2>1, <2>2, <2>3, Zenon
  <2> QED BY <2>4 DEF View
<1>4. views = named
  <2>1. ASSUME NEW r \in Elements(rules) PROVE View(r) \in named
    <3>1. PICK x \in Elements(list) : x.source # "generated" /\ Shows(x, r)
      BY <1>1
    <3>2. Marshal(x) \in Elements(MarshalAll(list)) /\ Marshal(x).source # "generated"
      BY <1>1, <1>2, <3>1, Zenon
    <3> QED BY <3>1, <3>2, Zenon DEF Shows
  <2>2. ASSUME NEW y \in Elements(MarshalAll(list)), y.source # "generated"
        PROVE  ruleKey(y) \in views
    <3>1. PICK x \in Elements(list) : y = Marshal(x)
      BY <1>2
    <3>2. PICK r \in Elements(rules) : Shows(x, r)
      BY <1>1, <2>2, <3>1, Zenon
    <3> QED BY <3>1, <3>2, Zenon DEF Shows
  <2>3. \A v : v \in views <=> v \in named
    BY <2>1, <2>2, Zenon
  <2> QED BY <2>3
<1>5. found = {} => views = Sourceless(MarshalAll(list))
  <2> SUFFICES ASSUME found = {} PROVE views = Sourceless(MarshalAll(list))
    OBVIOUS
  <2>1. \A y \in Elements(MarshalAll(list)) : y.source # "generated"
    BY <1>1, <1>2
  <2>2. \A v : v \in named <=> v \in Sourceless(MarshalAll(list))
    BY <2>1, Zenon DEF Sourceless
  <2> QED BY <1>4, <2>2 DEF Sourceless
<1> HIDE DEF views, named
<1> QED BY <1>3, <1>4, <1>5, Zenon DEF named

\* And it injects what they inject.
Injects(rules, name) == \E r \in Elements(rules) : r.inject = name

LEMMA SameInjected ==
    ASSUME NEW list, NEW rules, NEW found, ShowsAll(list, Elements(rules), found),
           NEW name, name # ""
    PROVE  Injects(list, name) <=> Injects(rules, name)
BY Zenon DEF ShowsAll, Shows, Injects

\* Layers that cannot be read are refused alike.
LEMMA RefusedAlike ==
    ASSUME NEW g, NEW p, NEW o, g.err # "" \/ p.err # ""
    PROVE  LET e == Effective(over(over(Ok(EmptyConfig), g), p)).err
           IN e # "" /\ CompileLayers(g, p, o).err = e
<1> DEFINE base == over(Ok(EmptyConfig), g)
           merged == over(base, p)
<1>1. Ok(EmptyConfig).err = "" /\ (\A c : Ok(c).err = "")
      /\ \A e : NotCompiled(e).err = e
  BY DEF Ok, NotCompiled
<1>2. merged.err # "" => Effective(merged) = merged
  BY Zenon DEF Effective
<1>3. CASE g.err # ""
  <2>1. base = g
    BY <1>1, <1>3, Zenon DEF over
  <2>2. merged = g
    BY <1>3, <2>1, Zenon DEF over
  <2>3. CompileLayers(g, p, o) = NotCompiled(g.err)
    BY <1>3, Zenon DEF CompileLayers
  <2> QED BY <1>1, <1>2, <1>3, <2>2, <2>3, Zenon
<1>4. CASE g.err = "" /\ p.err # ""
  <2>1. base = Ok(merge(Ok(EmptyConfig).cfg, g.cfg))
    BY <1>1, <1>4, Zenon DEF over
  <2>2. base.err = ""
    BY <1>1, <2>1, Zenon
  <2>3. merged = p
    BY <1>4, <2>2, Zenon DEF over
  <2>4. CompileLayers(g, p, o) = NotCompiled(p.err)
    BY <1>4, Zenon DEF CompileLayers
  <2> QED BY <1>1, <1>2, <1>4, <2>3, <2>4, Zenon
<1> QED BY <1>3, <1>4, Zenon

\* Layers that can be read are put together alike.
LEMMA BuiltAlike ==
    ASSUME NEW g, ConfigOK(g), NEW p, ConfigOK(p), NEW found \in Seq(FoundRules)
    PROVE  LET m == merge(merge(EmptyConfig, g), p)
               rs == buildRuleSet(g, p, found, EmptyConfig)
               creds == mergeCredentials(mergeCredentials(g.credentials, p.credentials),
                                         EmptyConfig.credentials)
           IN SameView(Effective(Ok(m)), CompileRules(rs, creds))
<1> DEFINE m == merge(merge(EmptyConfig, g), p)
           rs == buildRuleSet(g, p, found, EmptyConfig)
           creds == mergeCredentials(mergeCredentials(g.credentials, p.credentials),
                                     EmptyConfig.credentials)
<1> SUFFICES SameView(Effective(Ok(m)), CompileRules(rs, creds))
  OBVIOUS
<1>1. /\ Elements(m.allow) = Elements(g.allow) \cup Elements(p.allow)
      /\ Elements(m.deny) = Elements(g.deny) \cup Elements(p.deny)
      /\ Names(m.credentials) = Names(g.credentials) \cup Names(p.credentials)
  BY MergedLists, Zenon
<1> HIDE DEF m
<1>2. Names(creds) = Names(m.credentials)
  <2>1. EmptyConfig.credentials = <<>> /\ Names(<<>>) = {}
        /\ <<>> \in Seq(Elements(<<>>))
    BY EmptyIs DEF Names
  <2>2. /\ g.credentials \in Seq(Elements(g.credentials))
        /\ p.credentials \in Seq(Elements(p.credentials))
    BY DEF ConfigOK
  <2> DEFINE both == mergeCredentials(g.credentials, p.credentials)
  <2>3. both \in Seq(Elements(both)) /\ Names(both) = Names(g.credentials) \cup Names(p.credentials)
    BY <2>2, CredentialsMerged, Zenon
  <2> HIDE DEF both
  <2>4. Names(mergeCredentials(both, <<>>)) = Names(both) \cup Names(<<>>)
    BY <2>1, <2>3, CredentialsMerged, Zenon
  <2>5. \A X : X \cup {} = X
    OBVIOUS
  <2> QED BY <1>1, <2>1, <2>3, <2>4, <2>5, Zenon DEF both
<1> HIDE DEF creds
<1>3. /\ g.allow \in Seq(ValidRules) /\ p.allow \in Seq(ValidRules)
      /\ g.deny \in Seq(ValidRules) /\ p.deny \in Seq(ValidRules)
      /\ <<>> \in Seq(FoundRules) /\ Elements(<<>>) = {}
  BY DEF ConfigOK, Elements
<1>4. /\ rs.allow = dedupe(annotate(g.allow, "global") \o annotate(p.allow, "explicit")
                           \o found)
      /\ rs.deny = dedupe(annotate(g.deny, "global") \o annotate(p.deny, "explicit")
                          \o <<>>)
  <2>1. annotate(<<>>, "once") = <<>>
    BY DEF annotate
  <2>2. \A S : \A s \in Seq(S) : s \o <<>> = s
    OBVIOUS
  <2>3. /\ annotate(g.allow, "global") \in Seq(DraftRules)
        /\ annotate(p.allow, "explicit") \in Seq(DraftRules)
    <3>1. "global" \in Sources /\ "explicit" \in Sources
      BY DEF Sources
    <3> QED BY <1>3, <3>1, LayerShown
  <2>4. found \in Seq(DraftRules)
    <3>1. \A i \in DOMAIN found : found[i] \in FoundRules
      OBVIOUS
    <3>2. \A i \in DOMAIN found : found[i] \in DraftRules
      BY <3>1 DEF FoundRules
    <3> QED BY <3>2, NarrowType
  <2>5. annotate(g.allow, "global") \o annotate(p.allow, "explicit") \o found \in Seq(DraftRules)
    BY <2>3, <2>4
  <2>6. /\ rs.allow = dedupe(annotate(g.allow, "global") \o annotate(p.allow, "explicit")
                             \o found \o <<>>)
        /\ rs.deny = dedupe(annotate(g.deny, "global") \o annotate(p.deny, "explicit")
                            \o <<>>)
    BY <2>1, EmptyIs DEF buildRuleSet
  <2> HIDE DEF rs
  <2> QED BY <2>2, <2>5, <2>6, Zenon
<1> HIDE DEF rs
<1>5. /\ ShowsAll(rs.allow, Elements(m.allow), Elements(found))
      /\ ShowsAll(rs.deny, Elements(m.deny), {})
  BY <1>1, <1>3, <1>4, OneList, Zenon
<1>6. /\ AsRules(m.deny) = Sourceless(MarshalAll(rs.deny))
      /\ AsRules(m.allow) =
            {ruleKey(r) : r \in {r \in Elements(MarshalAll(rs.allow)) : r.source # "generated"}}
  BY <1>5, SameShown, Zenon
<1>7. ValidateEffective(m).err = "" <=> validateInjectRefs(rs, creds)
  <2>1. ASSUME NEW name, name # ""
        PROVE  /\ Injects(rs.allow, name) <=> Injects(m.allow, name)
               /\ Injects(rs.deny, name) <=> Injects(m.deny, name)
    <3>1. Injects(rs.allow, name) <=> Injects(m.allow, name)
      BY <1>5, <2>1, SameInjected
    <3>2. Injects(rs.deny, name) <=> Injects(m.deny, name)
      BY <1>5, <2>1, SameInjected
    <3> QED BY <3>1, <3>2
  <2>2. validateInjectRefs(rs, creds) <=>
            \A name : (Injects(rs.allow, name) \/ Injects(rs.deny, name)) /\ name # ""
                        => name \in Names(creds)
    <3>1. validateInjectRefs(rs, creds) <=>
            /\ \A r \in Elements(rs.allow) : r.inject # "" => r.inject \in Names(creds)
            /\ \A r \in Elements(rs.deny) : r.inject # "" => r.inject \in Names(creds)
      BY Zenon DEF validateInjectRefs
    <3>2. \A list : (\A r \in Elements(list) : r.inject # "" => r.inject \in Names(creds))
                <=> \A name : Injects(list, name) /\ name # "" => name \in Names(creds)
      BY Zenon DEF Injects
    <3> QED BY <3>1, <3>2, Zenon
  <2>3. Injected(m) \subseteq Names(m.credentials) <=>
            \A name : (Injects(m.allow, name) \/ Injects(m.deny, name)) /\ name # ""
                        => name \in Names(m.credentials)
    BY DEF Injected, Injects
  <2>4. ValidateEffective(m).err = "" <=> Injected(m) \subseteq Names(m.credentials)
    BY DEF ValidateEffective
  <2> QED BY <1>2, <2>1, <2>2, <2>3, <2>4, Zenon
<1>8. Ok(m).err = "" /\ Ok(m).cfg = m /\ \A e : Err(e).err = e
  BY DEF Ok, Err
<1>9. CASE validateInjectRefs(rs, creds)
  <2> DEFINE out == [allow |-> MarshalAll(rs.allow), deny |-> MarshalAll(rs.deny),
                     credentials |-> CredentialsFromConfig(creds)]
  <2>1. CompileRules(rs, creds) = Compiled(out)
    BY <1>9, Zenon DEF CompileRules
  <2>2. out.allow = MarshalAll(rs.allow) /\ out.deny = MarshalAll(rs.deny)
    OBVIOUS
  <2> HIDE DEF out
  <2>3. Compiled(out).err = "" /\ Compiled(out).policy = out
    BY DEF Compiled
  <2>4. Effective(Ok(m)) = Ok(m)
    BY <1>7, <1>8, <1>9, Zenon DEF Effective
  <2>5. /\ AsRules(Ok(m).cfg.deny) = Sourceless(Compiled(out).policy.deny)
        /\ AsRules(Ok(m).cfg.allow) =
            {ruleKey(r) : r \in {r \in Elements(Compiled(out).policy.allow) :
                                    r.source # "generated"}}
    <3>1. /\ Ok(m).cfg.deny = m.deny /\ Ok(m).cfg.allow = m.allow
          /\ Compiled(out).policy.deny = MarshalAll(rs.deny)
          /\ Compiled(out).policy.allow = MarshalAll(rs.allow)
      BY <1>8, <2>2, <2>3, Zenon
    <3> QED BY <1>6, <3>1, Zenon
  <2>6. SameView(Ok(m), Compiled(out))
    BY <1>8, <2>3, <2>5, Zenon DEF SameView
  <2> QED BY <2>1, <2>4, <2>6, Zenon
<1>10. CASE ~validateInjectRefs(rs, creds)
  <2>1. CompileRules(rs, creds) = NotCompiled("inject") /\ NotCompiled("inject").err = "inject"
    BY <1>10 DEF CompileRules, NotCompiled
  <2>2. ValidateEffective(m).err = "inject"
    BY <1>7, <1>10 DEF ValidateEffective
  <2>3. Effective(Ok(m)) = Err("inject")
    BY <1>8, <2>2 DEF Effective
  <2>4. "inject" # ""
    OBVIOUS
  <2>5. SameView(Err("inject"), NotCompiled("inject"))
    BY <1>8, <2>1, <2>4 DEF SameView
  <2> QED BY <2>1, <2>3, <2>5, Zenon
<1> QED BY <1>9, <1>10, Zenon

\* Files of any shape: the compiler and the loader see the same in them.
LEMMA ViewsOfFiles == FilesOK(files) => TwoViewsAgree
<1> SUFFICES ASSUME FilesOK(files), OverlayPath \notin DOMAIN files,
                    Compile(files).err \notin {"generator", "generated"}
             PROVE  SameView(Load(files), Compile(files))
  BY Zenon DEF TwoViewsAgree, AgreesUnlessGenerated
<1> DEFINE g == ResolveLayer(files, GlobalPath, TRUE)
           p == ResolveLayer(files, ProjectPath, FALSE)
           o == Ok(EmptyConfig)
           gens == mergeGenerators(g.cfg.generators, p.cfg.generators)
           found == runGenerators(readManifests(resolveGenerators(gens)))
           rs == buildRuleSet(g.cfg, p.cfg, found, EmptyConfig)
           creds == mergeCredentials(mergeCredentials(g.cfg.credentials, p.cfg.credentials),
                                     EmptyConfig.credentials)
<1>1. ConfigOK(g.cfg) /\ ConfigOK(p.cfg)
  BY LayerType, Zenon DEF ResultOK
<1>2. /\ Compile(files) = CompileLayers(g, p, o)
      /\ Load(files) = Effective(over(over(Ok(EmptyConfig), g), p))
  BY Zenon DEF Compile, Load, loadOverlay
<1> HIDE DEF g, p
<1>3. CASE g.err # "" \/ p.err # ""
  BY <1>2, <1>3, RefusedAlike, Zenon DEF SameView
<1>4. CASE g.err = "" /\ p.err = ""
  <2>1. \A c : Ok(c).err = "" /\ Ok(c).cfg = c
    BY DEF Ok
  <2>2. Load(files) = Effective(Ok(merge(merge(EmptyConfig, g.cfg), p.cfg)))
    <3>1. over(Ok(EmptyConfig), g) = Ok(merge(EmptyConfig, g.cfg))
      BY <1>4, <2>1, Zenon DEF over
    <3>2. over(Ok(merge(EmptyConfig, g.cfg)), p) = Ok(merge(merge(EmptyConfig, g.cfg), p.cfg))
      BY <1>4, <2>1, Zenon DEF over
    <3> QED BY <1>2, <3>1, <3>2, Zenon
  <2>3. \A e : NotCompiled(e).err = e
    BY DEF NotCompiled
  <2>4. Compile(files) = CompileConfigs(g.cfg, p.cfg, EmptyConfig, gens)
    BY <1>2, <1>4, <2>1, Zenon DEF CompileLayers
  <2>5. gens \in Seq(ManifestEntries)
    <3>1. g.cfg.generators \o p.cfg.generators \in Seq(ManifestEntries)
      BY <1>1 DEF ConfigOK
    <3> QED BY <3>1, DedupeType DEF mergeGenerators, Dedupe
  <2>6. found \in Seq(FoundRules)
    BY <2>5, FoundType
  <2> HIDE DEF gens
  <2>7. Compile(files) = CompileWith(g.cfg, p.cfg, EmptyConfig, found)
    BY <2>3, <2>4, Zenon DEF CompileConfigs
  <2> HIDE DEF found
  <2>8. Compile(files) = CompileRules(rs, creds)
    BY <2>3, <2>7, Zenon DEF CompileWith
  <2> QED BY <1>1, <2>2, <2>6, <2>8, BuiltAlike, Zenon
<1> QED BY <1>3, <1>4, Zenon

(***************************************************************************)
(* What an edit adds to the rules that inject, and takes from the          *)
(* credentials there are.                                                  *)
(***************************************************************************)

\* From one config to another: what is injected was before or is new, and a
\* credential there was is there or has gone.
Widens(new, gone, a, b) ==
    /\ Injected(b) \subseteq Injected(a) \cup new
    /\ Names(a.credentials) \subseteq Names(b.credentials) \cup gone

\* From one result to another, if both are configs.
Widened(new, gone, x, y) == Fine(x) /\ Fine(y) => Widens(new, gone, x.cfg, y.cfg)

\* From one text to another.
Turns(new, gone, t, u) ==
    Parse(t) # Nil /\ Parse(u) # Nil =>
        /\ Parse(u)[1].include = Parse(t)[1].include
        /\ Widens(new, gone, Parse(t)[1], Parse(u)[1])

\* From the files of one time to those of another.
FilesTurn(new, gone, fs, gs) ==
    /\ FilesOK(fs) /\ FilesOK(gs) /\ DOMAIN fs \subseteq DOMAIN gs
    /\ \A p \in DOMAIN fs : Turns(new, gone, fs[p], gs[p])
    /\ \A p \in DOMAIN gs \ DOMAIN fs : Turns(new, gone, EmptyText, gs[p])

LEMMA MergedOffers ==
    ASSUME NEW x, NEW y, ConfigOK(x), ConfigOK(y)
    PROVE  /\ Injected(merge(x, y)) = Injected(x) \cup Injected(y)
           /\ Names(merge(x, y).credentials) = Names(x.credentials) \cup Names(y.credentials)
<1>1. /\ merge(x, y).allow = concat(x.allow, y.allow)
      /\ merge(x, y).deny = concat(x.deny, y.deny)
      /\ merge(x, y).credentials = mergeCredentials(x.credentials, y.credentials)
  BY DEF merge
<1>2. /\ x.allow \in Seq(ValidRules) /\ y.allow \in Seq(ValidRules)
      /\ x.deny \in Seq(ValidRules) /\ y.deny \in Seq(ValidRules)
      /\ x.credentials \in Seq(Elements(x.credentials))
      /\ y.credentials \in Seq(Elements(y.credentials))
  BY DEF ConfigOK
<1>3. Elements(concat(x.allow, y.allow)) = Elements(x.allow) \cup Elements(y.allow)
  BY <1>2, ConcatElements
<1>4. Elements(concat(x.deny, y.deny)) = Elements(x.deny) \cup Elements(y.deny)
  BY <1>2, ConcatElements
<1>5. Names(mergeCredentials(x.credentials, y.credentials))
        = Names(x.credentials) \cup Names(y.credentials)
  BY <1>2, CredentialsMerged, Zenon
<1>6. /\ Elements(merge(x, y).allow) = Elements(x.allow) \cup Elements(y.allow)
      /\ Elements(merge(x, y).deny) = Elements(x.deny) \cup Elements(y.deny)
  BY <1>1, <1>3, <1>4, Zenon
<1>7. Injected(merge(x, y)) = Injected(x) \cup Injected(y)
  <2> DEFINE m == merge(x, y)
  <2> HIDE DEF m
  <2>1. \A n : n \in Injected(m) <=> n \in Injected(x) \cup Injected(y)
    BY <1>6 DEF Injected, m
  <2> QED BY <2>1 DEF m
<1> QED BY <1>1, <1>5, <1>7, Zenon

LEMMA WidensBoth ==
    ASSUME NEW new, NEW gone, NEW a, NEW b, NEW a2, NEW b2,
           ConfigOK(a), ConfigOK(b), ConfigOK(a2), ConfigOK(b2),
           Widens(new, gone, a, b), Widens(new, gone, a2, b2)
    PROVE  Widens(new, gone, merge(a, a2), merge(b, b2))
<1>1. /\ Injected(merge(a, a2)) = Injected(a) \cup Injected(a2)
      /\ Injected(merge(b, b2)) = Injected(b) \cup Injected(b2)
      /\ Names(merge(a, a2).credentials) = Names(a.credentials) \cup Names(a2.credentials)
      /\ Names(merge(b, b2).credentials) = Names(b.credentials) \cup Names(b2.credentials)
  BY MergedOffers, Zenon
<1>2. /\ Injected(b) \subseteq Injected(a) \cup new
      /\ Injected(b2) \subseteq Injected(a2) \cup new
      /\ Names(a.credentials) \subseteq Names(b.credentials) \cup gone
      /\ Names(a2.credentials) \subseteq Names(b2.credentials) \cup gone
  BY Zenon DEF Widens
<1>3. Injected(merge(b, b2)) \subseteq Injected(merge(a, a2)) \cup new
  BY <1>1, <1>2
<1>4. Names(merge(a, a2).credentials) \subseteq Names(merge(b, b2).credentials) \cup gone
  BY <1>1, <1>2
<1> QED BY <1>3, <1>4, Zenon DEF Widens

LEMMA SameWidens ==
    ASSUME NEW new, NEW gone, NEW a
    PROVE  Widens(new, gone, a, a)
BY DEF Widens

LEMMA OverWidened ==
    ASSUME NEW new, NEW gone, NEW a, NEW b, NEW a2, NEW b2,
           ResultOK(a), ResultOK(b), ResultOK(a2), ResultOK(b2),
           Widened(new, gone, a, b), Widened(new, gone, a2, b2)
    PROVE  Widened(new, gone, over(a, a2), over(b, b2))
<1> SUFFICES ASSUME Fine(over(a, a2)), Fine(over(b, b2))
             PROVE  Widens(new, gone, over(a, a2).cfg, over(b, b2).cfg)
  BY Zenon DEF Widened
<1>1. Fine(a) /\ Fine(a2) /\ Fine(b) /\ Fine(b2)
  BY OverError
<1>2. Widens(new, gone, a.cfg, b.cfg) /\ Widens(new, gone, a2.cfg, b2.cfg)
  BY <1>1, Zenon DEF Widened
<1>3. \A c : Ok(c).cfg = c
  BY DEF Ok
<1>4. over(a, a2) = Ok(merge(a.cfg, a2.cfg)) /\ over(b, b2) = Ok(merge(b.cfg, b2.cfg))
  BY <1>1, Zenon DEF over, Fine
<1>5. Widens(new, gone, merge(a.cfg, a2.cfg), merge(b.cfg, b2.cfg))
  BY <1>2, WidensBoth, Zenon DEF ResultOK
<1> QED BY <1>3, <1>4, <1>5, Zenon

\* An empty file parses to an empty config.
LEMMA EmptyParses ==
    /\ Parse(EmptyText) = Some(EmptyConfig) /\ Parse(EmptyText) # Nil
    /\ Parse(EmptyText)[1] = EmptyConfig /\ EmptyConfig.include = <<>>
<1>1. /\ EmptyConfig.allow = <<>> /\ EmptyConfig.deny = <<>> /\ EmptyConfig.credentials = <<>>
      /\ EmptyConfig.services = <<>> /\ EmptyConfig.generators = <<>>
      /\ EmptyConfig.include = <<>>
  <2>1. EmptyText.services.items = <<>> /\ EmptyText.include.items = <<>>
    BY DEF EmptyText, NoList, Listed
  <2>2. EmptyConfig.services = EmptyText.services.items
        /\ EmptyConfig.include = EmptyText.include.items
    BY DEF EmptyConfig, applyDefaults
  <2> QED BY <2>1, <2>2, EmptyIs
<1>2. Elements(<<>>) = {} /\ NamedOnce(<<>>)
  BY DEF Elements, NamedOnce
<1>3. validate(EmptyConfig)
  BY <1>1, <1>2 DEF validate
<1>4. EmptyText.wellFormed
  BY DEF EmptyText
<1>5. Parse(EmptyText) = Some(EmptyConfig)
  BY <1>1, <1>2, <1>3, <1>4, Zenon DEF Parse, Valid, EmptyConfig
<1>6. \A y : Some(y) # Nil /\ Some(y)[1] = y
  BY DEF Some, Nil
<1> QED BY <1>1, <1>5, <1>6, Zenon

\* A file that is there, and that parses.
There(fs, path) == Canon(path) \in DOMAIN fs /\ Parse(fs[Canon(path)]) # Nil
Own(fs, path) == Parse(fs[Canon(path)])[1]

LEMMA OwnType ==
    ASSUME NEW fs, FilesOK(fs), NEW path, There(fs, path)
    PROVE  ConfigOK(Own(fs, path)) /\ Own(fs, path).include \in Seq(Includes)
<1>1. TextOK(fs[Canon(path)]) /\ Parse(fs[Canon(path)]) # Nil
  BY DEF FilesOK, There
<1>2. \A y : Some(y)[1] = y
  BY DEF Some
<1>3. Own(fs, path) = applyDefaults(fs[Canon(path)])
  BY <1>1, <1>2, ParseType DEF Own
<1> QED BY <1>1, <1>3, ParseType

LEMMA IncludedWidened ==
    ASSUME NEW new, NEW gone, NEW fs, NEW gs, FilesTurn(new, gone, fs, gs),
           NEW path \in Paths, NEW stack \in SUBSET Paths,
           There(fs, path), There(gs, path),
           NEW f, NEW g,
           \A p \in Paths, st \in SUBSET Paths :
                /\ ResultOK(f[p][st]) /\ ResultOK(g[p][st])
                /\ Widened(new, gone, f[p][st], g[p][st])
    PROVE  Widened(new, gone, Included(fs, path, stack, f), Included(gs, path, stack, g))
<1> PICK own : own = Own(fs, path)
  OBVIOUS
<1> PICK other : other = Own(gs, path)
  OBVIOUS
<1> DEFINE n == Len(own.include)
           X(i) == Fetched(path, own, stack, f, i)
           Y(i) == Fetched(path, other, stack, g, i)
<1>1. /\ ConfigOK(own) /\ own.include \in Seq(Includes) /\ ConfigOK(other)
      /\ other.include = own.include /\ Widens(new, gone, own, other)
  <2>1. FilesOK(fs) /\ FilesOK(gs) /\ Turns(new, gone, fs[Canon(path)], gs[Canon(path)])
    BY Zenon DEF FilesTurn, There
  <2>2. other.include = own.include /\ Widens(new, gone, own, other)
    BY <2>1, Zenon DEF Turns, There, Own
  <2> QED BY <2>1, <2>2, OwnType, Zenon
<1>2. n \in Nat /\ \A i \in 1..n : own.include[i] \in Includes
  BY <1>1
<1>3. ASSUME NEW i \in 1..n
      PROVE  ResultOK(X(i)) /\ ResultOK(Y(i)) /\ Widened(new, gone, X(i), Y(i))
  <2> DEFINE to == resolveIncludePath(path, own.include[i])
             st == stack \cup {Canon(path)}
  <2>1. to = Nil \/ to[1] \in Paths
    BY <1>2 DEF Includes
  <2>2. st \in SUBSET Paths
    BY LoadAssumption DEF Canon
  <2>3. /\ X(i) = IF to = Nil THEN Err("scope") ELSE f[to[1]][st]
        /\ Y(i) = IF to = Nil THEN Err("scope") ELSE g[to[1]][st]
    BY <1>1, Zenon DEF Fetched
  <2> HIDE DEF X, Y, to, st
  <2>4. CASE to = Nil
    <3>1. X(i) = Err("scope") /\ Y(i) = Err("scope")
      BY <2>3, <2>4, Zenon
    <3>2. Widened(new, gone, Err("scope"), Err("scope"))
      BY SameWidens, Zenon DEF Widened
    <3> QED BY <3>1, <3>2, PlainResults, Zenon
  <2>5. CASE to # Nil
    BY <2>1, <2>2, <2>3, <2>5, Zenon
  <2> QED BY <2>4, <2>5
<1>4. PICK acc : /\ acc[0] = Ok(EmptyConfig)
                 /\ \A i \in 1..n : acc[i] = over(acc[i - 1], X(i))
                 /\ Included(fs, path, stack, f) = over(acc[n], Ok(own))
  BY <1>2, IncludedHistory DEF Own
<1>5. PICK bcc : /\ bcc[0] = Ok(EmptyConfig)
                 /\ \A i \in 1..n : bcc[i] = over(bcc[i - 1], Y(i))
                 /\ Included(gs, path, stack, g) = over(bcc[n], Ok(other))
  <2>1. Len(other.include) = n
    BY <1>1
  <2> QED BY <1>2, <2>1, IncludedHistory DEF Own
<1> HIDE DEF n, X, Y
<1> DEFINE Alike(i) == /\ ResultOK(acc[i]) /\ ResultOK(bcc[i])
                       /\ Widened(new, gone, acc[i], bcc[i])
           S == {i \in 0..n : Alike(i)}
<1>6. 0 \in S
  <2>1. Widened(new, gone, Ok(EmptyConfig), Ok(EmptyConfig))
    BY SameWidens, Zenon DEF Widened
  <2>2. Alike(0)
    BY <1>4, <1>5, <2>1, PlainResults, Zenon
  <2> HIDE DEF Alike
  <2> QED BY <1>2, <2>2
<1>7. ASSUME NEW i \in 1..n, i - 1 \in S PROVE i \in S
  <2>1. i \in 0..n
    BY <1>2
  <2>2. Alike(i - 1)
    BY <1>7
  <2>3. Alike(i)
    <3>1. ResultOK(X(i)) /\ ResultOK(Y(i)) /\ Widened(new, gone, X(i), Y(i))
      BY <1>3
    <3>2. ResultOK(acc[i - 1]) /\ ResultOK(bcc[i - 1]) /\ Widened(new, gone, acc[i - 1], bcc[i - 1])
      BY <2>2, Zenon
    <3>3. acc[i] = over(acc[i - 1], X(i)) /\ bcc[i] = over(bcc[i - 1], Y(i))
      BY <1>4, <1>5
    <3>4. ResultOK(over(acc[i - 1], X(i))) /\ ResultOK(over(bcc[i - 1], Y(i)))
      BY <3>1, <3>2, OverType, Zenon
    <3>5. Widened(new, gone, over(acc[i - 1], X(i)), over(bcc[i - 1], Y(i)))
      BY <3>1, <3>2, OverWidened, Zenon
    <3> QED BY <3>3, <3>4, <3>5, Zenon
  <2> HIDE DEF Alike
  <2> QED BY <2>1, <2>3
<1>8. Alike(n)
  <2>1. \A i \in 0..n : i \in S
    <3> HIDE DEF S
    <3> QED BY <1>2, <1>6, <1>7, UpTo
  <2>2. n \in 0..n
    BY <1>2
  <2> HIDE DEF Alike
  <2> QED BY <2>1, <2>2
<1>9. /\ ResultOK(Ok(own)) /\ ResultOK(Ok(other)) /\ Widened(new, gone, Ok(own), Ok(other))
  <2>1. \A c : Ok(c).cfg = c
    BY DEF Ok
  <2> QED BY <1>1, <2>1, PlainResults, Zenon DEF Widened
<1> QED BY <1>4, <1>5, <1>8, <1>9, OverWidened, Zenon

\* A file that two times know, resolved.
LEMMA ResolvedWidened ==
    ASSUME NEW new, NEW gone, NEW fs, NEW gs, FilesTurn(new, gone, fs, gs),
           NEW file \in Paths
    PROVE  Widened(new, gone, resolve(fs, file), resolve(gs, file))
<1> DEFINE f == Levels(fs)
           g == Levels(gs)
           Alike(d) == \A p \in Paths, st \in SUBSET Paths :
                            Widened(new, gone, f[d][p][st], g[d][p][st])
           T == {d \in 0..Deepest : Alike(d)}
<1>1. FilesOK(fs) /\ FilesOK(gs)
  BY Zenon DEF FilesTurn
<1>2. \A d \in 0..Deepest, p \in Paths, st \in SUBSET Paths :
        /\ f[d][p][st] = IF FileError(fs, p, st, d) # "" THEN Err(FileError(fs, p, st, d))
                         ELSE Included(fs, p, st, f[d + 1])
        /\ g[d][p][st] = IF FileError(gs, p, st, d) # "" THEN Err(FileError(gs, p, st, d))
                         ELSE Included(gs, p, st, g[d + 1])
        /\ ResultOK(f[d][p][st]) /\ ResultOK(g[d][p][st])
  BY <1>1, LevelIs, LevelsType, Zenon
<1>3. /\ resolve(fs, file) = f[0][file][{}] /\ resolve(gs, file) = g[0][file][{}]
  BY <1>1, ResolveType, Zenon
<1> HIDE DEF f, g
<1>4. ASSUME NEW d \in 0..Deepest, d < Deepest => d + 1 \in T PROVE d \in T
  <2> SUFFICES ASSUME NEW p \in Paths, NEW st \in SUBSET Paths
               PROVE  Widened(new, gone, f[d][p][st], g[d][p][st])
    OBVIOUS
  <2>1. \A e : e # "" => ~Fine(Err(e))
    BY DEF Err, Fine
  <2>2. CASE FileError(fs, p, st, d) # "" \/ FileError(gs, p, st, d) # ""
    <3>1. ~Fine(f[d][p][st]) \/ ~Fine(g[d][p][st])
      BY <1>2, <2>1, <2>2, Zenon
    <3> QED BY <3>1, Zenon DEF Widened
  <2>3. CASE FileError(fs, p, st, d) = "" /\ FileError(gs, p, st, d) = ""
    <3>1. d < Deepest /\ There(fs, p) /\ There(gs, p)
      BY <2>3, LevelAbove, Zenon DEF There
    <3>2. Alike(d + 1) /\ d + 1 \in 0..Deepest
      BY <1>4, <3>1
    <3>3. /\ f[d][p][st] = Included(fs, p, st, f[d + 1])
          /\ g[d][p][st] = Included(gs, p, st, g[d + 1])
      BY <1>2, <2>3, Zenon
    <3> DEFINE x == f[d + 1]
               y == g[d + 1]
    <3>4. \A q \in Paths, su \in SUBSET Paths :
            ResultOK(x[q][su]) /\ ResultOK(y[q][su]) /\ Widened(new, gone, x[q][su], y[q][su])
      BY <1>2, <3>2, Zenon
    <3> HIDE DEF x, y
    <3>5. Widened(new, gone, Included(fs, p, st, x), Included(gs, p, st, y))
      BY <3>1, <3>4, IncludedWidened, Zenon
    <3> QED BY <3>3, <3>5, Zenon DEF x, y
  <2> QED BY <2>2, <2>3
<1>5. \A d \in 0..Deepest : d \in T
  <2> HIDE DEF T
  <2> QED BY <1>4, LevelsUp
<1>6. Alike(0)
  <2>1. 0 \in 0..Deepest
    BY LoadAssumption DEF Deepest
  <2> QED BY <1>5, <2>1
<1>7. {} \in SUBSET Paths
  OBVIOUS
<1> QED BY <1>3, <1>6, <1>7, Zenon

\* A file made, resolved: it is only what it says itself.
LEMMA MadeWidened ==
    ASSUME NEW new, NEW gone, NEW fs, NEW gs, FilesTurn(new, gone, fs, gs),
           NEW file \in Paths, Canon(file) \in DOMAIN gs \ DOMAIN fs
    PROVE  Widened(new, gone, Ok(EmptyConfig), resolve(gs, file))
<1> SUFFICES ASSUME Fine(resolve(gs, file))
             PROVE  Widens(new, gone, EmptyConfig, resolve(gs, file).cfg)
  <2>1. Ok(EmptyConfig).cfg = EmptyConfig
    BY DEF Ok
  <2> QED BY <2>1, Zenon DEF Widened
<1> PICK own : own = Own(gs, file)
  OBVIOUS
<1> DEFINE deeper == Levels(gs)[0 + 1]
<1>1. FilesOK(gs) /\ resolve(gs, file) = Levels(gs)[0][file][{}]
      /\ 0 \in 0..Deepest /\ {} \in SUBSET Paths
  <2>1. 0 \in 0..Deepest /\ {} \in SUBSET Paths
    BY LoadAssumption DEF Deepest
  <2> QED BY <2>1, ResolveType, Zenon DEF FilesTurn
<1>2. FileError(gs, file, {}, 0) = "" /\ resolve(gs, file) = Included(gs, file, {}, deeper)
  <2>1. \A e : e # "" => ~Fine(Err(e))
    BY DEF Err, Fine
  <2>2. Levels(gs)[0][file][{}] =
            IF FileError(gs, file, {}, 0) # "" THEN Err(FileError(gs, file, {}, 0))
            ELSE Included(gs, file, {}, deeper)
    BY <1>1, LevelIs, Zenon
  <2> HIDE DEF deeper
  <2>3. CASE FileError(gs, file, {}, 0) # ""
    <3>1. resolve(gs, file) = Err(FileError(gs, file, {}, 0))
      BY <1>1, <2>2, <2>3, Zenon
    <3> QED BY <2>1, <2>3, <3>1, Zenon
  <2>4. CASE FileError(gs, file, {}, 0) = ""
    <3>1. resolve(gs, file) = Included(gs, file, {}, deeper)
      BY <1>1, <2>2, <2>4, Zenon
    <3> QED BY <2>4, <3>1, Zenon
  <2> QED BY <2>3, <2>4, Zenon
<1>3. There(gs, file)
  BY <1>1, <1>2, LevelAbove, Zenon DEF There
<1>4. /\ ConfigOK(own) /\ own.include = <<>> /\ Widens(new, gone, EmptyConfig, own)
  <2>1. Turns(new, gone, EmptyText, gs[Canon(file)])
    BY Zenon DEF FilesTurn
  <2>2. Parse(EmptyText) # Nil /\ Parse(EmptyText)[1] = EmptyConfig
        /\ EmptyConfig.include = <<>>
    BY EmptyParses
  <2> QED BY <1>1, <1>3, <2>1, <2>2, OwnType, Zenon DEF Turns, There, Own
<1> HIDE DEF deeper
<1>5. resolve(gs, file).cfg = merge(EmptyConfig, own)
  <2>1. Len(own.include) = 0 /\ Len(own.include) \in Nat
    BY <1>4
  <2>2. PICK acc : /\ acc[0] = Ok(EmptyConfig)
                   /\ Included(gs, file, {}, deeper) = over(acc[Len(own.include)], Ok(own))
    BY <2>1, IncludedHistory DEF Own
  <2>3. \A c : Ok(c).cfg = c /\ Ok(c).err = ""
    BY DEF Ok
  <2>4. over(Ok(EmptyConfig), Ok(own)) = Ok(merge(EmptyConfig, own))
    BY <2>3, Zenon DEF over
  <2> QED BY <1>2, <2>1, <2>2, <2>3, <2>4, Zenon
<1>6. /\ Injected(merge(EmptyConfig, own)) = Injected(EmptyConfig) \cup Injected(own)
      /\ Names(merge(EmptyConfig, own).credentials)
            = Names(EmptyConfig.credentials) \cup Names(own.credentials)
  BY <1>4, EmptyTyped, MergedOffers, Zenon
<1>7. Widens(new, gone, EmptyConfig, merge(EmptyConfig, own))
  BY <1>4, <1>6 DEF Widens
<1> QED BY <1>5, <1>7

LEMMA SameResult ==
    ASSUME NEW new, NEW gone, NEW x
    PROVE  Widened(new, gone, x, x)
BY SameWidens, Zenon DEF Widened

Global(fs) == ResolveLayer(fs, GlobalPath, TRUE)
Project(fs) == ResolveLayer(fs, ProjectPath, FALSE)

\* The layers of two times.
LEMMA LayersWidened ==
    ASSUME NEW new, NEW gone, NEW fs, NEW gs, FilesTurn(new, gone, fs, gs)
    PROVE  /\ Widened(new, gone, Global(fs), Global(gs))
           /\ Widened(new, gone, Project(fs), Project(gs))
           /\ Widened(new, gone, loadOverlay(fs), loadOverlay(gs))
<1>1. GlobalPath \in Paths /\ ProjectPath \in Paths
  BY LoadAssumption
<1>2. DOMAIN fs \subseteq DOMAIN gs
  BY Zenon DEF FilesTurn
<1>3. /\ Widened(new, gone, resolve(fs, GlobalPath), resolve(gs, GlobalPath))
      /\ Widened(new, gone, resolve(fs, ProjectPath), resolve(gs, ProjectPath))
  BY <1>1, ResolvedWidened, Zenon
<1>4. Widened(new, gone, Project(fs), Project(gs))
  BY <1>3, Zenon DEF Project, ResolveLayer
<1>5. Widened(new, gone, Global(fs), Global(gs))
  <2> DEFINE c == Canon(GlobalPath)
  <2>1. /\ Global(fs) = IF c \notin DOMAIN fs THEN Ok(EmptyConfig) ELSE resolve(fs, GlobalPath)
        /\ Global(gs) = IF c \notin DOMAIN gs THEN Ok(EmptyConfig) ELSE resolve(gs, GlobalPath)
    BY DEF Global, ResolveLayer
  <2> HIDE DEF c
  <2>2. CASE c \in DOMAIN fs
    BY <1>2, <1>3, <2>1, <2>2
  <2>3. CASE c \notin DOMAIN gs
    BY <1>2, <2>1, <2>3, SameResult
  <2>4. CASE c \in DOMAIN gs /\ c \notin DOMAIN fs
    <3>1. Widened(new, gone, Ok(EmptyConfig), resolve(gs, GlobalPath))
      BY <1>1, <2>4, MadeWidened DEF c
    <3> QED BY <2>1, <2>4, <3>1
  <2> QED BY <2>2, <2>3, <2>4
<1>6. Widened(new, gone, loadOverlay(fs), loadOverlay(gs))
  <2> SUFFICES ASSUME Fine(loadOverlay(fs)), Fine(loadOverlay(gs))
               PROVE  Widens(new, gone, loadOverlay(fs).cfg, loadOverlay(gs).cfg)
    BY Zenon DEF Widened
  <2> DEFINE c == OverlayPath
  <2>1. /\ \A e : e # "" => ~Fine(Err(e))
        /\ \A x : Ok(x).cfg = x
    BY DEF Err, Ok, Fine
  <2>2. \A hs \in {fs, gs} :
          /\ c \in DOMAIN hs =>
                Parse(hs[c]) # Nil /\ loadOverlay(hs).cfg = Parse(hs[c])[1]
          /\ c \notin DOMAIN hs => loadOverlay(hs).cfg = EmptyConfig
    <3> SUFFICES ASSUME NEW hs, Fine(loadOverlay(hs))
                 PROVE  /\ c \in DOMAIN hs =>
                              Parse(hs[c]) # Nil /\ loadOverlay(hs).cfg = Parse(hs[c])[1]
                        /\ c \notin DOMAIN hs => loadOverlay(hs).cfg = EmptyConfig
      OBVIOUS
    <3>1. CASE c \notin DOMAIN hs
      <4>1. loadOverlay(hs) = Ok(EmptyConfig)
        BY <3>1 DEF loadOverlay
      <4> QED BY <2>1, <3>1, <4>1, Zenon
    <3>2. CASE c \in DOMAIN hs /\ Parse(hs[c]) = Nil
      <4>1. loadOverlay(hs) = Err("overlay") /\ "overlay" # ""
        BY <3>2 DEF loadOverlay
      <4> QED BY <2>1, <4>1, Zenon
    <3>3. CASE c \in DOMAIN hs /\ Parse(hs[c]) # Nil
      <4>1. loadOverlay(hs) = Ok(Parse(hs[c])[1])
        BY <3>3, Zenon DEF loadOverlay
      <4> QED BY <2>1, <3>3, <4>1, Zenon
    <3> QED BY <3>1, <3>2, <3>3, Zenon
  <2> HIDE DEF c
  <2>3. CASE c \in DOMAIN fs
    <3>1. Turns(new, gone, fs[c], gs[c]) /\ c \in DOMAIN gs
      BY <1>2, <2>3, Zenon DEF FilesTurn
    <3>2. /\ Parse(fs[c]) # Nil /\ loadOverlay(fs).cfg = Parse(fs[c])[1]
          /\ Parse(gs[c]) # Nil /\ loadOverlay(gs).cfg = Parse(gs[c])[1]
      BY <2>2, <2>3, <3>1
    <3> QED BY <3>1, <3>2, Zenon DEF Turns
  <2>4. CASE c \notin DOMAIN fs /\ c \in DOMAIN gs
    <3>1. Turns(new, gone, EmptyText, gs[c])
      BY <2>4 DEF FilesTurn
    <3>2. /\ Parse(EmptyText) # Nil /\ loadOverlay(fs).cfg = Parse(EmptyText)[1]
          /\ Parse(gs[c]) # Nil /\ loadOverlay(gs).cfg = Parse(gs[c])[1]
      BY <2>2, <2>4, EmptyParses
    <3> QED BY <3>1, <3>2, Zenon DEF Turns
  <2>5. CASE c \notin DOMAIN fs /\ c \notin DOMAIN gs
    BY <2>2, <2>5, SameWidens
  <2> QED BY <2>3, <2>4, <2>5
<1> QED BY <1>4, <1>5, <1>6

(***************************************************************************)
(* What a compile injects.                                                 *)
(***************************************************************************)

LEMMA DraftsJoined ==
    \A a, b \in Seq(DraftRules) : a \o b \in Seq(DraftRules)
OBVIOUS

LEMMA JoinedInjects ==
    ASSUME NEW S, NEW a \in Seq(S), NEW b \in Seq(S), NEW name
    PROVE  Injects(a \o b, name) <=> Injects(a, name) \/ Injects(b, name)
<1>1. Elements(a \o b) = Elements(a) \cup Elements(b)
  BY JoinedElements
<1> QED BY <1>1 DEF Injects

LEMMA DedupedInjects ==
    ASSUME NEW s \in Seq(DraftRules), NEW name
    PROVE  Injects(dedupe(s), name) <=> Injects(s, name)
<1> DEFINE keys == [i \in DOMAIN s |-> ruleKey(s[i])]
           D == DedupeBy(s, keys)
<1>1. dedupe(s) = D
  BY Zenon DEF dedupe
<1>2. /\ DOMAIN s = 1..Len(s) /\ \A i \in 1..Len(s) : keys[i] = ruleKey(s[i]) /\ s[i] \in DraftRules
  OBVIOUS
<1>3. s \in Seq(Elements(s))
  BY DEF Elements
<1> HIDE DEF keys
<1>4. D \in Seq(Elements(s))
  BY <1>3, DedupeType
<1>5. \A at \in 1..Len(s) :
        \E k \in 1..at : keys[k] = keys[at] /\ s[k] \in Elements(D)
  BY DedupeKeeps
<1> HIDE DEF D
<1>6. Elements(D) \subseteq Elements(s)
  BY <1>4 DEF Elements
<1>7. ASSUME NEW r \in Elements(s) PROVE \E x \in Elements(D) : x.inject = r.inject
  <2>1. PICK at \in 1..Len(s) : r = s[at]
    BY <1>2 DEF Elements
  <2>2. PICK k \in 1..at : keys[k] = keys[at] /\ s[k] \in Elements(D)
    BY <1>5
  <2>3. k \in 1..Len(s)
    OBVIOUS
  <2>4. ruleKey(s[k]) = ruleKey(s[at]) /\ s[k] \in DraftRules /\ s[at] \in DraftRules
    BY <1>2, <2>2, <2>3
  <2>5. s[k].inject = s[at].inject
    BY <2>4, RuleViews, Zenon
  <2> QED BY <2>1, <2>2, <2>5
<1> QED BY <1>1, <1>6, <1>7, Zenon DEF Injects

LEMMA LayerInjects ==
    ASSUME NEW rules \in Seq(ValidRules), NEW source \in Sources, NEW name
    PROVE  Injects(annotate(rules, source), name) <=> Injects(rules, name)
<1>1. /\ \A x \in Elements(annotate(rules, source)) : \E r \in Elements(rules) : Shows(x, r)
      /\ \A r \in Elements(rules) : \E x \in Elements(annotate(rules, source)) : Shows(x, r)
  BY LayerShown, Zenon
<1> QED BY <1>1, Zenon DEF Shows, Injects

LEMMA FoundInjects ==
    ASSUME NEW found \in Seq(FoundRules)
    PROVE  found \in Seq(DraftRules) /\ \A name : Injects(found, name) => name = ""
<1>1. \A i \in DOMAIN found : found[i] \in FoundRules
  OBVIOUS
<1>2. \A i \in DOMAIN found : found[i] \in DraftRules /\ found[i].inject = ""
  BY <1>1 DEF FoundRules
<1> QED BY <1>2, NarrowType DEF Injects, Elements

\* A list of the policy injects what the layers inject.
LEMMA ListInjects ==
    ASSUME NEW g \in Seq(ValidRules), NEW p \in Seq(ValidRules), NEW o \in Seq(ValidRules),
           NEW found \in Seq(FoundRules), NEW name, name # ""
    PROVE  /\ Injects(dedupe(annotate(g, "global") \o annotate(p, "explicit") \o found
                             \o annotate(o, "once")), name)
                <=> Injects(g, name) \/ Injects(p, name) \/ Injects(o, name)
           /\ Injects(dedupe(annotate(g, "global") \o annotate(p, "explicit")
                             \o annotate(o, "once")), name)
                <=> Injects(g, name) \/ Injects(p, name) \/ Injects(o, name)
<1> DEFINE A == annotate(g, "global")
           B == annotate(p, "explicit")
           C == annotate(o, "once")
<1>1. "global" \in Sources /\ "explicit" \in Sources /\ "once" \in Sources
  BY DEF Sources
<1>2. A \in Seq(DraftRules) /\ B \in Seq(DraftRules) /\ C \in Seq(DraftRules)
      /\ found \in Seq(DraftRules) /\ ~Injects(found, name)
  BY <1>1, LayerShown, FoundInjects
<1>3. /\ Injects(A, name) <=> Injects(g, name)
      /\ Injects(B, name) <=> Injects(p, name)
      /\ Injects(C, name) <=> Injects(o, name)
  BY <1>1, LayerInjects
<1> HIDE DEF A, B, C
<1>4. /\ A \o B \in Seq(DraftRules) /\ A \o B \o found \in Seq(DraftRules)
      /\ A \o B \o found \o C \in Seq(DraftRules) /\ A \o B \o C \in Seq(DraftRules)
  BY <1>2, DraftsJoined, Zenon
<1>5. Injects(A \o B, name) <=> Injects(A, name) \/ Injects(B, name)
  BY <1>2, JoinedInjects
<1>6. Injects(A \o B \o found, name) <=> Injects(A \o B, name) \/ Injects(found, name)
  BY <1>2, <1>4, JoinedInjects, ZenonT(60)
<1>7. Injects(A \o B \o found \o C, name)
        <=> Injects(A \o B \o found, name) \/ Injects(C, name)
  <2> DEFINE s == A \o B \o found
  <2>1. s \in Seq(DraftRules)
    BY <1>4
  <2> HIDE DEF s
  <2>2. Injects(s \o C, name) <=> Injects(s, name) \/ Injects(C, name)
    BY <1>2, <2>1, JoinedInjects
  <2> QED BY <2>2 DEF s
<1>8. Injects(A \o B \o C, name) <=> Injects(A \o B, name) \/ Injects(C, name)
  BY <1>2, <1>4, JoinedInjects
<1>9. /\ Injects(dedupe(A \o B \o found \o C), name) <=> Injects(A \o B \o found \o C, name)
      /\ Injects(dedupe(A \o B \o C), name) <=> Injects(A \o B \o C, name)
  BY <1>4, DedupedInjects
<1> QED BY <1>2, <1>3, <1>5, <1>6, <1>7, <1>8, <1>9, Zenon DEF A, B, C

\* What the layers inject, and which credentials they define.
InjectedIn(fs) ==
    Injected(Global(fs).cfg) \cup Injected(Project(fs).cfg) \cup Injected(loadOverlay(fs).cfg)
NamesIn(fs) ==
    Names(Global(fs).cfg.credentials) \cup Names(Project(fs).cfg.credentials)
        \cup Names(loadOverlay(fs).cfg.credentials)

Readable(fs) == Fine(Global(fs)) /\ Fine(Project(fs)) /\ Fine(loadOverlay(fs))

InjectsAny(cfg, name) == Injects(cfg.allow, name) \/ Injects(cfg.deny, name)

LEMMA InjectedIs ==
    ASSUME NEW cfg, NEW name
    PROVE  name \in Injected(cfg) <=> name # "" /\ InjectsAny(cfg, name)
BY DEF Injected, InjectsAny, Injects

LEMMA SetInjects ==
    ASSUME NEW g, ConfigOK(g), NEW p, ConfigOK(p), NEW o, ConfigOK(o),
           NEW found \in Seq(FoundRules), NEW name, name # ""
    PROVE  InjectsAny(buildRuleSet(g, p, found, o), name)
                <=> InjectsAny(g, name) \/ InjectsAny(p, name) \/ InjectsAny(o, name)
<1> DEFINE rs == buildRuleSet(g, p, found, o)
<1>1. /\ rs.allow = dedupe(annotate(g.allow, "global") \o annotate(p.allow, "explicit")
                           \o found \o annotate(o.allow, "once"))
      /\ rs.deny = dedupe(annotate(g.deny, "global") \o annotate(p.deny, "explicit")
                          \o annotate(o.deny, "once"))
  BY DEF buildRuleSet
<1> HIDE DEF rs
<1>2. /\ g.allow \in Seq(ValidRules) /\ p.allow \in Seq(ValidRules) /\ o.allow \in Seq(ValidRules)
      /\ g.deny \in Seq(ValidRules) /\ p.deny \in Seq(ValidRules) /\ o.deny \in Seq(ValidRules)
  BY Zenon DEF ConfigOK
<1>3. Injects(rs.allow, name)
        <=> Injects(g.allow, name) \/ Injects(p.allow, name) \/ Injects(o.allow, name)
  <2>1. PICK x, y, z : x = g.allow /\ y = p.allow /\ z = o.allow
    OBVIOUS
  <2>2. x \in Seq(ValidRules) /\ y \in Seq(ValidRules) /\ z \in Seq(ValidRules)
    BY <1>2, <2>1
  <2>3. Injects(dedupe(annotate(x, "global") \o annotate(y, "explicit") \o found \o annotate(z, "once")), name)
            <=> Injects(x, name) \/ Injects(y, name) \/ Injects(z, name)
    BY <2>2, ListInjects, ZenonT(60)
  <2> QED BY <1>1, <2>1, <2>3, Zenon
<1>4. Injects(rs.deny, name)
        <=> Injects(g.deny, name) \/ Injects(p.deny, name) \/ Injects(o.deny, name)
  <2>1. PICK x, y, z : x = g.deny /\ y = p.deny /\ z = o.deny
    OBVIOUS
  <2>2. x \in Seq(ValidRules) /\ y \in Seq(ValidRules) /\ z \in Seq(ValidRules)
    BY <1>2, <2>1
  <2>3. Injects(dedupe(annotate(x, "global") \o annotate(y, "explicit") \o annotate(z, "once")), name)
            <=> Injects(x, name) \/ Injects(y, name) \/ Injects(z, name)
    BY <2>2, ListInjects, Zenon
  <2> QED BY <1>1, <2>1, <2>3, Zenon
<1> QED BY <1>3, <1>4, Zenon DEF InjectsAny, rs

LEMMA GeneratorsType ==
    ASSUME NEW a, ConfigOK(a), NEW b, ConfigOK(b)
    PROVE  mergeGenerators(a.generators, b.generators) \in Seq(ManifestEntries)
<1>1. a.generators \o b.generators \in Seq(ManifestEntries)
  BY DEF ConfigOK
<1> QED BY <1>1, DedupeType DEF mergeGenerators, Dedupe

\* When the credentials of the files satisfy their rules.
LEMMA CompileOffers ==
    ASSUME NEW fs, FilesOK(fs), Compile(fs).err \in {"", "inject"}
    PROVE  Readable(fs) /\ (Compile(fs).err = "" <=> InjectedIn(fs) \subseteq NamesIn(fs))
<1> DEFINE g == Global(fs)
           p == Project(fs)
           o == loadOverlay(fs)
           gens == mergeGenerators(g.cfg.generators, p.cfg.generators)
           found == runGenerators(readManifests(resolveGenerators(gens)))
           rs == buildRuleSet(g.cfg, p.cfg, found, o.cfg)
           creds == mergeCredentials(mergeCredentials(g.cfg.credentials, p.cfg.credentials),
                                     o.cfg.credentials)
<1>1. /\ ConfigOK(g.cfg) /\ ConfigOK(p.cfg) /\ ConfigOK(o.cfg)
      /\ g.err # "inject" /\ p.err # "inject" /\ o.err # "inject"
  BY LayerType, Zenon DEF ResultOK, Global, Project
<1>2. Compile(fs) = CompileLayers(g, p, o)
  BY Zenon DEF Compile, Global, Project
<1> HIDE DEF g, p, o
<1>3. \A e : NotCompiled(e).err = e
  BY DEF NotCompiled
<1>4. \A e : e \notin {"", "inject"} => Compile(fs) # NotCompiled(e)
  BY <1>3, Zenon
<1>5. Fine(g) /\ Fine(p) /\ Fine(o)
  <2> SUFFICES ASSUME ~(g.err = "" /\ p.err = "" /\ o.err = "") PROVE FALSE
    BY Zenon DEF Fine
  <2>1. \/ g.err # "" /\ Compile(fs) = NotCompiled(g.err)
        \/ p.err # "" /\ Compile(fs) = NotCompiled(p.err)
        \/ o.err # "" /\ Compile(fs) = NotCompiled(o.err)
    BY <1>2, Zenon DEF CompileLayers
  <2>2. ASSUME NEW e, e # "", e # "inject", Compile(fs) = NotCompiled(e) PROVE FALSE
    BY <1>4, <2>2
  <2> QED BY <1>1, <2>1, <2>2, Zenon
<1>6. Compile(fs) = CompileConfigs(g.cfg, p.cfg, o.cfg, gens)
  BY <1>2, <1>5, Zenon DEF CompileLayers, Fine
<1>7. found \in Seq(FoundRules)
  <2>2. gens \in Seq(ManifestEntries)
    BY <1>1, GeneratorsType, Zenon
  <2> HIDE DEF gens
  <2> QED BY <2>2, FoundType
<1>8. Compile(fs) = CompileWith(g.cfg, p.cfg, o.cfg, found)
  <2>1. "generator" \notin {"", "inject"}
    OBVIOUS
  <2> HIDE DEF gens
  <2>2. Compile(fs) # NotCompiled("generator")
    BY <1>4, <2>1, Zenon
  <2> DEFINE unknown == \E e \in Elements(gens) : e.type \notin DOMAIN ManifestOf
  <2>3. CompileConfigs(g.cfg, p.cfg, o.cfg, gens) =
            IF unknown THEN NotCompiled("generator")
            ELSE CompileWith(g.cfg, p.cfg, o.cfg, found)
    BY Zenon DEF CompileConfigs
  <2> HIDE DEF unknown, found
  <2> QED BY <1>6, <2>2, <2>3, Zenon
<1> HIDE DEF gens, found
<1>9. Compile(fs) = CompileRules(rs, creds)
  <2>1. "generated" \notin {"", "inject"}
    OBVIOUS
  <2> QED BY <1>4, <1>8, <2>1, Zenon DEF CompileWith
<1>10. Names(creds) = NamesIn(fs)
  <2>1. /\ g.cfg.credentials \in Seq(Elements(g.cfg.credentials))
        /\ p.cfg.credentials \in Seq(Elements(p.cfg.credentials))
        /\ o.cfg.credentials \in Seq(Elements(o.cfg.credentials))
    BY <1>1, Zenon DEF ConfigOK
  <2> DEFINE both == mergeCredentials(g.cfg.credentials, p.cfg.credentials)
  <2>2. /\ both \in Seq(Elements(both))
        /\ Names(both) = Names(g.cfg.credentials) \cup Names(p.cfg.credentials)
    BY <2>1, CredentialsMerged, Zenon
  <2> HIDE DEF both
  <2>3. Names(mergeCredentials(both, o.cfg.credentials)) = Names(both) \cup Names(o.cfg.credentials)
    BY <2>1, <2>2, CredentialsMerged, Zenon
  <2> QED BY <2>2, <2>3, Zenon DEF both, NamesIn, g, p, o
<1>11. \A name : name # "" => (InjectsAny(rs, name) <=> name \in InjectedIn(fs))
  <2> SUFFICES ASSUME NEW name, name # ""
               PROVE  InjectsAny(rs, name) <=> name \in InjectedIn(fs)
    OBVIOUS
  <2>1. InjectsAny(rs, name)
            <=> InjectsAny(g.cfg, name) \/ InjectsAny(p.cfg, name) \/ InjectsAny(o.cfg, name)
    BY <1>1, <1>7, SetInjects, Zenon
  <2>2. /\ name \in Injected(g.cfg) <=> InjectsAny(g.cfg, name)
        /\ name \in Injected(p.cfg) <=> InjectsAny(p.cfg, name)
        /\ name \in Injected(o.cfg) <=> InjectsAny(o.cfg, name)
    BY InjectedIs, Zenon
  <2> HIDE DEF rs
  <2> QED BY <2>1, <2>2 DEF InjectedIn, g, p, o
<1>12. "" \notin InjectedIn(fs)
  BY InjectedIs DEF InjectedIn
<1> HIDE DEF rs, creds
<1>13. validateInjectRefs(rs, creds)
            <=> \A name : name # "" /\ InjectsAny(rs, name) => name \in Names(creds)
  <2>1. validateInjectRefs(rs, creds) <=>
          /\ \A r \in Elements(rs.allow) : r.inject # "" => r.inject \in Names(creds)
          /\ \A r \in Elements(rs.deny) : r.inject # "" => r.inject \in Names(creds)
    BY Zenon DEF validateInjectRefs
  <2>2. \A list : (\A r \in Elements(list) : r.inject # "" => r.inject \in Names(creds))
              <=> \A name : Injects(list, name) /\ name # "" => name \in Names(creds)
    BY Zenon DEF Injects
  <2> QED BY <2>1, <2>2, Zenon DEF InjectsAny
<1>14. validateInjectRefs(rs, creds) <=> InjectedIn(fs) \subseteq NamesIn(fs)
  BY <1>10, <1>11, <1>12, <1>13
<1>15. Compile(fs).err = "" <=> validateInjectRefs(rs, creds)
  <2>1. \A c : Compiled(c).err = ""
    BY DEF Compiled
  <2>2. "inject" # ""
    OBVIOUS
  <2> QED BY <1>3, <1>9, <2>1, <2>2, Zenon DEF CompileRules
<1> QED BY <1>5, <1>14, <1>15, Zenon DEF Readable, g, p, o

\* What makes a rule's credential undefined.
LEMMA DanglingFrom ==
    ASSUME NEW new, NEW gone, NEW fs, NEW gs, FilesTurn(new, gone, fs, gs),
           Compile(fs).err = "", Compile(gs).err = "inject"
    PROVE  /\ Readable(fs) /\ Readable(gs)
           /\ NamesIn(fs) \subseteq NamesIn(gs) \cup gone
           /\ \E n : /\ n # "" /\ n \notin NamesIn(gs)
                     /\ n \in new \/ (n \in gone /\ n \in InjectedIn(fs))
<1>1. FilesOK(fs) /\ FilesOK(gs)
  BY Zenon DEF FilesTurn
<1>2. /\ Readable(fs) /\ InjectedIn(fs) \subseteq NamesIn(fs)
  BY <1>1, CompileOffers, Zenon
<1>3. Compile(gs).err \in {"", "inject"} /\ Compile(gs).err # ""
  OBVIOUS
<1>4. /\ Readable(gs) /\ ~(InjectedIn(gs) \subseteq NamesIn(gs))
  BY <1>1, <1>3, CompileOffers, Zenon
<1>5. /\ Widens(new, gone, Global(fs).cfg, Global(gs).cfg)
      /\ Widens(new, gone, Project(fs).cfg, Project(gs).cfg)
      /\ Widens(new, gone, loadOverlay(fs).cfg, loadOverlay(gs).cfg)
  BY <1>2, <1>4, LayersWidened, Zenon DEF Readable, Widened
<1>6. InjectedIn(gs) \subseteq InjectedIn(fs) \cup new
  BY <1>5 DEF Widens, InjectedIn
<1>7. NamesIn(fs) \subseteq NamesIn(gs) \cup gone
  BY <1>5 DEF Widens, NamesIn
<1>8. PICK n \in InjectedIn(gs) : n \notin NamesIn(gs)
  BY <1>4
<1>9. n # "" /\ (n \in new \/ (n \in gone /\ n \in InjectedIn(fs)))
  <2>1. n # ""
    BY <1>8, InjectedIs DEF InjectedIn
  <2> QED BY <1>2, <1>6, <1>7, <1>8, <2>1
<1> QED BY <1>2, <1>4, <1>7, <1>8, <1>9, Zenon

\* What is known of a config that loads.
LEMMA LoadOffers ==
    ASSUME NEW fs, FilesOK(fs), Load(fs).err = ""
    PROVE  /\ Injected(Load(fs).cfg) = Injected(Global(fs).cfg) \cup Injected(Project(fs).cfg)
           /\ Names(Load(fs).cfg.credentials) =
                Names(Global(fs).cfg.credentials) \cup Names(Project(fs).cfg.credentials)
<1> DEFINE g == Global(fs)
           p == Project(fs)
           m == merge(merge(EmptyConfig, g.cfg), p.cfg)
           all == over(over(Ok(EmptyConfig), g), p)
<1>1. ConfigOK(g.cfg) /\ ConfigOK(p.cfg)
  BY LayerType, Zenon DEF ResultOK, Global, Project
<1>2. Load(fs) = Effective(all)
  BY Zenon DEF Load, Global, Project
<1> HIDE DEF g, p
<1>3. \A c : Ok(c).cfg = c /\ Ok(c).err = ""
  BY DEF Ok
<1>4. \A e : e # "" => Err(e).err # ""
  BY DEF Err
<1>5. all.err = "" /\ Load(fs) = all
  <2> HIDE DEF all
  <2> QED BY <1>2, <1>4, Zenon DEF Effective
<1>6. Fine(over(Ok(EmptyConfig), g)) /\ Fine(p) /\ Fine(g)
  <2>1. Fine(over(over(Ok(EmptyConfig), g), p))
    BY <1>5 DEF Fine
  <2>2. Fine(over(Ok(EmptyConfig), g)) /\ Fine(p)
    BY <2>1, OverError, Zenon
  <2> QED BY <2>2, OverError, Zenon
<1>7. over(Ok(EmptyConfig), g) = Ok(merge(EmptyConfig, g.cfg))
  BY <1>3, <1>6, Zenon DEF over, Fine
<1>8. all = Ok(m)
  <2>1. over(Ok(merge(EmptyConfig, g.cfg)), p) = Ok(m)
    BY <1>3, <1>6, Zenon DEF over, Fine
  <2> QED BY <1>7, <2>1, Zenon
<1>9. Load(fs).cfg = m
  BY <1>3, <1>5, <1>8, Zenon
<1>10. /\ Elements(m.allow) = Elements(g.cfg.allow) \cup Elements(p.cfg.allow)
       /\ Elements(m.deny) = Elements(g.cfg.deny) \cup Elements(p.cfg.deny)
       /\ Names(m.credentials) = Names(g.cfg.credentials) \cup Names(p.cfg.credentials)
  BY <1>1, MergedLists, Zenon
<1> HIDE DEF m
<1>11. Injected(m) = Injected(g.cfg) \cup Injected(p.cfg)
  <2>1. \A n : n \in Injected(m) <=> n \in Injected(g.cfg) \cup Injected(p.cfg)
    BY <1>10 DEF Injected
  <2> QED BY <2>1
<1> QED BY <1>9, <1>10, <1>11, Zenon DEF g, p

(***************************************************************************)
(* What an editor adds and takes.                                          *)
(***************************************************************************)

Turned(new, gone, a, b) == b.include = a.include /\ Widens(new, gone, a, b)

\* A file on one line that has lost all it had.
Emptied(t, u) == "root" \in t.oneLine /\ Parse(u) = Some(EmptyConfig)

\* A list of a text that changes: its new rules inject what is new, and its
\* credentials stay but for those that have gone.
Offers(new, gone, t, key, items) ==
    /\ key \in RuleKeys =>
        \A x \in Elements(items) \ Elements(t[key].items) :
            One(key, x).inject \in Injected(Parse(t)[1]) \cup new \cup {""}
    /\ key = "credentials" =>
        Names(All(key, t[key].items)) \subseteq Names(All(key, items)) \cup gone

LEMMA AllElements ==
    ASSUME NEW key, NEW items
    PROVE  Elements(All(key, items)) = {One(key, x) : x \in Elements(items)}
<1> DEFINE out == All(key, items)
<1>1. out = [i \in DOMAIN items |-> One(key, items[i])]
  BY Zenon DEF All
<1> HIDE DEF out
<1>2. DOMAIN out = DOMAIN items /\ \A i \in DOMAIN items : out[i] = One(key, items[i])
  BY <1>1, Zenon
<1> QED BY <1>2, Zenon DEF Elements, out

LEMMA ListOffers ==
    ASSUME NEW new, NEW gone, NEW t, TextOK(t), Parse(t) # Nil, NEW u,
           NEW key \in ListKeys \ {"include"}, NEW items, Changed(t, u, key, items),
           Offers(new, gone, t, key, items)
    PROVE  Turned(new, gone, Parse(t)[1], Parse(u)[1])
<1> PICK a : a = Parse(t)[1]
  OBVIOUS
<1> PICK b : b = Parse(u)[1]
  OBVIOUS
<1>1. /\ b[key] = All(key, items)
      /\ \A k \in ListKeys \ {key} : b[k] = a[k]
  BY Zenon DEF Changed
<1>2. a[key] = All(key, t[key].items)
  BY ParsedSeqs
<1>3. {"allow", "deny", "include", "credentials"} \subseteq ListKeys
  BY ListKeysAre DEF OtherKeys
<1>4. b.include = a.include
  BY <1>1, <1>3
<1>5. ASSUME NEW k \in RuleKeys, NEW r \in Elements(b[k])
      PROVE  r.inject \in Injected(a) \cup new \cup {""}
  <2>0. k \in ListKeys
    BY <1>3 DEF RuleKeys
  <2>1. \A x \in Elements(a[k]) : x.inject \in Injected(a) \cup {""}
    <3>1. \A x \in Elements(a.allow) \cup Elements(a.deny) :
            x.inject \in Injected(a) \cup {""}
      BY DEF Injected
    <3>2. CASE k = "allow"
      BY <3>1, <3>2
    <3>3. CASE k = "deny"
      BY <3>1, <3>3
    <3> QED BY <3>2, <3>3 DEF RuleKeys
  <2>2. CASE k # key
    <3>1. b[k] = a[k]
      BY <1>1, <2>0, <2>2
    <3> QED BY <1>5, <2>1, <3>1
  <2>3. CASE k = key
    <3>1. PICK x \in Elements(items) : r = One(key, x)
      BY <1>1, <1>5, <2>3, AllElements
    <3>2. CASE x \in Elements(t[key].items)
      <4>1. r \in Elements(a[k])
        <5>1. Elements(a[k]) = {One(key, y) : y \in Elements(t[key].items)}
          BY <1>2, <2>3, AllElements
        <5> QED BY <3>1, <3>2, <5>1
      <4> QED BY <2>1, <4>1
    <3>3. CASE x \notin Elements(t[key].items)
      BY <2>3, <3>1, <3>3, Zenon DEF Offers
    <3> QED BY <3>2, <3>3
  <2> QED BY <2>2, <2>3
<1>6. Injected(b) \subseteq Injected(a) \cup new
  <2>1. \A r \in Elements(b.allow) \cup Elements(b.deny) :
            r.inject \in Injected(a) \cup new \cup {""}
    BY <1>5 DEF RuleKeys
  <2> DEFINE I == Injected(a)
  <2> HIDE DEF I
  <2> QED BY <2>1 DEF Injected, I
<1>7. Names(a.credentials) \subseteq Names(b.credentials) \cup gone
  <2>1. CASE key = "credentials"
    <3>1. Names(a[key]) \subseteq Names(b[key]) \cup gone
      BY <1>1, <1>2, <2>1, Zenon DEF Offers
    <3> QED BY <2>1, <3>1
  <2>2. CASE key # "credentials"
    <3>1. b.credentials = a.credentials
      BY <1>1, <1>3, <2>2
    <3> QED BY <3>1
  <2> QED BY <2>1, <2>2
<1> QED BY <1>4, <1>6, <1>7, Zenon DEF Turned, Widens

\* Another list in the place of one.
LEMMA PutOffers ==
    ASSUME NEW new, NEW gone, NEW t, TextOK(t), Parse(t) # Nil,
           NEW key \in ListKeys \ {"include"}, NEW list, IsSeq(list.items),
           Parse(Put(t, key, list)) # Nil, Offers(new, gone, t, key, list.items)
    PROVE  Turned(new, gone, Parse(t)[1], Parse(Put(t, key, list))[1])
BY ListChanged, ListOffers, Zenon

\* A rule whose credential is new or injected already.
Brings(new, t, key, x) ==
    key \in RuleKeys => One(key, x).inject \in Injected(Parse(t)[1]) \cup new \cup {""}

\* One entry more, at either end.
LEMMA AppendOffers ==
    ASSUME NEW new, NEW gone, NEW t, TextOK(t), Parse(t) # Nil,
           NEW key \in ListKeys, NEW x, Brings(new, t, key, x), NEW items,
           \/ items = Append(t[key].items, x)
           \/ items = <<x>> \o t[key].items
    PROVE  IsSeq(items) /\ Offers(new, gone, t, key, items)
<1> DEFINE s == t[key].items
<1>1. IsSeq(s)
  BY TextSeqs, Zenon
<1>0. items = Append(s, x) \/ items = <<x>> \o s
  OBVIOUS
<1> HIDE DEF s
<1>2. IsSeq(items)
  BY <1>0, <1>1, SeqAppended, Zenon
<1>3. s \in Seq(Elements(s) \cup {x}) /\ x \in Elements(s) \cup {x}
  BY <1>1 DEF IsSeq
<1>4. Elements(items) = Elements(s) \cup {x}
  <2>1. CASE items = Append(s, x)
    BY <1>3, <2>1, AppendElements
  <2>2. CASE items = <<x>> \o s
    <3>1. /\ DOMAIN items = 1..(1 + Len(s)) /\ DOMAIN s = 1..Len(s) /\ Len(s) \in Nat
          /\ items[1] = x /\ \A i \in 1..Len(s) : items[i + 1] = s[i]
      BY <1>3, <2>2
    <3>2. Elements(s) \cup {x} \subseteq Elements(items)
      <4>1. x \in Elements(items)
        BY <3>1 DEF Elements
      <4>2. ASSUME NEW i \in DOMAIN s PROVE s[i] \in Elements(items)
        <5>1. i + 1 \in DOMAIN items /\ items[i + 1] = s[i]
          BY <3>1
        <5> QED BY <5>1, Zenon DEF Elements
      <4> QED BY <4>1, <4>2 DEF Elements
    <3>3. ASSUME NEW j \in DOMAIN items PROVE items[j] \in Elements(s) \cup {x}
      <4>1. CASE j = 1
        BY <3>1, <4>1
      <4>2. CASE j # 1
        <5>1. j - 1 \in 1..Len(s) /\ (j - 1) + 1 = j
          BY <3>1, <4>2
        <5>2. items[j] = s[j - 1] /\ j - 1 \in DOMAIN s
          BY <3>1, <5>1
        <5> QED BY <5>2 DEF Elements
      <4> QED BY <4>1, <4>2
    <3> QED BY <3>2, <3>3 DEF Elements
  <2> QED BY <1>0, <2>1, <2>2
<1>5. key \in RuleKeys =>
        \A y \in Elements(items) \ Elements(s) :
            One(key, y).inject \in Injected(Parse(t)[1]) \cup new \cup {""}
  BY <1>4 DEF Brings
<1>6. Names(All(key, s)) \subseteq Names(All(key, items))
  <2>1. \A z : Names(z) = {c.name : c \in Elements(z)}
    BY DEF Names, Elements
  <2>2. Elements(All(key, s)) \subseteq Elements(All(key, items))
    BY <1>4, AllElements
  <2> QED BY <2>1, <2>2
<1>7. Names(All(key, s)) \subseteq Names(All(key, items)) \cup gone
  BY <1>6
<1> QED BY <1>2, <1>5, <1>7, Zenon DEF Offers, s

LEMMA SwapOffers ==
    ASSUME NEW new, NEW gone, NEW t, TextOK(t), Parse(t) # Nil,
           NEW key \in RuleKeys, NEW i \in 1..Len(t[key].items), NEW x, Brings(new, t, key, x)
    PROVE  LET items == Swap(t[key].items, i, x)
           IN IsSeq(items) /\ Offers(new, gone, t, key, items)
<1> DEFINE s == t[key].items
           items == Swap(s, i, x)
<1>0. key \in ListKeys /\ key # "credentials"
  BY ListKeysAre DEF RuleKeys
<1>1. IsSeq(s)
  BY <1>0, TextSeqs, Zenon
<1>2. i \in 1..Len(s)
  OBVIOUS
<1> HIDE DEF s
<1>3. IsSeq(items)
  BY <1>1, <1>2, SeqReplaced, Zenon
<1>4. Elements(items) \subseteq Elements(s) \cup {x}
  BY <1>1 DEF Elements, Swap, IsSeq
<1> HIDE DEF items
<1>5. \A y \in Elements(items) \ Elements(s) :
            One(key, y).inject \in Injected(Parse(t)[1]) \cup new \cup {""}
  BY <1>4 DEF Brings
<1> QED BY <1>0, <1>3, <1>5, Zenon DEF Offers, s, items

\* One entry less, or none left.
LEMMA WithoutOffers ==
    ASSUME NEW new, NEW gone, NEW t, TextOK(t), Parse(t) # Nil,
           NEW key \in ListKeys \ {"credentials"}, NEW i \in 1..Len(t[key].items)
    PROVE  /\ IsSeq(Without(t[key].items, i)) /\ IsSeq(<<>>)
           /\ Offers(new, gone, t, key, Without(t[key].items, i))
           /\ Offers(new, gone, t, key, <<>>)
<1> DEFINE s == t[key].items
<1>1. IsSeq(s)
  BY TextSeqs, Zenon
<1>2. i \in 1..Len(s)
  OBVIOUS
<1> HIDE DEF s
<1>3. IsSeq(Without(s, i)) /\ Elements(Without(s, i)) \subseteq Elements(s)
  <2>1. Without(s, i) \in Seq(Elements(s))
    BY <1>1, <1>2, WithoutIs DEF IsSeq
  <2> DEFINE w == Without(s, i)
  <2> HIDE DEF w
  <2> QED BY <2>1, SeqIs DEF Elements, w
<1>4. IsSeq(<<>>) /\ Elements(<<>>) = {}
  BY DEF IsSeq, Elements
<1>5. \A items : Elements(items) \subseteq Elements(s) => Offers(new, gone, t, key, items)
  BY DEF Offers, s
<1> QED BY <1>3, <1>4, <1>5 DEF s

\* An editor.
Turning(new, gone, t, edit) ==
    Parse(t) # Nil /\ Parse(edit.out) # Nil =>
        Turned(new, gone, Parse(t)[1], Parse(edit.out)[1]) \/ Emptied(t, edit.out)

LEMMA TurningIs ==
    ASSUME NEW new, NEW gone, NEW t, NEW edit, Turning(new, gone, t, edit)
    PROVE  Turns(new, gone, t, edit.out) \/ Emptied(t, edit.out)
BY Zenon DEF Turning, Turned, Turns

LEMMA SameTurning ==
    ASSUME NEW new, NEW gone, NEW t, NEW edit, edit.out = t
    PROVE  Turning(new, gone, t, edit)
BY SameWidens, Zenon DEF Turning, Turned

LEMMA GatedTurning ==
    ASSUME NEW new, NEW gone, NEW t, NEW u, NEW valid,
           Parse(t) # Nil /\ Parse(u) # Nil /\ valid =>
                Turned(new, gone, Parse(t)[1], Parse(u)[1]) \/ Emptied(t, u)
    PROVE  Turning(new, gone, t, Gated(t, u, valid))
<1>1. CASE Parse(u) # Nil /\ valid
  BY <1>1, OutIs, Zenon DEF Gated, Turning
<1>2. CASE ~(Parse(u) # Nil /\ valid)
  <2>1. Gated(t, u, valid).out = t
    BY <1>2, OutIs, Zenon DEF Gated
  <2> QED BY <2>1, SameTurning, Zenon
<1> QED BY <1>1, <1>2, Zenon

LEMMA EditTurning ==
    ASSUME NEW new, NEW gone, NEW t, NEW edit, Parse(t) # Nil => Turning(new, gone, t, edit)
    PROVE  Turning(new, gone, t, Edit(t, Parse(t), edit))
<1>1. CASE Parse(t) = Nil
  BY <1>1, Zenon DEF Turning
<1>2. CASE Parse(t) # Nil
  BY <1>2, Zenon DEF Edit
<1> QED BY <1>1, <1>2

LEMMA SpliceTurned ==
    ASSUME NEW new, NEW gone, NEW t, TextOK(t), Parse(t) # Nil,
           NEW key \in ListKeys \ {"include"}, NEW item, Brings(new, t, key, item),
           Parse(Splice(t, key, item)) # Nil
    PROVE  Turned(new, gone, Parse(t)[1], Parse(Splice(t, key, item))[1])
<1> DEFINE list == WithItem(t[key], item)
<1>1. ~(t[key].style = "flow" \/ Crowded(t, key))
  BY UnparsableIs, Zenon DEF Splice
<1>2. Splice(t, key, item) = Put(t, key, list)
  BY <1>1 DEF Splice, Put
<1>3. list.items = Append(t[key].items, item) \/ list.items = <<item>> \o t[key].items
  BY WithItemIs
<1> HIDE DEF list
<1>4. IsSeq(list.items) /\ Offers(new, gone, t, key, list.items)
  BY <1>3, AppendOffers, Zenon
<1> QED BY <1>2, <1>4, PutOffers, Zenon

LEMMA ReplaceTurned ==
    ASSUME NEW new, NEW gone, NEW t, TextOK(t), Parse(t) # Nil,
           NEW key \in RuleKeys, NEW i \in 1..Len(t[key].items), NEW item,
           Brings(new, t, key, item), Parse(Replace(t, key, i, item)) # Nil
    PROVE  Turned(new, gone, Parse(t)[1], Parse(Replace(t, key, i, item))[1])
<1> DEFINE list == [t[key] EXCEPT !.items = Swap(t[key].items, i, item)]
<1>0. key \in ListKeys \ {"include"}
  BY ListKeysAre DEF RuleKeys
<1>1. ~(t[key].style = "flow" \/ Crowded(t, key))
  BY UnparsableIs, Zenon DEF Replace
<1>2. Replace(t, key, i, item) = Put(t, key, list)
  BY <1>1 DEF Replace, Put, Swap
<1>3. list.items = Swap(t[key].items, i, item)
  BY <1>0, ListHasItems
<1> HIDE DEF list
<1>4. IsSeq(list.items) /\ Offers(new, gone, t, key, list.items)
  BY <1>3, SwapOffers, Zenon
<1> QED BY <1>0, <1>2, <1>4, PutOffers, Zenon

LEMMA PutLess ==
    ASSUME NEW new, NEW gone, NEW t, TextOK(t), Parse(t) # Nil,
           NEW key \in ListKeys \ {"include", "credentials"},
           NEW i \in 1..Len(t[key].items), NEW list,
           \/ list.items = Without(t[key].items, i)
           \/ list.items = <<>>,
           Parse(Put(t, key, list)) # Nil
    PROVE  Turned(new, gone, Parse(t)[1], Parse(Put(t, key, list))[1])
<1>0. key \in ListKeys \ {"include"} /\ key \in ListKeys \ {"credentials"}
  OBVIOUS
<1> DEFINE less == Without(t[key].items, i)
<1>1. /\ IsSeq(less) /\ IsSeq(<<>>)
      /\ Offers(new, gone, t, key, less) /\ Offers(new, gone, t, key, <<>>)
  BY <1>0, WithoutOffers, Zenon
<1>2. list.items = less \/ list.items = <<>>
  OBVIOUS
<1> HIDE DEF less
<1>3. IsSeq(list.items) /\ Offers(new, gone, t, key, list.items)
  BY <1>1, <1>2, Zenon
<1> QED BY <1>0, <1>3, PutOffers, Zenon

\* Rules lost, and nothing else that matters.
LEMMA LessTurned ==
    ASSUME NEW new, NEW gone, NEW t, TextOK(t), Parse(t) # Nil,
           NEW u, TextOK(u), Parse(u) # Nil,
           u["include"] = t["include"],
           \A k \in RuleKeys : u[k] = t[k] \/ u[k].items = <<>>,
           Names(Parse(t)[1].credentials) \subseteq Names(Parse(u)[1].credentials) \cup gone
    PROVE  Turned(new, gone, Parse(t)[1], Parse(u)[1])
<1> DEFINE a == Parse(t)[1]
           b == Parse(u)[1]
<1>1. \A k \in ListKeys : a[k] = All(k, t[k].items) /\ b[k] = All(k, u[k].items)
  BY ParsedSeqs, Zenon
<1>2. {"allow", "deny", "include", "credentials"} \subseteq ListKeys
  BY ListKeysAre DEF OtherKeys
<1>0. Names(a.credentials) \subseteq Names(b.credentials) \cup gone
  OBVIOUS
<1> HIDE DEF a, b
<1>3. b["include"] = a["include"]
  <2>1. u["include"] = t["include"]
    OBVIOUS
  <2> QED BY <1>1, <1>2, <2>1
<1>4. ASSUME NEW k \in RuleKeys PROVE Elements(b[k]) \subseteq Elements(a[k])
  <2>1. k \in ListKeys
    BY <1>2 DEF RuleKeys
  <2>2. CASE u[k] = t[k]
    BY <1>1, <2>1, <2>2
  <2>3. CASE u[k].items = <<>>
    <3>1. Elements(All(k, <<>>)) = {}
      BY DEF All, Elements
    <3>2. b[k] = All(k, <<>>)
      BY <1>1, <2>1, <2>3, Zenon
    <3> QED BY <3>1, <3>2
  <2> QED BY <2>2, <2>3
<1>5. Elements(b.allow) \subseteq Elements(a.allow) /\ Elements(b.deny) \subseteq Elements(a.deny)
  BY <1>4 DEF RuleKeys
<1>6. Injected(b) \subseteq Injected(a) \cup new
  BY <1>5 DEF Injected
<1>7. b.include = a.include
  BY <1>3
<1> QED BY <1>0, <1>6, <1>7, Zenon DEF Turned, Widens, a, b

\* A line that is not all of the file.
LEMMA LineTurned ==
    ASSUME NEW new, NEW gone, NEW t, TextOK(t), Parse(t) # Nil, "root" \notin t.oneLine,
           NEW key \in ListKeys \ {"include", "credentials"}, Parse(Dropped(t, key)) # Nil
    PROVE  Turned(new, gone, Parse(t)[1], Parse(Dropped(t, key))[1])
<1> DEFINE u == Dropped(t, key)
<1>1. \A s \in OneLine(t, key) : "include" \notin Holds[s] /\ "credentials" \notin Holds[s]
  <2>1. OneLine(t, key) \subseteq {"egress", "network", "safehouse"}
    BY DEF OneLine, TextOK, Sections, Holds
  <2>2. \A s \in {"egress", "network", "safehouse"} :
            "include" \notin Holds[s] /\ "credentials" \notin Holds[s]
    BY DEF Holds
  <2> QED BY <2>1, <2>2
<1>2. "include" \notin LineOf(t, key) /\ "credentials" \notin LineOf(t, key)
  BY <1>1 DEF LineOf
<1>3. {"allow", "deny", "include", "credentials"} \subseteq ListKeys
  BY ListKeysAre DEF OtherKeys
<1>4. u["include"] = t["include"] /\ u["credentials"] = t["credentials"]
  BY <1>2, <1>3, DroppedLists
<1>5. \A k \in RuleKeys : u[k] = t[k] \/ u[k].items = <<>>
  BY <1>3, DroppedLists DEF RuleKeys
<1>6. TextOK(u) /\ Parse(u) # Nil
  BY DroppedType
<1> HIDE DEF u
<1>7. Parse(u)[1]["credentials"] = Parse(t)[1]["credentials"]
  <2>1. "credentials" \in ListKeys
    BY <1>3
  <2>2. /\ Parse(u)[1]["credentials"] = All("credentials", u["credentials"].items)
        /\ Parse(t)[1]["credentials"] = All("credentials", t["credentials"].items)
    BY <1>6, <2>1, ParsedSeqs, Zenon
  <2>3. u["credentials"] = t["credentials"]
    BY <1>4
  <2> QED BY <2>2, <2>3, Zenon
<1>8. Names(Parse(t)[1].credentials) \subseteq Names(Parse(u)[1].credentials) \cup gone
  BY <1>7
<1> QED BY <1>4, <1>5, <1>6, <1>8, LessTurned, Zenon DEF u

\* A line that is.
LEMMA FileEmptied ==
    ASSUME NEW t, TextOK(t), "root" \in t.oneLine, NEW key \in ListKeys,
           Parse(Dropped(t, key)) # Nil
    PROVE  Emptied(t, Dropped(t, key))
<1> DEFINE u == Dropped(t, key)
           K == {"allow", "deny", "generators", "services", "rw", "ro", "include",
                 "credentials", "env", "workdir"}
<1>1. K \subseteq LineOf(t, key)
  <2>1. Holds["root"] = K /\ key \in K
    BY ListKeysAre DEF Holds, OtherKeys
  <2>2. "root" \in OneLine(t, key)
    BY <2>1 DEF OneLine
  <2> QED BY <2>1, <2>2, Zenon DEF LineOf
<1>2. DOMAIN t = DOMAIN EmptyText /\ K \subseteq DOMAIN EmptyText
  BY DEF TextOK, EmptyText
<1> HIDE DEF K
<1>3. \A k \in K : u[k] = EmptyText[k]
  BY <1>1, <1>2 DEF Dropped
<1> HIDE DEF u
<1>4. applyDefaults(u) = EmptyConfig
  <2>1. /\ u.allow = EmptyText.allow /\ u.deny = EmptyText.deny
        /\ u.include = EmptyText.include /\ u.services = EmptyText.services
        /\ u.rw = EmptyText.rw /\ u.ro = EmptyText.ro
        /\ u.generators = EmptyText.generators
        /\ u.credentials = EmptyText.credentials
        /\ u.env = EmptyText.env /\ u.workdir = EmptyText.workdir
    BY <1>3 DEF K
  <2> QED BY <2>1, Zenon DEF applyDefaults, EmptyConfig
<1>5. Parse(u) = Some(applyDefaults(u))
  <2>1. Parse(u) # Nil
    BY DEF u
  <2> QED BY <2>1, Zenon DEF Parse, Valid
<1> QED BY <1>4, <1>5, Zenon DEF Emptied, u

LEMMA CutTurned ==
    ASSUME NEW new, NEW gone, NEW t, TextOK(t), Parse(t) # Nil,
           NEW key \in ListKeys \ {"include", "credentials"},
           NEW i \in 1..Len(t[key].items), Parse(Cut(t, key, i)) # Nil
    PROVE  \/ Turned(new, gone, Parse(t)[1], Parse(Cut(t, key, i))[1])
           \/ Emptied(t, Cut(t, key, i))
<1>1. CASE t[key].style = "flow" \/ Crowded(t, key)
  <2>1. Cut(t, key, i) = Dropped(t, key)
    BY <1>1, Zenon DEF Cut
  <2> QED BY <2>1, LineTurned, FileEmptied, Zenon
<1>2. CASE ~(t[key].style = "flow" \/ Crowded(t, key))
  <2> DEFINE list == Restyled(t[key].style, Without(t[key].items, i))
  <2>1. Cut(t, key, i) = Put(t, key, list)
    BY <1>2 DEF Cut, Put
  <2>2. list.items = Without(t[key].items, i)
    BY RestyledIs
  <2> HIDE DEF list
  <2> QED BY <2>1, <2>2, PutLess, Zenon
<1> QED BY <1>1, <1>2

LEMMA CutDirTurned ==
    ASSUME NEW new, NEW gone, NEW t, TextOK(t), Parse(t) # Nil,
           NEW key \in ListKeys \ {"include", "credentials"},
           NEW i \in 1..Len(t[key].items), Parse(CutDir(t, key, i)) # Nil
    PROVE  Turned(new, gone, Parse(t)[1], Parse(CutDir(t, key, i))[1])
<1> DEFINE list == IF t[key].style = "flow" THEN Listed("flow", Without(t[key].items, i))
                   ELSE Restyled(t[key].style, Without(t[key].items, i))
<1>1. ~Crowded(t, key)
  BY UnparsableIs, Zenon DEF CutDir
<1>2. CutDir(t, key, i) = Put(t, key, list)
  BY <1>1 DEF CutDir, Put
<1>3. list.items = Without(t[key].items, i)
  BY RestyledIs, ListedIs, Zenon
<1> HIDE DEF list
<1> QED BY <1>2, <1>3, PutLess, Zenon

\* A credential cut out has gone.
LEMMA CutCredentialTurned ==
    ASSUME NEW new, NEW t, TextOK(t), Parse(t) # Nil,
           NEW i \in 1..Len(t["credentials"].items),
           Parse(Cut(t, "credentials", i)) # Nil, NEW name,
           Names(Parse(t)[1].credentials) \ {name}
                \subseteq Names(Parse(Cut(t, "credentials", i))[1].credentials)
    PROVE  \/ Turned(new, {name}, Parse(t)[1], Parse(Cut(t, "credentials", i))[1])
           \/ Emptied(t, Cut(t, "credentials", i))
<1> DEFINE u == Cut(t, "credentials", i)
<1>1. {"allow", "deny", "include", "credentials"} \subseteq ListKeys
  BY ListKeysAre DEF OtherKeys
<1>2. CASE "root" \in t.oneLine
  <2>1. "credentials" \in Holds["root"]
    BY DEF Holds
  <2>2. Crowded(t, "credentials")
    BY <1>2, <2>1 DEF Crowded, OneLine
  <2>3. u = Dropped(t, "credentials")
    BY <2>2, Zenon DEF Cut
  <2> QED BY <1>1, <1>2, <2>3, FileEmptied, Zenon
<1>3. CASE "root" \notin t.oneLine
  <2>1. \A s \in t.oneLine : "credentials" \notin Holds[s]
    <3>1. t.oneLine \subseteq {"egress", "network", "safehouse"}
      BY <1>3 DEF TextOK, Sections, Holds
    <3>2. \A s \in {"egress", "network", "safehouse"} : "credentials" \notin Holds[s]
      BY DEF Holds
    <3> QED BY <3>1, <3>2
  <2>2. LineOf(t, "credentials") = {"credentials"}
    BY <2>1 DEF LineOf, OneLine
  <2>3. \A k \in {"allow", "deny", "include"} : u[k] = t[k]
    <3>1. CASE u = Dropped(t, "credentials")
      <4>1. \A k \in {"allow", "deny", "include"} :
                k \in ListKeys /\ k \notin LineOf(t, "credentials")
        BY <1>1, <2>2
      <4> DEFINE d == Dropped(t, "credentials")
      <4>2. \A k \in ListKeys : k \notin LineOf(t, "credentials") => d[k] = t[k]
        BY DroppedLists, Zenon
      <4>3. u = d
        BY <3>1
      <4> HIDE DEF d, u
      <4> QED BY <4>1, <4>2, <4>3, Zenon
    <3>2. CASE u # Dropped(t, "credentials")
      <4>1. \A k \in ListKeys : k \in DOMAIN t
        BY TextSeqs
      <4> QED BY <1>1, <3>2, <4>1 DEF Cut
    <3> QED BY <3>1, <3>2
  <2>5. TextOK(u)
    <3>1. "credentials" \in OtherKeys /\ i \in 0..Len(t["credentials"].items)
      BY DEF OtherKeys
    <3> QED BY <3>1, CutType, Zenon
  <2>6. Names(Parse(t)[1].credentials) \subseteq Names(Parse(u)[1].credentials) \cup {name}
    OBVIOUS
  <2>7. Parse(u) # Nil
    OBVIOUS
  <2> HIDE DEF u
  <2>8. u["include"] = t["include"] /\ \A k \in RuleKeys : u[k] = t[k] \/ u[k].items = <<>>
    BY <2>3 DEF RuleKeys
  <2> QED BY <2>5, <2>6, <2>7, <2>8, LessTurned, Zenon DEF u
<1> QED BY <1>2, <1>3

(***************************************************************************)
(* The editors: the credential of a rule added, and one that is removed.   *)
(***************************************************************************)

\* A rule of the config keeps its credential when it is written and read back.
LEMMA RuleKeepsInject ==
    ASSUME NEW r \in ConfigRules, NEW key \in RuleKeys
    PROVE  One(key, renderRuleItem(r)).inject = r.inject
<1>1. renderRuleItem(r).inject = r.inject
  BY DEF renderRuleItem, ConfigRules
<1>2. renderRuleItem(r) \in ConfigRules
  BY RenderType
<1> DEFINE x == renderRuleItem(r)
<1> HIDE DEF x
<1>3. x \in ConfigRules
  BY <1>2 DEF x
<1>4. One(key, x).inject = x.inject
  BY <1>3 DEF One, ConfigRules
<1> QED BY <1>1, <1>4 DEF x

LEMMA AppendRuleTurning ==
    ASSUME NEW t, TextOK(t), NEW before, NEW list \in RuleKeys, NEW rule \in ConfigRules
    PROVE  Turning({rule.inject}, {}, t, AppendRuleTo(t, before, list, rule))
<1> DEFINE u == Splice(t, list, renderRuleItem(rule))
<1>1. \/ AppendRuleTo(t, before, list, rule) = Unchanged(t)
      \/ AppendRuleTo(t, before, list, rule) =
            Gated(t, u, validateAppend(before, Parse(u)[1], list, rule))
  BY Zenon DEF AppendRuleTo
<1>2. list \in ListKeys \ {"include"}
  BY ListKeysAre DEF RuleKeys
<1>3. Brings({rule.inject}, t, list, renderRuleItem(rule))
  BY RuleKeepsInject DEF Brings
<1>4. Parse(t) # Nil /\ Parse(u) # Nil =>
        Turned({rule.inject}, {}, Parse(t)[1], Parse(u)[1])
  BY <1>2, <1>3, SpliceTurned, Zenon
<1>5. Unchanged(t).out = t
  BY OutIs
<1> HIDE DEF u
<1> QED BY <1>1, <1>4, <1>5, GatedTurning, SameTurning, Zenon

LEMMA AddRuleTurning ==
    ASSUME NEW t, TextOK(t), NEW list \in RuleKeys, NEW rule \in ConfigRules
    PROVE  Turning({rule.inject}, {}, t, AppendRule(t, list, rule))
<1>1. AppendRule(t, list, rule) =
        Edit(t, Parse(t), AppendRuleTo(t, Parse(t)[1], list, rule))
  BY Zenon DEF AppendRule
<1> QED BY <1>1, AppendRuleTurning, EditTurning, Zenon

LEMMA SetRuleAuthTurning ==
    ASSUME NEW t, TextOK(t), NEW list \in RuleKeys, NEW rule \in ConfigRules
    PROVE  Turning({rule.inject}, {}, t, SetRuleAuth(t, list, rule))
<1> DEFINE cfg == Parse(t)[1]
           rules == cfg[list]
           at == {k \in DOMAIN rules : ruleIdentity(rules[k]) = ruleIdentity(rule)}
           i == IF at = {} THEN 0 ELSE CHOOSE k \in at : \A j \in at : k <= j
           now == Authorized(rules[i], rule)
           u == Replace(t, list, i, renderRuleItem(now))
           edit == SetRuleAuthIn(t, cfg, list, rule)
<1>1. SetRuleAuth(t, list, rule) = Edit(t, Parse(t), edit)
  BY Zenon DEF SetRuleAuth
<1>2. edit = IF i = 0 THEN AppendRuleTo(t, cfg, list, rule) ELSE UpdateRule(t, cfg, list, i, now)
  BY Zenon DEF SetRuleAuthIn, indexOfIdentity, IndexOf
<1>3. \/ UpdateRule(t, cfg, list, i, now) = Unchanged(t)
      \/ UpdateRule(t, cfg, list, i, now) =
            Gated(t, u, validateSetRuleAuth(cfg, Parse(u)[1], list, i, now))
  BY Zenon DEF UpdateRule
<1>4. Parse(t) # Nil =>
        /\ i \in 0..Len(t[list].items) /\ rules \in Seq(ConfigRules)
        /\ DOMAIN rules = 1..Len(t[list].items)
  <2> HAVE Parse(t) # Nil
  <2>1. rules \in Seq(ConfigRules) /\ DOMAIN rules = DOMAIN t[list].items
    BY RulesOfText
  <2>2. DOMAIN t[list].items = 1..Len(t[list].items) /\ Len(t[list].items) \in Nat
    <3>1. IsSeq(t[list].items)
      BY TextSeqs, ListKeysAre DEF RuleKeys
    <3> QED BY <3>1 DEF IsSeq
  <2>3. at \subseteq 1..Len(t[list].items)
    BY <2>1, <2>2
  <2> HIDE DEF at
  <2>4. i \in 0..Len(t[list].items)
    BY <2>2, <2>3, FirstIndexType, Zenon
  <2> QED BY <2>1, <2>2, <2>4
<1> HIDE DEF i
<1>5. Parse(t) # Nil /\ i # 0 /\ Parse(u) # Nil =>
        Turned({rule.inject}, {}, Parse(t)[1], Parse(u)[1])
  <2> HAVE Parse(t) # Nil /\ i # 0 /\ Parse(u) # Nil
  <2>1. i \in 1..Len(t[list].items)
    BY <1>4
  <2> DEFINE old == rules[i]
  <2>2. old \in ConfigRules
    <3> HIDE DEF rules
    <3> QED BY <1>4, <2>1
  <2> HIDE DEF old
  <2>3. Authorized(old, rule).inject = rule.inject
    BY <2>2 DEF Authorized, ConfigRules
  <2>4. Authorized(old, rule) \in ConfigRules
    BY <2>2, AuthorizedType
  <2>5. Brings({rule.inject}, t, list, renderRuleItem(Authorized(old, rule)))
    BY <2>3, <2>4, RuleKeepsInject DEF Brings
  <2> QED BY <2>1, <2>5, ReplaceTurned, Zenon DEF old
<1>6. Unchanged(t).out = t
  BY OutIs
<1> HIDE DEF u, edit, cfg, now, rules
<1>7. Parse(t) # Nil /\ i # 0 => Turning({rule.inject}, {}, t, edit)
  BY <1>2, <1>3, <1>5, <1>6, GatedTurning, SameTurning, Zenon
<1>8. i = 0 => Turning({rule.inject}, {}, t, edit)
  BY <1>2, AppendRuleTurning, Zenon
<1> QED BY <1>1, <1>7, <1>8, EditTurning, Zenon

\* A key other than those that rules are under.
LEMMA BringsNone ==
    ASSUME NEW new, NEW t, NEW key, key \notin RuleKeys, NEW x
    PROVE  Brings(new, t, key, x)
BY Zenon DEF Brings

LEMMA AppendHostServiceTurning ==
    ASSUME NEW t, TextOK(t), NEW hs
    PROVE  Turning({}, {}, t, AppendHostService(t, hs))
<1> DEFINE u == Splice(t, "services", hs)
           cfg == Parse(t)[1]
           edit == AppendHostServiceTo(t, cfg, hs)
<1>1. \/ edit = Unchanged(t)
      \/ edit = Gated(t, u, validateServices(cfg, Parse(u)[1], Append(cfg.services, hs)))
  BY Zenon DEF AppendHostServiceTo
<1>2. AppendHostService(t, hs) = Edit(t, Parse(t), edit)
  BY Zenon DEF AppendHostService
<1>3. "services" \in ListKeys \ {"include"} /\ "services" \notin RuleKeys
  BY ListKeysAre DEF RuleKeys
<1>4. Brings({}, t, "services", hs)
  BY <1>3, BringsNone, Zenon
<1>5. Parse(t) # Nil /\ Parse(u) # Nil => Turned({}, {}, Parse(t)[1], Parse(u)[1])
  BY <1>3, <1>4, SpliceTurned, Zenon
<1>6. Unchanged(t).out = t
  BY OutIs
<1> HIDE DEF u, edit, cfg
<1> QED BY <1>1, <1>2, <1>5, <1>6, GatedTurning, SameTurning, EditTurning, Zenon

LEMMA AppendCredentialTurning ==
    ASSUME NEW t, TextOK(t), NEW name, NEW cred
    PROVE  Turning({}, {}, t, AppendCredential(t, name, cred))
<1> DEFINE entry == [name |-> name, cred |-> renderCredentialEntry(cred)]
           u == Splice(t, "credentials", entry)
           cfg == Parse(t)[1]
           edit == AppendCredentialTo(t, cfg, name, cred)
<1>1. \/ edit = Unchanged(t)
      \/ edit = Gated(t, u, validateAppendCredential(cfg, Parse(u)[1], name, cred))
  BY Zenon DEF AppendCredentialTo
<1>2. AppendCredential(t, name, cred) = Edit(t, Parse(t), edit)
  BY Zenon DEF AppendCredential
<1>3. "credentials" \in ListKeys \ {"include"} /\ "credentials" \notin RuleKeys
  BY ListKeysAre DEF RuleKeys, OtherKeys
<1> HIDE DEF entry
<1>4. Brings({}, t, "credentials", entry)
  BY <1>3, BringsNone, Zenon
<1>5. Parse(t) # Nil /\ Parse(u) # Nil => Turned({}, {}, Parse(t)[1], Parse(u)[1])
  BY <1>3, <1>4, SpliceTurned, Zenon
<1>6. Unchanged(t).out = t
  BY OutIs
<1> HIDE DEF u, edit, cfg
<1> QED BY <1>1, <1>2, <1>5, <1>6, GatedTurning, SameTurning, EditTurning, Zenon

LEMMA AppendDirTurning ==
    ASSUME NEW t, TextOK(t), NEW key \in {"rw", "ro"}, NEW dir
    PROVE  Turning({}, {}, t, AppendDir(t, key, dir))
<1> DEFINE u == SpliceDir(t, key, dir)
           cfg == Parse(t)[1]
           after == Parse(u)[1]
           edit == AppendDirTo(t, cfg, key, dir)
           fits == /\ SameRules(cfg, after)
                   /\ sameHostServices(cfg.services, after.services)
                   /\ validateDirs(cfg, after, key, Append(cfg[key], dir))
<1>1. \/ edit = Unchanged(t)
      \/ edit = Gated(t, u, fits)
  BY Zenon DEF AppendDirTo
<1>2. AppendDir(t, key, dir) = Edit(t, Parse(t), edit)
  BY Zenon DEF AppendDir
<1>3. key \in ListKeys \ {"include"} /\ key \in ListKeys /\ key \notin RuleKeys
  BY ListKeysAre DEF RuleKeys, OtherKeys
<1>4. Brings({}, t, key, dir)
  BY <1>3, BringsNone, Zenon
<1>5. Parse(t) # Nil /\ Parse(u) # Nil => Turned({}, {}, Parse(t)[1], Parse(u)[1])
  <2> HAVE Parse(t) # Nil /\ Parse(u) # Nil
  <2> DEFINE list == IF t[key].style \in {"block", "flush"} THEN WithItem(t[key], dir)
                     ELSE Listed("flow", Append(t[key].items, dir))
  <2>0. ~Crowded(t, key)
    BY UnparsableIs, Zenon DEF SpliceDir
  <2>1. u = Put(t, key, list)
    BY <2>0 DEF SpliceDir, Put
  <2>2. list.items = Append(t[key].items, dir) \/ list.items = <<dir>> \o t[key].items
    BY WithItemIs, ListedIs, Zenon
  <2> HIDE DEF list, u
  <2>3. IsSeq(list.items) /\ Offers({}, {}, t, key, list.items)
    BY <1>3, <1>4, <2>2, AppendOffers, Zenon
  <2> QED BY <1>3, <2>1, <2>3, PutOffers, Zenon
<1>6. Unchanged(t).out = t
  BY OutIs
<1> HIDE DEF u, edit, cfg, fits
<1> QED BY <1>1, <1>2, <1>5, <1>6, GatedTurning, SameTurning, EditTurning, Zenon

LEMMA RemoveHostServiceTurning ==
    ASSUME NEW t, TextOK(t), NEW port
    PROVE  Turning({}, {}, t, RemoveHostService(t, port))
<1> DEFINE cfg == Parse(t)[1]
           at == {k \in DOMAIN cfg.services : cfg.services[k].port = port}
           i == IF at = {} THEN 0 ELSE CHOOSE k \in at : \A j \in at : k <= j
           u == Cut(t, "services", i)
           valid == validateServices(cfg, Parse(u)[1], Without(cfg.services, i))
           edit == RemoveHostServiceAt(t, cfg, i)
<1>1. RemoveHostService(t, port) = Edit(t, Parse(t), edit)
  BY Zenon DEF RemoveHostService, indexOfPort, IndexOf
<1>2. edit = IF i = 0 THEN Failed(t, "not_found") ELSE Gated(t, u, valid)
  BY Zenon DEF RemoveHostServiceAt
<1>3. Parse(t) # Nil => i \in 0..Len(t.services.items)
  <2> HAVE Parse(t) # Nil
  <2>1. cfg.services = t.services.items /\ cfg.services \in Seq(Services)
    BY RulesOfText
  <2>2. at \subseteq 1..Len(t.services.items) /\ Len(t.services.items) \in Nat
    BY <2>1
  <2> HIDE DEF at
  <2> QED BY <2>2, FirstIndexType, Zenon
<1> HIDE DEF i
<1>4. Parse(t) # Nil /\ i # 0 /\ Parse(u) # Nil =>
        Turned({}, {}, Parse(t)[1], Parse(u)[1]) \/ Emptied(t, u)
  <2> HAVE Parse(t) # Nil /\ i # 0 /\ Parse(u) # Nil
  <2>1. i \in 1..Len(t["services"].items)
    BY <1>3
  <2>2. "services" \in ListKeys \ {"include", "credentials"}
    BY ListKeysAre
  <2> QED BY <2>1, <2>2, CutTurned, Zenon
<1>5. \A err : Failed(t, err).out = t
  BY OutIs
<1> HIDE DEF u, edit, cfg, valid
<1>6. Turning({}, {}, t, Failed(t, "not_found"))
  BY <1>5, SameTurning, Zenon
<1>7. i # 0 /\ Parse(t) # Nil => Turning({}, {}, t, Gated(t, u, valid))
  BY <1>4, GatedTurning, Zenon
<1>8. Parse(t) # Nil => Turning({}, {}, t, edit)
  BY <1>2, <1>6, <1>7, Zenon
<1> QED BY <1>1, <1>8, EditTurning, Zenon

\* A rule of a text injects what the text does, or nothing.
LEMMA RuleInjects ==
    ASSUME NEW t, TextOK(t), Parse(t) # Nil, NEW list \in RuleKeys,
           NEW i \in 1..Len(t[list].items)
    PROVE  /\ Parse(t)[1][list][i] \in ConfigRules
           /\ Parse(t)[1][list][i].inject \in Injected(Parse(t)[1]) \cup {""}
<1> PICK a : a = Parse(t)[1]
  OBVIOUS
<1>1. a[list] \in Seq(ConfigRules) /\ DOMAIN a[list] = DOMAIN t[list].items
  BY RulesOfText
<1>2. DOMAIN t[list].items = 1..Len(t[list].items)
  <2>1. IsSeq(t[list].items)
    BY TextSeqs, ListKeysAre DEF RuleKeys
  <2> QED BY <2>1 DEF IsSeq
<1>3. a[list][i] \in ConfigRules /\ a[list][i] \in Elements(a[list])
  BY <1>1, <1>2 DEF Elements
<1>4. a[list][i] \in Elements(a.allow) \cup Elements(a.deny)
  <2>1. CASE list = "allow"
    BY <1>3, <2>1
  <2>2. CASE list = "deny"
    BY <1>3, <2>2
  <2> QED BY <2>1, <2>2 DEF RuleKeys
<1>5. a[list][i].inject \in Injected(a) \cup {""}
  BY <1>4 DEF Injected
<1> QED BY <1>3, <1>5

LEMMA NarrowedInjects ==
    ASSUME NEW r \in ConfigRules, NEW path, Narrowed(r, path) # Nil
    PROVE  Narrowed(r, path)[1].inject = r.inject
<1> DEFINE Is(p) == p = path[1]
           left == Without(r.paths[1], IndexOf(r.paths[1], Is))
           n == [r EXCEPT !.paths = [@ EXCEPT ![1] = left]]
<1>1. Narrowed(r, path) = Some([r EXCEPT !.paths[1] = left])
  BY Zenon DEF Narrowed
<1> HIDE DEF left
<1>2. Narrowed(r, path)[1] = [r EXCEPT !.paths[1] = left]
  BY <1>1 DEF Some
<1>3. [r EXCEPT !.paths[1] = left].inject = r.inject
  BY DEF ConfigRules
<1> QED BY <1>2, <1>3

LEMMA RemoveRuleTurning ==
    ASSUME NEW t, TextOK(t), NEW list \in RuleKeys, NEW host, NEW path
    PROVE  Turning({}, {}, t, RemoveRule(t, list, host, path))
<1> DEFINE cfg == Parse(t)[1]
           rules == cfg[list]
           at == {k \in DOMAIN rules :
                    /\ rules[k].host = host
                    /\ path # Nil => /\ rules[k].paths # Nil
                                    /\ path[1] \in Elements(rules[k].paths[1])}
           i == IF at = {} THEN 0 ELSE CHOOSE k \in at : \A j \in at : k <= j
           left == Narrowed(rules[i], path)
           edit == RemoveRuleAt(t, cfg, list, i, left)
           u == IF left = Nil THEN Cut(t, list, i)
                ELSE Replace(t, list, i, renderRuleItem(left[1]))
           expected == expectedAfterRuleRemoval(rules, i, left)
           valid == validateRemoveRule(cfg, Parse(u)[1], list, expected)
<1>1. RemoveRule(t, list, host, path) = Edit(t, Parse(t), edit)
  BY Zenon DEF RemoveRule, RemoveRuleFrom, findRuleIndex, IndexOf
<1>2. edit = IF i = 0 THEN Failed(t, "not_found") ELSE Gated(t, u, valid)
  BY Zenon DEF RemoveRuleAt
<1>3. Parse(t) # Nil =>
        /\ rules \in Seq(ConfigRules) /\ DOMAIN rules = DOMAIN t[list].items
        /\ IsSeq(t[list].items)
  <2> HAVE Parse(t) # Nil
  <2>1. rules \in Seq(ConfigRules) /\ DOMAIN rules = DOMAIN t[list].items
    BY RulesOfText
  <2>2. IsSeq(t[list].items)
    BY TextSeqs, ListKeysAre DEF RuleKeys
  <2> QED BY <2>1, <2>2
<1>4. Parse(t) # Nil =>
        /\ i \in 0..Len(t[list].items)
        /\ i # 0 => i \in at
  <2> HAVE Parse(t) # Nil
  <2>1. at \subseteq 1..Len(t[list].items) /\ Len(t[list].items) \in Nat
    BY <1>3 DEF IsSeq
  <2>2. at \subseteq Nat
    BY <2>1
  <2> HIDE DEF at
  <2>3. i \in 0..Len(t[list].items)
    BY <2>1, FirstIndexType, Zenon
  <2>4. at # {} => (CHOOSE k \in at : \A j \in at : k <= j) \in at
    BY <2>2, LeastIndex
  <2> DEFINE least == CHOOSE k \in at : \A j \in at : k <= j
  <2> HIDE DEF least
  <2>5. i # 0 => i \in at
    BY <2>4, Zenon DEF least
  <2> QED BY <2>3, <2>5
<1>5. Parse(t) # Nil /\ i # 0 =>
        (path # Nil => rules[i].paths # Nil /\ path[1] \in Elements(rules[i].paths[1]))
  <2> HIDE DEF i, rules
  <2> QED BY <1>4
<1> HIDE DEF i, at
<1>6. Parse(t) # Nil /\ i # 0 /\ Parse(u) # Nil =>
        Turned({}, {}, Parse(t)[1], Parse(u)[1]) \/ Emptied(t, u)
  <2> HAVE Parse(t) # Nil /\ i # 0 /\ Parse(u) # Nil
  <2>1. i \in 1..Len(t[list].items)
    BY <1>4
  <2>2. CASE left # Nil
    <3> DEFINE r == rules[i]
    <3>1. r \in ConfigRules /\ r.inject \in Injected(Parse(t)[1]) \cup {""}
      BY <2>1, RuleInjects, Zenon
    <3>2. left = Narrowed(r, path)
      OBVIOUS
    <3>3. path # Nil => r.paths # Nil /\ path[1] \in Elements(r.paths[1])
      BY <1>5
    <3> HIDE DEF r, left
    <3>4. left[1].inject = r.inject /\ left[1] \in ConfigRules
      BY <2>2, <3>1, <3>2, <3>3, NarrowedType, NarrowedInjects, Zenon
    <3> DEFINE now == left[1]
    <3> HIDE DEF now
    <3>5. One(list, renderRuleItem(now)).inject \in Injected(Parse(t)[1]) \cup {""}
      BY <3>1, <3>4, RuleKeepsInject DEF now
    <3>6. Brings({}, t, list, renderRuleItem(now))
      BY <3>5, Zenon DEF Brings
    <3>7. u = Replace(t, list, i, renderRuleItem(now))
      BY <2>2 DEF now
    <3> HIDE DEF u
    <3> QED BY <2>1, <3>6, <3>7, ReplaceTurned, Zenon
  <2>3. CASE left = Nil
    <3>1. u = Cut(t, list, i)
      BY <2>3
    <3>2. list \in ListKeys \ {"include", "credentials"}
      BY ListKeysAre DEF RuleKeys
    <3> HIDE DEF u
    <3> QED BY <2>1, <3>1, <3>2, CutTurned, Zenon
  <2> QED BY <2>2, <2>3
<1>7. \A err : Failed(t, err).out = t
  BY OutIs
<1> HIDE DEF u, edit, cfg, valid
<1>8. Turning({}, {}, t, Failed(t, "not_found"))
  BY <1>7, SameTurning, Zenon
<1>9. i # 0 /\ Parse(t) # Nil => Turning({}, {}, t, Gated(t, u, valid))
  BY <1>6, GatedTurning, Zenon
<1>10. Parse(t) # Nil => Turning({}, {}, t, edit)
  BY <1>2, <1>8, <1>9, Zenon
<1> QED BY <1>1, <1>10, EditTurning, Zenon

LEMMA RemoveDirOnceTurns ==
    ASSUME NEW t, TextOK(t), Parse(t) # Nil, NEW key \in {"rw", "ro"}, NEW dir
    PROVE  LET u == removeDirOnce(t, key, dir).out
           IN u = t \/ Turned({}, {}, Parse(t)[1], Parse(u)[1])
<1> DEFINE cfg == Parse(t)[1]
           at == {k \in DOMAIN cfg[key] : cfg[key][k] = dir}
           i == IF at = {} THEN 0 ELSE CHOOSE k \in at : \A j \in at : k <= j
           u == CutDir(t, key, i)
           valid == validateDirs(cfg, Parse(u)[1], key, Without(cfg[key], i))
           edit == RemoveDirFrom(t, cfg, key, dir)
<1>1. removeDirOnce(t, key, dir) = edit
  BY Zenon DEF removeDirOnce, Edit
<1>2. edit = IF i = 0 THEN Unchanged(t) ELSE Gated(t, u, valid)
  BY Zenon DEF RemoveDirFrom, IndexOf
<1>3. i \in 0..Len(t[key].items)
  <2>1. DOMAIN cfg[key] = 1..Len(t[key].items)
    BY RulesOfText DEF OtherKeys
  <2>2. Len(t[key].items) \in Nat
    <3>1. IsSeq(t[key].items)
      BY TextSeqs, ListKeysAre DEF OtherKeys
    <3> QED BY <3>1 DEF IsSeq
  <2>3. at \subseteq 1..Len(t[key].items)
    BY <2>1
  <2> HIDE DEF at
  <2> QED BY <2>2, <2>3, FirstIndexType, Zenon
<1> HIDE DEF i
<1>4. i # 0 /\ Parse(u) # Nil => Turned({}, {}, Parse(t)[1], Parse(u)[1])
  <2> HAVE i # 0 /\ Parse(u) # Nil
  <2>1. i \in 1..Len(t[key].items)
    BY <1>3
  <2>2. key \in ListKeys \ {"include", "credentials"}
    BY ListKeysAre DEF OtherKeys
  <2> QED BY <2>1, <2>2, CutDirTurned, Zenon
<1>5. edit.out = t \/ (i # 0 /\ Parse(u) # Nil /\ edit.out = u)
  BY <1>2, OutIs, Zenon DEF Gated
<1> HIDE DEF u, edit, cfg, valid
<1> QED BY <1>1, <1>4, <1>5, Zenon

LEMMA TurnedTwice ==
    ASSUME NEW a, NEW b, NEW c, Turned({}, {}, a, b), Turned({}, {}, b, c)
    PROVE  Turned({}, {}, a, c)
BY DEF Turned, Widens

LEMMA RemoveDirTurning ==
    ASSUME NEW t, TextOK(t), NEW dir
    PROVE  Turning({}, {}, t, RemoveDir(t, dir))
<1> DEFINE first == removeDirOnce(t, "rw", dir)
           u == first.out
           second == removeDirOnce(u, "ro", dir)
           v == second.out
<1> SUFFICES ASSUME Parse(t) # Nil PROVE Turned({}, {}, Parse(t)[1], Parse(RemoveDir(t, dir).out)[1])
  BY Zenon DEF Turning
<1>0. Turned({}, {}, Parse(t)[1], Parse(t)[1])
  BY SameWidens, Zenon DEF Turned
<1>1. TextOK(u) /\ (u = t \/ Turned({}, {}, Parse(t)[1], Parse(u)[1]))
  BY RemoveDirOnceType, RemoveDirOnceTurns
<1>2. Parse(u) # Nil
  BY RemoveDirOnceKeeps, Zenon DEF OnlyKept
<1>3. v = u \/ Turned({}, {}, Parse(u)[1], Parse(v)[1])
  <2> HIDE DEF first
  <2> QED BY <1>1, <1>2, RemoveDirOnceTurns
<1>4. RemoveDir(t, dir) = RemovedDirs(t, first, second)
  BY Zenon DEF RemoveDir, RemoveFromRo
<1>5. RemoveDir(t, dir).out = t \/ RemoveDir(t, dir).out = v
  <2> HIDE DEF first, second
  <2>1. \/ \E err : RemovedDirs(t, first, second) = Failed(t, err)
        \/ RemovedDirs(t, first, second) = Edited(v)
    BY Zenon DEF RemovedDirs
  <2>2. Edited(v).out = v /\ \A err : Failed(t, err).out = t
    BY OutIs
  <2> HIDE DEF v
  <2>3. RemovedDirs(t, first, second).out = t \/ RemovedDirs(t, first, second).out = v
    BY <2>1, <2>2, Zenon
  <2> QED BY <1>4, <2>3, Zenon
<1> HIDE DEF u, v
<1>6. Turned({}, {}, Parse(t)[1], Parse(u)[1])
  BY <1>0, <1>1, Zenon
<1>7. Turned({}, {}, Parse(t)[1], Parse(v)[1])
  BY <1>3, <1>6, TurnedTwice, Zenon
<1> QED BY <1>0, <1>5, <1>7, Zenon

LEMMA CredMapNames ==
    ASSUME NEW creds
    PROVE  DOMAIN CredMap(creds) = Names(creds)
BY DEF CredMap

LEMMA RemoveCredentialTurning ==
    ASSUME NEW t, TextOK(t), NEW name
    PROVE  Turning({}, {name}, t, RemoveCredential(t, name))
<1> DEFINE cfg == Parse(t)[1]
           creds == cfg.credentials
           at == {k \in DOMAIN creds : creds[k].name = name}
           i == IF at = {} THEN 0 ELSE CHOOSE k \in at : \A j \in at : k <= j
           u == Cut(t, "credentials", i)
           valid == validateRemoveCredential(cfg, Parse(u)[1], name)
           edit == RemoveCredentialFrom(t, cfg, name)
<1>1. RemoveCredential(t, name) = Edit(t, Parse(t), edit)
  BY Zenon DEF RemoveCredential
<1>2. edit = IF i = 0 THEN Failed(t, "not_found") ELSE Gated(t, u, valid)
  BY Zenon DEF RemoveCredentialFrom, IndexOf
<1>3. "credentials" \in ListKeys
  BY ListKeysAre DEF OtherKeys
<1>4. Parse(t) # Nil => i \in 0..Len(t.credentials.items)
  <2> HAVE Parse(t) # Nil
  <2>1. IsSeq(t["credentials"].items)
    BY <1>3, TextSeqs, Zenon
  <2>2. DOMAIN creds = 1..Len(t.credentials.items)
    BY RulesOfText DEF OtherKeys
  <2>3. Len(t.credentials.items) \in Nat
    BY <2>1 DEF IsSeq
  <2>4. at \subseteq 1..Len(t.credentials.items)
    BY <2>2
  <2> HIDE DEF at
  <2> QED BY <2>3, <2>4, FirstIndexType, Zenon
<1> HIDE DEF i
<1>5. Parse(t) # Nil /\ i # 0 /\ Parse(u) # Nil /\ valid =>
        Turned({}, {name}, Parse(t)[1], Parse(u)[1]) \/ Emptied(t, u)
  <2> HAVE Parse(t) # Nil /\ i # 0 /\ Parse(u) # Nil /\ valid
  <2>1. i \in 1..Len(t["credentials"].items)
    BY <1>4
  <2>2. Names(Parse(t)[1].credentials) \ {name} \subseteq Names(Parse(u)[1].credentials)
    <3> DEFINE N == Names(creds)
               M == CredMap(creds)
               after == Parse(u)[1].credentials
    <3>1. CredMap(after) = [n \in N \ {name} |-> M[n]]
      BY Zenon DEF validateRemoveCredential
    <3>2. DOMAIN CredMap(after) = Names(after)
      BY CredMapNames, Zenon
    <3> HIDE DEF N, M, after
    <3>3. DOMAIN CredMap(after) = N \ {name}
      BY <3>1
    <3> QED BY <3>2, <3>3 DEF N, after
  <2> HIDE DEF cfg, valid, creds
  <2> QED BY <2>1, <2>2, CutCredentialTurned, Zenon
<1>6. \A err : Failed(t, err).out = t
  BY OutIs
<1> HIDE DEF u, edit, cfg, valid
<1>7. Turning({}, {name}, t, Failed(t, "not_found"))
  BY <1>6, SameTurning, Zenon
<1>8. i # 0 /\ Parse(t) # Nil => Turning({}, {name}, t, Gated(t, u, valid))
  BY <1>5, GatedTurning, Zenon
<1>9. Parse(t) # Nil => Turning({}, {name}, t, edit)
  BY <1>2, <1>7, <1>8, Zenon
<1> QED BY <1>1, <1>9, EditTurning, Zenon

(***************************************************************************)
(* The steps.                                                              *)
(***************************************************************************)

\* A fragment that has been read, and will be imported.
FragmentOK(frag) ==
    /\ frag # Nil
    /\ frag[1].allow \in Seq(ConfigRules) /\ frag[1].deny \in Seq(ConfigRules)
    /\ frag[1].services \in Seq(Services)

\* TypeOK, with what it takes to be kept: the commands are those that were
\* typed with the files, one that has looked means a rule if it adds one, and
\* has read a fragment if it imports it.
CommandsInv ==
    /\ FilesOK(files) /\ Enforceable(policy)
    /\ \A c \in menu : CommandOK(c, files)
    /\ pending = {} \/ \E c \in menu : pending = {c}
    /\ \A c \in pending : Adds(c) => Added(c) # Nil
    /\ \A c \in pending : c.op = "import" => FragmentOK(fragment)
    /\ last = Nil \/ last[1] \in menu
    /\ given \in 0..MaxSteps

\* The invariant has all that TypeOK says.
LEMMA InvIsTypeOK == CommandsInv => TypeOK
<1> SUFFICES ASSUME CommandsInv PROVE TypeOK
  OBVIOUS
<1>1. PolicyOK
  BY DEF CommandsInv, Enforceable, PolicyOK
<1>2. pending \subseteq menu /\ Cardinality(pending) <= 1
  <2>1. CASE pending = {}
    BY <2>1, FS_EmptySet
  <2>2. ASSUME NEW c \in menu, pending = {c}
        PROVE  pending \subseteq menu /\ Cardinality(pending) <= 1
    BY <2>2, FS_Singleton
  <2> QED BY <2>1, <2>2 DEF CommandsInv
<1>3. \A c \in pending : c.op = "import" => fragment # Nil
  BY Zenon DEF CommandsInv, FragmentOK
<1> QED BY <1>1, <1>2, <1>3, Zenon DEF CommandsInv, TypeOK

\* A file that is edited, and the text it starts from.
LEMMA TargetType ==
    /\ \A target \in {"once", "global", "project"} : mutationTarget(target) \in Paths
    /\ \A global : mutationTarget(Target(FALSE, global)) \in Paths
    /\ ProjectPath \in Paths
<1>1. {OverlayPath, GlobalPath, ProjectPath} \subseteq Paths
  BY LoadAssumption, CompileAssumption
<1>2. /\ mutationTarget("once") = OverlayPath /\ mutationTarget("global") = GlobalPath
      /\ mutationTarget("project") = ProjectPath
  BY DEF mutationTarget
<1>3. \A global : Target(FALSE, global) \in {"once", "global", "project"}
  BY Zenon DEF Target
<1> HIDE DEF ProjectPath, GlobalPath
<1>4. \A target \in {"once", "global", "project"} : mutationTarget(target) \in Paths
  BY <1>1, <1>2
<1> QED BY <1>1, <1>3, <1>4

\* The text an edit starts from, of a file that may not be there.
LEMMA TextOfType ==
    ASSUME FilesOK(files), NEW path
    PROVE  TextOK(TextOf(path))
BY EmptyTyped DEF FilesOK, TextOf

\* What an edit leaves: files and a policy that are typed, and no file less.
StillTyped ==
    /\ FilesOK(files') /\ Enforceable(policy')
    /\ DOMAIN files \subseteq DOMAIN files'

\* A file written, or made.
LEMMA WrittenType ==
    ASSUME FilesOK(files), NEW path \in Paths, NEW text, TextOK(text),
           writeFile(path, text)
    PROVE  FilesOK(files') /\ DOMAIN files \subseteq DOMAIN files'
<1>1. files' = [p \in DOMAIN files \cup {path} |-> IF p = path THEN text ELSE files[p]]
  BY DEF writeFile
<1>2. DOMAIN files' = DOMAIN files \cup {path}
  BY <1>1
<1>3. \A p \in DOMAIN files' : TextOK(files'[p])
  <2>1. \A p \in DOMAIN files \cup {path} :
            files'[p] = IF p = path THEN text ELSE files[p]
    BY <1>1, Zenon
  <2>2. \A p \in DOMAIN files : TextOK(files[p])
    BY Zenon DEF FilesOK
  <2> QED BY <1>2, <2>1, <2>2, Zenon
<1>4. ProjectPath \in DOMAIN files /\ DOMAIN files \subseteq Paths
  BY Zenon DEF FilesOK
<1> QED BY <1>2, <1>3, <1>4, Zenon DEF FilesOK

\* An edit with its recompile.
LEMMA RecompiledKept ==
    ASSUME FilesOK(files), Enforceable(policy), NEW path \in Paths, NEW edit,
           TextOK(edit.out), applyAndRecompile(path, edit)
    PROVE  StillTyped
<1>1. CASE edit.changed
  <2>1. writeFile(path, edit.out) /\ recompile
    BY <1>1, Zenon DEF applyAndRecompile
  <2>2. FilesOK(files') /\ DOMAIN files \subseteq DOMAIN files'
    BY <2>1, WrittenType
  <2>3. Enforceable(Compile(files').policy)
    BY <2>2, CompileType
  <2>4. policy' = Renewed(policy, Compile(files'))
    BY <2>1 DEF recompile
  <2>5. policy' = Compile(files').policy \/ policy' = policy
    BY <2>4, Zenon DEF Renewed
  <2> QED BY <2>2, <2>3, <2>5 DEF StillTyped
<1>2. CASE ~edit.changed
  BY <1>2 DEF applyAndRecompile, StillTyped
<1> QED BY <1>1, <1>2

\* An edit that only warns.
LEMMA WarnedKept ==
    ASSUME FilesOK(files), Enforceable(policy), NEW path \in Paths, NEW edit,
           TextOK(edit.out), applyAndWarn(path, edit)
    PROVE  StillTyped
<1>1. policy' = policy
  BY DEF applyAndWarn
<1>2. CASE edit.changed
  <2>1. writeFile(path, edit.out)
    BY <1>2, Zenon DEF applyAndWarn
  <2> QED BY <1>1, <2>1, WrittenType DEF StillTyped
<1>3. CASE ~edit.changed
  BY <1>1, <1>3 DEF applyAndWarn, StillTyped
<1> QED BY <1>2, <1>3

\* A command that may edit is one of the menu's; if it adds a rule, it means one.
LEMMA ReadyType ==
    ASSUME CommandsInv, NEW ops, NEW c \in Ready(ops)
    PROVE  /\ c \in menu /\ c.op \in ops /\ CommandOK(c, files)
           /\ ~Looks(c) => given < MaxSteps /\ PreCheck(c)
           /\ Adds(c) => Added(c) # Nil
           /\ Looks(c) => c \in pending
<1>1. /\ c \in menu /\ c.op \in ops
      /\ IF Looks(c) THEN c \in pending ELSE given < MaxSteps /\ PreCheck(c)
  BY Zenon DEF Ready
<1>2. CommandOK(c, files) /\ (c \in pending => (Adds(c) => Added(c) # Nil))
  BY <1>1, Zenon DEF CommandsInv
<1>3. PreCheck(c) /\ Adds(c) => Added(c) # Nil
  BY DEF PreCheck, Adds, AddOps
<1> QED BY <1>1, <1>2, <1>3, Zenon

\* A command that only needs files to be there may still be given.
LEMMA CommandKept ==
    ASSUME NEW c, NEW fs, NEW gs, CommandOK(c, fs), DOMAIN fs \subseteq DOMAIN gs
    PROVE  CommandOK(c, gs)
BY DEF CommandOK

\* Files and policy kept, the command that went keeps the rest.
LEMMA WentKeeps ==
    ASSUME CommandsInv, StillTyped, NEW ops, NEW c \in Ready(ops), Went(c)
    PROVE  CommandsInv'
<1>1. /\ pending' = pending \ {c}
      /\ given' = IF Looks(c) THEN given ELSE given + 1
      /\ last' = Some(c) /\ menu' = menu
      /\ fragment' = IF Looks(c) THEN Nil ELSE fragment
  BY Zenon DEF Went
<1>2. c \in menu /\ (~Looks(c) => given < MaxSteps) /\ (Looks(c) => c \in pending)
  BY ReadyType, Zenon
<1>3. \A b \in menu' : CommandOK(b, files')
  BY <1>1, CommandKept, Zenon DEF CommandsInv, StillTyped
<1>4. pending' = {} \/ \E b \in menu' : pending' = {b}
  <2>1. CASE pending = {}
    BY <1>1, <2>1
  <2>2. ASSUME NEW b \in menu, pending = {b}
        PROVE  pending' = {} \/ pending' = {b}
    BY <1>1, <2>2
  <2> QED BY <1>1, <2>1, <2>2 DEF CommandsInv
<1>5. \A b \in pending' : Adds(b) => Added(b) # Nil
  BY <1>1 DEF CommandsInv
<1>6. last'[1] \in menu'
  BY <1>1, <1>2 DEF Some
<1>7. given' \in 0..MaxSteps
  <2>1. given \in 0..MaxSteps /\ MaxSteps \in Nat
    BY CommandsAssumption DEF CommandsInv
  <2>2. CASE Looks(c)
    BY <1>1, <2>1, <2>2
  <2>3. CASE ~Looks(c)
    BY <1>1, <1>2, <2>1, <2>3
  <2> QED BY <2>2, <2>3
<1>8. \A b \in pending' : b.op = "import" => FragmentOK(fragment')
  <2>1. CASE Looks(c)
    <3>1. pending' = {}
      <4>1. \E b \in menu : pending = {b}
        BY <1>2, <2>1 DEF CommandsInv
      <4> QED BY <1>1, <1>2, <2>1, <4>1
    <3> QED BY <3>1
  <2>2. CASE ~Looks(c)
    <3>1. fragment' = fragment /\ pending' \subseteq pending
      BY <1>1, <2>2
    <3>2. \A b \in pending : b.op = "import" => FragmentOK(fragment)
      BY Zenon DEF CommandsInv
    <3> QED BY <3>1, <3>2
  <2> QED BY <2>1, <2>2
<1> QED BY <1>3, <1>4, <1>5, <1>6, <1>7, <1>8 DEF CommandsInv, StillTyped, FragmentOK

\* The commands that edit the rules.
LEMMA DomainAddKeeps == CommandsInv /\ DomainAdd => CommandsInv'
<1> SUFFICES ASSUME CommandsInv, DomainAdd PROVE CommandsInv'
  OBVIOUS
<1> DEFINE Path(c) == mutationTarget(Added(c)[1].target)
           Edits(c) == LET a == Added(c)[1]
                           binds == a.rule.inject # "" \/ a.rule.in_cage
                       IN IF binds THEN SetRuleAuth(TextOf(Path(c)), a.list, a.rule)
                          ELSE AppendRule(TextOf(Path(c)), a.list, a.rule)
<1>1. PICK c \in Ready(AddOps) : applyAndRecompile(Path(c), Edits(c)) /\ Went(c)
  BY Zenon DEF DomainAdd
<1>2. AddedOK(Added(c)[1])
  <2>1. Adds(c) /\ CommandOK(c, files) /\ Added(c) # Nil
    BY ReadyType DEF Adds
  <2> QED BY <2>1, AddedType
<1>3. Path(c) \in Paths
  BY <1>2, TargetType DEF AddedOK
<1>4. TextOK(Edits(c).out)
  <2>1. TextOK(TextOf(Path(c)))
    BY TextOfType DEF CommandsInv
  <2> DEFINE t == TextOf(Path(c))
             a == Added(c)[1]
  <2>2. Edits(c) = SetRuleAuth(t, a.list, a.rule) \/ Edits(c) = AppendRule(t, a.list, a.rule)
    BY Zenon
  <2>3. a.list \in RuleKeys /\ a.rule \in ConfigRules
    BY <1>2, Zenon DEF AddedOK
  <2> HIDE DEF t, a
  <2>4. TextOK(t)
    BY <2>1 DEF t
  <2>5. TextOK(SetRuleAuth(t, a.list, a.rule).out) /\ TextOK(AppendRule(t, a.list, a.rule).out)
    BY <2>3, <2>4, SetRuleAuthType, AppendRuleType, Zenon
  <2> HIDE DEF Edits
  <2> QED BY <2>2, <2>5, Zenon
<1> HIDE DEF Path, Edits
<1>5. StillTyped
  BY <1>1, <1>3, <1>4, RecompiledKept DEF CommandsInv
<1> QED BY <1>1, <1>5, WentKeeps

\* `domain remove` asks one list, then the other.
LEMMA DomainRemoveKeeps == CommandsInv /\ DomainRemove => CommandsInv'
<1> SUFFICES ASSUME CommandsInv, DomainRemove PROVE CommandsInv'
  OBVIOUS
<1> DEFINE Path(c) == mutationTarget(Target(FALSE, c.global))
           Of(c, list) == RemoveRule(TextOf(Path(c)), list, c.host, c.path)
           Edits(c) == IF Of(c, "allow").err # "not_found" THEN Of(c, "allow")
                       ELSE Of(c, "deny")
<1>1. PICK c \in Ready({"domain remove"}) :
          applyAndRecompile(Path(c), Edits(c)) /\ Went(c)
  BY Zenon DEF DomainRemove
<1>2. Path(c) \in Paths
  BY TargetType, Zenon
<1>3. TextOK(Edits(c).out)
  <2>1. TextOK(TextOf(Path(c)))
    BY TextOfType DEF CommandsInv
  <2>2. "allow" \in RuleKeys /\ "deny" \in RuleKeys
    BY DEF RuleKeys
  <2>3. TextOK(Of(c, "allow").out) /\ TextOK(Of(c, "deny").out)
    BY <2>1, <2>2, RemoveRuleType, Zenon
  <2> HIDE DEF Of
  <2> QED BY <2>3, Zenon
<1> HIDE DEF Path, Edits
<1>4. StillTyped
  BY <1>1, <1>2, <1>3, RecompiledKept DEF CommandsInv
<1> QED BY <1>1, <1>4, WentKeeps

\* An include was looked at, and may have changed since.
LEMMA IncludeKeeps == CommandsInv /\ Include => CommandsInv'
<1> SUFFICES ASSUME CommandsInv, Include PROVE CommandsInv'
  OBVIOUS
<1>1. PICK c \in Ready({"include"}) :
          applyAndRecompile(ProjectPath, AppendInclude(TextOf(ProjectPath), c.inc)) /\ Went(c)
  BY Zenon DEF Include
<1>2. c.inc \in Includes
  <2>1. CommandOK(c, files) /\ c.op = "include"
    BY ReadyType
  <2> QED BY <2>1, Zenon DEF CommandOK
<1>3. TextOK(TextOf(ProjectPath))
  BY TextOfType DEF CommandsInv
<1>4. TextOK(AppendInclude(TextOf(ProjectPath), c.inc).out)
  BY <1>2, <1>3, AppendIncludeType
<1>5. StillTyped
  BY <1>1, <1>4, TargetType, RecompiledKept DEF CommandsInv
<1> QED BY <1>1, <1>5, WentKeeps

\* A fragment that may be imported has been read.
LEMMA ImportReady ==
    ASSUME CommandsInv, NEW c \in Ready({"import"})
    PROVE  FragmentOK(fragment)
<1>1. c.op = "import" /\ (Looks(c) => c \in pending)
  BY ReadyType
<1>2. Looks(c)
  BY <1>1 DEF Looks
<1> QED BY <1>1, <1>2, Zenon DEF CommandsInv

\* An import is confirmed, or changes nothing.
LEMMA ImportKeeps == CommandsInv /\ Import => CommandsInv'
<1> SUFFICES ASSUME CommandsInv, Import PROVE CommandsInv'
  OBVIOUS
<1> DEFINE Frag == fragment[1]
<1>1. PICK c \in Ready({"import"}) :
          /\ \/ applyAndRecompile(ProjectPath, applyFragment(TextOf(ProjectPath), Frag))
             \/ UNCHANGED <<files, policy>>
          /\ Went(c)
  BY Zenon DEF Import
<1>3. /\ Frag.allow \in Seq(ConfigRules) /\ Frag.deny \in Seq(ConfigRules)
      /\ Frag.services \in Seq(Services)
  BY ImportReady, Zenon DEF FragmentOK
<1>4. TextOK(applyFragment(TextOf(ProjectPath), Frag).out)
  <2>1. TextOK(TextOf(ProjectPath))
    BY TextOfType DEF CommandsInv
  <2> HIDE DEF Frag
  <2> QED BY <1>3, <2>1, FragmentGrows
<1> HIDE DEF Frag
<1>5. StillTyped
  <2>1. CASE UNCHANGED <<files, policy>>
    BY <2>1 DEF StillTyped, CommandsInv
  <2>2. CASE applyAndRecompile(ProjectPath, applyFragment(TextOf(ProjectPath), Frag))
    BY <1>4, <2>2, TargetType, RecompiledKept DEF CommandsInv
  <2> QED BY <1>1, <2>1, <2>2
<1> QED BY <1>1, <1>5, WentKeeps

\* The commands that edit the directories and the services.
LEMMA MountsKeep ==
    CommandsInv /\ (MountAdd \/ MountRemove \/ ServiceAdd \/ ServiceRemove) => CommandsInv'
<1> SUFFICES ASSUME CommandsInv, MountAdd \/ MountRemove \/ ServiceAdd \/ ServiceRemove
             PROVE  CommandsInv'
  OBVIOUS
<1> DEFINE t == TextOf(ProjectPath)
<1>1. TextOK(t)
  BY TextOfType DEF CommandsInv
<1>2. ASSUME NEW ops, NEW c \in Ready(ops), NEW edit, TextOK(edit.out),
             applyAndWarn(ProjectPath, edit), Went(c)
      PROVE  CommandsInv'
  <2>1. StillTyped
    BY <1>2, TargetType, WarnedKept DEF CommandsInv
  <2> QED BY <1>2, <2>1, WentKeeps
<1>3. CASE MountAdd
  <2>1. PICK c \in Ready({"mount add"}) :
            applyAndWarn(ProjectPath, AppendDir(t, c.access, c.dir)) /\ Went(c)
    BY <1>3, Zenon DEF MountAdd
  <2>2. c.access \in {"rw", "ro"}
    <3>1. CommandOK(c, files) /\ c.op \in {"mount add"}
      BY ReadyType, Zenon
    <3> QED BY <3>1 DEF CommandOK
  <2>3. TextOK(AppendDir(t, c.access, c.dir).out)
    BY <1>1, <2>2, AppendDirType
  <2> QED BY <1>2, <2>1, <2>3, Zenon
<1>4. CASE MountRemove
  <2>1. PICK c \in Ready({"mount remove"}) :
            applyAndWarn(ProjectPath, RemoveDir(t, c.dir)) /\ Went(c)
    BY <1>4, Zenon DEF MountRemove
  <2>2. TextOK(RemoveDir(t, c.dir).out)
    BY <1>1, RemoveDirType
  <2> QED BY <1>2, <2>1, <2>2, Zenon
<1>5. CASE ServiceAdd
  <2>1. PICK c \in Ready({"service add"}) :
            applyAndWarn(ProjectPath, AppendHostService(t, c.service)) /\ Went(c)
    BY <1>5, Zenon DEF ServiceAdd
  <2>2. c.service \in Services
    <3>1. CommandOK(c, files) /\ c.op \in {"service add"}
      BY ReadyType, Zenon
    <3> QED BY <3>1 DEF CommandOK
  <2>3. TextOK(AppendHostService(t, c.service).out)
    BY <1>1, <2>2, AppendHostServiceType
  <2> QED BY <1>2, <2>1, <2>3, Zenon
<1>6. CASE ServiceRemove
  <2>1. PICK c \in Ready({"service remove"}) :
            applyAndWarn(ProjectPath, RemoveHostService(t, c.port)) /\ Went(c)
    BY <1>6, Zenon DEF ServiceRemove
  <2>2. TextOK(RemoveHostService(t, c.port).out)
    BY <1>1, RemoveHostServiceType
  <2> QED BY <1>2, <2>1, <2>2, Zenon
<1> QED BY <1>3, <1>4, <1>5, <1>6

\* The commands that edit the credentials.
LEMMA CredentialsKeep ==
    CommandsInv /\ (CredentialAdd \/ CredentialRemove) => CommandsInv'
<1> SUFFICES ASSUME CommandsInv, CredentialAdd \/ CredentialRemove PROVE CommandsInv'
  OBVIOUS
<1> DEFINE Path(c) == mutationTarget(Target(FALSE, c.global))
<1>1. \A c : Path(c) \in Paths /\ TextOK(TextOf(Path(c)))
  BY TargetType, TextOfType DEF CommandsInv
<1> HIDE DEF Path
<1>2. ASSUME NEW ops, NEW c \in Ready(ops), NEW edit, TextOK(edit.out),
             applyAndRecompile(Path(c), edit), Went(c)
      PROVE  CommandsInv'
  <2>1. StillTyped
    BY <1>1, <1>2, RecompiledKept DEF CommandsInv
  <2> QED BY <1>2, <2>1, WentKeeps
<1>3. CASE CredentialAdd
  <2>1. PICK c \in Ready({"credential add"}) :
            /\ applyAndRecompile(Path(c),
                    AppendCredential(TextOf(Path(c)), c.name, NewCredential(c)[1]))
            /\ Went(c)
    BY <1>3, Zenon DEF CredentialAdd, Path
  <2>2. TextOK(AppendCredential(TextOf(Path(c)), c.name, NewCredential(c)[1]).out)
    BY <1>1, AppendCredentialType
  <2> QED BY <1>2, <2>1, <2>2, Zenon
<1>4. CASE CredentialRemove
  <2>1. PICK c \in Ready({"credential remove"}) :
            applyAndRecompile(Path(c), RemoveCredential(TextOf(Path(c)), c.name)) /\ Went(c)
    BY <1>4, Zenon DEF CredentialRemove, Path
  <2>2. TextOK(RemoveCredential(TextOf(Path(c)), c.name).out)
    BY <1>1, RemoveCredentialType
  <2> QED BY <1>2, <2>1, <2>2, Zenon
<1> QED BY <1>3, <1>4

\* A look changes no file; the command that looked goes on alone.
LEMMA CheckKeeps == CommandsInv /\ Check => CommandsInv'
<1> SUFFICES ASSUME CommandsInv, Check PROVE CommandsInv'
  OBVIOUS
<1>1. PICK c \in menu :
        /\ PreCheck(c) /\ pending' = {c}
        /\ fragment' = IF c.op = "import" THEN Parse(files[c.fragment]) ELSE Nil
  BY Zenon DEF Check
<1>2. /\ given < MaxSteps /\ given' = given + 1 /\ last' = Nil
      /\ files' = files /\ policy' = policy /\ menu' = menu
  BY DEF Check
<1>3. Adds(c) => Added(c) # Nil
  BY <1>1 DEF PreCheck, Adds, AddOps
<1>4. given' \in 0..MaxSteps
  BY <1>2, CommandsAssumption DEF CommandsInv
<1>5. /\ \A b \in pending' : Adds(b) => Added(b) # Nil
      /\ \E b \in menu' : pending' = {b}
  BY <1>1, <1>2, <1>3
<1>6. c.op = "import" => FragmentOK(fragment')
  <2> HAVE c.op = "import"
  <2> DEFINE text == files[c.fragment]
  <2>1. c.fragment \in DOMAIN files
    BY Zenon DEF CommandsInv, CommandOK
  <2>2. TextOK(text)
    BY <2>1 DEF CommandsInv, FilesOK
  <2>3. Parse(text) # Nil
    BY <1>1 DEF PreCheck, Adds, AddOps
  <2>4. "allow" \in RuleKeys /\ "deny" \in RuleKeys
    BY DEF RuleKeys
  <2>5. fragment' = Parse(text)
    BY <1>1
  <2> HIDE DEF text
  <2>6. /\ Parse(text)[1]["allow"] \in Seq(ConfigRules)
        /\ Parse(text)[1]["deny"] \in Seq(ConfigRules)
        /\ Parse(text)[1].services \in Seq(Services)
    BY <2>2, <2>3, <2>4, RulesOfText, Zenon
  <2> DEFINE frag == fragment'
  <2>7. frag = Parse(text)
    BY <2>5
  <2> HIDE DEF frag
  <2>8. FragmentOK(frag)
    BY <2>3, <2>6, <2>7 DEF FragmentOK
  <2> QED BY <2>8 DEF frag
<1>7. \A b \in pending' : b.op = "import" => FragmentOK(fragment')
  BY <1>1, <1>6
<1> QED BY <1>2, <1>4, <1>5, <1>7 DEF CommandsInv, FragmentOK

\* The scenarios are typed, and their policy is compiled.
LEMMA InitKeeps == Init => CommandsInv
<1> SUFFICES ASSUME Init PROVE CommandsInv
  OBVIOUS
<1>1. PICK sc \in Scenarios : /\ files = sc.files /\ menu = sc.menu
                             /\ policy = Compile(sc.files).policy
  BY Zenon DEF Init
<1>2. pending = {} /\ last = Nil /\ given = 0
  BY Zenon DEF Init
<1>3. /\ FilesOK(sc.files) /\ \A c \in sc.menu : CommandOK(c, sc.files)
      /\ 0 \in 0..MaxSteps
  BY CommandsAssumption
<1>4. Enforceable(Compile(sc.files).policy)
  BY <1>3, CompileType
<1> QED BY <1>1, <1>2, <1>3, <1>4 DEF CommandsInv

\* Every step keeps the invariant.
LEMMA NextKeeps == CommandsInv /\ [Next]_vars => CommandsInv'
<1> SUFFICES ASSUME CommandsInv, [Next]_vars PROVE CommandsInv'
  OBVIOUS
<1>1. CASE UNCHANGED vars
  BY <1>1 DEF vars, CommandsInv, FragmentOK
<1>2. CASE Next
  BY <1>2, CheckKeeps, DomainAddKeeps, DomainRemoveKeeps, IncludeKeeps, ImportKeeps,
     MountsKeep, CredentialsKeep DEF Next
<1> QED BY <1>1, <1>2

(***************************************************************************)
(* What a step does to the files.                                          *)
(***************************************************************************)
FilesKept ==
    \A p \in DOMAIN files : Parse(files[p]) # Nil => KeptText(files[p], files'[p])

\* One file is edited, the others stay.
LEMMA WrittenAt ==
    ASSUME NEW path, NEW text, writeFile(path, text)
    PROVE  \A p \in DOMAIN files : files'[p] = IF p = path THEN text ELSE files[p]
<1>1. files' = [p \in DOMAIN files \cup {path} |-> IF p = path THEN text ELSE files[p]]
  BY DEF writeFile
<1>2. \A p \in DOMAIN files \cup {path} :
        files'[p] = IF p = path THEN text ELSE files[p]
  BY <1>1, Zenon
<1> QED BY <1>2

LEMMA OneKept ==
    ASSUME FilesOK(files), NEW path, NEW edit, Keeps(TextOf(path), edit),
           writeFile(path, edit.out) \/ UNCHANGED files
    PROVE  FilesKept
<1> SUFFICES ASSUME NEW p \in DOMAIN files, Parse(files[p]) # Nil
             PROVE  KeptText(files[p], files'[p])
  BY Zenon DEF FilesKept
<1>1. TextOK(files[p])
  BY Zenon DEF FilesOK
<1>2. KeptText(files[p], files[p])
  BY <1>1, GrownOn, KeptIfGrown, Zenon
<1>3. CASE UNCHANGED files
  BY <1>2, <1>3, Zenon
<1>4. CASE writeFile(path, edit.out)
  <2>1. files'[p] = IF p = path THEN edit.out ELSE files[p]
    BY <1>4, WrittenAt, Zenon
  <2>2. CASE p = path
    <3>1. TextOf(path) = files[p]
      BY <2>2, Zenon DEF TextOf
    <3> QED BY <2>1, <2>2, <3>1, Zenon DEF Keeps
  <2>3. CASE p # path
    BY <1>2, <2>1, <2>3, Zenon
  <2> QED BY <2>2, <2>3
<1> QED BY <1>3, <1>4

LEMMA RecompiledKeeps ==
    ASSUME FilesOK(files), NEW path, NEW edit, Keeps(TextOf(path), edit),
           applyAndRecompile(path, edit)
    PROVE  FilesKept
<1>1. writeFile(path, edit.out) \/ UNCHANGED files
  BY DEF applyAndRecompile
<1> QED BY <1>1, OneKept, Zenon

LEMMA WarnedKeeps ==
    ASSUME FilesOK(files), NEW path, NEW edit, Keeps(TextOf(path), edit),
           applyAndWarn(path, edit)
    PROVE  FilesKept
<1>1. writeFile(path, edit.out) \/ UNCHANGED files
  BY DEF applyAndWarn
<1> QED BY <1>1, OneKept, Zenon

LEMMA SameKept ==
    ASSUME FilesOK(files), UNCHANGED files
    PROVE  FilesKept
<1>1. Keeps(TextOf(ProjectPath), Unchanged(TextOf(ProjectPath)))
  BY TextOfType, SameGrows, KeepsIfGrows, Zenon
<1> QED BY <1>1, OneKept, Zenon

\* The commands that edit the rules.
LEMMA DomainsEdit ==
    CommandsInv /\ (DomainAdd \/ DomainRemove \/ Include) => FilesKept
<1> SUFFICES ASSUME CommandsInv, DomainAdd \/ DomainRemove \/ Include PROVE FilesKept
  OBVIOUS
<1>1. FilesOK(files) /\ \A path : TextOK(TextOf(path))
  BY TextOfType DEF CommandsInv
<1>2. CASE DomainAdd
  <2> DEFINE Edits(c) ==
                 LET a == Added(c)[1]
                     t == TextOf(mutationTarget(a.target))
                 IN IF a.rule.inject # "" \/ a.rule.in_cage THEN SetRuleAuth(t, a.list, a.rule)
                    ELSE AppendRule(t, a.list, a.rule)
  <2>1. PICK c \in Ready(AddOps) : applyAndRecompile(mutationTarget(Added(c)[1].target), Edits(c))
    BY <1>2, Zenon DEF DomainAdd
  <2> DEFINE a == Added(c)[1]
             t == TextOf(mutationTarget(a.target))
  <2>2. a.list \in RuleKeys
    <3>1. Adds(c) /\ CommandOK(c, files) /\ Added(c) # Nil
      BY ReadyType DEF Adds
    <3> QED BY <3>1, AddedType DEF AddedOK
  <2>3. Edits(c) = SetRuleAuth(t, a.list, a.rule) \/ Edits(c) = AppendRule(t, a.list, a.rule)
    BY Zenon
  <2>4. TextOK(t)
    BY <1>1, Zenon
  <2> HIDE DEF a, Edits
  <2>5. /\ Keeps(t, SetRuleAuth(t, a.list, a.rule))
        /\ Keeps(t, AppendRule(t, a.list, a.rule))
    BY <2>2, <2>4, SetRuleAuthKeeps, AppendRuleGrows, KeepsIfGrows, Zenon
  <2>6. Keeps(t, Edits(c))
    BY <2>3, <2>5, Zenon
  <2> QED BY <1>1, <2>1, <2>6, RecompiledKeeps, Zenon DEF a
<1>3. CASE DomainRemove
  <2> DEFINE Path(c) == mutationTarget(Target(FALSE, c.global))
             Of(c, list) == RemoveRule(TextOf(Path(c)), list, c.host, c.path)
             Edits(c) == IF Of(c, "allow").err # "not_found" THEN Of(c, "allow")
                         ELSE Of(c, "deny")
  <2>1. PICK c \in Ready({"domain remove"}) : applyAndRecompile(Path(c), Edits(c))
    BY <1>3, Zenon DEF DomainRemove
  <2>2. "allow" \in RuleKeys /\ "deny" \in RuleKeys
    BY DEF RuleKeys
  <2>3. Keeps(TextOf(Path(c)), Of(c, "allow")) /\ Keeps(TextOf(Path(c)), Of(c, "deny"))
    BY <1>1, <2>2, RemoveRuleKeeps, Zenon
  <2> HIDE DEF Path, Of
  <2>4. Keeps(TextOf(Path(c)), Edits(c))
    BY <2>3, Zenon
  <2> HIDE DEF Edits
  <2> QED BY <1>1, <2>1, <2>4, RecompiledKeeps, Zenon
<1>4. CASE Include
  <2>1. PICK c \in Ready({"include"}) :
            applyAndRecompile(ProjectPath, AppendInclude(TextOf(ProjectPath), c.inc))
    BY <1>4, Zenon DEF Include
  <2>2. c.inc \in Includes
    <3>1. CommandOK(c, files) /\ c.op = "include"
      BY ReadyType
    <3> QED BY <3>1, Zenon DEF CommandOK
  <2>3. Keeps(TextOf(ProjectPath), AppendInclude(TextOf(ProjectPath), c.inc))
    BY <1>1, <2>2, AppendIncludeKeeps, Zenon
  <2> QED BY <1>1, <2>1, <2>3, RecompiledKeeps, Zenon
<1> QED BY <1>2, <1>3, <1>4

\* An import is all of the fragment, or nothing.
LEMMA ImportEdits == CommandsInv /\ Import => FilesKept
<1> SUFFICES ASSUME CommandsInv, Import PROVE FilesKept
  OBVIOUS
<1> DEFINE Frag == fragment[1]
           t == TextOf(ProjectPath)
<1>1. PICK c \in Ready({"import"}) :
          \/ applyAndRecompile(ProjectPath, applyFragment(t, Frag))
          \/ UNCHANGED <<files, policy>>
  BY Zenon DEF Import
<1>2. FilesOK(files) /\ TextOK(t)
  BY TextOfType DEF CommandsInv
<1>3. CASE UNCHANGED <<files, policy>>
  BY <1>2, <1>3, SameKept
<1>4. CASE applyAndRecompile(ProjectPath, applyFragment(t, Frag))
  <2>2. /\ Frag.allow \in Seq(ConfigRules) /\ Frag.deny \in Seq(ConfigRules)
        /\ Frag.services \in Seq(Services)
    BY ImportReady, Zenon DEF FragmentOK
  <2> HIDE DEF Frag, t
  <2>3. Keeps(t, applyFragment(t, Frag))
    BY <1>2, <2>2, FragmentGrows, KeepsIfGrows
  <2> QED BY <1>2, <1>4, <2>3, RecompiledKeeps, Zenon DEF t
<1> QED BY <1>1, <1>3, <1>4

\* The commands that edit the directories and the services.
LEMMA MountsEdit ==
    CommandsInv /\ (MountAdd \/ MountRemove \/ ServiceAdd \/ ServiceRemove) => FilesKept
<1> SUFFICES ASSUME CommandsInv, MountAdd \/ MountRemove \/ ServiceAdd \/ ServiceRemove
             PROVE  FilesKept
  OBVIOUS
<1> DEFINE t == TextOf(ProjectPath)
<1>1. FilesOK(files) /\ TextOK(t)
  BY TextOfType DEF CommandsInv
<1>2. ASSUME NEW edit, Keeps(t, edit), applyAndWarn(ProjectPath, edit) PROVE FilesKept
  BY <1>1, <1>2, WarnedKeeps, Zenon
<1>3. CASE MountAdd
  <2>1. PICK c \in Ready({"mount add"}) :
            applyAndWarn(ProjectPath, AppendDir(t, c.access, c.dir))
    BY <1>3, Zenon DEF MountAdd
  <2>2. c.access \in {"rw", "ro"}
    <3>1. CommandOK(c, files) /\ c.op \in {"mount add"}
      BY ReadyType, Zenon
    <3> QED BY <3>1 DEF CommandOK
  <2>3. Keeps(t, AppendDir(t, c.access, c.dir))
    BY <1>1, <2>2, AppendDirGrows, KeepsIfGrows, Zenon
  <2> QED BY <1>2, <2>1, <2>3, Zenon
<1>4. CASE MountRemove
  <2>1. PICK c \in Ready({"mount remove"}) : applyAndWarn(ProjectPath, RemoveDir(t, c.dir))
    BY <1>4, Zenon DEF MountRemove
  <2> QED BY <1>1, <1>2, <2>1, RemoveDirKeeps, Zenon
<1>5. CASE ServiceAdd
  <2>1. PICK c \in Ready({"service add"}) :
            applyAndWarn(ProjectPath, AppendHostService(t, c.service))
    BY <1>5, Zenon DEF ServiceAdd
  <2> QED BY <1>1, <1>2, <2>1, AppendHostServiceGrows, KeepsIfGrows, Zenon
<1>6. CASE ServiceRemove
  <2>1. PICK c \in Ready({"service remove"}) :
            applyAndWarn(ProjectPath, RemoveHostService(t, c.port))
    BY <1>6, Zenon DEF ServiceRemove
  <2> QED BY <1>1, <1>2, <2>1, RemoveHostServiceKeeps, Zenon
<1> QED BY <1>3, <1>4, <1>5, <1>6

\* The commands that edit the credentials.
LEMMA CredentialsEdit ==
    CommandsInv /\ (CredentialAdd \/ CredentialRemove) => FilesKept
<1> SUFFICES ASSUME CommandsInv, CredentialAdd \/ CredentialRemove PROVE FilesKept
  OBVIOUS
<1> DEFINE Path(c) == mutationTarget(Target(FALSE, c.global))
<1>1. FilesOK(files) /\ \A path : TextOK(TextOf(path))
  BY TextOfType DEF CommandsInv
<1>2. CASE CredentialAdd
  <2>1. PICK c \in Ready({"credential add"}) :
            applyAndRecompile(Path(c),
                AppendCredential(TextOf(Path(c)), c.name, NewCredential(c)[1]))
    BY <1>2, Zenon DEF CredentialAdd
  <2> HIDE DEF Path
  <2> QED BY <1>1, <2>1, AppendCredentialGrows, KeepsIfGrows, RecompiledKeeps, Zenon
<1>3. CASE CredentialRemove
  <2>1. PICK c \in Ready({"credential remove"}) :
            applyAndRecompile(Path(c), RemoveCredential(TextOf(Path(c)), c.name))
    BY <1>3, Zenon DEF CredentialRemove
  <2> HIDE DEF Path
  <2> QED BY <1>1, <2>1, RemoveCredentialKeeps, RecompiledKeeps, Zenon
<1> QED BY <1>2, <1>3

LEMMA NextEdits == CommandsInv /\ Next => FilesKept
<1>1. CommandsInv /\ Check => FilesKept
  BY SameKept DEF Check, CommandsInv
<1> QED BY <1>1, DomainsEdit, ImportEdits, MountsEdit, CredentialsEdit DEF Next

\* The credential that a command line binds.
LEMMA DomainAddInjects ==
    ASSUME NEW host, NEW opts, runDomainAdd(host, opts) # Nil
    PROVE  runDomainAdd(host, opts)[1].rule.inject = opts.inject
<1> DEFINE paths == DecidedPaths(opts)
           tunnel == opts.mode = "passthrough"
           methods == IF opts.methods = <<>> THEN Nil ELSE Some(opts.methods)
           mode == IF tunnel THEN opts.mode ELSE ""
           rule == [host |-> host, paths |-> paths[1], methods |-> methods,
                    mode |-> mode, reason |-> opts.reason, inject |-> opts.inject,
                    in_cage |-> opts.inCage]
           target == Target(opts.once, opts.global)
           list == IF opts.deny THEN "deny" ELSE "allow"
           added == [target |-> target, list |-> list, rule |-> rule]
<1>1. runDomainAdd(host, opts) = Some(added)
  BY Zenon DEF runDomainAdd
<1> HIDE DEF paths, methods, mode, target, list
<1>2. added.rule = rule /\ rule.inject = opts.inject
  OBVIOUS
<1> HIDE DEF added, rule
<1>3. runDomainAdd(host, opts)[1] = added
  BY <1>1 DEF Some
<1> QED BY <1>2, <1>3

LEMMA CommandInjects ==
    ASSUME NEW added, NEW host, NEW opts, added = runDomainAdd(host, opts), added # Nil,
           NEW name, opts.inject = name
    PROVE  added[1].rule.inject = name
<1>1. runDomainAdd(host, opts) # Nil
  OBVIOUS
<1>2. runDomainAdd(host, opts)[1].rule.inject = opts.inject
  BY <1>1, DomainAddInjects, Zenon
<1> QED BY <1>2

LEMMA URLInjects ==
    ASSUME NEW opts \in Flags, NEW path
    PROVE  setURLPath(opts, path).inject = opts.inject
BY DEF setURLPath, Flags

Bound(c) == IF Binds(c) THEN c.opts.inject ELSE ""

LEMMA AddedInjects ==
    ASSUME NEW c, NEW fs, CommandOK(c, fs), Adds(c), Added(c) # Nil
    PROVE  Added(c)[1].rule.inject = Bound(c)
<1>0. c.op # "deny" => Bound(c) = c.opts.inject
  BY Zenon DEF Bound, Binds
<1>1. CASE c.op = "allow"
  <2>1. c.opts \in Flags
    BY <1>1 DEF CommandOK
  <2>2. Added(c) = runDomainAdd(c.url.host, setURLPath(c.opts, c.url.path))
    BY <1>1, Zenon DEF Added, runAllowWith
  <2>3. Bound(c) = c.opts.inject
    BY <1>0, <1>1
  <2>4. setURLPath(c.opts, c.url.path).inject = Bound(c)
    BY <2>1, <2>3, URLInjects
  <2> QED BY <2>2, <2>4, CommandInjects, Zenon
<1>2. CASE c.op = "deny"
  <2> DEFINE opts == [domainAddOpts EXCEPT !.deny = TRUE, !.reason = c.reason]
  <2>1. c.reason \in STRING
    BY <1>2 DEF CommandOK
  <2>2. opts \in Flags
    BY <2>1, DenyFlags
  <2>3. Added(c) = runDomainAdd(c.url.host, setURLPath(opts, c.url.path))
    BY <1>2 DEF Added, runDeny
  <2>4. opts.inject = ""
    BY DEF domainAddOpts
  <2>5. Bound(c) = ""
    BY <1>2, Zenon DEF Bound, Binds
  <2> HIDE DEF opts
  <2>6. setURLPath(opts, c.url.path).inject = Bound(c)
    BY <2>2, <2>4, <2>5, URLInjects
  <2> QED BY <2>3, <2>6, CommandInjects, Zenon
<1>3. CASE c.op = "domain add"
  <2>1. Added(c) = runDomainAdd(c.host, c.opts)
    BY <1>3 DEF Added
  <2>2. Bound(c) = c.opts.inject
    BY <1>0, <1>3
  <2> QED BY <2>1, <2>2, CommandInjects, Zenon
<1> QED BY <1>1, <1>2, <1>3 DEF Adds, AddOps

\* The files that there are after a write.
LEMMA WrittenFiles ==
    ASSUME NEW path, NEW text, writeFile(path, text)
    PROVE  /\ DOMAIN files' = DOMAIN files \cup {path}
           /\ \A p \in DOMAIN files \cup {path} :
                files'[p] = IF p = path THEN text ELSE files[p]
<1>1. files' = [p \in DOMAIN files \cup {path} |-> IF p = path THEN text ELSE files[p]]
  BY DEF writeFile
<1>2. DOMAIN files' = DOMAIN files \cup {path}
  BY <1>1
<1>3. \A p \in DOMAIN files \cup {path} :
        files'[p] = IF p = path THEN text ELSE files[p]
  BY <1>1, Zenon
<1> QED BY <1>2, <1>3, Zenon

\* A file that was on one line has nothing left.
OneEmptied ==
    \E p \in DOMAIN files :
        "root" \in files[p].oneLine /\ Parse(files'[p]) = Some(EmptyConfig)

\* One file is edited, or made, and the others stay.
LEMMA OneTurned ==
    ASSUME FilesOK(files), FilesOK(files'), NEW new, NEW gone, NEW path, NEW edit,
           Turning(new, gone, TextOf(path), edit),
           writeFile(path, edit.out) \/ UNCHANGED files
    PROVE  FilesTurn(new, gone, files, files') \/ OneEmptied
<1>1. \A t : Turns(new, gone, t, t)
  BY SameWidens, Zenon DEF Turns
<1>2. Turns(new, gone, TextOf(path), edit.out) \/ Emptied(TextOf(path), edit.out)
  BY TurningIs, Zenon
<1>3. CASE UNCHANGED files
  BY <1>1, <1>3 DEF FilesTurn
<1>5. CASE writeFile(path, edit.out) /\ Emptied(TextOf(path), edit.out)
  <2>1. path \in DOMAIN files
    <3>1. EmptyText.oneLine = {}
      BY DEF EmptyText
    <3> QED BY <1>5, <3>1 DEF Emptied, TextOf
  <2>2. TextOf(path) = files[path] /\ files'[path] = edit.out
    BY <1>5, <2>1, WrittenFiles, Zenon DEF TextOf
  <2> QED BY <1>5, <2>1, <2>2, Zenon DEF OneEmptied, Emptied
<1>4. CASE writeFile(path, edit.out) /\ Turns(new, gone, TextOf(path), edit.out)
  <2>1. /\ DOMAIN files' = DOMAIN files \cup {path}
        /\ \A p \in DOMAIN files \cup {path} :
              files'[p] = IF p = path THEN edit.out ELSE files[p]
    BY <1>4, WrittenFiles, Zenon
  <2>2. ASSUME NEW p \in DOMAIN files PROVE Turns(new, gone, files[p], files'[p])
    <3>1. CASE p = path
      <4>1. TextOf(path) = files[p]
        BY <3>1, Zenon DEF TextOf
      <4> QED BY <1>4, <2>1, <3>1, <4>1, Zenon
    <3>2. CASE p # path
      <4>1. files'[p] = files[p]
        BY <2>1, <3>2
      <4> QED BY <1>1, <4>1, Zenon
    <3> QED BY <3>1, <3>2
  <2>3. ASSUME NEW p \in DOMAIN files' \ DOMAIN files
        PROVE  Turns(new, gone, EmptyText, files'[p])
    <3>1. p = path /\ p \notin DOMAIN files
      BY <2>1
    <3>2. TextOf(path) = EmptyText
      BY <3>1, Zenon DEF TextOf
    <3>3. files'[p] = edit.out
      BY <2>1, <3>1, Zenon
    <3> QED BY <1>4, <3>2, <3>3, Zenon
  <2>4. DOMAIN files \subseteq DOMAIN files'
    BY <2>1
  <2> QED BY <2>2, <2>3, <2>4, Zenon DEF FilesTurn
<1> QED BY <1>2, <1>3, <1>4, <1>5

LEMMA RecompiledTurns ==
    ASSUME FilesOK(files), FilesOK(files'), NEW new, NEW gone, NEW path, NEW edit,
           Turning(new, gone, TextOf(path), edit), applyAndRecompile(path, edit)
    PROVE  FilesTurn(new, gone, files, files') \/ OneEmptied
<1>1. writeFile(path, edit.out) \/ UNCHANGED files
  BY DEF applyAndRecompile
<1> QED BY <1>1, OneTurned, Zenon

LEMMA WarnedTurns ==
    ASSUME FilesOK(files), FilesOK(files'), NEW new, NEW gone, NEW path, NEW edit,
           Turning(new, gone, TextOf(path), edit), applyAndWarn(path, edit)
    PROVE  FilesTurn(new, gone, files, files') \/ OneEmptied
<1>1. writeFile(path, edit.out) \/ UNCHANGED files
  BY DEF applyAndWarn
<1> QED BY <1>1, OneTurned, Zenon

\* What the command that went injects in a rule, and takes from the credentials.
Brought == IF Adds(last'[1]) THEN {Bound(last'[1])} ELSE {}
Taken == IF last'[1].op = "credential remove" THEN {last'[1].name} ELSE {}
CommandTurns == FilesTurn(Brought, Taken, files, files') \/ OneEmptied

LEMMA WentLast ==
    ASSUME NEW c, Went(c)
    PROVE  last'[1] = c
BY DEF Went, Some

LEMMA NothingBrought ==
    ASSUME NEW ops, NEW c \in Ready(ops), CommandsInv, Went(c), ops \cap AddOps = {},
           "credential remove" \notin ops
    PROVE  Brought = {} /\ Taken = {}
<1>1. last'[1] = c /\ c.op \in ops
  BY WentLast, ReadyType, Zenon
<1> QED BY <1>1 DEF Brought, Taken, Adds

LEMMA DomainAddTurns ==
    ASSUME CommandsInv, FilesOK(files'), DomainAdd
    PROVE  CommandTurns
<1> DEFINE Edits(c) ==
               LET a == Added(c)[1]
                   t == TextOf(mutationTarget(a.target))
               IN IF a.rule.inject # "" \/ a.rule.in_cage THEN SetRuleAuth(t, a.list, a.rule)
                  ELSE AppendRule(t, a.list, a.rule)
<1>1. PICK c \in Ready(AddOps) :
        applyAndRecompile(mutationTarget(Added(c)[1].target), Edits(c)) /\ Went(c)
  BY Zenon DEF DomainAdd
<1> DEFINE a == Added(c)[1]
           t == TextOf(mutationTarget(a.target))
<1>2. FilesOK(files) /\ TextOK(t)
  BY TextOfType DEF CommandsInv
<1>3. Adds(c) /\ CommandOK(c, files) /\ Added(c) # Nil /\ c.op # "credential remove"
  <2>1. c.op \in AddOps /\ CommandOK(c, files) /\ (Adds(c) => Added(c) # Nil)
    BY ReadyType, Zenon
  <2>2. c.op # "credential remove"
    BY <2>1 DEF AddOps
  <2> QED BY <2>1, <2>2, Zenon DEF Adds
<1>4. a.list \in RuleKeys /\ a.rule \in ConfigRules
  BY <1>3, AddedType DEF AddedOK
<1>5. a.rule.inject = Bound(c)
  BY <1>3, AddedInjects, Zenon
<1>6. Brought = {Bound(c)} /\ Taken = {}
  BY <1>1, <1>3, WentLast DEF Brought, Taken
<1>7. Edits(c) = SetRuleAuth(t, a.list, a.rule) \/ Edits(c) = AppendRule(t, a.list, a.rule)
  BY Zenon
<1> HIDE DEF a, Edits
<1>8. /\ Turning({a.rule.inject}, {}, t, SetRuleAuth(t, a.list, a.rule))
      /\ Turning({a.rule.inject}, {}, t, AppendRule(t, a.list, a.rule))
  BY <1>2, <1>4, SetRuleAuthTurning, AddRuleTurning, Zenon
<1>9. Turning(Brought, Taken, t, Edits(c))
  BY <1>5, <1>6, <1>7, <1>8, Zenon
<1> QED BY <1>1, <1>2, <1>9, RecompiledTurns, Zenon DEF CommandTurns, a

LEMMA DomainRemoveTurns ==
    ASSUME CommandsInv, FilesOK(files'), DomainRemove
    PROVE  CommandTurns
<1> DEFINE Path(c) == mutationTarget(Target(FALSE, c.global))
           Of(c, list) == RemoveRule(TextOf(Path(c)), list, c.host, c.path)
           Edits(c) == IF Of(c, "allow").err # "not_found" THEN Of(c, "allow")
                       ELSE Of(c, "deny")
<1>1. PICK c \in Ready({"domain remove"}) :
        applyAndRecompile(Path(c), Edits(c)) /\ Went(c)
  BY Zenon DEF DomainRemove
<1>2. FilesOK(files) /\ TextOK(TextOf(Path(c)))
  BY TextOfType DEF CommandsInv
<1>3. "allow" \in RuleKeys /\ "deny" \in RuleKeys
  BY DEF RuleKeys
<1>4. Turning({}, {}, TextOf(Path(c)), Of(c, "allow"))
      /\ Turning({}, {}, TextOf(Path(c)), Of(c, "deny"))
  BY <1>2, <1>3, RemoveRuleTurning, Zenon
<1> HIDE DEF Path, Of
<1>5. Turning({}, {}, TextOf(Path(c)), Edits(c))
  BY <1>4, Zenon
<1> HIDE DEF Edits
<1>6. Brought = {} /\ Taken = {}
  <2>1. {"domain remove"} \cap AddOps = {} /\ "credential remove" \notin {"domain remove"}
    BY DEF AddOps
  <2> QED BY <1>1, <2>1, NothingBrought, Zenon
<1> QED BY <1>1, <1>2, <1>5, <1>6, RecompiledTurns, Zenon DEF CommandTurns

LEMMA MountsTurn ==
    ASSUME CommandsInv, FilesOK(files'), MountAdd \/ MountRemove \/ ServiceAdd \/ ServiceRemove
    PROVE  CommandTurns
<1> DEFINE t == TextOf(ProjectPath)
           ops == {"mount add", "mount remove", "service add", "service remove"}
<1>1. FilesOK(files) /\ TextOK(t)
  BY TextOfType DEF CommandsInv
<1>2. ASSUME NEW op \in ops, NEW c \in Ready({op}), Went(c), NEW edit,
             Turning({}, {}, t, edit), applyAndWarn(ProjectPath, edit)
      PROVE  CommandTurns
  <2>1. {op} \cap AddOps = {} /\ "credential remove" \notin {op}
    BY DEF AddOps
  <2>2. Brought = {} /\ Taken = {}
    BY <1>2, <2>1, NothingBrought, Zenon
  <2> QED BY <1>1, <1>2, <2>2, WarnedTurns, Zenon DEF CommandTurns
<1>3. CASE MountAdd
  <2>1. PICK c \in Ready({"mount add"}) :
            applyAndWarn(ProjectPath, AppendDir(t, c.access, c.dir)) /\ Went(c)
    BY <1>3, Zenon DEF MountAdd
  <2>2. c.access \in {"rw", "ro"}
    <3>1. CommandOK(c, files) /\ c.op \in {"mount add"}
      BY ReadyType, Zenon
    <3> QED BY <3>1 DEF CommandOK
  <2>3. Turning({}, {}, t, AppendDir(t, c.access, c.dir)) /\ "mount add" \in ops
    BY <1>1, <2>2, AppendDirTurning, Zenon
  <2> QED BY <1>2, <2>1, <2>3, Zenon
<1>4. CASE MountRemove
  <2>1. PICK c \in Ready({"mount remove"}) :
            applyAndWarn(ProjectPath, RemoveDir(t, c.dir)) /\ Went(c)
    BY <1>4, Zenon DEF MountRemove
  <2>2. Turning({}, {}, t, RemoveDir(t, c.dir)) /\ "mount remove" \in ops
    BY <1>1, RemoveDirTurning, Zenon
  <2> QED BY <1>2, <2>1, <2>2, Zenon
<1>5. CASE ServiceAdd
  <2>1. PICK c \in Ready({"service add"}) :
            applyAndWarn(ProjectPath, AppendHostService(t, c.service)) /\ Went(c)
    BY <1>5, Zenon DEF ServiceAdd
  <2>2. Turning({}, {}, t, AppendHostService(t, c.service)) /\ "service add" \in ops
    BY <1>1, AppendHostServiceTurning, Zenon
  <2> QED BY <1>2, <2>1, <2>2, Zenon
<1>6. CASE ServiceRemove
  <2>1. PICK c \in Ready({"service remove"}) :
            applyAndWarn(ProjectPath, RemoveHostService(t, c.port)) /\ Went(c)
    BY <1>6, Zenon DEF ServiceRemove
  <2>2. Turning({}, {}, t, RemoveHostService(t, c.port)) /\ "service remove" \in ops
    BY <1>1, RemoveHostServiceTurning, Zenon
  <2> QED BY <1>2, <2>1, <2>2, Zenon
<1> QED BY <1>3, <1>4, <1>5, <1>6

LEMMA CredentialsTurn ==
    ASSUME CommandsInv, FilesOK(files'), CredentialAdd \/ CredentialRemove
    PROVE  CommandTurns
<1> DEFINE Path(c) == mutationTarget(Target(FALSE, c.global))
<1>1. FilesOK(files) /\ \A path : TextOK(TextOf(path))
  BY TextOfType DEF CommandsInv
<1>2. CASE CredentialAdd
  <2>1. PICK c \in Ready({"credential add"}) :
            /\ applyAndRecompile(Path(c),
                    AppendCredential(TextOf(Path(c)), c.name, NewCredential(c)[1]))
            /\ Went(c)
    BY <1>2, Zenon DEF CredentialAdd
  <2> HIDE DEF Path
  <2>2. {"credential add"} \cap AddOps = {} /\ "credential remove" \notin {"credential add"}
    BY DEF AddOps
  <2>3. Brought = {} /\ Taken = {}
    BY <2>1, <2>2, NothingBrought, Zenon
  <2>4. Turning({}, {}, TextOf(Path(c)),
                AppendCredential(TextOf(Path(c)), c.name, NewCredential(c)[1]))
    BY <1>1, AppendCredentialTurning, Zenon
  <2> QED BY <1>1, <2>1, <2>3, <2>4, RecompiledTurns, Zenon DEF CommandTurns
<1>3. CASE CredentialRemove
  <2>1. PICK c \in Ready({"credential remove"}) :
            applyAndRecompile(Path(c), RemoveCredential(TextOf(Path(c)), c.name)) /\ Went(c)
    BY <1>3, Zenon DEF CredentialRemove
  <2> HIDE DEF Path
  <2>2. c.op \in {"credential remove"} /\ last'[1] = c
    BY <2>1, ReadyType, WentLast, Zenon
  <2>3. Brought = {} /\ Taken = {c.name}
    BY <2>2 DEF Brought, Taken, Adds, AddOps
  <2>4. Turning({}, {c.name}, TextOf(Path(c)), RemoveCredential(TextOf(Path(c)), c.name))
    BY <1>1, RemoveCredentialTurning, Zenon
  <2> QED BY <1>1, <2>1, <2>3, <2>4, RecompiledTurns, Zenon DEF CommandTurns
<1> QED BY <1>2, <1>3

\* The look of a command that would leave a rule without its credential.
LEMMA OverlayOffers ==
    ASSUME NEW fs, Fine(loadOverlay(fs)), NEW name, name \in Injected(loadOverlay(fs).cfg)
    PROVE  /\ OverlayPath \in DOMAIN fs /\ Parse(fs[OverlayPath]) # Nil
           /\ name \in Injected(Parse(fs[OverlayPath])[1])
<1> DEFINE o == loadOverlay(fs)
           t == fs[OverlayPath]
<1>1. Err("overlay").err # "" /\ Ok(EmptyConfig).cfg = EmptyConfig
      /\ Ok(Parse(t)[1]).cfg = Parse(t)[1]
  BY DEF Ok, Err
<1>2. Injected(EmptyConfig) = {}
  <2>1. EmptyConfig.allow = <<>> /\ EmptyConfig.deny = <<>>
    BY EmptyIs
  <2>2. Elements(EmptyConfig.allow) = {} /\ Elements(EmptyConfig.deny) = {}
    BY <2>1 DEF Elements
  <2> QED BY <2>2 DEF Injected
<1>3. o = IF OverlayPath \notin DOMAIN fs THEN Ok(EmptyConfig)
          ELSE IF Parse(t) = Nil THEN Err("overlay") ELSE Ok(Parse(t)[1])
  BY Zenon DEF loadOverlay
<1>4. o.err = "" /\ name \in Injected(o.cfg)
  BY DEF Fine
<1> HIDE DEF o, t
<1>5. CASE OverlayPath \notin DOMAIN fs
  <2>1. o = Ok(EmptyConfig)
    BY <1>3, <1>5
  <2>2. name \in {}
    BY <1>1, <1>2, <1>4, <2>1, Zenon
  <2> QED BY <2>2
<1>6. CASE OverlayPath \in DOMAIN fs
  <2>1. Parse(t) # Nil
    BY <1>1, <1>3, <1>4, <1>6, Zenon
  <2>2. o = Ok(Parse(t)[1])
    BY <1>3, <1>6, <2>1, Zenon
  <2>3. name \in Injected(Parse(t)[1])
    BY <1>1, <1>4, <2>2, Zenon
  <2> QED BY <1>6, <2>1, <2>3, Zenon DEF t
<1> QED BY <1>5, <1>6

LEMMA BoundIsKnown ==
    ASSUME FilesOK(files), NEW c, Binds(c), Look(c, Load(files)), Load(files).err = ""
    PROVE  c.opts.inject \in NamesIn(files)
<1>0. c.op # "credential remove" /\ c.op # "include"
  BY DEF Binds, Adds, AddOps
<1>1. CredentialKnown(Load(files), c.opts.inject)
  BY <1>0, Zenon DEF Look
<1>2. c.opts.inject \in Names(Load(files).cfg.credentials)
  BY <1>1, Zenon DEF CredentialKnown
<1> QED BY <1>2, LoadOffers DEF NamesIn

LEMMA TakenIsUnbound ==
    ASSUME FilesOK(files), NEW c, c.op = "credential remove", Look(c, Load(files)),
           Load(files).err = "", Readable(files), c.name \in InjectedIn(files)
    PROVE  OverlayInjects(c.name)
<1>1. ~Binds(c)
  BY DEF Binds, Adds, AddOps
<1>2. CredentialUnbound(Load(files), c.name)
  BY <1>1, Zenon DEF Look
<1>3. injectingHost(Load(files).cfg, c.name) = {}
  BY <1>2, Zenon DEF CredentialUnbound
<1>4. c.name \notin Injected(Load(files).cfg)
  BY <1>3 DEF injectingHost, Injected
<1>5. c.name \in Injected(loadOverlay(files).cfg)
  BY <1>4, LoadOffers DEF InjectedIn
<1> QED BY <1>5, OverlayOffers, Zenon DEF Readable, OverlayInjects

\* Without an overlay, what compiles loads.
LEMMA LoadsAlike ==
    ASSUME FilesOK(files), Compile(files).err = ""
    PROVE  OverlayPath \in DOMAIN files \/ Load(files).err = ""
<1> SUFFICES ASSUME OverlayPath \notin DOMAIN files PROVE Load(files).err = ""
  OBVIOUS
<1>1. "" \notin {"generator", "generated"}
  OBVIOUS
<1>2. SameView(Load(files), Compile(files))
  BY <1>1, ViewsOfFiles, Zenon DEF TwoViewsAgree, AgreesUnlessGenerated
<1> QED BY <1>2, Zenon DEF SameView

\* What a step must have done to leave a rule without its credential.
Excused ==
    LET c == last'[1]
    IN \/ c.op \in {"include", "import"}
       \/ ~Look(c, Load(files))
       \/ OverlayPath \in DOMAIN files /\ Load(files).err # ""
       \/ c.op = "credential remove" /\ OverlayInjects(c.name)
       \/ OneEmptied

LEMMA TurnExcused ==
    ASSUME FilesOK(files), CommandTurns, BecomesDangling
    PROVE  Excused
<1> SUFFICES ASSUME FilesTurn(Brought, Taken, files, files') PROVE Excused
  BY Zenon DEF CommandTurns, Excused
<1> DEFINE c == last'[1]
<1>1. Compile(files).err = "" /\ Compile(files').err = "inject"
  BY DEF BecomesDangling
<1>2. /\ Readable(files) /\ NamesIn(files) \subseteq NamesIn(files') \cup Taken
      /\ \E n : /\ n # "" /\ n \notin NamesIn(files')
                /\ n \in Brought \/ (n \in Taken /\ n \in InjectedIn(files))
  BY <1>1, DanglingFrom, Zenon
<1>3. PICK n : /\ n # "" /\ n \notin NamesIn(files')
               /\ n \in Brought \/ (n \in Taken /\ n \in InjectedIn(files))
  BY <1>2, Zenon
<1> HIDE DEF c
<1>4. ASSUME Look(c, Load(files)), Load(files).err = ""
      PROVE  c.op = "credential remove" /\ OverlayInjects(c.name)
  <2>1. CASE n \in Brought
    <3>1. Adds(c) /\ n = Bound(c)
      BY <2>1 DEF Brought, c
    <3>2. Binds(c) /\ n = c.opts.inject
      BY <1>3, <3>1, Zenon DEF Bound
    <3>3. n \in NamesIn(files)
      BY <1>4, <3>2, BoundIsKnown, Zenon
    <3>4. Taken = {}
      BY <3>1 DEF Taken, Adds, AddOps, c
    <3> QED BY <1>2, <1>3, <3>3, <3>4
  <2>2. CASE n \in Taken /\ n \in InjectedIn(files)
    <3>1. c.op = "credential remove" /\ n = c.name
      BY <2>2 DEF Taken, c
    <3>2. c.name \in InjectedIn(files)
      BY <2>2, <3>1
    <3>3. OverlayInjects(c.name)
      BY <1>2, <1>4, <3>1, <3>2, TakenIsUnbound, Zenon
    <3> QED BY <3>1, <3>3
  <2> QED BY <1>3, <2>1, <2>2, Zenon
<1>5. OverlayPath \in DOMAIN files \/ Load(files).err = ""
  BY <1>1, LoadsAlike, Zenon
<1> QED BY <1>4, <1>5, Zenon DEF Excused, c

LEMMA NextExcused ==
    ASSUME CommandsInv, Next, BecomesDangling
    PROVE  Excused
<1>1. FilesOK(files) /\ FilesOK(files')
  BY NextKeeps DEF CommandsInv
<1>2. CASE Check
  BY <1>2 DEF Check, BecomesDangling
<1>3. CASE DomainAdd
  BY <1>1, <1>3, DomainAddTurns, TurnExcused, Zenon
<1>4. CASE DomainRemove
  BY <1>1, <1>4, DomainRemoveTurns, TurnExcused, Zenon
<1>5. CASE MountAdd \/ MountRemove \/ ServiceAdd \/ ServiceRemove
  BY <1>1, <1>5, MountsTurn, TurnExcused, Zenon
<1>6. CASE CredentialAdd \/ CredentialRemove
  BY <1>1, <1>6, CredentialsTurn, TurnExcused, Zenon
<1>7. CASE Include
  <2>1. PICK c \in Ready({"include"}) : Went(c)
    BY <1>7, Zenon DEF Include
  <2>2. last'[1] = c /\ c.op \in {"include"}
    BY <2>1, WentLast, ReadyType, Zenon
  <2> QED BY <2>2 DEF Excused
<1>8. CASE Import
  <2>1. PICK c \in Ready({"import"}) : Went(c)
    BY <1>8, Zenon DEF Import
  <2>2. last'[1] = c /\ c.op \in {"import"}
    BY <2>1, WentLast, ReadyType, Zenon
  <2> QED BY <2>2 DEF Excused
<1> QED BY <1>2, <1>3, <1>4, <1>5, <1>6, <1>7, <1>8, Zenon DEF Next

(***************************************************************************)
(* The matchers, on the policy in force.                                   *)
(***************************************************************************)

LEMMA PolicyTyped ==
    ASSUME PolicyOK
    PROVE  RulesOK(policy.allow) /\ RulesOK(policy.deny)
<1>1. ASSUME NEW s, s \in Seq(Elements(s)), \A r \in Elements(s) : RuleOK(r)
      PROVE  RulesOK(s)
  BY <1>1 DEF RulesOK, Elements
<1>2. /\ policy.allow \in Seq(Elements(policy.allow))
      /\ policy.deny \in Seq(Elements(policy.deny))
      /\ \A r \in Elements(policy.allow) \cup Elements(policy.deny) : RuleOK(r)
  BY DEF PolicyOK
<1> QED BY <1>1, <1>2

\* All of it together, for the policy in force.
LEMMA ExplainOfPolicy ==
    ASSUME PolicyOK
    PROVE  ExplainIsEnforced
<1>1. RulesOK(policy.allow) /\ RulesOK(policy.deny)
  BY PolicyTyped
<1>2. ASSUME NEW q \in Requests
      PROVE  LET go == HostDisposition(policy, q.host)
                 py == Py_host_disposition(policy, q.host)
             IN /\ Decide(policy, q) = Py_decide(policy, q)
                /\ go.passthrough = py.passthrough
                /\ go.deny_reason =
                     IF py.deny_reason = Nil THEN "" ELSE py.deny_reason[1]
                /\ py.passthrough /\ py.deny_reason = Nil =>
                     LET d == Decide(policy, q)
                     IN d.decision = "allow" /\ d.mode = "passthrough"
  <2>1. q \in RequestTypes /\ q.host \in Hosts
    BY RequestsAssumption DEF RequestTypes, Hosts
  <2>2. Decide(policy, q) = Py_decide(policy, q)
    BY <1>1, <2>1, SameDecide
  <2>3. LET go == HostDisposition(policy, q.host)
            py == Py_host_disposition(policy, q.host)
        IN /\ go.passthrough = py.passthrough
           /\ go.deny_reason =
                IF py.deny_reason = Nil THEN "" ELSE py.deny_reason[1]
    BY <1>1, <2>1, SameDisposition
  <2>4. ASSUME Py_host_disposition(policy, q.host).passthrough,
               Py_host_disposition(policy, q.host).deny_reason = Nil
        PROVE  Decide(policy, q).decision = "allow" /\ Decide(policy, q).mode = "passthrough"
    BY <1>1, <2>1, <2>4, TunnelAllowed
  <2> QED BY <2>2, <2>3, <2>4, Zenon
<1> QED BY <1>2, Zenon DEF ExplainIsEnforced

\* A list turned around has the same rules.
LEMMA ReversedRules ==
    ASSUME NEW rules, RulesOK(rules)
    PROVE  Permuted(rules, Reversed(rules))
<1> DEFINE n == Len(rules)
<1>1. n \in Nat /\ DOMAIN rules = 1..n /\ \A i \in 1..n : RuleOK(rules[i])
  BY DEF RulesOK
<1>2. Reversed(rules) = [i \in 1..n |-> rules[n + 1 - i]]
  BY <1>1 DEF Reversed
<1>3. \A i \in 1..n : n + 1 - i \in 1..n /\ n + 1 - (n + 1 - i) = i
  BY <1>1
<1> HIDE DEF n
<1>4. /\ DOMAIN Reversed(rules) = 1..n
      /\ \A i \in 1..n : Reversed(rules)[i] = rules[n + 1 - i]
  BY <1>2
<1>5. Len(Reversed(rules)) = n
  BY <1>1, <1>4
<1>6. RulesOK(Reversed(rules))
  BY <1>1, <1>3, <1>4, <1>5 DEF RulesOK
<1>7. Elements(Reversed(rules)) = Elements(rules)
  <2>1. ASSUME NEW r \in Elements(rules) PROVE r \in Elements(Reversed(rules))
    <3>1. PICK i \in 1..n : r = rules[i]
      BY <1>1 DEF Elements
    <3>2. Reversed(rules)[n + 1 - i] = rules[i]
      BY <1>3, <1>4
    <3> QED BY <1>3, <1>4, <3>1, <3>2 DEF Elements
  <2>2. ASSUME NEW r \in Elements(Reversed(rules)) PROVE r \in Elements(rules)
    <3>1. PICK i \in 1..n : r = Reversed(rules)[i]
      BY <1>4 DEF Elements
    <3> QED BY <1>1, <1>3, <1>4, <3>1 DEF Elements
  <2> QED BY <2>1, <2>2
<1> QED BY <1>6, <1>7 DEF Permuted

\* So does the policy in force, turned around.
LEMMA OrderOfPolicy ==
    ASSUME PolicyOK
    PROVE  OrderBlind
<1> DEFINE turned == [policy EXCEPT !.allow = Reversed(@), !.deny = Reversed(@)]
<1>1. RulesOK(policy.allow) /\ RulesOK(policy.deny)
  BY PolicyTyped
<1>2. turned.allow = Reversed(policy.allow) /\ turned.deny = Reversed(policy.deny)
  BY DEF PolicyOK, NoPolicy
<1>3. Permuted(policy.allow, turned.allow) /\ Permuted(policy.deny, turned.deny)
  BY <1>1, <1>2, ReversedRules
<1>4. \A q \in Requests : q \in RequestTypes
  BY RequestsAssumption DEF RequestTypes, Hosts
<1> HIDE DEF turned
<1>5. \A q \in Requests : /\ Decide(policy, q).decision = Decide(turned, q).decision
                          /\ Decide(policy, q).mode = Decide(turned, q).mode
  BY <1>3, <1>4, TurnedDecide
<1> QED BY <1>5, Zenon DEF OrderBlind, turned
(***************************************************************************)
(* The table of GlobMatches.                                               *)
(***************************************************************************)

\* Row i of the table, from the rows below it in m.
Row(p, s, m, i) ==
    [j \in 1..(Len(s) + 1) |->
        IF i > Len(p) THEN j > Len(s)
        ELSE IF p[i] = "*" THEN \E k \in j..(Len(s) + 1) : m[i + 1][k]
        ELSE j <= Len(s) /\ p[i] = s[j] /\ m[i + 1][j + 1]]

Table(p, s) == CHOOSE m : m = [i \in 1..(Len(p) + 1) |-> Row(p, s, m, i)]

\* The rest of the pattern after its first i characters matches the rest of
\* the segment after its first j.
G(p, s, i, j) == Table(p, s)[i + 1][j + 1]

\* A row depends on the next one only.
LEMMA RowLocal ==
    ASSUME NEW p, NEW s, NEW m, NEW o, NEW i \in Int, Len(p) \in Nat,
           i <= Len(p) => m[i + 1] = o[i + 1]
    PROVE  Row(p, s, m, i) = Row(p, s, o, i)
<1>1. CASE i > Len(p)
  BY <1>1 DEF Row
<1>2. CASE i <= Len(p)
  BY <1>2, Zenon DEF Row
<1> QED BY <1>1, <1>2

\* The table can be filled, from the last row up.
LEMMA TableExists ==
    ASSUME NEW p, NEW s, Len(p) \in Nat
    PROVE  \E m : m = [i \in 1..(Len(p) + 1) |-> Row(p, s, m, i)]
<1> DEFINE P == Len(p)
           S == {n \in 0..P : \E m : m = [i \in (P + 1 - n)..(P + 1) |-> Row(p, s, m, i)]}
<1>1. 0 \in S
  <2> DEFINE z == [i \in (P + 1)..(P + 1) |-> Row(p, s, <<>>, i)]
  <2>1. z = [i \in (P + 1)..(P + 1) |-> Row(p, s, z, i)]
    <3>1. ASSUME NEW i \in (P + 1)..(P + 1) PROVE Row(p, s, <<>>, i) = Row(p, s, z, i)
      <4> HIDE DEF z
      <4> QED BY RowLocal
    <3> QED BY <3>1
  <2>2. \E m : m = [i \in (P + 1)..(P + 1) |-> Row(p, s, m, i)]
    <3> HIDE DEF z
    <3> QED BY <2>1
  <2>3. P + 1 - 0 = P + 1 /\ 0 \in 0..P
    OBVIOUS
  <2> QED BY <2>2, <2>3
<1>2. ASSUME NEW n \in 1..P, n - 1 \in S PROVE n \in S
  <2> DEFINE f == P + 1 - n
  <2>1. PICK g : g = [i \in (f + 1)..(P + 1) |-> Row(p, s, g, i)]
    <3>1. P + 1 - (n - 1) = f + 1
      OBVIOUS
    <3> QED BY <1>2, <3>1
  <2> DEFINE h == [i \in f..(P + 1) |-> IF i = f THEN Row(p, s, g, f) ELSE g[i]]
  <2>2. f \in 1..P /\ f \in Int
    OBVIOUS
  <2>3. \A i \in (f + 1)..(P + 1) : h[i] = g[i]
    BY <2>2
  <2>4. ASSUME NEW i \in f..(P + 1) PROVE h[i] = Row(p, s, h, i)
    <3> HIDE DEF f
    <3>1. i \in Int /\ (i <= P => i + 1 \in (f + 1)..(P + 1))
      BY <2>2
    <3>2. Row(p, s, g, i) = Row(p, s, h, i)
      <4> HIDE DEF h
      <4> QED BY <2>3, <3>1, RowLocal
    <3>3. h[i] = Row(p, s, g, i)
      <4>1. CASE i = f
        BY <4>1
      <4>2. CASE i # f
        <5>1. i \in (f + 1)..(P + 1)
          BY <2>2, <4>2
        <5> QED BY <2>1, <2>3, <5>1
      <4> QED BY <4>1, <4>2
    <3> QED BY <3>2, <3>3
  <2>5. h = [i \in f..(P + 1) |-> Row(p, s, h, i)]
    BY <2>4
  <2> HIDE DEF h
  <2> QED BY <2>5
<1>3. \A n \in 0..P : n \in S
  <2> HIDE DEF S
  <2> QED BY <1>1, <1>2, UpTo
<1>4. P \in 0..P /\ P + 1 - P = 1
  OBVIOUS
<1> QED BY <1>3, <1>4

\* GlobMatches is the table's first cell.
LEMMA GlobIsCell ==
    ASSUME NEW p, NEW s, Len(p) \in Nat, Len(s) \in Nat
    PROVE  /\ Table(p, s) = [i \in 1..(Len(p) + 1) |-> Row(p, s, Table(p, s), i)]
           /\ GlobMatches(p, s) = G(p, s, 0, 0)
<1>1. Table(p, s) = [i \in 1..(Len(p) + 1) |-> Row(p, s, Table(p, s), i)]
  BY TableExists, Zenon DEF Table
<1>2. GlobMatches(p, s) = Table(p, s)[1][1]
  BY Zenon DEF GlobMatches, Table, Row
<1>3. 0 + 1 = 1
  OBVIOUS
<1> QED BY <1>1, <1>2, <1>3 DEF G

\* What each cell of the table is.
LEMMA Cells ==
    ASSUME NEW p, NEW s, Len(p) \in Nat, Len(s) \in Nat,
           NEW i \in 0..Len(p), NEW j \in 0..Len(s)
    PROVE  /\ i = Len(p) => (G(p, s, i, j) <=> j = Len(s))
           /\ i < Len(p) /\ p[i + 1] = "*" =>
                (G(p, s, i, j) <=> \E k \in j..Len(s) : G(p, s, i + 1, k))
           /\ i < Len(p) /\ p[i + 1] # "*" =>
                (G(p, s, i, j) <=> /\ j < Len(s)
                                   /\ p[i + 1] = s[j + 1]
                                   /\ G(p, s, i + 1, j + 1))
<1> DEFINE m == Table(p, s)
<1>1. m[i + 1] = Row(p, s, m, i + 1)
  <2>1. m = [n \in 1..(Len(p) + 1) |-> Row(p, s, m, n)]
    BY GlobIsCell
  <2>2. i + 1 \in 1..(Len(p) + 1)
    OBVIOUS
  <2> HIDE DEF m
  <2> QED BY <2>1, <2>2
<1>2. G(p, s, i, j) = Row(p, s, m, i + 1)[j + 1]
  BY <1>1 DEF G
<1>3. \A n, k : G(p, s, n, k) = m[n + 1][k + 1]
  BY DEF G
<1> HIDE DEF m
<1>4. j + 1 \in 1..(Len(s) + 1)
  OBVIOUS
<1> DEFINE f == i + 1
           g == j + 1
<1>5. G(p, s, i, j) = IF f > Len(p) THEN g > Len(s)
                      ELSE IF p[f] = "*" THEN \E k \in g..(Len(s) + 1) : m[f + 1][k]
                      ELSE g <= Len(s) /\ p[f] = s[g] /\ m[f + 1][g + 1]
  <2>1. G(p, s, i, j) = Row(p, s, m, f)[g] /\ g \in 1..(Len(s) + 1)
    BY <1>2, <1>4
  <2> HIDE DEF f, g
  <2> QED BY <2>1, Zenon DEF Row
<1>6. CASE i = Len(p)
  <2>1. f > Len(p) /\ i >= Len(p)
    BY <1>6
  <2>2. g > Len(s) <=> j = Len(s)
    OBVIOUS
  <2> HIDE DEF f, g
  <2>3. G(p, s, i, j) <=> j = Len(s)
    BY <1>5, <2>1, <2>2, Zenon
  <2> QED BY <1>6, <2>3
<1>7. CASE i < Len(p) /\ p[i + 1] = "*"
  <2>1. G(p, s, i, j) <=> \E k \in (j + 1)..(Len(s) + 1) : m[i + 1 + 1][k]
    BY <1>2, <1>4, <1>7 DEF Row
  <2>2. ASSUME NEW k \in (j + 1)..(Len(s) + 1), m[i + 1 + 1][k]
        PROVE  \E n \in j..Len(s) : G(p, s, i + 1, n)
    <3>1. k - 1 \in j..Len(s) /\ (k - 1) + 1 = k
      OBVIOUS
    <3> QED BY <1>3, <2>2, <3>1
  <2>3. ASSUME NEW n \in j..Len(s), G(p, s, i + 1, n)
        PROVE  \E k \in (j + 1)..(Len(s) + 1) : m[i + 1 + 1][k]
    <3>1. n + 1 \in (j + 1)..(Len(s) + 1)
      OBVIOUS
    <3> QED BY <1>3, <2>3, <3>1
  <2> QED BY <1>7, <2>1, <2>2, <2>3
<1>8. CASE i < Len(p) /\ p[i + 1] # "*"
  <2>1. ~(f > Len(p)) /\ p[f] # "*"
    BY <1>8
  <2>2. m[f + 1][g + 1] = G(p, s, i + 1, j + 1)
    BY <1>3
  <2>3. g <= Len(s) <=> j < Len(s)
    OBVIOUS
  <2> HIDE DEF f, g
  <2>4. G(p, s, i, j) <=> /\ j < Len(s)
                          /\ p[f] = s[g]
                          /\ G(p, s, i + 1, j + 1)
    BY <1>5, <2>1, <2>2, <2>3, Zenon
  <2> QED BY <1>8, <2>4 DEF f, g
<1> QED BY <1>6, <1>7, <1>8

\* A used up segment is matched by stars only: one row and the next.
LEMMA OnlyStarsStep ==
    ASSUME NEW p, NEW s, Len(p) \in Nat, Len(s) \in Nat, NEW k \in 0..(Len(p) - 1),
           G(p, s, k + 1, Len(s)) <=> \A n \in (k + 1 + 1)..Len(p) : p[n] = "*"
    PROVE  G(p, s, k, Len(s)) <=> \A n \in (k + 1)..Len(p) : p[n] = "*"
<1>1. k \in 0..Len(p) /\ k < Len(p) /\ Len(s) \in 0..Len(s)
  OBVIOUS
<1>2. CASE p[k + 1] = "*"
  <2>1. G(p, s, k, Len(s)) <=> \E n \in Len(s)..Len(s) : G(p, s, k + 1, n)
    BY <1>1, <1>2, Cells
  <2>2. Len(s)..Len(s) = {Len(s)}
    OBVIOUS
  <2>3. G(p, s, k, Len(s)) <=> G(p, s, k + 1, Len(s))
    BY <2>1, <2>2
  <2>4. \A n \in (k + 1)..Len(p) : n = k + 1 \/ n \in (k + 1 + 1)..Len(p)
    OBVIOUS
  <2>5. \A n \in (k + 1 + 1)..Len(p) : n \in (k + 1)..Len(p)
    OBVIOUS
  <2> QED BY <1>2, <2>3, <2>4, <2>5
<1>3. CASE p[k + 1] # "*"
  <2>1. ~G(p, s, k, Len(s))
    BY <1>1, <1>3, Cells
  <2>2. k + 1 \in (k + 1)..Len(p)
    OBVIOUS
  <2> QED BY <1>3, <2>1, <2>2
<1> QED BY <1>2, <1>3

\* A used up segment is matched by what is left of the pattern when that is
\* stars only.
LEMMA OnlyStars ==
    ASSUME NEW p, NEW s, Len(p) \in Nat, Len(s) \in Nat, NEW i \in 0..Len(p)
    PROVE  G(p, s, i, Len(s)) <=> \A n \in (i + 1)..Len(p) : p[n] = "*"
<1> DEFINE P == Len(p)
           Stars(k) == G(p, s, k, Len(s)) <=> \A n \in (k + 1)..P : p[n] = "*"
           S == {d \in 0..P : Stars(P - d)}
<1>1. 0 \in S
  BY Cells
<1>2. ASSUME NEW d \in 1..P, d - 1 \in S PROVE d \in S
  <2>1. P - d \in 0..(P - 1) /\ P - (d - 1) = P - d + 1
    OBVIOUS
  <2>2. Stars(P - d + 1)
    <3>1. Stars(P - (d - 1))
      BY <1>2
    <3> HIDE DEF Stars
    <3> QED BY <2>1, <3>1
  <2>3. Stars(P - d)
    BY <2>1, <2>2, OnlyStarsStep
  <2> QED BY <2>3
<1>3. \A d \in 0..P : d \in S
  <2> HIDE DEF S
  <2> QED BY <1>1, <1>2, UpTo
<1>4. P - i \in 0..P /\ P - (P - i) = i
  OBVIOUS
<1> QED BY <1>3, <1>4

(***************************************************************************)
(* The loop.                                                               *)
(***************************************************************************)

GlobSpec(p, s) == GlobInit(p, s) /\ [][GlobNext]_globVars

IndexInv ==
    /\ Len(pat) \in Nat /\ Len(seg) \in Nat
    /\ pi \in 0..Len(pat) /\ si \in 0..Len(seg)
    /\ star \in -1..(Len(pat) - 1) /\ starMatchEnd \in 0..Len(seg)
    /\ result \in {"running", "yes", "no"}

\* What the rest of the pattern has to do from here: before the first star,
\* all there is to do; after it, what is left when the star's run ends where
\* it does now.  Every later end of the run has its place for the loop, as
\* far behind it, so that going back to an earlier star, which the loop
\* cannot do, would find nothing more.
Place(p, s, i, j, st, end) ==
    /\ st = -1 => (G(p, s, 0, 0) <=> G(p, s, i, j))
    /\ st >= 0 =>
        /\ p[st + 1] = "*"
        /\ st < i
        /\ end <= j
        /\ j - end = i - st - 1
        /\ G(p, s, 0, 0) <=> \E k \in end..Len(s) : G(p, s, st + 1, k)
        /\ \A k \in end..Len(s) :
            G(p, s, st + 1, k) =>
                /\ k + (j - end) <= Len(s)
                /\ G(p, s, i, k + (j - end))
        /\ G(p, s, st + 1, end) <=> G(p, s, i, j)

PlaceInv ==
    result = "running" => Place(pat, seg, pi, si, star, starMatchEnd)

AnswerInv ==
    result # "running" => ((result = "yes") <=> G(pat, seg, 0, 0))

GlobInv == IndexInv /\ PlaceInv /\ AnswerInv

\* The loop starts where the table does.
LEMMA GlobInvInit ==
    ASSUME NEW p, NEW s, Len(p) \in Nat, Len(s) \in Nat, GlobInit(p, s)
    PROVE  GlobInv
BY DEF GlobInit, GlobInv, IndexInv, PlaceInv, Place, AnswerInv

\* A star that is met takes the place of the one before it.
LEMMA MeetStarKeeps ==
    ASSUME GlobInv, MeetStar
    PROVE  GlobInv'
<1> USE DEF GlobInv
<1>1. IndexInv'
  BY DEF MeetStar, More, AtStar, Keep, IndexInv
<1>2. /\ pat' = pat /\ seg' = seg /\ result' = "running" /\ result = "running"
      /\ star' = pi /\ starMatchEnd' = si /\ pi' = pi + 1 /\ si' = si
      /\ pi < Len(pat) /\ pat[pi + 1] = "*"
  BY DEF MeetStar, More, AtStar, Keep
<1>3. G(pat, seg, pi, si) <=> \E k \in si..Len(seg) : G(pat, seg, pi + 1, k)
  BY <1>2, Cells DEF IndexInv
<1>4. G(pat, seg, 0, 0) <=> \E k \in si..Len(seg) : G(pat, seg, pi + 1, k)
  <2>1. CASE star = -1
    BY <1>2, <1>3, <2>1 DEF PlaceInv, Place
  <2>2. CASE star >= 0
    <3>1. G(pat, seg, pi, si) => G(pat, seg, 0, 0)
      BY <1>2, <2>2 DEF PlaceInv, Place, IndexInv
    <3>2. ASSUME NEW k \in starMatchEnd..Len(seg), G(pat, seg, star + 1, k)
          PROVE  \E n \in si..Len(seg) : G(pat, seg, pi + 1, n)
      <4> DEFINE e == k + (si - starMatchEnd)
      <4>1. e \in si..Len(seg) /\ G(pat, seg, pi, e)
        BY <1>2, <2>2, <3>2 DEF PlaceInv, Place, IndexInv
      <4>2. PICK n \in e..Len(seg) : G(pat, seg, pi + 1, n)
        <5> HIDE DEF e
        <5>1. e \in 0..Len(seg)
          BY <4>1 DEF IndexInv
        <5> QED BY <1>2, <4>1, <5>1, Cells DEF IndexInv
      <4>3. n \in si..Len(seg)
        BY <4>1, <4>2 DEF IndexInv
      <4> QED BY <4>2, <4>3
    <3> QED BY <1>2, <1>3, <2>2, <3>1, <3>2 DEF PlaceInv, Place
  <2> QED BY <2>1, <2>2 DEF IndexInv
<1>5. Place(pat, seg, pi + 1, si, pi, si)
  BY <1>2, <1>4 DEF IndexInv, Place
<1>6. PlaceInv' /\ AnswerInv'
  BY <1>2, <1>5 DEF PlaceInv, AnswerInv
<1> QED BY <1>1, <1>6

\* A character that is the same moves every end of the star's run alike.
LEMMA MatchOneKeeps ==
    ASSUME GlobInv, MatchOne
    PROVE  GlobInv'
<1> USE DEF GlobInv
<1>1. IndexInv'
  BY DEF MatchOne, More, AtStar, Same, Keep, IndexInv
<1>2. /\ pat' = pat /\ seg' = seg /\ result' = "running" /\ result = "running"
      /\ star' = star /\ starMatchEnd' = starMatchEnd
      /\ pi' = pi + 1 /\ si' = si + 1
      /\ pi < Len(pat) /\ si < Len(seg)
      /\ pat[pi + 1] # "*" /\ pat[pi + 1] = seg[si + 1]
  BY DEF MatchOne, More, AtStar, Same, Keep
<1>3. G(pat, seg, pi, si) <=> G(pat, seg, pi + 1, si + 1)
  BY <1>2, Cells DEF IndexInv
<1>4. star = -1 => (G(pat, seg, 0, 0) <=> G(pat, seg, pi + 1, si + 1))
  BY <1>2, <1>3 DEF PlaceInv, Place
<1>5. ASSUME star >= 0,
             NEW k \in starMatchEnd..Len(seg), G(pat, seg, star + 1, k)
      PROVE  /\ k + (si + 1 - starMatchEnd) <= Len(seg)
             /\ G(pat, seg, pi + 1, k + (si + 1 - starMatchEnd))
  <2> DEFINE e == k + (si - starMatchEnd)
  <2>1. e \in 0..Len(seg) /\ G(pat, seg, pi, e)
    BY <1>2, <1>5 DEF PlaceInv, Place, IndexInv
  <2>2. e + 1 = k + (si + 1 - starMatchEnd)
    BY <1>5 DEF IndexInv
  <2> HIDE DEF e
  <2>3. e < Len(seg) /\ G(pat, seg, pi + 1, e + 1)
    BY <1>2, <2>1, Cells DEF IndexInv
  <2> QED BY <2>1, <2>2, <2>3 DEF IndexInv
<1>6. star >= 0 =>
        /\ pat[star + 1] = "*"
        /\ star < pi + 1
        /\ starMatchEnd <= si + 1
        /\ si + 1 - starMatchEnd = pi + 1 - star - 1
  BY <1>2 DEF PlaceInv, Place, IndexInv
<1>7. star >= 0 =>
        /\ G(pat, seg, 0, 0) <=>
            \E k \in starMatchEnd..Len(seg) : G(pat, seg, star + 1, k)
        /\ G(pat, seg, star + 1, starMatchEnd) <=> G(pat, seg, pi + 1, si + 1)
  BY <1>2, <1>3 DEF PlaceInv, Place
<1>8. Place(pat, seg, pi + 1, si + 1, star, starMatchEnd)
  <2>1. star >= 0 =>
          \A k \in starMatchEnd..Len(seg) : G(pat, seg, star + 1, k) =>
            /\ k + (si + 1 - starMatchEnd) <= Len(seg)
            /\ G(pat, seg, pi + 1, k + (si + 1 - starMatchEnd))
    BY <1>5
  <2> QED BY <1>4, <1>6, <1>7, <2>1 DEF IndexInv, Place
<1>9. PlaceInv' /\ AnswerInv'
  BY <1>2, <1>8 DEF PlaceInv, AnswerInv
<1> QED BY <1>1, <1>9

\* The place where the loop is cannot match.
LEMMA Mismatch ==
    ASSUME IndexInv, More, ~AtStar, ~Same
    PROVE  ~G(pat, seg, pi, si)
<1>1. CASE pi = Len(pat)
  BY <1>1, Cells DEF IndexInv, More
<1>2. CASE pi < Len(pat)
  BY <1>2, Cells DEF IndexInv, More, AtStar, Same
<1> QED BY <1>1, <1>2 DEF IndexInv

\* Going back lets the star's run end one character later.
LEMMA GoBackKeeps ==
    ASSUME GlobInv, GoBack
    PROVE  GlobInv'
<1> USE DEF GlobInv
<1>1. IndexInv'
  BY DEF GoBack, More, Keep, IndexInv, PlaceInv, Place
<1>2. /\ pat' = pat /\ seg' = seg /\ result' = "running" /\ result = "running"
      /\ star' = star /\ starMatchEnd' = starMatchEnd + 1
      /\ pi' = star + 1 /\ si' = starMatchEnd + 1
      /\ star >= 0 /\ si < Len(seg)
  BY DEF GoBack, More, Keep
<1>3. ~G(pat, seg, star + 1, starMatchEnd)
  BY <1>2, Mismatch DEF GoBack, PlaceInv, Place
<1>4. \A k \in starMatchEnd..Len(seg) :
        G(pat, seg, star + 1, k) => k \in (starMatchEnd + 1)..Len(seg)
  BY <1>3 DEF IndexInv
<1>5. \A k \in (starMatchEnd + 1)..Len(seg) :
        /\ k \in starMatchEnd..Len(seg)
        /\ k + (starMatchEnd + 1 - (starMatchEnd + 1)) = k
        /\ k <= Len(seg)
  BY DEF IndexInv
<1>6. G(pat, seg, 0, 0) <=>
        \E k \in (starMatchEnd + 1)..Len(seg) : G(pat, seg, star + 1, k)
  BY <1>2, <1>4, <1>5 DEF PlaceInv, Place
<1>7. Place(pat, seg, star + 1, starMatchEnd + 1, star, starMatchEnd + 1)
  <2>1. /\ pat[star + 1] = "*" /\ star < star + 1
        /\ starMatchEnd + 1 <= starMatchEnd + 1
        /\ starMatchEnd + 1 - (starMatchEnd + 1) = star + 1 - star - 1
        /\ star # -1
    BY <1>2 DEF PlaceInv, Place, IndexInv
  <2>2. \A k \in (starMatchEnd + 1)..Len(seg) :
          G(pat, seg, star + 1, k) =>
            /\ k + (starMatchEnd + 1 - (starMatchEnd + 1)) <= Len(seg)
            /\ G(pat, seg, star + 1, k + (starMatchEnd + 1 - (starMatchEnd + 1)))
    BY <1>5
  <2>3. star >= 0
    BY <1>2
  <2> QED BY <1>6, <2>1, <2>2, <2>3 DEF IndexInv, Place
<1>8. PlaceInv' /\ AnswerInv'
  BY <1>2, <1>7 DEF PlaceInv, AnswerInv
<1> QED BY <1>1, <1>8

\* Without a star to go back to there is no other way to match.
LEMMA GiveUpKeeps ==
    ASSUME GlobInv, GiveUp
    PROVE  GlobInv'
<1> USE DEF GlobInv
<1>1. /\ pat' = pat /\ seg' = seg /\ result' = "no" /\ result = "running"
      /\ UNCHANGED <<pi, si, star, starMatchEnd>>
      /\ star = -1
  BY DEF GiveUp, More, Keep, IndexInv
<1>2. ~G(pat, seg, 0, 0)
  BY <1>1, Mismatch DEF GiveUp, PlaceInv, Place
<1> QED BY <1>1, <1>2 DEF IndexInv, PlaceInv, Place, AnswerInv

\* At the end of the segment no later end of the star's run is left.
LEMMA FinishKeeps ==
    ASSUME GlobInv, Finish
    PROVE  GlobInv'
<1> USE DEF GlobInv
<1>1. /\ pat' = pat /\ seg' = seg /\ result = "running"
      /\ UNCHANGED <<pi, si, star, starMatchEnd>>
      /\ result' = IF \A i \in (pi + 1)..Len(pat) : pat[i] = "*"
                   THEN "yes" ELSE "no"
      /\ si = Len(seg)
  BY DEF Finish, Keep, IndexInv
<1>2. G(pat, seg, pi, si) <=> \A i \in (pi + 1)..Len(pat) : pat[i] = "*"
  BY <1>1, OnlyStars DEF IndexInv
<1>3. G(pat, seg, 0, 0) <=> G(pat, seg, pi, si)
  <2>1. CASE star = -1
    BY <1>1, <2>1 DEF PlaceInv, Place
  <2>2. CASE star >= 0
    <3>1. \A k \in starMatchEnd..Len(seg) :
            G(pat, seg, star + 1, k) => k = starMatchEnd
      BY <1>1, <2>2 DEF PlaceInv, Place, IndexInv
    <3>2. starMatchEnd \in starMatchEnd..Len(seg)
      BY DEF IndexInv
    <3> QED BY <1>1, <2>2, <3>1, <3>2 DEF PlaceInv, Place
  <2> QED BY <2>1, <2>2 DEF IndexInv
<1> QED BY <1>1, <1>2, <1>3 DEF IndexInv, PlaceInv, Place, AnswerInv

\* The loop of matchSegmentGlob answers what the pattern means, whatever the
\* alphabet, the pattern and the segment.
THEOREM GlobLoopCorrect ==
    ASSUME NEW Char, NEW p \in Seq(Char), NEW s \in Seq(Char)
    PROVE  GlobSpec(p, s) => []GlobCorrect
<1>1. GlobInit(p, s) => GlobInv
  BY GlobInvInit
<1>2. GlobInv /\ [GlobNext]_globVars => GlobInv'
  <2> SUFFICES ASSUME GlobInv, [GlobNext]_globVars PROVE GlobInv'
    OBVIOUS
  <2>1. CASE MeetStar
    BY <2>1, MeetStarKeeps
  <2>2. CASE MatchOne
    BY <2>2, MatchOneKeeps
  <2>3. CASE GoBack
    BY <2>3, GoBackKeeps
  <2>4. CASE GiveUp
    BY <2>4, GiveUpKeeps
  <2>5. CASE Finish
    BY <2>5, FinishKeeps
  <2>6. CASE UNCHANGED globVars
    BY <2>6 DEF globVars, GlobInv, IndexInv, PlaceInv, Place, AnswerInv
  <2> QED BY <2>1, <2>2, <2>3, <2>4, <2>5, <2>6 DEF GlobNext
<1>3. GlobInv => GlobCorrect
  BY GlobIsCell DEF GlobInv, IndexInv, AnswerInv, GlobCorrect
<1> QED BY <1>1, <1>2, <1>3, PTL DEF GlobSpec

(***************************************************************************)
(* The theorems.                                                           *)
(***************************************************************************)

\* Whatever commands are given, in whatever order and with whatever in between
\* the look and the edit: the files keep the shape of what the program writes,
\* and policy.json is one that the matchers may count on.
THEOREM CommandsTypeCorrect == Spec => []TypeOK
<1>1. Spec => []CommandsInv
  BY InitKeeps, NextKeeps, PTL DEF Spec
<1> QED BY <1>1, InvIsTypeOK, PTL

\* So `policy explain` says what the enforcer does, of every request, whatever
\* commands were given.
THEOREM ExplainCorrect == Spec => []ExplainIsEnforced
<1>1. TypeOK => ExplainIsEnforced
  BY ExplainOfPolicy DEF TypeOK
<1> QED BY <1>1, CommandsTypeCorrect, PTL

\* And the order of the rules never matters.
THEOREM OrderCorrect == Spec => []OrderBlind
<1>1. TypeOK => OrderBlind
  BY OrderOfPolicy DEF TypeOK
<1> QED BY <1>1, CommandsTypeCorrect, PTL

\* `run` and the compiler see the same: TwoViewsAgree.  Whatever the layers
\* are, they refuse the same files, and of those they accept they have the
\* same rules, though the one merges them before it drops doubles and the
\* other marks each with its layer first.
THEOREM ViewsCorrect == Spec => []TwoViewsAgree
<1>1. CommandsInv => TwoViewsAgree
  BY ViewsOfFiles DEF CommandsInv
<1> QED BY InitKeeps, NextKeeps, <1>1, PTL DEF Spec

\* Whatever the commands left in the files: if they load, then a session
\* watches every file its config is read from, and no other.
THEOREM WatchCorrect == Spec => []WatchCoversRead
<1>1. CommandsInv => WatchCoversRead
  BY WatchOfFiles DEF CommandsInv
<1>2. Spec => []CommandsInv
  BY InitKeeps, NextKeeps, PTL DEF Spec
<1> QED BY <1>1, <1>2, PTL

\* No command leaves a file unparsable, or loses more of a list than an entry:
\* EditsKeepFiles.  The gate of an editor compares little more than rules,
\* services and the list it edits, so this is what the splices do, with what
\* the gate refuses of them: and a list that no gate compares is lost with the
\* line it is on.
THEOREM EditsCorrect == Spec => EditsKeepFiles
<1>1. CommandsInv /\ [Next]_vars =>
        [\A p \in DOMAIN files :
            Parse(files[p]) # Nil =>
                /\ Parse(files'[p]) # Nil
                /\ \A key \in ListKeys :
                    LET before == Parse(files[p])[1][key]
                        after == Parse(files'[p])[1][key]
                    IN \/ KeepsList(before, after)
                       \/ /\ key \notin {"allow", "deny"} /\ Crowded(files[p], key)
                          /\ after = <<>>]_vars
  <2>1. CommandsInv /\ Next => FilesKept
    BY NextEdits
  <2> QED BY <2>1, Zenon DEF FilesKept, KeptText, Lost, RuleKeys
<1> QED BY InitKeeps, NextKeeps, <1>1, PTL DEF Spec, EditsKeepFiles

\* A command that binds or unbinds a credential leaves no rule that injects
\* one nobody defines, but for the gaps that the property names:
\* InjectKeptDefined.
THEOREM InjectCorrect == Spec => InjectKeptDefined
<1>1. CommandsInv /\ [Next]_vars =>
        [BecomesDangling =>
            LET c == last'[1]
            IN \/ c.op \in {"include", "import"}
               \/ ~Look(c, Load(files))
               \/ OverlayPath \in DOMAIN files /\ Load(files).err # ""
               \/ c.op = "credential remove" /\ OverlayInjects(c.name)
               \/ \E p \in DOMAIN files :
                    /\ "root" \in files[p].oneLine
                    /\ Parse(files'[p]) = Some(EmptyConfig)]_vars
  <2>1. CommandsInv /\ Next /\ BecomesDangling => Excused
    BY NextExcused
  <2> QED BY <2>1, Zenon DEF Excused, OneEmptied
<1> QED BY InitKeeps, NextKeeps, <1>1, PTL DEF Spec, InjectKeptDefined
=============================================================================

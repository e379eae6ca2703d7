----------------------------- MODULE MCAnalysis -----------------------------
(***************************************************************************)
(* What becomes of one command of a compilation database, stage by stage:  *)
(* the database entry, the response files its arguments name, the analysis *)
(* that may have to replay a precompiled header, the includes its facts    *)
(* report, the facts a caller collects from units that come and go, and    *)
(* the bytes they wait in until they are published. A behaviour is of one  *)
(* stage; what a stage is given covers what the one before it may hand on. *)
(***************************************************************************)
EXTENDS UnitAnalysis, ResponseFiles, Codec, DirectIncludes, CompileDb, TLC

VARIABLE stage

(***************************************************************************)
(* Analysis: a wrapper w found at w1 or w2, a header x it may ask for,     *)
(* found at x1 or x2, and a header o that a consumer may force ahead of    *)
(* the wrapper.                                                            *)
(***************************************************************************)
CONSTANTS t1, t2,
          cpp, w1, w2, x1, x2, o1, guard   \* paths

APath == {cpp, w1, w2, x1, x2, o1, guard}
AThread == {t1, t2}
AProbed == {x1}

AMeaning ==
    [source |-> [kind |-> "wrapperOnly", name |-> "w"],
     other  |-> [kind |-> "wrapperOnly", name |-> "o"],
     busy   |-> [kind |-> "plain", name |-> "none"],
     plain  |-> [kind |-> "plain", name |-> "none"],
     macros |-> [kind |-> "defines", name |-> "none"],
     looks  |-> [kind |-> "search", name |-> "x"],
     asks   |-> [kind |-> "probe", name |-> "x"],
     binary |-> [kind |-> "binary", name |-> "none"],
     empty  |-> [kind |-> "plain", name |-> "none"]]

File(id, text) == [id |-> id, text |-> text]

AVersions ==
    w1 :> {Absent, File(2, "plain"), File(3, "plain")}
    @@ w2 :> {Absent, File(2, "plain"), File(2, "looks"), File(2, "binary")}
    @@ x1 :> {Absent, File(4, "plain")}
    @@ x2 :> {Absent, File(4, "macros")}
    @@ cpp :> {File(1, "source"), File(1, "busy")}
    @@ guard :> {File(9, "plain")}

Tree(w) == cpp :> File(1, "source") @@ w1 :> Absent @@ w2 :> File(2, w)
             @@ x1 :> Absent @@ x2 :> File(5, "plain")
             @@ o1 :> File(6, "plain") @@ guard :> Absent

Linked(w) == [Tree(w) EXCEPT ![w1] = File(2, w)]

Both == "w" :> <<w1, w2>> @@ "x" :> <<x1, x2>> @@ "o" :> <<o1>>
Second == "w" :> <<w2>> @@ "x" :> <<x1, x2>> @@ "o" :> <<o1>>

Good ==
    [absolute |-> TRUE, honestId |-> TRUE, known |-> TRUE, identified |-> TRUE,
     dropped |-> FALSE, responses |-> "none", safe |-> TRUE, native |-> TRUE,
     compiler |-> "cl", directory |-> "d", disables |-> FALSE,
     uses |-> <<>>, creates |-> <<>>, artifacts |-> <<"pch">>,
     forced |-> <<>>, ahead |-> 0, includes |-> <<>>,
     macros |-> <<"D1">>, search |-> Both, source |-> cpp]

AConsumer == [Good EXCEPT !.uses = <<"w">>, !.forced = <<"w">>]
AProducer == [Good EXCEPT !.creates = <<"w">>, !.search = Second]

ARequest(c, p) == [consumer |-> c, producer |-> p, rooted |-> TRUE]

\* A command with one thing about it changed.
OneOff(c) ==
    {[c EXCEPT !.absolute = FALSE], [c EXCEPT !.honestId = FALSE],
     [c EXCEPT !.known = FALSE], [c EXCEPT !.identified = FALSE],
     [c EXCEPT !.dropped = TRUE], [c EXCEPT !.responses = "kept"],
     [c EXCEPT !.responses = "expanded"], [c EXCEPT !.safe = FALSE],
     [c EXCEPT !.native = FALSE], [c EXCEPT !.compiler = "other"],
     [c EXCEPT !.directory = "other"], [c EXCEPT !.disables = TRUE],
     [c EXCEPT !.uses = <<"w", "w">>], [c EXCEPT !.uses = <<"o">>],
     [c EXCEPT !.creates = <<"w", "w">>], [c EXCEPT !.creates = <<"o">>],
     [c EXCEPT !.artifacts = <<"other">>], [c EXCEPT !.artifacts = <<>>],
     [c EXCEPT !.forced = <<"o", "w">>], [c EXCEPT !.macros = <<"D2">>],
     [c EXCEPT !.includes = <<"w">>], [c EXCEPT !.forced = <<"x">>]}

AOneThread(r, n, d) ==
    [requests |-> t1 :> r @@ t2 :> NoRequest, edits |-> n, disk |-> d]

\* One analysis while files change.
Editing ==
    {AOneThread(ARequest(AConsumer, AProducer), 2, d) :
        d \in {Tree(w) : w \in {"looks", "asks"}} \cup {Linked("plain")}}

\* One analysis of every command that differs in one thing.
Differing ==
    {AOneThread(r, 0, d) :
        r \in {ARequest(c, AProducer) : c \in OneOff(AConsumer)}
                \cup {ARequest(AConsumer, p) : p \in OneOff(AProducer)}
                \cup {[ARequest(AConsumer, AProducer) EXCEPT !.rooted = FALSE],
                      ARequest(AConsumer, NoCommand),
                      ARequest(NoCommand, NoCommand),
                      ARequest(Good, NoCommand)},
        d \in {Tree("plain"), [Tree("plain") EXCEPT ![cpp] = File(1, "other")],
               [Tree("plain") EXCEPT ![o1] = File(6, "macros")]}}

\* Analyses side by side.
Together ==
    {[requests |-> t1 :> r @@ t2 :> q, edits |-> 0, disk |-> Tree("asks")] :
        r \in {ARequest(AConsumer, AProducer), ARequest(Good, NoCommand)},
        q \in {ARequest(AConsumer, AProducer)}}

\* Two of the headers a consumer begins with are the wrapper.
Twice ==
    {AOneThread(ARequest([AConsumer EXCEPT !.forced = <<"w", "o">>,
                                           !.includes = <<"w">>], AProducer),
                2, [Tree("plain") EXCEPT ![o1] = File(6, "macros")])}

AWorkloads == Editing \cup Differing \cup Together \cup Twice

\* /Yu written ahead of two forced includes, the wrapper being the second.
LateHeader ==
    {AOneThread(ARequest([AConsumer EXCEPT !.forced = <<"o", "w">>], AProducer),
                0, Tree("plain")),
     AOneThread(ARequest(AConsumer, AProducer), 0, Tree("plain"))}

(***************************************************************************)
(* Response files r1, r2 and r3, which refer to each other, are hard links *)
(* of each other, are missing, garbled, or rewritten while they are        *)
(* expanded, under limits that each case meets, and links are moved.       *)
(***************************************************************************)
CONSTANTS r1, r2, r3

Arg(w) == [ref |-> FALSE, is |-> w]
Ref(p) == [ref |-> TRUE, is |-> p]
RFile(id, text) == [id |-> id, text |-> text]

ALimits == [depth |-> 3, file |-> 3, total |-> 6, tokens |-> 9, visited |-> 20]
SomeLimits ==
    {ALimits, [ALimits EXCEPT !.depth = 1], [ALimits EXCEPT !.file = 1],
     [ALimits EXCEPT !.total = 3], [ALimits EXCEPT !.tokens = 3],
     [ALimits EXCEPT !.tokens = 0], [ALimits EXCEPT !.visited = 6],
     [ALimits EXCEPT !.visited = 5]}

HardLinked(t) ==
    \A p, q \in DOMAIN t : t[p] /= NoFile /\ t[q] /= NoFile /\ t[p].id = t[q].id => t[p] = t[q]

Trees ==
    {t \in {r1 :> RFile(1, a) @@ r2 :> RFile(2, b) @@ r3 :> c :
        a \in {<<>>, <<Arg("a"), Ref(r1)>>, <<Ref(r2)>>, <<Ref(r2), Arg("a"), Ref(r2)>>,
               <<Ref(r2), Ref(r3)>>, <<Arg("a"), Garbage>>},
        b \in {<<>>, <<Arg("b")>>, <<Ref(r1)>>, <<Ref(r3)>>},
        c \in {NoFile, RFile(2, <<Arg("b")>>), RFile(3, <<Arg("c")>>), RFile(3, <<Ref(r2)>>)}} :
     HardLinked(t)}

Commands ==
    {<<Arg("cl"), Ref(r1)>>, <<Arg("cl"), Ref(r3), Arg("w"), Ref(r1)>>, <<Arg("cl"), Arg("w")>>}

AnExpansion(c, l, t, n) ==
    [command |-> c, native |-> TRUE, absolute |-> TRUE, limits |-> l, tree |-> t, rewrites |-> n]

Quiet == {AnExpansion(c, l, t, 0) : c \in Commands, l \in SomeLimits, t \in Trees}
Unusable ==
    {[AnExpansion(<<Arg("cl"), Ref(r1)>>, ALimits, r1 :> RFile(1, <<>>), 0)
        EXCEPT !.native = n, !.absolute = ~n] : n \in BOOLEAN}
Rewritten ==
    {AnExpansion(<<Arg("cl"), Ref(r1), Ref(r3)>>, ALimits, t, 2) :
        t \in {r1 :> RFile(1, <<Ref(r2), Ref(r2)>>) @@ r2 :> RFile(2, <<Arg("b")>>) @@ r3 :> c :
                 c \in {RFile(2, <<Arg("b")>>), RFile(3, <<Ref(r2)>>)}}}
\* Names that are links of one file, or become so, and are given to others
\* between two references to them.
Relinked ==
    {AnExpansion(c, ALimits,
                 r1 :> RFile(1, <<Arg("a")>>) @@ r2 :> RFile(2, <<Arg("b")>>) @@ r3 :> f, 2) :
        c \in {<<Arg("cl"), Ref(r2), Ref(r3), Ref(r3)>>, <<Arg("cl"), Ref(r3), Ref(r2), Ref(r2)>>},
        f \in {RFile(2, <<Arg("b")>>), RFile(3, <<Arg("c")>>)}}
AExpansions == Quiet \cup Unusable \cup Rewritten \cup Relinked

ARewrites ==
    r2 :> {NoFile, RFile(2, <<Arg("d"), Arg("e")>>), RFile(2, <<>>), RFile(4, <<Ref(r3)>>)}
    @@ r3 :> {RFile(2, <<Garbage>>), RFile(3, <<Ref(r1)>>)}

(***************************************************************************)
(* Facts: two units about a function fn, a class member that one of them   *)
(* synthesizes, and an external.                                           *)
(***************************************************************************)
CONSTANTS fn, member, ext, ua, ub

ASymbol == {fn, member, ext}
AExternal == {ext}
AUnit == {ua, ub}

Known1(presence, locations) == [presence |-> presence, locations |-> locations]
Spot(u, implicit) == [unit |-> u, implicit |-> implicit, at |-> 1]

Said(u, symbols, relations, sites, captures) ==
    [symbols |-> symbols,
     relations |-> {[source |-> r[1], target |-> r[2], unit |-> u] : r \in relations},
     sites |-> {[enclosing |-> s, unit |-> u] : s \in sites},
     captures |-> {[lambda |-> c, unit |-> u] : c \in captures}, includes |-> {}]

FactsOf(u) ==
    {Said(u, fn :> Known1("indexed", {Spot(u, FALSE)}) @@ member :> Known1("implicit_hidden", {Spot(u, TRUE)})
             @@ ext :> Known1("external_placeholder", {}), {<<fn, member>>, <<fn, ext>>}, {}, {}),
     Said(u, fn :> Known1("endpoint_only", {})
             @@ member :> Known1("indexed", {Spot(u, FALSE), Spot(u, TRUE)}), {<<member, fn>>}, {}, {}),
     Said(u, fn :> Known1("indexed", {Spot(u, FALSE)}) @@ member :> Known1("endpoint_only", {}), {}, {fn}, {member}),
     Said(u, fn :> Known1("implicit_hidden", {Spot(u, TRUE)}), {}, {}, {fn}),
     Said(u, fn :> Known1("endpoint_only", {}) @@ ext :> Known1("external_placeholder", {}), {}, {fn}, {})}

AResults ==
    [u \in AUnit |->
        {[status |-> "ok", complete |-> TRUE, facts |-> x] : x \in FactsOf(u)}
        \cup {[status |-> s, complete |-> c, facts |-> CHOOSE x \in FactsOf(u) : TRUE] :
                s \in {"completed_with_errors", "rejected"}, c \in BOOLEAN}]

(***************************************************************************)
(* Bytes: contributions with every field told apart by its name and place  *)
(* n, lists of no, one and two elements, options with and without a value, *)
(* and each kind of linkage.                                               *)
(***************************************************************************)
\* A value of a layout, told apart by the name and place n of each of its fields:
\* lists of 0 to 2 elements, options with and without a value, each alternative.
RECURSIVE Sample(_, _, _)
Sample(T, name, n) ==
    CASE T.kind = "text" -> IF name = "normalized_signature" THEN <<"", 0, FALSE>>
                            ELSE <<name, n % 4, FALSE>>
      [] T.kind = "digest" -> <<name, n % 4, TRUE>>
      [] T.kind \in {"number", "code"} -> n
      [] T.kind = "flag" -> n % 2 = 0
      [] T.kind = "optional" -> [i \in 1..n % 2 |-> Sample(T.of, name, n + i)]
      [] T.kind = "list" -> [i \in 1..n % 3 |-> Sample(T.of, name, n + i)]
      [] T.kind = "choice" -> [index |-> n % 3, value |-> Sample(T.of[(n % 3) + 1], name, n)]
      [] T.kind = "record" ->
            [x \in ToSet(T.names) |->
                LET i == CHOOSE i \in DOMAIN T.names : T.names[i] = x
                IN  Sample(T.of[i], x, n + i)]

AFacts(n) ==
    LET lists == Sample(PutFacts, "facts", n)
        Roled(l, i) == [l EXCEPT !.role = i % 3, !.body_hash = IF i % 3 = 2 THEN <<>> ELSE @]
        Shown(s, i) ==
            [s EXCEPT !.presence = i % 3,
                      !.locations = IF i % 3 > 0 THEN <<>>
                                    ELSE <<Roled(Sample(PutSymbolLocation, "at", n + i), n)>>]
        symbols == [i \in 1..3 |-> Shown(Sample(PutFacts.of[1].of, "symbol", n + i), i)]
        relation == [Sample(PutFacts.of[2].of, "relation", n) EXCEPT !.confidence = n % 2,
                       !.evidence = [i \in 1..1 + (n % 2) |-> Sample(PutEvidence, "evidence", n + i)]]
    IN  Rebuilt([lists EXCEPT !.symbols = symbols, !.relations = <<relation>>])

AContributions ==
    {[Sample(PutContribution, "c", n) EXCEPT !.facts = AFacts(n)] : n \in 0..2}

(***************************************************************************)
(* Includes: a file that is entered twice and takes other branches, one    *)
(* that is guarded, one outside the repository, one with a directive the   *)
(* scanner misses and one that is malformed.                               *)
(***************************************************************************)
Line(kind, target) == [kind |-> kind, target |-> target, seen |-> TRUE]
Source(directives, inRoot, guarded) ==
    [directives |-> directives, inRoot |-> inRoot, guarded |-> guarded, scans |-> TRUE]
SomeSources ==
    "main" :> Source(<<Line("include", "twice"), Line("if", ""), Line("include", "system"), Line("else", ""),
                  Line("include", "twice"), Line("endif", ""), Line("include", "uncovered"),
                  Line("include", "odd")>>, TRUE, TRUE)
    @@ "twice" :> Source(<<Line("ifdef", ""), Line("if", ""), Line("include", "guarded"), Line("endif", ""),
                      Line("elif", ""), Line("include", "missing"), Line("else", ""), Line("import", "guarded"),
                      Line("endif", "")>>, TRUE, FALSE)
    @@ "guarded" :> Source(<<Line("ifndef", ""), Line("include", "system"), Line("endif", "")>>, TRUE, TRUE)
    @@ "system" :> Source(<<Line("include", "guarded")>>, FALSE, FALSE)
    @@ "uncovered" :> Source(<<[Line("if", "") EXCEPT !.seen = FALSE], Line("include", "guarded"),
                          Line("endif", "")>>, TRUE, TRUE)
    @@ "odd" :> Source(<<Line("endif", ""), Line("ifdef", ""), Line("include", "missing")>>, TRUE, TRUE)

(***************************************************************************)
(* Databases: command lines of every argument of up to three characters,   *)
(* quoted as generators quote them; entries with one defect; entries for   *)
(* one file spelled in two ways, which may be linked to a third.           *)
(***************************************************************************)
SomePathKey == "a.cpp" :> "a" @@ "A.cpp" :> "a" @@ "b.cpp" :> "b"
SomeCanonical == "a.cpp" :> "A.cpp" @@ "A.cpp" :> "A.cpp" @@ "b.cpp" :> "b.cpp"

Words(n) == UNION {[1..k -> {Back, Apostrophe, Quote, Blank, "x"}] : k \in 0..n}

\* How a generator writes an argument on a line.
WindowsQuoted(word) ==
    LET Ends(i) == \A j \in i..Len(word) : word[j] = Back
        Escaped(i) == \E j \in i..Len(word) : word[j] = Quote /\ \A k \in i..j - 1 : word[k] = Back
        Written(i) == CASE word[i] = Quote -> <<Back, Quote>>
                        [] word[i] = Back -> IF Ends(i) \/ Escaped(i) THEN <<Back, Back>> ELSE <<Back>>
                        [] OTHER -> <<word[i]>>
    IN  <<Quote>> \o FlattenSeq([i \in DOMAIN word |-> Written(i)]) \o <<Quote>>

GnuQuoted1(word) ==
    IF Apostrophe \notin Range(word) THEN <<Apostrophe>> \o word \o <<Apostrophe>>
    ELSE <<Quote>> \o FlattenSeq([i \in DOMAIN word |->
            IF word[i] \in {Quote, Back} THEN <<Back, word[i]>> ELSE <<word[i]>>]) \o <<Quote>>

Bare(word, syntax) ==
    /\ word /= <<>> /\ Quote \notin Range(word) /\ Blank \notin Range(word)
    /\ syntax = "gnu" => Back \notin Range(word) /\ Apostrophe \notin Range(word)

Written(word, syntax) ==
    CASE Bare(word, syntax) -> word
      [] ~Bare(word, syntax) /\ syntax = "windows" -> WindowsQuoted(word)
      [] OTHER -> GnuQuoted1(word)

Compiler == <<"x">>

Entry(file, words, syntax) ==
    [object |-> TRUE, directory |-> "d", based |-> TRUE, file |-> file, output |-> "absent",
     arguments |-> "absent", listed |-> <<>>, command |-> "given", syntax |-> syntax,
     line |-> FlattenSeq([i \in 1..Len(words) |-> Written(words[i], syntax) \o <<Blank>>]),
     sound |-> TRUE, means |-> words]

Bad(e) == [e EXCEPT !.sound = FALSE]
Plain == Entry("a.cpp", <<Compiler, <<"x", "x">>>>, "windows")

Defects ==
    {Bad([Plain EXCEPT !.object = FALSE]), Bad([Plain EXCEPT !.file = "empty"]),
     Bad([Plain EXCEPT !.directory = "absent"]), Bad([Plain EXCEPT !.command = "malformed"]),
     Bad([Plain EXCEPT !.arguments = "malformed"]),
     Bad([Plain EXCEPT !.directory = "relative", !.based = FALSE]),
     [Plain EXCEPT !.directory = "relative"],
     Bad([Plain EXCEPT !.output = "empty"]), Bad([Plain EXCEPT !.line = <<>>]),
     Bad([Plain EXCEPT !.line = <<Quote, Quote>>]),
     Bad([Plain EXCEPT !.line = @ \o <<Quote, "x">>]),
     Bad([Plain EXCEPT !.line = @ \o <<Apostrophe, "x">>, !.syntax = "gnu"]),
     [Plain EXCEPT !.arguments = "given", !.listed = <<Compiler>>, !.means = <<Compiler>>]}

Lines == {<<Entry("a.cpp", <<Compiler, w>>, s)>> : w \in Words(3), s \in {"windows", "gnu"}}

Small(file, words, output) == [Entry(file, <<Compiler>> \o words, "windows") EXCEPT !.output = output]
Mixed ==
    {<<Small("a.cpp", <<>>, "o"), d, Small("A.cpp", <<>>, "o")>> : d \in Defects}
    \cup {<<Small(f, <<>>, "o"), Small(g, w, o)>> :
            f \in {"a.cpp"}, g \in {"a.cpp", "A.cpp", "b.cpp"}, w \in {<<>>, <<Compiler>>}, o \in {"o", "p"}}

SomeDocuments == Lines \cup Mixed

-----------------------------------------------------------------------------

UnitIdle ==
    /\ disk = Tree("plain") /\ edits = 0 /\ driver = NoThread
    /\ unit = [t \in Thread |-> NewUnit(NoRequest)]

ResponseIdle ==
    LET w == AnExpansion(<<Arg("cl"), Arg("w")>>, ALimits, r1 :> NoFile, 0)
    IN  tree = w.tree /\ rewrites = 0 /\ expansion = NewExpansion(w)

IncludesIdle ==
    /\ visits = <<NewVisit("system", <<>>)>> /\ inclusion = <<1>>
    /\ processed = {} /\ skipped = {} /\ includeFacts = {} /\ includeLimits = {}
    /\ preprocessed = "running"

\* One stage begins; the others have nothing to do.
StageInit ==
    /\ stage \in {"database", "responses", "analysis", "includes", "facts", "bytes"}
    /\ IF stage = "analysis" THEN UnitInit ELSE UnitIdle
    /\ IF stage = "responses" THEN ResponseInit ELSE ResponseIdle
    /\ IF stage = "includes" THEN IncludesInit ELSE IncludesIdle
    /\ DbInit /\ FactInit /\ CodecInit

StageNext ==
    /\ UNCHANGED stage
    /\ (stage = "database" /\ DbNext) \/ (stage /= "database" /\ UNCHANGED dbVars)
    /\ (stage = "responses" /\ ResponseNext) \/ (stage /= "responses" /\ UNCHANGED responseVars)
    /\ (stage = "analysis" /\ UnitNext) \/ (stage /= "analysis" /\ UNCHANGED unitVars)
    /\ (stage = "includes" /\ IncludesNext) \/ (stage /= "includes" /\ UNCHANGED includeVars)
    /\ (stage = "facts" /\ FactNext) \/ (stage /= "facts" /\ UNCHANGED factVars)
    /\ (stage = "bytes" /\ CodecNext) \/ (stage /= "bytes" /\ UNCHANGED codecVars)

StageSpec ==
    /\ StageInit
    /\ [][StageNext]_<<stage, dbVars, responseVars, unitVars, includeVars, factVars, codecVars>>
    /\ \A t \in Thread : WF_unitVars(AnalysisStep(t))
=============================================================================

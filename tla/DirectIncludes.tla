--------------------------- MODULE DirectIncludes ---------------------------
(***************************************************************************)
(* The direct-include facts of a translation unit: what the preprocessor's *)
(* callbacks recorded while it ran (PPObserver), correlated afterwards     *)
(* with the directives the dependency scanner finds in each file that was  *)
(* entered (finalize_includes).                                            *)
(*                                                                         *)
(* A file is a sequence of directives [kind, target, seen]. A directive's  *)
(* place in it is its offset. Conditions are not evaluated by the program: *)
(* a visit of a file carries the outcome each of its branches has for the  *)
(* preprocessor, which may differ the next time the file is entered.       *)
(***************************************************************************)
EXTENDS Naturals, SequencesExt

CONSTANTS Sources,      \* file -> [directives, inRoot, guarded, scans]
          MainSource,
          MaxVisits     \* bound: files entered by one unit

VARIABLES visits,         \* FileIDs in the order they were made
          inclusion,      \* those being read, the innermost first
          processed,      \* unit_.processed_includes
          skipped,        \* unit_.skipped_ranges
          includeFacts,   \* the direct includes of the fact set
          includeLimits,  \* limitations, as <<what, file>>
          preprocessed    \* "running", then how the run ended, then "collected"

includeVars == <<visits, inclusion, processed, skipped, includeFacts, includeLimits,
                 preprocessed>>

Opens == {"if", "ifdef", "ifndef"}
Continues == {"elif", "elifdef", "elifndef", "else"}
Includes == {"include", "include_next", "import"}

DirectivesOf(file) == Sources[file].directives
Branches(file) == {i \in DOMAIN DirectivesOf(file) :
                      DirectivesOf(file)[i].kind \in Opens \cup Continues}

\* What the preprocessor finds each condition to be; an #else always holds.
Outcomes(file) ==
    {o \in [Branches(file) -> BOOLEAN] :
        \A i \in Branches(file) : DirectivesOf(file)[i].kind = "else" => o[i]}

NewVisit(file, outcome) ==
    [file |-> file, outcome |-> outcome, next |-> 1, groups |-> <<>>, began |-> 0]

IncludesInit ==
    /\ \E o \in Outcomes(MainSource) : visits = <<NewVisit(MainSource, o)>>
    /\ inclusion = <<1>>
    /\ processed = {} /\ skipped = {} /\ includeFacts = {} /\ includeLimits = {}
    /\ preprocessed = "running"

-----------------------------------------------------------------------------
(* The preprocessor, and what its callbacks record. *)

V == visits[Head(inclusion)]
Here == V.next
Directive == DirectivesOf(V.file)[Here]
Skipping == V.began > 0

At(kinds) ==
    /\ preprocessed = "running"
    /\ inclusion /= <<>>
    /\ Here \in DOMAIN DirectivesOf(V.file)
    /\ Directive.kind \in kinds

Advance(groups, began) ==
    [visits EXCEPT ![Head(inclusion)].next = Here + 1,
                   ![Head(inclusion)].groups = groups,
                   ![Head(inclusion)].began = began]

\* SourceRangeSkipped(): from the directive that began it to the one that ends it.
RangeSkipped ==
    skipped' = skipped \cup {[visit |-> Head(inclusion), begin |-> V.began, end |-> Here]}

Nested == V.groups /= <<>> /\ Head(V.groups).nested

OpenGroup ==
    /\ At(Opens)
    /\ visits' = IF Skipping
                 THEN Advance(<<[nested |-> TRUE, taken |-> TRUE]>> \o V.groups, V.began)
                 ELSE Advance(<<[nested |-> FALSE, taken |-> V.outcome[Here]]>> \o V.groups,
                              IF V.outcome[Here] THEN 0 ELSE Here)
    /\ UNCHANGED <<inclusion, processed, skipped, includeFacts, includeLimits, preprocessed>>

NextBranch ==
    /\ At(Continues)
    /\ LET reached == Skipping /\ ~Head(V.groups).taken /\ V.outcome[Here]
       IN  IF V.groups = <<>> \/ Nested
           THEN visits' = Advance(V.groups, V.began) /\ UNCHANGED skipped
           ELSE IF ~Skipping
           THEN visits' = Advance(V.groups, Here) /\ UNCHANGED skipped
           ELSE IF reached
           THEN /\ visits' = Advance(<<[Head(V.groups) EXCEPT !.taken = TRUE]>> \o Tail(V.groups), 0)
                /\ RangeSkipped
           ELSE visits' = Advance(V.groups, V.began) /\ UNCHANGED skipped
    /\ UNCHANGED <<inclusion, processed, includeFacts, includeLimits, preprocessed>>

CloseGroup ==
    /\ At({"endif"})
    /\ IF V.groups = <<>>
       THEN visits' = Advance(<<>>, V.began) /\ UNCHANGED skipped
       ELSE IF Skipping /\ ~Nested
       THEN visits' = Advance(Tail(V.groups), 0) /\ RangeSkipped
       ELSE visits' = Advance(Tail(V.groups), V.began) /\ UNCHANGED skipped
    /\ UNCHANGED <<inclusion, processed, includeFacts, includeLimits, preprocessed>>

\* InclusionDirective(), then FileChanged() when the file is entered. A guarded
\* file is not entered again; a type-library #import has no callback.
Include ==
    /\ At(Includes)
    /\ LET target == Directive.target
           enters == /\ target \in DOMAIN Sources
                     /\ ~(Sources[target].guarded /\ \E n \in DOMAIN visits : visits[n].file = target)
       IN  IF Skipping \/ Directive.kind = "import"
           THEN /\ visits' = Advance(V.groups, V.began)
                /\ UNCHANGED <<inclusion, processed>>
           ELSE /\ enters => Len(visits) < MaxVisits
                /\ processed' = processed \cup
                        {[visit |-> Head(inclusion), at |-> Here, found |-> target /= "missing",
                          target |-> target]}
                /\ IF enters
                   THEN \E o \in Outcomes(target) :
                            /\ visits' = Append(Advance(V.groups, V.began), NewVisit(target, o))
                            /\ inclusion' = <<Len(visits) + 1>> \o inclusion
                   ELSE visits' = Advance(V.groups, V.began) /\ UNCHANGED inclusion
    /\ UNCHANGED <<skipped, includeFacts, includeLimits, preprocessed>>

\* The end of a file ends what it skips.
LeaveFile ==
    /\ preprocessed = "running" /\ inclusion /= <<>>
    /\ Here \notin DOMAIN DirectivesOf(V.file)
    /\ IF Skipping THEN RangeSkipped ELSE UNCHANGED skipped
    /\ inclusion' = Tail(inclusion)
    /\ preprocessed' = IF Len(inclusion) = 1 THEN "ended" ELSE "running"
    /\ UNCHANGED <<visits, processed, includeFacts, includeLimits>>

\* A fatal error may end preprocessing anywhere; the facts are built all the same.
Abort ==
    /\ preprocessed = "running" /\ preprocessed' = "aborted"
    /\ UNCHANGED <<visits, inclusion, processed, skipped, includeFacts, includeLimits>>

-----------------------------------------------------------------------------
(* finalize_includes() *)

\* The scanner misses a digraph and a spliced keyword without failing: the raw
\* lexer finds the `#` it did not report.
Covered(file) == \A i \in DOMAIN DirectivesOf(file) : DirectivesOf(file)[i].seen

Branch(group) ==
    [preceding |-> Front(group), own |-> Last(group)]

\* Mutant: skipped in one visit of the file is skipped in all of them.
InsideSkippedRange_OfFile(visit, at) ==
    \E r \in skipped : /\ visits[r.visit].file = visits[visit].file
                       /\ r.begin <= at /\ at <= r.end

InsideSkippedRange(visit, at) ==
    \E r \in skipped : r.visit = visit /\ r.begin <= at /\ at <= r.end

Resolution(p) ==
    IF ~p.found THEN "not_found"
    ELSE IF p.target \in DOMAIN Sources /\ Sources[p.target].inRoot
         THEN "resolved_internal" ELSE "resolved_external"

\* The facts of one directive: one for each time it was processed in this visit,
\* or one that says whether it is known to have been skipped.
EmitInclude(visit, at, stack) ==
    LET file == visits[visit].file
        fact == [includer |-> file, at |-> at, kind |-> DirectivesOf(file)[at].kind,
                 path |-> [i \in DOMAIN stack |-> Branch(stack[i])]]
        Fact(activity, resolution, target) ==
            [fact |-> fact, activity |-> activity, resolution |-> resolution, target |-> target]
        here == {p \in processed : p.visit = visit /\ p.at = at}
    IN  IF here /= {}
        THEN {Fact("active", Resolution(p), IF p.found THEN p.target ELSE "") : p \in here}
        ELSE {Fact(IF InsideSkippedRange(visit, at) THEN "inactive" ELSE "indeterminate",
                   "not_evaluated", "")}

\* One directive of the scan, with the condition groups that are open.
Scan(visit, scan, at) ==
    LET file == visits[visit].file
        kind == DirectivesOf(file)[at].kind
        Limit(what) == [scan EXCEPT !.limits = @ \cup {<<what, file>>}]
        stack == scan.stack
        emitted == EmitInclude(visit, at, stack)
    IN  CASE kind \in Opens -> [scan EXCEPT !.stack = Append(@, <<at>>)]
          [] kind \in Continues ->
                IF stack = <<>> THEN Limit("conditional branch without an opening directive")
                ELSE [scan EXCEPT !.stack = Append(Front(@), Append(Last(@), at))]
          [] kind = "endif" ->
                IF stack = <<>> THEN Limit("unbalanced #endif")
                ELSE [scan EXCEPT !.stack = Front(@)]
          [] kind \in Includes ->
                [scan EXCEPT !.facts = @ \cup emitted,
                             !.limits = @ \cup {<<"neither processed nor skipped", file>> :
                                 f \in {x \in emitted : x.activity = "indeterminate"}}]

ScanFile(visit) ==
    LET file == visits[visit].file
        n == Len(DirectivesOf(file))
        scanned[at \in 0..n] ==
            IF at = 0 THEN [stack |-> <<>>, facts |-> {}, limits |-> {}]
            ELSE Scan(visit, scanned[at - 1], at)
        done == scanned[n]
        Nothing(what) == [facts |-> {}, limits |-> {<<what, file>>}]
    IN  IF ~Sources[file].inRoot THEN [facts |-> {}, limits |-> {}]
        ELSE IF ~Sources[file].scans THEN Nothing("scan failed")
        ELSE IF ~Covered(file) THEN Nothing("not covered")
        ELSE [facts |-> done.facts,
              limits |-> done.limits \cup
                 IF done.stack = <<>> THEN {} ELSE {<<"unterminated conditional group", file>>}]

FinalizeIncludes ==
    /\ preprocessed \in {"ended", "aborted"}
    /\ includeFacts' = UNION {ScanFile(v).facts : v \in DOMAIN visits}
    /\ includeLimits' = UNION {ScanFile(v).limits : v \in DOMAIN visits}
    /\ preprocessed' = "collected"
    /\ UNCHANGED <<visits, inclusion, processed, skipped>>

IncludesNext ==
    \/ OpenGroup \/ NextBranch \/ CloseGroup \/ Include \/ LeaveFile \/ Abort
    \/ FinalizeIncludes

IncludesSpec == IncludesInit /\ [][IncludesNext]_includeVars

-----------------------------------------------------------------------------
(* What a direct include means, without a stack and without a callback. *)

\* How many groups are open before directive i of a file.
Level(file, i) ==
    Cardinality({j \in 1..i - 1 : DirectivesOf(file)[j].kind \in Opens})
      - Cardinality({j \in 1..i - 1 : DirectivesOf(file)[j].kind = "endif"})

\* The level of the group a branch belongs to.
GroupLevel(file, b) ==
    Level(file, b) + IF DirectivesOf(file)[b].kind \in Opens THEN 1 ELSE 0

SameGroup(file, a, b) ==
    /\ a <= b /\ GroupLevel(file, a) = GroupLevel(file, b)
    /\ \A i \in a + 1..b : Level(file, i) >= GroupLevel(file, a)

\* The branches directive i stands in.
Around ==
    [file \in DOMAIN Sources |-> [i \in DOMAIN DirectivesOf(file) |->
        {b \in Branches(file) :
            /\ b < i /\ \A j \in b + 1..i : Level(file, j) >= GroupLevel(file, b)
            /\ \A c \in Branches(file) : b < c /\ c < i => ~SameGroup(file, b, c)}]]

\* The branches of its group that are tried before branch b.
Earlier ==
    [file \in DOMAIN Sources |-> [b \in Branches(file) |->
        {a \in Branches(file) : a < b /\ SameGroup(file, a, b)}]]

Taken(file, outcome, b) == outcome[b] /\ \A a \in Earlier[file][b] : ~outcome[a]

WellFormed ==
    {file \in DOMAIN Sources :
        /\ \A i \in DOMAIN DirectivesOf(file) :
              DirectivesOf(file)[i].kind \in Continues \cup {"endif"} => Level(file, i) > 0
        /\ Level(file, Len(DirectivesOf(file)) + 1) = 0}

\* Each include of a visited file has a fact for each visit that is true of that
\* visit: active, with what it resolved to, exactly when the branches around it
\* were all taken, inactive when one was not; when the run ended before it got
\* there, nothing is claimed unless the directive had been skipped by then. The
\* path names those branches, each with the ones tried before it. A file the
\* scan may misread has no fact, and a limitation.
IncludesAreTrueOfTheirVisit ==
    preprocessed = "collected" =>
        LET Complete(v) == visits[v].next > Len(DirectivesOf(visits[v].file))
            Meant(v, i) ==
                LET file == visits[v].file
                    d == DirectivesOf(file)[i]
                    reached == \A b \in Around[file][i] : Taken(file, visits[v].outcome, b)
                    answered == d.kind /= "import" /\ i < visits[v].next
                IN  CASE reached /\ answered -> "active"
                      [] reached /\ ~answered -> "indeterminate"
                      [] ~reached -> IF Complete(v) THEN "inactive" ELSE "not active"
            Says(fact, v, i) ==
                /\ fact.fact.includer = visits[v].file /\ fact.fact.at = i
                /\ fact.activity \in IF Meant(v, i) = "not active" THEN {"inactive", "indeterminate"}
                                     ELSE {Meant(v, i)}
                /\ (fact.activity = "active") <=> (fact.resolution /= "not_evaluated")
            Visited == {v \in DOMAIN visits : Sources[visits[v].file].inRoot}
            Sound(file) == Sources[file].scans /\ Covered(file)
        IN  /\ \A v \in Visited : LET file == visits[v].file IN
                 IF Sound(file)
                 THEN /\ \A i \in DOMAIN DirectivesOf(file) :
                           DirectivesOf(file)[i].kind \in Includes /\ file \in WellFormed =>
                               \E fact \in includeFacts : Says(fact, v, i)
                      /\ file \notin WellFormed => \E l \in includeLimits : l[2] = file
                 ELSE \E l \in includeLimits : l[2] = file
            /\ \A fact \in includeFacts : LET file == fact.fact.includer IN
                 /\ Sound(file)
                 /\ file \in WellFormed =>
                      /\ \E v \in Visited : Says(fact, v, fact.fact.at)
                      /\ {fact.fact.path[n].own : n \in DOMAIN fact.fact.path} = Around[file][fact.fact.at]
                      /\ \A n \in DOMAIN fact.fact.path :
                           LET branch == fact.fact.path[n]
                           IN  ToSet(branch.preceding) = Earlier[file][branch.own]
=============================================================================

---------------------------- MODULE QueryEngine ----------------------------
(***************************************************************************)
(* The query tools over a live store (query.cpp, file_api.cpp, trace.cpp). *)
(* A client asks find_code, trace_calls or file_api, a page at a time; a   *)
(* page that leaves something out carries a cursor, which is only counters *)
(* and what they are valid for: every call computes its result again, on   *)
(* its own snapshot and with the files that are on disk by then.  Between  *)
(* the calls, and inside one after its snapshot, units are published,      *)
(* files excluded, deleted and restored.                                   *)
(*                                                                         *)
(* An engine serves one store and one profile, so a cursor's database and  *)
(* profile are left out of its binding.  A name is a string with the       *)
(* components the component tier sees.  A query is its path of names,      *)
(* `anchored` when it began with "::".                                     *)
(***************************************************************************)
EXTENDS TraceCalls

CONSTANTS
    Database,          \* id -> a database record, as committed
    FirstDatabases,    \* the ids a store may start with
    Publications(_),   \* id -> the ids one publication may lead to
    Components,        \* name -> sequence of lower-case components
    PathComponents,    \* file -> the components of its path
    Requests,          \* id -> what clients ask of such a store
    Limits,            \* id -> page sizes, 0 among them
    Exclusions,        \* what may be excluded
    NodeBudgets,       \* visited-node budgets
    MaxGeneration,     \* bound: publications
    MaxEvents,         \* bound, by id: exclusions, deletions and restorations
    MaxCalls           \* bound, by id: calls

(* Stores as the schema keeps them, and requests that the argument checks  *)
(* let through: page sizes are any number, but no node budget is zero      *)
(* (trace_args_problem) and no query is empty (find_code, parse_qualified); *)
(* what may be excluded are paths.                                         *)
ASSUME StoresAssumption ==
    /\ FirstDatabases \subseteq DOMAIN Database
    /\ \A d \in DOMAIN Database :
          /\ WellKept(Database[d])
          /\ Publications(d) \subseteq DOMAIN Database
          /\ Limits[d] \subseteq Nat
          /\ \A req \in Requests[d] :
                /\ req.tool \in {"find_code", "trace_calls", "file_api"}
                /\ req.tool = "trace_calls" => req.depth \in Nat
                /\ req.tool = "find_code" => req.query.path \in Seq(STRING) \ {<< >>}
    /\ NodeBudgets \subseteq Nat \ {0}
    /\ \A files \in Exclusions : NoFile \notin files
    /\ MaxGeneration \in Nat \ {0}

VARIABLES
    db, excluded, generation,   \* the committed store
    disk,                       \* files that exist
    names,                      \* Impl::names, and the generation it is of
    call,                       \* the call in progress, with its snapshot
    reply,                      \* the answer the last step gave
    held,                       \* a cursor the client holds, and what it saw
    events, calls               \* what the bounds count

queryVars == <<db, excluded, generation, disk, names, call, reply, held,
               events, calls>>

NoCall == [req |-> "none"]
NoReply == [code |-> "none"]
NoCursor == [pos |-> "none"]
NothingHeld == [cursor |-> NoCursor, seen |-> << >>]

(* The rows a call sees, and what is withheld from it.                     *)
Seen(rows, withheld) == [rows EXCEPT !.withheld = withheld]
Snapshot(c) == Seen(Database[c.db], Withheld(Database[c.db], c.excluded, disk))

QueryInit ==
    /\ db \in FirstDatabases
    /\ excluded = {}
    /\ generation = 1
    /\ disk = Database[db].files
    /\ names = [of |-> 0, list |-> {}]
    /\ call = NoCall
    /\ reply = NoReply
    /\ held = NothingHeld
    /\ events = 0
    /\ calls = 0

-----------------------------------------------------------------------------
(* Names.                                                                  *)

Qualified(d, s) == Append(d.owners[s], d.name[s])
IsQualified(q) == q.anchored \/ Len(q.path) > 1

(* qualified_matches: the whole name, or a suffix of it at a "::".         *)
QualifiedMatches(q, qn) == qn = q.path \/ (~q.anchored /\ IsSuffix(q.path, qn))

ComponentsOf(path) == FlattenSeq([i \in DOMAIN path |-> Components[path[i]]])
ContainsRun(hay, run) ==
    /\ run # << >>
    /\ \E i \in 1..(Len(hay) + 1 - Len(run)) : SubSeq(hay, i, i + Len(run) - 1) = run

InTieOrder(d, S) == Ordered(S, {p \in S \X S : d.rank[p[1]] < d.rank[p[2]]})
Searchable(view, s) == view[s] \notin {"none", "implicit_hidden"}

(* name_matches.                                                           *)
NameMatches(d, view, q) ==
    InTieOrder(d, {s \in d.symbols :
        /\ d.name[s] = Last(q.path)
        /\ Searchable(view, s)
        /\ IsQualified(q) => QualifiedMatches(q, Qualified(d, s))})

(* The third tier looks through the list of names the engine keeps.        *)
ComponentMatches(d, view, list, q) ==
    {s \in d.symbols :
        /\ d.name[s] \in list
        /\ ContainsRun(Components[d.name[s]], Components[Last(q.path)])
        /\ Searchable(view, s)
        /\ IsQualified(q) => ContainsRun(ComponentsOf(Qualified(d, s)),
                                         ComponentsOf(q.path))}

-----------------------------------------------------------------------------
(* Results, as sequences of records.                                       *)

RoleRank(l) == CASE l.role = "definition" -> 0 [] l.role = "declaration" -> 1 [] OTHER -> 2
LocationBefore(a, b) ==
    \/ RoleRank(a) < RoleRank(b)
    \/ RoleRank(a) = RoleRank(b) /\ a.file < b.file
    \/ RoleRank(a) = RoleRank(b) /\ a.file = b.file /\ a.at < b.at
    \/ RoleRank(a) = RoleRank(b) /\ a.file = b.file /\ a.at = b.at /\ a.unit <= b.unit
PrimaryLocation(d, S) ==
    {l \in S : \A m \in S : LocationBefore(l, m)}

VisibleLocations(d, s) == {l \in d.locations[s] : ~Hidden(d, l.file)}

(* symbol_json.                                                            *)
SymbolHit(d, view, s) ==
    [symbol |-> s, presence |-> view[s],
     primary |-> IF view[s] = "external_placeholder" THEN {}
                 ELSE PrimaryLocation(d, VisibleLocations(d, s))]

(* find_code: a symbol once, at its best tier; whole tiers up to `stop`.   *)
FindResult(d, view, list, q, stop) ==
    LET exact == NameMatches(d, view, q)
        parts == InTieOrder(d, ComponentMatches(d, view, list, q) \ ToSet(exact))
        hits == exact \o (IF stop >= 3 THEN parts ELSE << >>)
        paths == IF stop < 4 THEN {}
                 ELSE {f \in d.files : /\ ~Hidden(d, f)
                                       /\ ContainsRun(PathComponents[f], ComponentsOf(q.path))}
    IN  IF IsQualified(q) /\ stop < 2 THEN << >>
        ELSE [i \in DOMAIN hits |-> SymbolHit(d, view, hits[i])]
             \o LET files == Ordered(paths, {p \in paths \X paths : p[1] < p[2]})
                IN  [i \in DOMAIN files |-> [path |-> files[i]]]

(* file_api: the public symbols declared in the file, by first location.   *)
DeclaredIn(d, s, f) == {l \in d.locations[s] : l.role # "implicit" /\ l.file = f}
FileEntry(d, view, s, f) ==
    [symbol |-> SymbolHit(d, view, s),
     here |-> DeclaredIn(d, s, f),
     elsewhere |-> {l \in VisibleLocations(d, s) : l.role # "implicit" /\ l.file # f}]
FileResult(d, view, f) ==
    LET listed == {s \in d.symbols : DeclaredIn(d, s, f) # {} /\ IsPublic(view, s)}
        first(s) == Min({l.at : l \in DeclaredIn(d, s, f)})
        before(a, b) == \/ first(a) < first(b)
                        \/ first(a) = first(b) /\ d.rank[a] < d.rank[b]
        order == Ordered(listed, {p \in listed \X listed : before(p[1], p[2])})
    IN  [i \in DOMAIN order |-> FileEntry(d, view, order[i], f)]

\* Mutant: the target of an include is not looked at.
FileIncludes_AnyTarget(d, f) ==
    {i \in d.includes : i.includer = f /\ \A g \in {i.includer, i.at} : ~Hidden(d, g)}

FileIncludes(d, f) ==
    {i \in d.includes : /\ i.includer = f
                        /\ \A g \in {i.includer, i.at, i.target} : ~Hidden(d, g)}

-----------------------------------------------------------------------------
(* The cursor.                                                             *)

\* Mutant: the binding forgets the withheld files.
Binding_NoWithheld(c, tool, args) ==
    [tool |-> tool, generation |-> c.generation, args |-> args, withheld |-> {}]

Binding(c, tool, args) ==
    [tool |-> tool, generation |-> c.generation, args |-> args,
     withheld |-> Snapshot(c).withheld]
Cursor(c, tool, args, pos) == [binding |-> Binding(c, tool, args), pos |-> pos]

(* accept: what refuses the cursor of a call, or "ok".                     *)
Accept(c, tool, args) ==
    IF c.cursor = NoCursor THEN "ok"
    ELSE IF c.cursor.binding.tool # tool THEN "invalid_cursor"
    ELSE IF c.cursor.binding # Binding(c, tool, args) THEN "cursor_expired"
    ELSE "ok"

Start == [returned |-> 0, discovered |-> 0, tiers |-> 0]
Position(c) == IF c.cursor = NoCursor THEN Start ELSE c.cursor.pos

(* Call::error: no records, and whatever the client held stays good.       *)
Refuse(c, code) ==
    reply' = [code |-> code, req |-> c.req, seen |-> c.seen] /\ UNCHANGED held

(* The page is cut from the result behind what earlier pages returned.     *)
Page(c, result) ==
    LET from == Position(c).returned
    IN  SubSeq(result, from + 1, Min({Len(result), from + c.limit}))

(* Call::finish.  `result` is what this call computed, whole or up to the  *)
(* budget `why` names; `noted` are the units that vouch for the answer.    *)
Finish(c, tool, code, args, result, why, pos, extra, noted) ==
    LET complete == why = "no"
        page == Page(c, result)
        returned == Position(c).returned + Len(page)
        more == ~complete \/ Max({pos.discovered, returned}) > returned
        d == Snapshot(c)
        next == IF more THEN Cursor(c, tool, args, [pos EXCEPT !.returned = returned])
                ELSE NoCursor
        seen == c.seen \o page
        now == [cursor |-> next, seen |-> seen]
    IN  /\ reply' = [code |-> code, req |-> c.req, seen |-> seen, page |-> page,
                     before |-> Position(c), pos |-> pos, why |-> why,
                     more |-> more, extra |-> extra, snap |-> c,
                     status |-> IF ~complete \/ d.failed THEN "partial"
                                ELSE IF noted \cap d.stale # {} THEN "stale"
                                ELSE "success"]
        /\ held' \in IF more THEN {held, now} ELSE {held}

UnitsOf(S) == {l.unit : l \in S}
NotedHits(page) ==
    UNION {IF "symbol" \in DOMAIN page[i] THEN UnitsOf(page[i].primary) ELSE {} :
           i \in DOMAIN page}

-----------------------------------------------------------------------------
(* The tools.                                                              *)

(* find_code.  The time budget is looked at between tiers, and not before  *)
(* the tier after those an earlier page completed.                         *)
FindCode(c, d, view) ==
    \E stop \in {n \in 1..4 : n = 4 \/ n >= Position(c).tiers + 1} :
        LET q == c.req.query
            known == IF names.of = c.generation THEN names
                     ELSE [of |-> c.generation, list |-> {d.name[s] : s \in d.symbols}]
            result == FindResult(d, view, known.list, q, stop)
            verdict == Accept(c, "find_code", q)
        IN  IF c.limit = 0 \/ verdict # "ok"
            THEN /\ stop = 4
                 /\ Refuse(c, IF c.limit = 0 THEN "invalid_limit" ELSE verdict)
                 /\ UNCHANGED names
            ELSE /\ names' = IF stop >= 3 THEN known ELSE names
                 /\ IF Position(c).returned > Len(result) THEN Refuse(c, "invalid_cursor")
                    ELSE Finish(c, "find_code", "find_code", q, result,
                                IF stop = 4 THEN "no" ELSE "time_budget",
                                [returned |-> 0, discovered |-> Len(result), tiers |-> stop],
                                {}, NotedHits(Page(c, result)))

(* The candidates of an ambiguous selector, a page at a time.              *)
Ambiguous(c, d, view, found) ==
    LET verdict == Accept(c, "trace_calls", <<"ambiguous", c.req.selector>>)
        result == [i \in DOMAIN found |-> SymbolHit(d, view, found[i])]
    IN  IF verdict # "ok" THEN Refuse(c, verdict)
        ELSE IF Position(c).returned > Len(found) THEN Refuse(c, "invalid_cursor")
        ELSE Finish(c, "trace_calls", "ambiguous_selector", <<"ambiguous", c.req.selector>>,
                    result, "no", [returned |-> 0, discovered |-> Len(found), tiers |-> 0],
                    {}, NotedHits(Page(c, result)))

\* Mutant: the budget counts the replayed records again.
NodeLimit_FromTheStart(c) == c.nodes

(* The visited-node budget is for records beyond what earlier pages found. *)
NodeLimit(c) == Position(c).discovered + c.nodes

TraceArgs(c, start) == <<start, c.req.incoming, c.req.depth>>

(* The page of a finished or stopped traversal t in the environment v.     *)
TraceReply(c, v, args, t) ==
    LET primary(s) == UnitsOf(PrimaryLocation(v.db, VisibleLocations(v.db, s)))
        calling(s) == {r \in Calls(v.db) : r.source = s.caller /\ r.target = s.slot}
        at(s) == {e \in UNION {VisibleEvidence(v, r) : r \in calling(s)} :
                     e.file = s.file /\ e.dispatch = s.dispatch}
        noted(page) ==
            (UNION {(UNION {UnitsOf(at(s)) : s \in page[k].confirmed \cup page[k].possible})
                        \cup primary(page[k].other) : k \in DOMAIN page})
            \cup primary(v.start)
        unresolved == IF ~c.req.incoming /\ Position(c).returned = 0
                      THEN {u \in v.db.sites : u.owner = v.start /\ ~Hidden(v.db, u.file)} ELSE {}
    IN  Finish(c, "trace_calls", "trace_calls", args, t.records, t.stop,
               [returned |-> 0, tiers |-> 0,
                discovered |-> Max({Position(c).discovered, Len(t.records)})],
               unresolved, noted(Page(c, t.records)) \cup UnitsOf(unresolved))

Trace(c, d, view, start) ==
    LET args == TraceArgs(c, start)
        verdict == Accept(c, "trace_calls", args)
        v == [db |-> d, view |-> view, start |-> start,
              incoming |-> c.req.incoming, depth |-> c.req.depth]
    IN  IF verdict # "ok" THEN Refuse(c, verdict)
        ELSE \E clock \in 0..NodeLimit(c) :
               TraceReply(c, v, args, Traversal(v, [limit |-> NodeLimit(c), clock |-> clock]))

(* trace_calls: a selector is a stable ID (here: the row) or a name.       *)
TraceCalls(c, d, view) ==
    LET sel == c.req.selector
        found == IF "id" \in DOMAIN sel
                 THEN (IF sel.id \in d.symbols /\ IsPublic(view, sel.id) THEN <<sel.id>> ELSE << >>)
                 ELSE NameMatches(d, view, sel)
    IN  /\ UNCHANGED names
        /\ IF c.limit = 0 THEN Refuse(c, "invalid_limit")
           ELSE IF found = << >> THEN Refuse(c, "unknown_selector")
           ELSE IF Len(found) = 1 THEN Trace(c, d, view, found[1])
           ELSE Ambiguous(c, d, view, found)

(* file_api.                                                               *)
FileApi(c, d, view) ==
    LET f == c.req.file
        result == FileResult(d, view, f)
        verdict == Accept(c, "file_api", f)
        page == Page(c, result)
        noted == (UNION {UnitsOf(page[i].here) \cup UnitsOf(page[i].symbol.primary) :
                         i \in DOMAIN page}) \cup UnitsOf(FileIncludes(d, f))
    IN  /\ UNCHANGED names
        /\ IF c.limit = 0 THEN Refuse(c, "invalid_limit")
           ELSE IF f \notin d.files \/ Hidden(d, f) THEN Refuse(c, "file_not_indexed")
           ELSE IF verdict # "ok" THEN Refuse(c, verdict)
           ELSE IF Position(c).returned > Len(result) THEN Refuse(c, "invalid_cursor")
           ELSE Finish(c, "file_api", "file_api", f, result, "no",
                       [returned |-> 0, discovered |-> Len(result), tiers |-> 0],
                       FileIncludes(d, f), noted)

-----------------------------------------------------------------------------
(* The steps.                                                              *)

(* Call::begin takes the snapshot.  A client may come with the cursor it   *)
(* holds, for the request it was issued for or for another one.            *)
Begin(req, limit, nodes, continuing) ==
    /\ call = NoCall
    /\ calls < MaxCalls[db]
    /\ continuing => held # NothingHeld
    /\ call' = [req |-> req, limit |-> limit, nodes |-> nodes,
                cursor |-> IF continuing THEN held.cursor ELSE NoCursor,
                seen |-> IF continuing THEN held.seen ELSE << >>,
                db |-> db, excluded |-> excluded, generation |-> generation]
    /\ reply' = NoReply
    /\ calls' = calls + 1
    /\ UNCHANGED <<db, excluded, generation, disk, names, held, events>>

(* The public view is captured, files on disk looked up, and the tool run. *)
Answer ==
    /\ call # NoCall
    /\ call' = NoCall
    /\ LET d == Snapshot(call)
           view == Presence(d)
       IN  CASE call.req.tool = "find_code" -> FindCode(call, d, view)
             [] call.req.tool = "trace_calls" -> TraceCalls(call, d, view)
             [] call.req.tool = "file_api" -> FileApi(call, d, view)
    /\ UNCHANGED <<db, excluded, generation, disk, events, calls>>

(* A publication of the profile (Store::publish): new rows, a new fact     *)
(* generation.                                                             *)
Publish(to) ==
    /\ generation < MaxGeneration
    /\ db' = to
    /\ generation' = generation + 1
    /\ reply' = NoReply
    /\ UNCHANGED <<excluded, disk, names, call, held, events, calls>>

(* Store::set_excluded_files, which leaves the generation alone.           *)
SetExcluded(files) ==
    /\ events < MaxEvents[db]
    /\ files # excluded
    /\ excluded' = files
    /\ reply' = NoReply
    /\ events' = events + 1
    /\ UNCHANGED <<db, generation, disk, names, call, held, calls>>

(* Somebody deletes a source file, or puts it back.                        *)
TouchFile(f) ==
    /\ events < MaxEvents[db]
    /\ disk' = (disk \cup {f}) \ (disk \cap {f})
    /\ reply' = NoReply
    /\ events' = events + 1
    /\ UNCHANGED <<db, excluded, generation, names, call, held, calls>>

QueryNext ==
    \/ \E req \in Requests[db], limit \in Limits[db], continuing \in BOOLEAN :
         \E nodes \in IF req.tool = "trace_calls" THEN NodeBudgets ELSE {0} :
            Begin(req, limit, nodes, continuing)
    \/ Answer
    \/ \E to \in Publications(db) : Publish(to)
    \/ \E files \in Exclusions : SetExcluded(files)
    \/ \E f \in Database[db].files : TouchFile(f)

QuerySpec == QueryInit /\ [][QueryNext]_queryVars
-----------------------------------------------------------------------------
(* Properties.  A reply is there only until the next step, so the files on *)
(* disk are those its call saw.                                            *)

QueryTypeOK ==
    /\ db \in DOMAIN Database
    /\ excluded \in Exclusions \cup {{}}
    /\ disk \subseteq UNION {Database[d].files : d \in DOMAIN Database}
    /\ generation \in 1..MaxGeneration
    /\ names.of \in 0..generation
    /\ call # NoCall => call.req \in Requests[call.db] /\ call.generation \in 1..generation
    /\ held.cursor = NoCursor => held = NothingHeld
    /\ calls \in Nat /\ events \in Nat

Answered(code) == reply.code = code
PageGiven == reply.code \in {"find_code", "trace_calls", "file_api", "ambiguous_selector"}

(* The whole result of a request on one snapshot.                          *)
WholeTrace(d, start, incoming, depth) ==
    Traversal([db |-> d, view |-> Presence(d), start |-> start,
               incoming |-> incoming, depth |-> depth],
              [limit |-> Cardinality(d.symbols), clock |-> Cardinality(d.symbols)]).records
WholeResult(d, req) ==
    LET found == IF "id" \in DOMAIN req.selector THEN <<req.selector.id>>
                 ELSE NameMatches(d, Presence(d), req.selector)
    IN  CASE req.tool = "find_code" ->
               FindResult(d, Presence(d), {d.name[s] : s \in d.symbols}, req.query, 4)
          [] req.tool = "file_api" -> FileResult(d, Presence(d), req.file)
          [] req.tool = "trace_calls" ->
               IF Len(found) > 1
               THEN [i \in DOMAIN found |-> SymbolHit(d, Presence(d), found[i])]
               ELSE WholeTrace(d, found[1], req.incoming, req.depth)

(* Continuation is gap- and duplicate-free (docs/query.md, Cursors): what  *)
(* a client has seen after a page is the beginning of the result of its    *)
(* request on that page's own snapshot, and all of it when no cursor comes *)
(* with the page - whatever was published, excluded or deleted between the *)
(* pages, and whatever request an old cursor is presented with.            *)
PagesAreTheResult ==
    PageGiven =>
        LET whole == WholeResult(Snapshot(reply.snap), reply.req)
        IN  /\ IsPrefix(reply.seen, whole)
            /\ ~reply.more => reply.seen = whole

(* Every result equals the corresponding subset of the public projection   *)
(* for the same snapshot and files on disk (docs/query.md, Public          *)
(* projection): no record names a withheld symbol, location, file or       *)
(* include, and a whole search result lists every public symbol and file   *)
(* that matches.                                                           *)
HitIsPublic(d, facts, hit) ==
    IF "path" \in DOMAIN hit THEN hit.path \in d.files \ d.withheld
    ELSE /\ hit.symbol \in DOMAIN facts.symbols
         /\ hit.presence = facts.symbols[hit.symbol]
         /\ hit.primary \subseteq facts.locations[hit.symbol]
         /\ (hit.primary = {}) <=> (facts.locations[hit.symbol] = {})
EntryIsPublic(d, facts, e, f) ==
    /\ HitIsPublic(d, facts, e.symbol)
    /\ e.here \cup e.elsewhere =
           {l \in facts.locations[e.symbol.symbol] : l.role # "implicit"}
FoundIsPublic(d, facts, seen, q) ==
    {seen[i].symbol : i \in {j \in DOMAIN seen : "symbol" \in DOMAIN seen[j]}}
      = {s \in DOMAIN facts.symbols :
           /\ facts.symbols[s] # "implicit_hidden"
           /\ \/ /\ ~IsQualified(q)
                 /\ \/ d.name[s] = Last(q.path)
                    \/ ContainsRun(Components[d.name[s]], Components[Last(q.path)])
              \/ IsQualified(q) /\ \/ QualifiedMatches(q, Qualified(d, s))
                                   \/ /\ ContainsRun(Components[d.name[s]], Components[Last(q.path)])
                                      /\ ContainsRun(ComponentsOf(Qualified(d, s)), ComponentsOf(q.path))}
ResultsArePublic ==
    PageGiven =>
        LET d == Snapshot(reply.snap)
            facts == PublicFacts(d)
            page == reply.page
        IN  CASE Answered("find_code") ->
                   /\ \A i \in DOMAIN page : HitIsPublic(d, facts, page[i])
                   /\ ~reply.more => FoundIsPublic(d, facts, reply.seen, reply.req.query)
              [] Answered("file_api") ->
                   /\ \A i \in DOMAIN page : EntryIsPublic(d, facts, page[i], reply.req.file)
                   /\ ~reply.more => {reply.seen[i].symbol.symbol : i \in DOMAIN reply.seen} =
                        {s \in DOMAIN facts.symbols :
                            \E l \in facts.locations[s] : l.file = reply.req.file /\ l.role # "implicit"}
                   /\ reply.extra = {i \in facts.includes : i.includer = reply.req.file}
              [] Answered("ambiguous_selector") ->
                   \A i \in DOMAIN page : HitIsPublic(d, facts, page[i])
              [] OTHER ->
                   /\ \A i \in DOMAIN page : page[i].other \in DOMAIN facts.symbols
                   /\ reply.extra \subseteq facts.sites

(* What a trace reports is what it says (trace.cpp 1-24): the records of a *)
(* finished trace are exactly the symbols some public call path reaches    *)
(* within the depth, each at its shortest distance, `confirmed` exactly    *)
(* when confirmed calls alone make such a path, with exactly the public    *)
(* callsites into the previous ring.  One that a budget ended in the       *)
(* middle has every record of the rings before the one it was in.          *)
TraceMeansReachable ==
    Answered("trace_calls") =>
        LET c == reply.snap
            d == Snapshot(c)
            facts == PublicFacts(d)
            sel == c.req.selector
            start == IF "id" \in DOMAIN sel THEN sel.id
                     ELSE NameMatches(d, Presence(d), sel)[1]
            meant == MeantRecords(facts, start, c.req.incoming, c.req.depth)
            sites(r) == {[caller |-> s.caller, slot |-> s.slot] : s \in r.confirmed \cup r.possible}
            got == {[other |-> r.other, hop |-> r.hop, path |-> r.path, sites |-> sites(r)] :
                    r \in ToSet(reply.seen)}
        IN  /\ got \subseteq meant
            /\ ~reply.more => got = meant
            /\ \A r \in got, m \in meant : m.hop < r.hop => m \in got

(* A client that follows its cursors gets somewhere: unless the clock of a *)
(* trace ran out, a page that leaves something out showed a record, or     *)
(* found more than the pages before it, or finished another tier           *)
(* (query.cpp 507-508, trace.cpp 21-23).                                   *)
Progress ==
    \/ reply.page # << >>
    \/ reply.pos.discovered > reply.before.discovered
    \/ reply.pos.tiers > reply.before.tiers
ContinuationAdvances ==
    (/\ PageGiven
     /\ reply.more
     /\ ~(Answered("trace_calls") /\ reply.why = "time_budget")) => Progress

(* docs/query.md, Budget stops, of node_budget and time_budget alike: "so  *)
(* every continuation advances".  The clock can run out before a trace has *)
(* replayed what earlier pages found.                                      *)
EveryContinuationAdvances ==
    (PageGiven /\ reply.more /\ reply.snap.cursor # NoCursor) => Progress

(* docs/query.md, Response model: the status is `stale` when "a returned   *)
(* fact is owned by a unit whose persisted semantic state is `stale`".     *)
(* The owner links of a file_api entry are returned and never noted.       *)
ReturnedUnits ==
    IF Answered("file_api")
    THEN UNION {UnitsOf(reply.page[i].here \cup reply.page[i].elsewhere) : i \in DOMAIN reply.page}
    ELSE {}
StaleResultsAreFlagged ==
    (Answered("file_api") /\ reply.status = "success") =>
        ReturnedUnits \cap Snapshot(reply.snap).stale = {}
=============================================================================

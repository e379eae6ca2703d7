------------------------------ MODULE FactSets ------------------------------
(***************************************************************************)
(* A caller's FactSet into which units are published and out of which they *)
(* are taken again, in any order: publish_contribution(), the add_*        *)
(* operations it goes through, and remove_contribution().                  *)
(*                                                                         *)
(* A unit's result is [status, complete, facts]; facts are [symbols,       *)
(* relations, sites, captures, includes]. symbols maps an identity to      *)
(* [presence, locations]; a location is [unit, implicit, at]; evidence of  *)
(* a relation is [source, target, confidence, unit, at]; a site, a capture *)
(* and an include carry their unit too.                                    *)
(***************************************************************************)
EXTENDS Naturals, FiniteSetsExt

CONSTANTS Symbol, Unit,
          External,     \* the symbols outside the repository
          Results       \* unit -> the results its analysis may have

VARIABLES graph,        \* the facts published
          contributed   \* unit -> the facts published for it and not removed

factVars == <<graph, contributed>>

NoFacts == [symbols |-> [s \in {} |-> s], relations |-> {}, sites |-> {},
            captures |-> {}, includes |-> {}]

FactInit == graph = NoFacts /\ contributed = [u \in Unit |-> {}]

-----------------------------------------------------------------------------

Known(g, s) == s \in DOMAIN g.symbols

\* try_emplace: what is there stays.
Emplace(g, s, presence) ==
    IF Known(g, s) THEN g
    ELSE [g EXCEPT !.symbols = [x \in DOMAIN @ \cup {s} |->
            IF x = s THEN [presence |-> presence, locations |-> {}] ELSE @[x]]]

AddExternalPlaceholder(g, s) == Emplace(g, s, "external_placeholder")

AddEndpointOnly(g, s) == Emplace(g, s, "endpoint_only")

\* Mutant: the last declaration added decides.
AddHiddenMember_Demotes(g, s, l) ==
    LET h == Emplace(g, s, "implicit_hidden")
    IN  [h EXCEPT !.symbols[s].presence = "implicit_hidden",
                  !.symbols[s].locations = @ \cup {l}]

\* A real declaration outranks a synthesized one.
AddHiddenMember(g, s, l) ==
    LET h == Emplace(g, s, "implicit_hidden")
    IN  [h EXCEPT !.symbols[s].presence = IF @ = "indexed" THEN @ ELSE "implicit_hidden",
                  !.symbols[s].locations = @ \cup {l}]

AddSymbolLocation(g, s, l) ==
    LET h == Emplace(g, s, "indexed")
    IN  [h EXCEPT !.symbols[s].presence = "indexed",
                  !.symbols[s].locations = @ \cup {l}]

\* One location of a symbol after the other.
AddLocations(g, s, locations) ==
    FoldSet(LAMBDA l, h : IF l.implicit THEN AddHiddenMember(h, s, l)
                          ELSE AddSymbolLocation(h, s, l), g, locations)

AddSymbols(g, symbols) ==
    FoldSet(LAMBDA s, h : CASE symbols[s].presence = "external_placeholder" ->
                                 AddExternalPlaceholder(h, s)
                            [] symbols[s].presence = "endpoint_only" ->
                                 AddEndpointOnly(h, s)
                            [] OTHER -> AddLocations(h, s, symbols[s].locations),
            g, DOMAIN symbols)

\* Everything a contribution says, added to g.
Added(g, facts) ==
    LET h == AddSymbols(g, facts.symbols)
    IN  [h EXCEPT !.captures = @ \cup facts.captures,
                  !.includes = @ \cup facts.includes,
                  !.relations = @ \cup facts.relations,
                  !.sites = @ \cup facts.sites]

Publishable(result, policy) ==
    /\ result.status /= "rejected"
    /\ policy = "accepted_only" => result.status = "ok" /\ result.complete

\* publish_contribution()
PublishContribution(u, policy) ==
    \E result \in Results[u] :
        IF Publishable(result, policy)
        THEN /\ graph' = Added(graph, result.facts)
             /\ contributed' = [contributed EXCEPT ![u] = @ \cup {result.facts}]
        ELSE UNCHANGED factVars

-----------------------------------------------------------------------------

Of(u, facts) == {f \in facts : f.unit = u}

\* Mutant: a capture does not hold its lambda.
Named_ByRelationsAndSites(g) ==
    {r.source : r \in g.relations} \cup {r.target : r \in g.relations}
        \cup {x.enclosing : x \in g.sites}

\* What evidence names: an endpoint, the symbol around an unresolved site, the
\* lambda of a capture.
Named(g) ==
    {r.source : r \in g.relations} \cup {r.target : r \in g.relations}
        \cup {x.enclosing : x \in g.sites} \cup {c.lambda : c \in g.captures}

\* Presence follows the locations that stay; without one, the evidence that
\* stays.
Survivor(symbol, locations) ==
    [presence |-> IF locations /= {}
                  THEN IF \E l \in locations : ~l.implicit THEN "indexed"
                       ELSE "implicit_hidden"
                  ELSE IF symbol.presence \in {"indexed", "implicit_hidden"}
                       THEN "endpoint_only" ELSE symbol.presence,
     locations |-> locations]

Without(g, u) ==
    LET left == [g EXCEPT !.relations = @ \ Of(u, @), !.sites = @ \ Of(u, @),
                          !.captures = @ \ Of(u, @), !.includes = @ \ Of(u, @)]
        Kept(s) == g.symbols[s].locations \ Of(u, g.symbols[s].locations)
        alive == {s \in DOMAIN g.symbols : Kept(s) /= {} \/ s \in Named(left)}
    IN  [left EXCEPT !.symbols = [s \in alive |-> Survivor(g.symbols[s], Kept(s))]]

\* remove_contribution()
RemoveContribution(u) ==
    /\ graph' = Without(graph, u)
    /\ contributed' = [contributed EXCEPT ![u] = {}]

FactNext ==
    \E u \in Unit :
        \/ \E policy \in {"accepted_only", "allow_errors_and_degraded"} : PublishContribution(u, policy)
        \/ RemoveContribution(u)

FactSpec == FactInit /\ [][FactNext]_factVars

-----------------------------------------------------------------------------
(* What a set of facts is. *)

Present == UNION {contributed[u] : u \in Unit}

\* Everything that is there was said by a unit that is still in, and all that
\* such a unit said is there; whatever came and went in between, and in
\* whatever order, presence is what the locations that are there make of it,
\* and nothing evidence names is missing. Only a symbol nothing names may be
\* gone, or be there without a location.
GraphIsWhatUnitsSay ==
    LET Said(s) == UNION {f.symbols[s].locations : f \in {g \in Present : Known(g, s)}}
        There(s) == graph.symbols[s]
        needed == UNION {{r.source : r \in f.relations} \cup {r.target : r \in f.relations}
                            \cup {x.enclosing : x \in f.sites}
                            \cup {c.lambda : c \in f.captures} : f \in Present}
    IN  /\ graph.relations = UNION {f.relations : f \in Present}
        /\ graph.sites = UNION {f.sites : f \in Present}
        /\ graph.captures = UNION {f.captures : f \in Present}
        /\ graph.includes = UNION {f.includes : f \in Present}
        /\ needed \cup {s \in Symbol : Said(s) /= {}} \subseteq DOMAIN graph.symbols
        /\ \A s \in DOMAIN graph.symbols :
              /\ There(s).locations = Said(s)
              /\ There(s).presence =
                    CASE \E l \in Said(s) : ~l.implicit -> "indexed"
                      [] Said(s) /= {} /\ \A l \in Said(s) : l.implicit -> "implicit_hidden"
                      [] Said(s) = {} -> IF s \in External THEN "external_placeholder"
                                         ELSE "endpoint_only"
=============================================================================

----------------------------- MODULE TraceCalls -----------------------------
(***************************************************************************)
(* trace_calls (trace.cpp): the callers or callees of a symbol, level by   *)
(* level.  Incoming calls reach a node through its own slot and, by        *)
(* virtual dispatch, through the slots of the methods it overrides;        *)
(* outgoing virtual calls may land on any overrider of the called slot.    *)
(*                                                                         *)
(* A traversal is a value: `discover` applied to the candidates of each    *)
(* level, one after the other.  Its environment v is a record              *)
(*   db, view   the call's snapshot and the public view of it              *)
(*   start, incoming, depth                                                *)
(* and its budget is [limit, clock]: the most records it may discover      *)
(* (node_limit_), and how many the time budget lasts for.                  *)
(* The second half states what a trace means, over the public projection   *)
(* of load_facts and without any traversal order.                          *)
(***************************************************************************)
EXTENDS PublicView

Neighbours(v, s, up) ==
    {r \in v.db.relations : r.kind = "overrides" /\ s = IF up THEN r.source ELSE r.target}
Far(r, up) == IF up THEN r.target ELSE r.source

VisibleEvidence(v, r) == {e \in r.evidence : ~Hidden(v.db, e.file)}
VirtualEvidence(v, r) == {e \in VisibleEvidence(v, r) : e.dispatch = "virtual"}

(* override_closure: breadth first over public override relations, `up` to *)
(* the bases and otherwise down to the overriders of a node.  `out` is     *)
(* what is found; the neighbours of s that are new come behind it, in the  *)
(* order of the first row that leads there.                                *)
FreshNeighbours(v, node, up, out, s) ==
    {r \in Neighbours(v, s, up) :
        /\ Far(r, up) # node /\ ~Contains(out, Far(r, up))
        /\ IsPublic(v.view, Far(r, up)) /\ VisibleEvidence(v, r) # {}}
WithNeighbours(v, node, up, out, s) ==
    LET fresh == FreshNeighbours(v, node, up, out, s)
        first == InRowOrder({r \in fresh : \A q \in fresh :
                                Far(q, up) = Far(r, up) => r.row <= q.row})
    IN  out \o [i \in DOMAIN first |-> Far(first[i], up)]
OverrideClosure(v, node, up) ==
    LET grown[i \in 0..Cardinality(v.db.symbols)] ==
            IF i = 0 THEN WithNeighbours(v, node, up, << >>, node)
            ELSE LET out == grown[i - 1]
                 IN  IF i > Len(out) THEN out
                     ELSE WithNeighbours(v, node, up, out, out[i])
    IN  grown[Cardinality(v.db.symbols)]

BasesOf(v, s) == OverrideClosure(v, s, TRUE)
OverridersOf(v, s) == OverrideClosure(v, s, FALSE)

(* A callsite key.  Repeated evidence of several units is one site.        *)
SitesOf(r, slot, evidence) ==
    {[caller |-> r.source, slot |-> slot, file |-> e.file, dispatch |-> e.dispatch] : e \in evidence}

Calls(db) == {r \in db.relations : r.kind = "calls"}

(* seal: all public callsites between `other` and the previous level, of   *)
(* which only a confirmed one into a confirmed path confirms the path.     *)
Seal(v, t, other) ==
    LET frontier == ToSet(t.frontier)
        calls == Calls(v.db)
        own == {r \in calls : IF v.incoming THEN r.source = other /\ r.target \in frontier
                                            ELSE r.target = other /\ r.source \in frontier}
        slots == IF v.incoming
                 THEN UNION {ToSet(BasesOf(v, n)) : n \in frontier}
                 ELSE ToSet(BasesOf(v, other))
        through == {r \in calls : /\ r.target \in slots
                                  /\ IF v.incoming THEN r.source = other
                                                   ELSE r.source \in frontier}
        sure == {r \in own : r.confidence # "possible"}
        before(r) == IF v.incoming THEN r.target ELSE r.source
    IN  [other |-> other,
         hop |-> t.hop,
         path |-> \E r \in sure : /\ VisibleEvidence(v, r) # {}
                                  /\ before(r) \in t.confirmed,
         confirmed |-> UNION {SitesOf(r, r.target, VisibleEvidence(v, r)) : r \in sure},
         possible |->
            (UNION {SitesOf(r, r.target, VisibleEvidence(v, r)) : r \in own \ sure})
            \cup (UNION {SitesOf(r, r.target, VirtualEvidence(v, r)) : r \in through})]

Visited(v, t, s) == s = v.start \/ \E i \in DOMAIN t.records : t.records[i].other = s

(* discover: budgets are looked at before the candidate is, so a stop may  *)
(* be for a candidate that would have been rejected.                       *)
Admit(v, t, other, r) ==
    IF ~IsPublic(v.view, other) \/ r.confirmed \cup r.possible = {}
    THEN [t EXCEPT !.rejected = @ \cup {other}]
    ELSE [t EXCEPT !.records = Append(@, r),
                   !.level = Append(@, other),
                   !.confirmed = IF r.path THEN @ \cup {other} ELSE @]
Discover(v, budget, t, other) ==
    LET found == Len(t.records)
    IN  IF t.stop # "no" \/ Visited(v, t, other) \/ other \in t.rejected THEN t
        ELSE IF found >= budget.limit THEN [t EXCEPT !.stop = "node_budget"]
        ELSE IF found >= budget.clock THEN [t EXCEPT !.stop = "time_budget"]
        ELSE Admit(v, t, other, Seal(v, t, other))

(* expand: the candidates of one node of the previous level, in order.     *)
Candidates(v, n) ==
    IF v.incoming
    THEN FlattenSeq([i \in 1..(1 + Len(BasesOf(v, n))) |->
            LET slot == (<<n>> \o BasesOf(v, n))[i]
                into == RelationsTo(v.db, slot, "calls")
            IN  [j \in DOMAIN into |-> into[j].source]])
    ELSE LET out == RelationsFrom(v.db, n, "calls")
         IN  FlattenSeq([i \in DOMAIN out |->
                <<out[i].target>> \o
                (IF VirtualEvidence(v, out[i]) # {} THEN OverridersOf(v, out[i].target)
                                                    ELSE << >>)])

\* Mutant: what one level rejected stays rejected.
NewLevel_KeepsRejected(t, h) == [t EXCEPT !.frontier = t.level, !.level = << >>, !.hop = h]

NewLevel(t, h) == [t EXCEPT !.frontier = t.level, !.level = << >>,
                            !.rejected = {}, !.hop = h]

(* Candidates are offered to `discover` one after the other.               *)
Offer(v, budget, t, candidates) ==
    LET after[i \in 0..Len(candidates)] ==
            IF i = 0 THEN t ELSE Discover(v, budget, after[i - 1], candidates[i])
    IN  after[Len(candidates)]

(* Traversal::run.                                                         *)
Beginning(v) ==
    [records |-> << >>, frontier |-> << >>, level |-> <<v.start>>,
     rejected |-> {}, confirmed |-> {v.start}, hop |-> 0, stop |-> "no"]
OneLevel(v, budget, t, h) ==
    IF t.stop # "no" \/ t.level = << >> THEN t
    ELSE Offer(v, budget, NewLevel(t, h),
               FlattenSeq([i \in DOMAIN t.level |-> Candidates(v, t.level[i])]))
Traversal(v, budget) ==
    LET level[h \in 0..v.depth] ==
            IF h = 0 THEN Beginning(v) ELSE OneLevel(v, budget, level[h - 1], h)
    IN  level[v.depth]

-----------------------------------------------------------------------------
(* What a trace means.  facts is PublicFacts of the snapshot.              *)

PublicOf(facts, kind) == {r \in facts.relations : r.kind = kind}

(* The strict bases of a symbol over public override relations.            *)
AllBases(facts, s) ==
    LET overrides == PublicOf(facts, "overrides")
        up(S) == {r.target : r \in {q \in overrides : q.source \in S}}
        over[i \in 0..Cardinality(overrides)] ==
            IF i = 0 THEN up({s}) ELSE LET known == over[i - 1] IN known \cup up(known)
    IN  over[Cardinality(overrides)] \ {s}

(* Every way a public call may go: straight to its target, or by virtual   *)
(* dispatch through that slot to whatever overrides it.                    *)
Ways(facts) ==
    {[caller |-> r.source, entered |-> r.target, slot |-> r.target,
      sure |-> r.confidence # "possible"] : r \in PublicOf(facts, "calls")}
    \cup UNION {{[caller |-> r.source, entered |-> n, slot |-> r.target, sure |-> FALSE] :
                    n \in {m \in DOMAIN facts.symbols : r.target \in AllBases(facts, m)}} :
                r \in {q \in PublicOf(facts, "calls") :
                          \E e \in q.evidence : e.dispatch = "virtual"}}

(* Ring by ring, the symbols at distance 0 .. depth from the start, and    *)
(* those among them that sure ways alone lead to.                          *)
Rings(ways, start, incoming, depth) ==
    LET from(w) == IF incoming THEN w.entered ELSE w.caller
        to(w) == IF incoming THEN w.caller ELSE w.entered
        next(S, sure) == {to(w) : w \in {x \in ways : from(x) \in S /\ (sure => x.sure)}}
        ring[h \in 0..depth] ==
            IF h = 0 THEN <<[all |-> {start}, sure |-> {start}]>>
            ELSE LET rings == ring[h - 1]
                     known == UNION {rings[i].all : i \in 1..h}
                 IN  Append(rings, [all |-> next(rings[h].all, FALSE) \ known,
                                    sure |-> next(rings[h].sure, TRUE) \ known])
    IN  ring[depth]

(* The records of a complete trace, with their callsites.                  *)
MeantRecords(facts, start, incoming, depth) ==
    LET ways == Ways(facts)
        rings == Rings(ways, start, incoming, depth)
        sites(m, S) ==
            {[caller |-> w.caller, slot |-> w.slot] :
                w \in {x \in ways : IF incoming THEN x.caller = m /\ x.entered \in S
                                                  ELSE x.entered = m /\ x.caller \in S}}
    IN  UNION {{[other |-> m, hop |-> h, path |-> m \in rings[h + 1].sure,
                 sites |-> sites(m, rings[h].all)] : m \in rings[h + 1].all} :
               h \in 1..depth}
=============================================================================

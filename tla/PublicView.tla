----------------------------- MODULE PublicView -----------------------------
(***************************************************************************)
(* What a reader of the store may see of a profile.  Facts located in a    *)
(* file that the user excluded, or that is gone from the disk, are         *)
(* withheld, and so is everything whose name or key would reveal them.     *)
(* store.cpp computes this twice: load_facts(Projection::public_) walks    *)
(* the whole profile, and PublicView decides per symbol for the query      *)
(* tools.  docs/query.md promises that the two agree.                      *)
(*                                                                         *)
(* A database here is a record of one profile's committed rows:            *)
(*   symbols      set of symbol rows                                       *)
(*   name, owners, rank   row -> its canonical name, the names of its       *)
(*                owner chain, its place in the tie order of results       *)
(*   locations    row -> set of [file, at, role, unit]                     *)
(*   placeholder  [symbol, unit]: listed by the unit as a placeholder      *)
(*   linkage      row -> [kind, scope]: "external", "internal" with the    *)
(*                file scope, "local" with the enclosing symbol            *)
(*   relations    set of [row, source, target, kind, confidence,           *)
(*                evidence], evidence a set of [file, dispatch, unit]      *)
(*   includes     set of [includer, at, target, unit]                      *)
(*   sites        unresolved sites and captures: [owner, file, unit]       *)
(*   files, withheld   file rows, and the paths withheld from a snapshot   *)
(*   stale, failed     units persisted as stale; whether a slot failed     *)
(* A file is a number, its place in path order; a location outside the     *)
(* workspace has the file NoFile.                                          *)
(***************************************************************************)
EXTENDS SequencesExt

NoFile == 0

(* What the schema and its writers keep true of the rows: ids and ranks    *)
(* tell rows apart, the ends of a relation are symbols of the profile,     *)
(* and local symbols nest.                                                 *)
RowFields ==
    {"symbols", "name", "owners", "rank", "locations", "placeholder", "linkage",
     "relations", "includes", "sites", "files", "withheld", "stale", "failed"}
WellKept(db) ==
    /\ DOMAIN db = RowFields
    /\ IsFiniteSet(db.symbols)
    /\ \A s \in db.symbols : db.rank[s] \in Nat
    /\ \A s, t \in db.symbols : db.rank[s] = db.rank[t] => s = t
    /\ \A s \in db.symbols : db.owners[s] \in Seq(STRING)
    /\ \A s \in db.symbols : IsFiniteSet(db.locations[s])
    /\ \A s \in db.symbols : \A l \in db.locations[s] :
          l.file \in Nat /\ l.at \in Nat /\ l.unit \in Nat
    /\ \A S \in SUBSET db.symbols : S # {} =>
          \E s \in S : db.linkage[s].kind = "local" => db.linkage[s].scope \notin S
    /\ IsFiniteSet(db.relations)
    /\ \A r \in db.relations :
          r.row \in Nat /\ r.source \in db.symbols /\ r.target \in db.symbols
    /\ \A r, q \in db.relations : r.row = q.row => r = q
    /\ IsFiniteSet(db.files) /\ db.files \subseteq Nat \ {NoFile}

(* ReadSnapshot::withheld_files: the excluded paths, and every file row    *)
(* that no longer exists under the workspace root.                         *)
Withheld(db, excluded, disk) == excluded \cup (db.files \ disk)

(* `hidden` of load_facts and file_withheld of PublicView: a path (row)    *)
(* outside the workspace is never withheld.                                *)
Hidden(db, f) == f # NoFile /\ f \in db.withheld

IsPlaceholder(db, s) == \E p \in db.placeholder : p.symbol = s

-----------------------------------------------------------------------------
(* PublicView::Impl::evaluate.                                             *)

(* What the visible locations of a symbol say, before its linkage.         *)
LocatedPresence(db, s) ==
    LET visible == {l \in db.locations[s] : ~Hidden(db, l.file)}
    IN  IF \E l \in visible : l.role # "implicit" THEN "indexed"
        ELSE IF visible # {} THEN "implicit_hidden"
        ELSE IF db.locations[s] = {} /\ IsPlaceholder(db, s)
             THEN "external_placeholder"
        ELSE "none"

(* An internal symbol goes with its file, a local one with the symbol that *)
(* encloses it; an enclosing symbol the store does not know hides nothing. *)
Presence(db) ==
    LET p[s \in db.symbols] ==
            LET k == db.linkage[s]
                own == LocatedPresence(db, s)
            IN  IF \/ k.kind = "internal" /\ k.scope \in db.withheld
                   \/ /\ own # "none"
                      /\ k.kind = "local"
                      /\ k.scope \in db.symbols
                      /\ p[k.scope] = "none"
                THEN "none" ELSE own
    IN  p

IsPublic(view, s) == view[s] # "none"

-----------------------------------------------------------------------------
(* ReadSnapshot::load_facts(profile, Projection::public_).                 *)

(* The symbols withheld on their own account ...                           *)
WithheldAlone(db) ==
    {s \in db.symbols :
        \/ /\ \A l \in db.locations[s] : Hidden(db, l.file)
           /\ db.locations[s] # {} \/ ~IsPlaceholder(db, s)
        \/ /\ db.linkage[s].kind = "internal"
           /\ Hidden(db, db.linkage[s].scope)}

(* ... and the local ones inside them, round after round.                  *)
WithheldSymbols(db) ==
    LET round[n \in 0..Cardinality(db.symbols)] ==
            IF n = 0 THEN WithheldAlone(db)
            ELSE LET gone == round[n - 1]
                 IN  gone \cup {s \in db.symbols : /\ db.linkage[s].kind = "local"
                                                   /\ db.linkage[s].scope \in gone}
    IN  round[Cardinality(db.symbols)]

(* The public projection: what a result may be a subset of.                *)
PublicFacts(db) ==
    LET gone == WithheldSymbols(db)
        kept(e) == ~Hidden(db, e.file)
        ends(r) == r.source \notin gone /\ r.target \notin gone
        visible(s) == {l \in db.locations[s] : kept(l)}
    IN  [symbols |->
            [s \in db.symbols \ gone |->
                CASE \E l \in visible(s) : l.role # "implicit" -> "indexed"
                  [] visible(s) # {} /\ \A l \in visible(s) : l.role = "implicit"
                       -> "implicit_hidden"
                  [] OTHER -> "external_placeholder"],
         locations |-> [s \in db.symbols \ gone |-> visible(s)],
         relations |->
            {[source |-> r.source, target |-> r.target, kind |-> r.kind,
              confidence |-> r.confidence,
              evidence |-> {e \in r.evidence : kept(e)}] :
             r \in {q \in db.relations :
                      ends(q) /\ \E e \in q.evidence : kept(e)}},
         includes |-> {i \in db.includes : /\ ~Hidden(db, i.includer)
                                           /\ ~Hidden(db, i.at)
                                           /\ ~Hidden(db, i.target)},
         sites |-> {u \in db.sites : kept(u) /\ u.owner \notin gone}]

-----------------------------------------------------------------------------
(* A finite set in the order that the pairs of R put its elements in.      *)
Ordered(S, R) ==
    [i \in 1..Cardinality(S) |->
        CHOOSE x \in S : Cardinality({y \in S : <<y, x>> \in R}) = i - 1]

(* Row lookups of ReadSnapshot, as sequences in row order.                 *)
InRowOrder(S) == Ordered(S, {p \in S \X S : p[1].row < p[2].row})
RelationsTo(db, s, kind) ==
    InRowOrder({r \in db.relations : r.target = s /\ r.kind = kind})
RelationsFrom(db, s, kind) ==
    InRowOrder({r \in db.relations : r.source = s /\ r.kind = kind})

(* Retiring a unit (a publication): its locations, evidence and sites go;  *)
(* a relation without evidence goes; symbols stay as long as something     *)
(* refers to them, without a location as "endpoint only".                  *)
Retire(db, u) ==
    LET without(S) == {x \in S : x.unit # u}
        left == {[r EXCEPT !.evidence = without(@)] : r \in db.relations}
    IN  [db EXCEPT !.locations = [s \in db.symbols |-> without(@[s])],
                   !.relations = {r \in left : r.evidence # {}},
                   !.placeholder = without(@),
                   !.includes = without(@),
                   !.sites = without(@)]
=============================================================================

---------------------------- MODULE SharedRowsProofs ----------------------------
(***************************************************************************)
(* Proofs about SharedRows, for any slots, keys, contributions and number  *)
(* of rows.                                                                *)
(***************************************************************************)
EXTENDS SharedRows, NaturalFacts, TLAPS

----------------------------------------------------------------------------
\* The rows of table t that units use, and those that none uses.
UsedRows(d, t) == UNION {Used(d.unit[s])[t] : s \in Units(d)}

Orphans(d, t) == Rows(d, t) \ UsedRows(d, t)

NoOrphans(d) == \A t \in Table : Orphans(d, t) = {}

\* The tables that, at stage l, the removal of a unit has still to prune.
StillToPrune(l) ==
    CASE l = "relation" -> Table
      [] l = "symbol" -> {"symbol", "version", "dependency", "file"}
      [] l = "version" -> {"version", "dependency", "file"}
      [] l = "dependency" -> {"dependency", "file"}
      [] l = "file" -> {"file"}
      [] OTHER -> {}

\* A database, field by field and table by table.
Shaped(d) ==
    /\ d = [table |-> d.table, unit |-> d.unit]
    /\ d.table = [t \in Table |-> d.table[t]]
    /\ \A t \in Table : d.table[t] \in [Row -> Entry[t] \cup {NoEntry}]
    /\ d.unit \in [Slot -> Unit \cup {NoUnit}]

\* A unit's rows speak of each other as the keys they stand for do: every
\* symbol its locations and relations mention is its own, and a location is of
\* the file its version is of. That is what a pruning statement relies on when
\* it asks of one table only.
OwnsItsSymbols(d, u) ==
    /\ \A l \in u.locations : l.symbol \in u.symbols
    /\ \A e \in u.evidence :
          /\ d.table.relation[e.relation].source \in u.symbols
          /\ d.table.relation[e.relation].target \in u.symbols

VersionsMatch(d, u) ==
    \A x \in Placed(u) : d.table.version[x.version].file = x.file

Sound(d) ==
    /\ References(d)
    /\ \A s \in Units(d) :
          OwnsItsSymbols(d, d.unit[s]) /\ VersionsMatch(d, d.unit[s])

\* A cached id is of the row that holds the key.
CacheIsTrue(d, c) ==
    /\ c = [t \in Table |-> c[t]]
    /\ \A t \in Table : \A e \in DOMAIN c[t] :
          /\ e \in Entry[t]
          /\ c[t][e] \in Row
          /\ d.table[t][c[t][e]] = e

\* Contribution c is what x says and what y has left to say.
Together(x, y, c) ==
    /\ x.inputs \cup y.inputs = c.inputs
    /\ x.symbols \cup y.symbols = c.symbols
    /\ x.locations \cup y.locations = c.locations
    /\ x.evidence \cup y.evidence = c.evidence

\* Slot s has what it will have when the publication commits.
Settled(s) ==
    /\ s \notin remove \cup install
    /\ stage = "inserting" => s # current

Says(d, s, c) ==
    IF c = NoUnit THEN d.unit[s] = NoUnit
    ELSE d.unit[s] # NoUnit /\ Decoded(d, d.unit[s]) = c

\* How far the publication has come, slot by slot.
Progress ==
    /\ \A s \in Slot : Settled(s) => Says(tx, s, pending[s])
    /\ \A s \in install \ remove : tx.unit[s] = NoUnit
    /\ \A s \in install : pending[s] # NoUnit
    /\ \A s \in remove \ install : pending[s] = NoUnit

Inserting ==
    stage = "inserting" =>
        /\ remove = {}
        /\ current \in Slot \ install
        /\ pending[current] # NoUnit
        /\ tx.unit[current] # NoUnit
        /\ Together(Decoded(tx, tx.unit[current]), left, pending[current])
        /\ \A y \in pending[current].symbols \ left.symbols :
              /\ y \in DOMAIN cache["symbol"]
              /\ cache["symbol"][y] \in tx.unit[current].symbols

RowTypes ==
    /\ Shaped(db)
    /\ Shaped(tx)
    /\ stage \in {"idle", "removing", "inserting"} \cup Table
    /\ remove \subseteq Slot
    /\ install \subseteq Slot
    /\ left \in Contribution
    /\ pending \in [Slot -> Contributions \cup {NoUnit}]
    /\ denoted \in [Slot -> Contributions \cup {NoUnit}]

Committed ==
    /\ Sound(db)
    /\ NoOrphans(db)
    /\ \A s \in Slot : Says(db, s, denoted[s])
    /\ stage = "idle" =>
          tx = db /\ pending = denoted /\ remove = {} /\ install = {}

\* The inductive invariant of a publication's statements.
RowsInv ==
    /\ RowTypes
    /\ Sound(tx)
    /\ \A t \in Table :
          Orphans(tx, t) \subseteq
              IF t \in StillToPrune(stage) THEN touched[t] ELSE {}
    /\ CacheIsTrue(tx, cache)
    /\ stage # "inserting" => cache = EmptyCache
    /\ Progress
    /\ Inserting
    /\ Committed

----------------------------------------------------------------------------
\* Tables and the rows units use.

LEMMA Tables ==
    /\ "file" \in Table /\ "version" \in Table /\ "symbol" \in Table
    /\ "relation" \in Table /\ "dependency" \in Table
    /\ \A t \in Table : t \in {"file", "version", "symbol", "relation",
                               "dependency"}
BY DEF Table

LEMMA Entries ==
    /\ Entry["file"] = Path
    /\ Entry["version"] = [file : Row \cup {NoRow}, digest : Digest]
    /\ Entry["symbol"] = Symbol
    /\ Entry["relation"] = [source : Row, target : Row]
    /\ Entry["dependency"] = Dependency
BY DEF Entry

LEMMA UsedParts ==
    ASSUME NEW u
    PROVE  /\ Used(u)["file"] = {x.file : x \in Placed(u)} \ {NoRow}
           /\ Used(u)["version"] = {x.version : x \in Placed(u)}
           /\ Used(u)["symbol"] = u.symbols
           /\ Used(u)["relation"] = {e.relation : e \in u.evidence}
           /\ Used(u)["dependency"] = u.inputs
BY DEF Used

LEMMA RowsTyped ==
    ASSUME NEW d, Shaped(d), NEW t \in Table
    PROVE  /\ Rows(d, t) \subseteq Row
           /\ \A r \in Rows(d, t) : d.table[t][r] \in Entry[t]
BY DEF Rows, Shaped

\* More rows, and those there were as they were.
Grown(d, e) ==
    /\ e.unit = d.unit
    /\ \A t \in Table : \A r \in Rows(d, t) :
          r \in Rows(e, t) /\ e.table[t][r] = d.table[t][r]

NewRows(d, e, t) == Rows(e, t) \ Rows(d, t)

CacheGrown(c, k) ==
    \A t \in Table : \A e \in DOMAIN c[t] :
        e \in DOMAIN k[t] /\ k[t][e] = c[t][e]

LEMMA GrownTransitive ==
    ASSUME NEW d, NEW e, NEW g, Grown(d, e), Grown(e, g)
    PROVE  /\ Grown(d, g)
           /\ \A t \in Table : NewRows(d, g, t) \subseteq
                  NewRows(d, e, t) \cup NewRows(e, g, t)
BY DEF Grown, NewRows

LEMMA CacheGrownTransitive ==
    ASSUME NEW c, NEW k, NEW l, CacheGrown(c, k), CacheGrown(k, l)
    PROVE  CacheGrown(c, l)
BY DEF CacheGrown

----------------------------------------------------------------------------
\* Interning.

\* The next id is larger than every id in use.
LEMMA NextRowIsFree ==
    ASSUME NEW d, Shaped(d), NEW t \in Table
    PROVE  NextRow(d, t) \in Nat /\ NextRow(d, t) \notin Rows(d, t)
<1> DEFINE S == Rows(d, t) \cup {0}
<1>1. S \in SUBSET Nat /\ S # {} /\ \A x \in S : x <= MaxRow
  BY RowsTyped, ParametersAssumption DEF Row
<1>2. Max(S) \in S /\ \A y \in S : y <= Max(S)
  BY <1>1, MaxOfNaturals, ParametersAssumption
<1>3. NextRow(d, t) = 1 + Max(S)
  BY DEF NextRow
<1>4. PICK m : m = Max(S)
  OBVIOUS
<1> HIDE DEF S
<1>5. m \in Nat /\ \A y \in S : y \in Nat /\ y <= m
  BY <1>1, <1>2, <1>4
<1>6. 1 + m \in Nat /\ 1 + m \notin S
  BY <1>5
<1> QED
  BY <1>3, <1>4, <1>6 DEF S

\* The row of a key holds it, or is free and will.
LEMMA RowOfEntry ==
    ASSUME NEW d, NEW c, Shaped(d), CacheIsTrue(d, c), NEW t \in Table,
           NEW e \in Entry[t], RoomFor(d, c, t, e)
    PROVE  /\ RowOf(d, c, t, e) \in Row
           /\ \/ d.table[t][RowOf(d, c, t, e)] = e
              \/ /\ RowOf(d, c, t, e) \notin Rows(d, t)
                 /\ e \notin DOMAIN c[t]
<1>1. RowOf(d, c, t, e) \in Row
  BY DEF RoomFor
<1>2. CASE e \in DOMAIN c[t]
  BY <1>1, <1>2 DEF RowOf, CacheIsTrue
<1>3. CASE e \notin DOMAIN c[t] /\ \E r \in Row : d.table[t][r] = e
  <2>1. RowOf(d, c, t, e) = CHOOSE r \in Row : d.table[t][r] = e
    BY <1>3 DEF RowOf
  <2> QED
    BY <1>1, <1>3, <2>1
<1>4. CASE e \notin DOMAIN c[t] /\ ~\E r \in Row : d.table[t][r] = e
  <2>1. RowOf(d, c, t, e) = NextRow(d, t)
    BY <1>4 DEF RowOf
  <2> QED
    BY <1>1, <1>4, <2>1, NextRowIsFree
<1> QED
  BY <1>2, <1>3, <1>4

\* What interning one key does.
LEMMA Interned ==
    ASSUME NEW d, NEW c, Shaped(d), CacheIsTrue(d, c), NEW t \in Table,
           NEW e \in Entry[t], RoomFor(d, c, t, e),
           NEW g, g = WithEntry(d, c, t, e),
           NEW k, k = Cached(d, c, t, e),
           NEW r, r = RowOf(d, c, t, e)
    PROVE  /\ Shaped(g) /\ Grown(d, g)
           /\ r \in Rows(g, t) /\ g.table[t][r] = e
           /\ \A y \in Table : NewRows(d, g, y) \subseteq
                  IF y = t THEN {r} ELSE {}
           /\ CacheIsTrue(g, k) /\ CacheGrown(c, k)
           /\ e \in DOMAIN k[t] /\ k[t][e] = r
<1>1. /\ r \in Row
      /\ d.table[t][r] = e \/ (r \notin Rows(d, t) /\ e \notin DOMAIN c[t])
      /\ e # NoEntry
  BY RowOfEntry, AbsentValuesAssumption
<1>2. /\ d = [table |-> d.table, unit |-> d.unit]
      /\ d.table = [y \in Table |-> d.table[y]]
      /\ \A y \in Table : d.table[y] \in [Row -> Entry[y] \cup {NoEntry}]
      /\ d.unit \in [Slot -> Unit \cup {NoUnit}]
  BY DEF Shaped
<1>3. /\ g = [table |-> g.table, unit |-> g.unit] /\ g.unit = d.unit
      /\ g.table = [y \in Table |-> g.table[y]]
      /\ \A y \in Table \ {t} : g.table[y] = d.table[y]
      /\ g.table[t] = [d.table[t] EXCEPT ![r] = e]
  <2>1. CASE e \in DOMAIN c[t]
    <3>1. g = d /\ d.table[t][r] = e
      BY <2>1 DEF WithEntry, RowOf, CacheIsTrue
    <3> QED
      BY <1>1, <1>2, <3>1
  <2>2. CASE e \notin DOMAIN c[t]
    <3>1. g = [d EXCEPT !.table[t][r] = e]
      BY <2>2 DEF WithEntry
    <3> QED
      BY <1>2, <3>1
  <2> QED
    BY <2>1, <2>2
<1>4. Shaped(g)
  BY <1>1, <1>2, <1>3 DEF Shaped
<1>5. /\ r \in Rows(g, t) /\ g.table[t][r] = e
      /\ \A y \in Table : \A q \in Row \ {r} : g.table[y][q] = d.table[y][q]
      /\ \A y \in Table \ {t} : g.table[y] = d.table[y]
  BY <1>1, <1>2, <1>3 DEF Rows
<1>6. Grown(d, g)
  <2> SUFFICES ASSUME NEW y \in Table, NEW q \in Rows(d, y)
               PROVE  q \in Rows(g, y) /\ g.table[y][q] = d.table[y][q]
    BY <1>3 DEF Grown
  <2> QED
    BY <1>1, <1>5 DEF Rows
<1>7. \A y \in Table : NewRows(d, g, y) \subseteq IF y = t THEN {r} ELSE {}
  BY <1>5 DEF NewRows, Rows
<1>8. /\ k = [y \in Table |-> k[y]]
      /\ \A y \in Table \ {t} : k[y] = c[y]
      /\ DOMAIN k[t] = DOMAIN c[t] \cup {e}
      /\ k[t][e] = r
      /\ \A x \in DOMAIN c[t] : k[t][x] = c[t][x]
  <2>1. e \in DOMAIN c[t] => c[t][e] = r
    BY DEF RowOf
  <2>2. k = [c EXCEPT ![t] = [x \in DOMAIN c[t] \cup {e} |->
                                IF x = e THEN r ELSE c[t][x]]]
    BY DEF Cached
  <2> QED
    BY <2>1, <2>2 DEF CacheIsTrue
<1>9. CacheGrown(c, k)
  BY <1>8 DEF CacheGrown
<1>10. CacheIsTrue(g, k)
  <2> SUFFICES ASSUME NEW y \in Table, NEW x \in DOMAIN k[y]
               PROVE  x \in Entry[y] /\ k[y][x] \in Row /\ g.table[y][k[y][x]] = x
    BY <1>8 DEF CacheIsTrue
  <2>1. CASE y = t /\ x = e
    BY <1>1, <1>5, <1>8, <2>1
  <2>2. CASE x \in DOMAIN c[y] /\ k[y][x] = c[y][x]
    <3>1. x \in Entry[y] /\ c[y][x] \in Row /\ d.table[y][c[y][x]] = x
      BY <2>2 DEF CacheIsTrue
    <3>2. c[y][x] \in Rows(d, y)
      BY <3>1, AbsentValuesAssumption DEF Rows
    <3> QED
      BY <1>6, <2>2, <3>1, <3>2 DEF Grown
  <2> QED
    BY <1>8, <2>1, <2>2
<1> QED
  BY <1>4, <1>5, <1>6, <1>7, <1>8, <1>9, <1>10

\* What bind_location does, the row of the file and then that of its version.
LEMMA Bound ==
    ASSUME NEW d, NEW c, Shaped(d), CacheIsTrue(d, c), NEW at \in Location,
           at.path # NoPath => RoomFor(d, c, "file", at.path),
           NEW d1, d1 = HasFile(d, c, at), NEW c1, c1 = FileCached(d, c, at),
           NEW v, v = VersionEntry(d, c, at), RoomFor(d1, c1, "version", v),
           NEW g, g = WithEntry(d1, c1, "version", v),
           NEW k, k = Cached(d1, c1, "version", v),
           NEW f, f = FileRow(d, c, at),
           NEW r, r = RowOf(d1, c1, "version", v)
    PROVE  /\ Shaped(g) /\ Grown(d, g) /\ CacheIsTrue(g, k) /\ CacheGrown(c, k)
           /\ IF at.path = NoPath THEN f = NoRow
              ELSE f \in Rows(g, "file") /\ g.table["file"][f] = at.path
           /\ r \in Rows(g, "version")
           /\ g.table["version"][r] = [file |-> f, digest |-> at.digest]
           /\ \A y \in Table : NewRows(d, g, y) \subseteq
                  CASE y = "file" -> {f} \ {NoRow}
                    [] y = "version" -> {r}
                    [] OTHER -> {}
           /\ CacheGrown(c, c1) /\ FileRow(d1, c1, at) = f
<1>1. /\ Shaped(d1) /\ Grown(d, d1) /\ CacheIsTrue(d1, c1)
      /\ CacheGrown(c, c1) /\ FileRow(d1, c1, at) = f
      /\ IF at.path = NoPath THEN f = NoRow
         ELSE f \in Rows(d1, "file") /\ d1.table["file"][f] = at.path
      /\ \A y \in Table : NewRows(d, d1, y) \subseteq
             IF y = "file" THEN {f} \ {NoRow} ELSE {}
  <2>1. CASE at.path = NoPath
    <3>1. d1 = d /\ c1 = c /\ f = NoRow
      BY <2>1 DEF HasFile, FileCached, FileRow
    <3>2. Grown(d, d) /\ CacheGrown(c, c) /\ \A y \in Table : NewRows(d, d, y) = {}
      BY DEF Grown, CacheGrown, NewRows
    <3>3. FileRow(d1, c1, at) = f
      BY <2>1, <3>1 DEF FileRow
    <3> QED
      BY <2>1, <3>1, <3>2, <3>3
  <2>2. CASE at.path # NoPath
    <3>1. /\ d1 = WithEntry(d, c, "file", at.path)
          /\ c1 = Cached(d, c, "file", at.path)
          /\ f = RowOf(d, c, "file", at.path)
      BY <2>2 DEF HasFile, FileCached, FileRow
    <3>2. at.path \in Entry["file"] /\ RoomFor(d, c, "file", at.path)
      BY <2>2, Entries DEF Location
    <3>3. /\ Shaped(d1) /\ Grown(d, d1) /\ CacheIsTrue(d1, c1)
          /\ CacheGrown(c, c1)
          /\ at.path \in DOMAIN c1["file"] /\ c1["file"][at.path] = f
          /\ f \in Rows(d1, "file") /\ d1.table["file"][f] = at.path
          /\ \A y \in Table : NewRows(d, d1, y) \subseteq
                 IF y = "file" THEN {f} ELSE {}
      BY <3>1, <3>2, Tables, Interned
    <3>4. f # NoRow
      BY <3>3, Tables, RowsTyped, AbsentValuesAssumption
    <3>5. FileRow(d1, c1, at) = f
      BY <2>2, <3>3 DEF FileRow, RowOf
    <3> QED
      BY <2>2, <3>3, <3>4, <3>5
  <2> QED
    BY <2>1, <2>2
<1>2. v = [file |-> f, digest |-> at.digest] /\ v \in Entry["version"]
  <2>1. f \in Row \cup {NoRow} /\ at.digest \in Digest
    BY <1>1, Tables, RowsTyped DEF Location
  <2> QED
    BY <2>1, Entries DEF VersionEntry
<1>3. /\ Shaped(g) /\ Grown(d1, g) /\ CacheIsTrue(g, k) /\ CacheGrown(c1, k)
      /\ r \in Rows(g, "version") /\ g.table["version"][r] = v
      /\ \A y \in Table : NewRows(d1, g, y) \subseteq
             IF y = "version" THEN {r} ELSE {}
  BY <1>1, <1>2, Tables, Interned
<1>4. Grown(d, g) /\ \A y \in Table :
          NewRows(d, g, y) \subseteq NewRows(d, d1, y) \cup NewRows(d1, g, y)
  BY <1>1, <1>3, GrownTransitive
<1>5. CacheGrown(c, k)
  BY <1>1, <1>3, CacheGrownTransitive
<1>6. IF at.path = NoPath THEN f = NoRow
      ELSE f \in Rows(g, "file") /\ g.table["file"][f] = at.path
  BY <1>1, <1>3, Tables DEF Grown
<1>7. ASSUME NEW y \in Table
      PROVE  NewRows(d, g, y) \subseteq
                  CASE y = "file" -> {f} \ {NoRow}
                    [] y = "version" -> {r}
                    [] OTHER -> {}
  BY <1>1, <1>3, <1>4
<1> QED
  BY <1>1, <1>2, <1>3, <1>4, <1>5, <1>6, <1>7

----------------------------------------------------------------------------
\* What a unit's rows say.

\* The rows unit u uses are the same in d and g.
Agree(d, g, u) ==
    \A t \in Table : \A r \in Used(u)[t] : g.table[t][r] = d.table[t][r]

\* It depends on the shared rows the unit uses alone.
LEMMA DecodedKept ==
    ASSUME NEW d, NEW g, NEW u, OwnsItsSymbols(d, u), Agree(d, g, u)
    PROVE  Decoded(g, u) = Decoded(d, u)
<1>1. /\ \A r \in u.inputs : g.table["dependency"][r] = d.table["dependency"][r]
      /\ \A r \in u.symbols : g.table["symbol"][r] = d.table["symbol"][r]
      /\ \A e \in u.evidence :
            g.table["relation"][e.relation] = d.table["relation"][e.relation]
      /\ \A x \in Placed(u) :
            /\ g.table["version"][x.version] = d.table["version"][x.version]
            /\ x.file # NoRow =>
                  g.table["file"][x.file] = d.table["file"][x.file]
  <2>1. \A r \in u.inputs : r \in Used(u)["dependency"]
    BY UsedParts
  <2>2. \A r \in u.symbols : r \in Used(u)["symbol"]
    BY UsedParts
  <2>3. \A e \in u.evidence : e.relation \in Used(u)["relation"]
    BY UsedParts
  <2>4. \A x \in Placed(u) : x.version \in Used(u)["version"]
    BY UsedParts
  <2>5. \A x \in Placed(u) : x.file # NoRow => x.file \in Used(u)["file"]
    BY UsedParts
  <2> QED
    BY <2>1, <2>2, <2>3, <2>4, <2>5, Tables DEF Agree
<1> DEFINE At(h, x) == [path |-> IF x.file = NoRow THEN NoPath
                                 ELSE h.table["file"][x.file],
                        digest |-> h.table["version"][x.version].digest]
<1>2. \A x \in Placed(u) : At(g, x) = At(d, x)
  BY <1>1
<1> DEFINE Locations(h) == {[symbol |-> h.table["symbol"][l.symbol],
                             at |-> At(h, l)] : l \in u.locations}
           Evidence(h) ==
              {[source |-> h.table["symbol"][h.table["relation"][e.relation].source],
                target |-> h.table["symbol"][h.table["relation"][e.relation].target],
                at |-> At(h, e)] : e \in u.evidence}
<1>3. Locations(g) = Locations(d)
  <2>1. \A l \in u.locations :
           /\ g.table["symbol"][l.symbol] = d.table["symbol"][l.symbol]
           /\ At(g, l) = At(d, l)
    BY <1>1, <1>2 DEF OwnsItsSymbols, Placed
  <2> HIDE DEF At
  <2> QED
    BY <2>1
<1>4. Evidence(g) = Evidence(d)
  <2>1. \A e \in u.evidence :
           /\ g.table["symbol"][g.table["relation"][e.relation].source] =
                 d.table["symbol"][d.table["relation"][e.relation].source]
           /\ g.table["symbol"][g.table["relation"][e.relation].target] =
                 d.table["symbol"][d.table["relation"][e.relation].target]
           /\ At(g, e) = At(d, e)
    BY <1>1, <1>2 DEF OwnsItsSymbols, Placed
  <2> HIDE DEF At
  <2> QED
    BY <2>1
<1>5. /\ {g.table["dependency"][r] : r \in u.inputs} =
            {d.table["dependency"][r] : r \in u.inputs}
      /\ {g.table["symbol"][r] : r \in u.symbols} =
            {d.table["symbol"][r] : r \in u.symbols}
  BY <1>1
<1>6. \A h : Decoded(h, u) =
        [inputs |-> {h.table["dependency"][r] : r \in u.inputs},
         symbols |-> {h.table["symbol"][r] : r \in u.symbols},
         locations |-> Locations(h), evidence |-> Evidence(h)]
  BY DEF Decoded
<1> HIDE DEF Locations, Evidence
<1> QED
  BY <1>3, <1>4, <1>5, <1>6

\* Nor do what the unit owns and the files of its versions.
LEMMA OwnAsBefore ==
    ASSUME NEW d, NEW g, NEW u, OwnsItsSymbols(d, u), VersionsMatch(d, u),
           Agree(d, g, u)
    PROVE  OwnsItsSymbols(g, u) /\ VersionsMatch(g, u)
<1>1. /\ \A e \in u.evidence : e.relation \in Used(u)["relation"]
      /\ \A x \in Placed(u) : x.version \in Used(u)["version"]
  BY UsedParts
<1>2. /\ \A e \in u.evidence :
            g.table["relation"][e.relation] = d.table["relation"][e.relation]
      /\ \A x \in Placed(u) :
            g.table["version"][x.version] = d.table["version"][x.version]
  BY <1>1, Tables DEF Agree
<1> QED
  BY <1>2 DEF OwnsItsSymbols, VersionsMatch

\* In tables that have grown, a unit's rows refer as they did and say what
\* they said.
LEMMA UnitOfGrown ==
    ASSUME NEW d, NEW g, NEW h, Grown(d, g), h.table = g.table, Sound(d),
           NEW s \in Units(d)
    PROVE  /\ \A t \in Table : Used(d.unit[s])[t] \subseteq Rows(h, t)
           /\ OwnsItsSymbols(h, d.unit[s]) /\ VersionsMatch(h, d.unit[s])
           /\ Decoded(h, d.unit[s]) = Decoded(d, d.unit[s])
<1>1. /\ OwnsItsSymbols(d, d.unit[s]) /\ VersionsMatch(d, d.unit[s])
      /\ \A t \in Table : Used(d.unit[s])[t] \subseteq Rows(d, t)
  BY DEF Sound, References
<1>2. /\ \A t \in Table : Used(d.unit[s])[t] \subseteq Rows(h, t)
      /\ Agree(d, h, d.unit[s])
  BY <1>1 DEF Grown, Agree, Rows
<1>3. Decoded(h, d.unit[s]) = Decoded(d, d.unit[s])
  BY <1>1, <1>2, DecodedKept
<1>4. OwnsItsSymbols(h, d.unit[s]) /\ VersionsMatch(h, d.unit[s])
  BY <1>1, <1>2, OwnAsBefore
<1> QED
  BY <1>2, <1>3, <1>4

----------------------------------------------------------------------------
\* A unit that grows.

\* Tables d grow to g, by rows that refer to rows there are and that unit u
\* uses, and with the unit of slot s grown to u they are h.
Addition(d, g, s, u, h) ==
    /\ h = [g EXCEPT !.unit[s] = u]
    /\ Shaped(g) /\ Grown(d, g)
    /\ \A t \in Table :
          /\ d.unit[s] # NoUnit => Used(d.unit[s])[t] \subseteq Used(u)[t]
          /\ Used(u)[t] \subseteq Rows(g, t)
          /\ NewRows(d, g, t) \subseteq Used(u)[t]
    /\ \A r \in NewRows(d, g, "version") :
          g.table["version"][r].file \in Rows(g, "file") \cup {NoRow}
    /\ \A r \in NewRows(d, g, "relation") :
          /\ g.table["relation"][r].source \in Rows(g, "symbol")
          /\ g.table["relation"][r].target \in Rows(g, "symbol")
    /\ OwnsItsSymbols(g, u) /\ VersionsMatch(g, u)

\* The units of d other than s's are there in h, and say what they said.
SameElsewhere(d, h, s) ==
    \A q \in Slot \ {s} :
        /\ h.unit[q] = d.unit[q]
        /\ q \in Units(d) => Decoded(h, h.unit[q]) = Decoded(d, d.unit[q])

\* An addition keeps the tables sound and every row used, and the other units
\* say what they said.
LEMMA GrownSound ==
    ASSUME NEW d, NEW g, NEW s \in Slot, NEW u \in Unit, NEW h,
           Shaped(d), Sound(d), NoOrphans(d),
           Addition(d, g, s, u, h)
    PROVE  /\ Shaped(h) /\ Sound(h) /\ h.table = g.table /\ h.unit[s] = u
           /\ NoOrphans(h)
           /\ SameElsewhere(d, h, s)
           /\ Decoded(h, u) = Decoded(g, u)
<1>0. /\ h = [g EXCEPT !.unit[s] = u]
      /\ Shaped(g) /\ Grown(d, g)
      /\ \A t \in Table :
            /\ d.unit[s] # NoUnit => Used(d.unit[s])[t] \subseteq Used(u)[t]
            /\ Used(u)[t] \subseteq Rows(g, t)
            /\ NewRows(d, g, t) \subseteq Used(u)[t]
      /\ \A r \in NewRows(d, g, "version") :
            g.table["version"][r].file \in Rows(g, "file") \cup {NoRow}
      /\ \A r \in NewRows(d, g, "relation") :
            /\ g.table["relation"][r].source \in Rows(g, "symbol")
            /\ g.table["relation"][r].target \in Rows(g, "symbol")
      /\ OwnsItsSymbols(g, u) /\ VersionsMatch(g, u)
  BY DEF Addition
<1>1. /\ h.table = g.table /\ h.unit = [d.unit EXCEPT ![s] = u]
      /\ h = [table |-> h.table, unit |-> h.unit]
      /\ g.unit \in [Slot -> Unit \cup {NoUnit}] /\ d.unit = g.unit
  BY <1>0 DEF Shaped, Grown
<1>2. /\ Shaped(h) /\ h.unit[s] = u
      /\ \A q \in Slot \ {s} : h.unit[q] = d.unit[q]
  BY <1>0, <1>1 DEF Shaped
<1>3. Units(h) = Units(d) \cup {s}
  BY <1>1, <1>2, AbsentValuesAssumption DEF Units
<1>4. \A t \in Table : Rows(h, t) = Rows(g, t) /\ Rows(d, t) \subseteq Rows(h, t)
  BY <1>0, <1>1 DEF Rows, Grown
<1>5. ASSUME NEW q \in Units(d), q # s
      PROVE  /\ \A t \in Table : Used(h.unit[q])[t] \subseteq Rows(h, t)
             /\ \A l \in h.unit[q].locations : l.symbol \in Rows(h, "symbol")
             /\ OwnsItsSymbols(h, h.unit[q]) /\ VersionsMatch(h, h.unit[q])
  <2>1. h.unit[q] = d.unit[q]
    BY <1>2, <1>5 DEF Units
  <2>2. Grown(d, g) /\ h.table = g.table
    BY <1>0, <1>1
  <2>3. /\ \A t \in Table : Used(d.unit[q])[t] \subseteq Rows(h, t)
        /\ OwnsItsSymbols(h, d.unit[q]) /\ VersionsMatch(h, d.unit[q])
    BY <2>2, UnitOfGrown
  <2>4. d.unit[q].symbols \subseteq Rows(h, "symbol")
    BY <2>3, UsedParts, Tables
  <2> QED
    BY <2>1, <2>3, <2>4 DEF OwnsItsSymbols
<1>6. /\ OwnsItsSymbols(h, u) /\ VersionsMatch(h, u)
      /\ \A t \in Table : Used(u)[t] \subseteq Rows(h, t)
      /\ \A l \in u.locations : l.symbol \in Rows(h, "symbol")
  <2>1. OwnsItsSymbols(h, u)
    BY <1>0, <1>1 DEF OwnsItsSymbols
  <2>2. VersionsMatch(h, u)
    BY <1>0, <1>1 DEF VersionsMatch
  <2> QED
    BY <1>0, <1>4, <2>1, <2>2, UsedParts, Tables DEF OwnsItsSymbols
<1>7. \A r \in Rows(h, "version") :
          h.table["version"][r].file \in Rows(h, "file") \cup {NoRow}
  <2> SUFFICES ASSUME NEW r \in Rows(h, "version")
               PROVE  h.table["version"][r].file \in Rows(h, "file") \cup {NoRow}
    OBVIOUS
  <2>1. CASE r \in Rows(d, "version")
    <3>1. d.table["version"][r].file \in Rows(d, "file") \cup {NoRow}
      BY <2>1 DEF Sound, References
    <3> QED
      BY <1>0, <1>1, <1>4, <2>1, <3>1, Tables DEF Grown
  <2>2. CASE r \notin Rows(d, "version")
    BY <1>0, <1>1, <1>4, <2>2, Tables DEF NewRows
  <2> QED
    BY <2>1, <2>2
<1>8. \A r \in Rows(h, "relation") :
          /\ h.table["relation"][r].source \in Rows(h, "symbol")
          /\ h.table["relation"][r].target \in Rows(h, "symbol")
  <2> SUFFICES ASSUME NEW r \in Rows(h, "relation")
               PROVE  /\ h.table["relation"][r].source \in Rows(h, "symbol")
                      /\ h.table["relation"][r].target \in Rows(h, "symbol")
    OBVIOUS
  <2>1. CASE r \in Rows(d, "relation")
    <3>1. /\ d.table["relation"][r].source \in Rows(d, "symbol")
          /\ d.table["relation"][r].target \in Rows(d, "symbol")
      BY <2>1 DEF Sound, References
    <3> QED
      BY <1>0, <1>1, <1>4, <2>1, <3>1, Tables DEF Grown
  <2>2. CASE r \notin Rows(d, "relation")
    BY <1>0, <1>1, <1>4, <2>2, Tables DEF NewRows
  <2> QED
    BY <2>1, <2>2
<1>9. References(h)
  <2>1. ASSUME NEW q \in Units(h)
        PROVE  /\ \A t \in Table : Used(h.unit[q])[t] \subseteq Rows(h, t)
               /\ \A l \in h.unit[q].locations : l.symbol \in Rows(h, "symbol")
    BY <1>2, <1>3, <1>5, <1>6
  <2> QED
    BY <1>7, <1>8, <2>1 DEF References
<1>10. Sound(h)
  <2>1. ASSUME NEW q \in Units(h)
        PROVE  OwnsItsSymbols(h, h.unit[q]) /\ VersionsMatch(h, h.unit[q])
    BY <1>2, <1>3, <1>5, <1>6
  <2> QED
    BY <1>9, <2>1 DEF Sound
<1>11. NoOrphans(h)
  <2> SUFFICES ASSUME NEW t \in Table, NEW r \in Rows(h, t)
               PROVE  \E q \in Units(h) : r \in Used(h.unit[q])[t]
    BY DEF NoOrphans, Orphans, UsedRows
  <2>1. CASE r \in Used(u)[t]
    BY <1>2, <1>3, <2>1
  <2>2. CASE r \notin Used(u)[t]
    <3>1. r \in Rows(d, t)
      BY <1>0, <1>4, <2>2 DEF NewRows
    <3>2. PICK q \in Units(d) : r \in Used(d.unit[q])[t]
      BY <3>1 DEF NoOrphans, Orphans, UsedRows
    <3>3. q # s
      BY <1>0, <2>2, <3>2 DEF Units
    <3> QED
      BY <1>2, <1>3, <3>2, <3>3 DEF Units
  <2> QED
    BY <2>1, <2>2
<1>12. ASSUME NEW q \in Slot \ {s}, q \in Units(d)
       PROVE  Decoded(h, h.unit[q]) = Decoded(d, d.unit[q])
  <2>1. Decoded(h, d.unit[q]) = Decoded(d, d.unit[q])
    <3>1. Grown(d, g) /\ h.table = g.table
      BY <1>0, <1>1
    <3> QED
      BY <1>12, <3>1, UnitOfGrown
  <2> QED
    BY <1>2, <2>1
<1>13. Decoded(h, u) = Decoded(g, u)
  <2>1. Agree(g, h, u)
    BY <1>1 DEF Agree
  <2> QED
    BY <1>0, <2>1, DecodedKept
<1> QED
  BY <1>1, <1>2, <1>10, <1>11, <1>12, <1>13 DEF SameElsewhere

----------------------------------------------------------------------------
\* The steps that insert.

\* A commit changes nothing but the committed tables, and the other steps do
\* not change those.
LEMMA CommittedKept ==
    ASSUME Committed, UNCHANGED <<db, denoted>>, stage' # "idle"
    PROVE  Committed'
BY DEF Committed

LEMMA CacheOfTables ==
    ASSUME NEW d, NEW h, NEW c, h.table = d.table, CacheIsTrue(d, c)
    PROVE  CacheIsTrue(h, c)
BY DEF CacheIsTrue

\* Every step of an insertion adds to the current unit what it takes from
\* what is left.
LEMMA InsertStep ==
    ASSUME RowsInv, stage = "inserting", NEW u \in Unit, NEW g, NEW k,
           Addition(tx, g, current, u, tx'), CacheIsTrue(g, k),
           CacheGrown(cache, k),
           cache' = k,
           left' \in Contribution,
           Together(Decoded(g, u), left', pending[current]),
           \A y \in pending[current].symbols \ left'.symbols :
               y \in DOMAIN k["symbol"] /\ k["symbol"][y] \in u.symbols,
           UNCHANGED <<db, stage, remove, install, touched, current, pending,
                       denoted>>
    PROVE  RowsInv'
<1> PICK s : s = current
  OBVIOUS
<1> PICK d : d = tx
  OBVIOUS
<1> PICK h : h = tx'
  OBVIOUS
<1>1. /\ RowTypes /\ Sound(d) /\ Progress /\ Inserting /\ Committed
      /\ Shaped(d)
      /\ s \in Slot \ install /\ remove = {} /\ pending[s] # NoUnit
      /\ NoOrphans(d)
  <2>1. StillToPrune("inserting") = {}
    BY DEF StillToPrune
  <2> QED
    BY <2>1 DEF RowsInv, Inserting, RowTypes, NoOrphans
<1>2. /\ Shaped(h) /\ Sound(h) /\ h.table = g.table /\ h.unit[s] = u
      /\ NoOrphans(h)
      /\ SameElsewhere(d, h, s)
      /\ Decoded(h, u) = Decoded(g, u)
  <2>1. Addition(d, g, s, u, h)
    OBVIOUS
  <2>2. s \in Slot /\ Shaped(d) /\ Sound(d) /\ NoOrphans(d)
    BY <1>1
  <2> QED
    BY <2>1, <2>2, GrownSound
<1>3. RowTypes'
  BY <1>1, <1>2 DEF RowTypes
<1>4. CacheIsTrue(tx', cache')
  BY <1>2, CacheOfTables
<1>5. Progress'
  <2>1. ASSUME NEW q \in Slot, Settled(q)'
        PROVE  Says(tx', q, pending'[q])
    <3>1. q # s /\ Settled(q)
      BY <2>1 DEF Settled
    <3>2. Says(d, q, pending[q])
      BY <1>1, <3>1 DEF Progress
    <3> QED
      BY <1>2, <3>1, <3>2 DEF SameElsewhere, Says, Units
  <2>2. \A q \in install' \ remove' : tx'.unit[q] = NoUnit
    BY <1>1, <1>2 DEF SameElsewhere, Progress, RowTypes
  <2>3. /\ \A q \in install' : pending'[q] # NoUnit
        /\ \A q \in remove' \ install' : pending'[q] = NoUnit
    BY <1>1 DEF Progress
  <2> QED
    BY <2>1, <2>2, <2>3 DEF Progress
<1>6. Inserting'
  <2>2. u # NoUnit
    BY AbsentValuesAssumption
  <2>3. Together(Decoded(tx', tx'.unit[s]), left', pending'[s])
    BY <1>2
  <2>4. \A y \in pending'[s].symbols \ left'.symbols :
           y \in DOMAIN cache'["symbol"] /\ cache'["symbol"][y] \in tx'.unit[s].symbols
    BY <1>2
  <2> QED
    BY <1>1, <1>2, <2>2, <2>3, <2>4 DEF Inserting
<1>7. Committed'
  BY <1>1, CommittedKept
<1>8. stage' # "inserting" => cache' = EmptyCache
  OBVIOUS
<1>9. \A t \in Table : Orphans(tx', t) = {}
  BY <1>2 DEF NoOrphans
<1> QED
  BY <1>2, <1>3, <1>4, <1>5, <1>6, <1>7, <1>8, <1>9 DEF RowsInv

\* The place of a unit's own row.
PlaceOf(d, x) == [path |-> IF x.file = NoRow THEN NoPath
                           ELSE d.table["file"][x.file],
                  digest |-> d.table["version"][x.version].digest]

\* What sets of a unit's rows say.
InputsSaid(d, I) == {d.table["dependency"][r] : r \in I}

SymbolsSaid(d, Y) == {d.table["symbol"][r] : r \in Y}

LocationSaid(d, l) ==
    [symbol |-> d.table["symbol"][l.symbol], at |-> PlaceOf(d, l)]

LocationsSaid(d, L) == {LocationSaid(d, l) : l \in L}

EvidenceSaid(d, e) ==
    [source |-> d.table["symbol"][d.table["relation"][e.relation].source],
     target |-> d.table["symbol"][d.table["relation"][e.relation].target],
     at |-> PlaceOf(d, e)]

AllEvidenceSaid(d, E) == {EvidenceSaid(d, e) : e \in E}

LEMMA DecodedParts ==
    ASSUME NEW d, NEW u
    PROVE  /\ Decoded(d, u).inputs = InputsSaid(d, u.inputs)
           /\ Decoded(d, u).symbols = SymbolsSaid(d, u.symbols)
           /\ Decoded(d, u).locations = LocationsSaid(d, u.locations)
           /\ Decoded(d, u).evidence = AllEvidenceSaid(d, u.evidence)
BY DEF Decoded, PlaceOf, InputsSaid, SymbolsSaid, LocationSaid, LocationsSaid,
       EvidenceSaid, AllEvidenceSaid

LEMMA UsedOwn ==
    ASSUME NEW u
    PROVE  Used(u)["symbol"] = u.symbols /\ Used(u)["dependency"] = u.inputs
BY DEF Used

LEMMA SameRelations ==
    ASSUME NEW u, NEW v, u.evidence = v.evidence
    PROVE  Used(u)["relation"] = Used(v)["relation"]
BY UsedParts

LEMMA OneMoreRelation ==
    ASSUME NEW u, NEW v, NEW x, u.evidence = v.evidence \cup {x}
    PROVE  Used(u)["relation"] = Used(v)["relation"] \cup {x.relation}
<1>1. {e.relation : e \in u.evidence} =
        {e.relation : e \in v.evidence} \cup {x.relation}
  OBVIOUS
<1> QED
  BY <1>1, UsedParts

\* The files and versions used are those of the rows that have a place.
LEMMA SamePlaces ==
    ASSUME NEW u, NEW v, Placed(u) = Placed(v)
    PROVE  /\ Used(u)["version"] = Used(v)["version"]
           /\ Used(u)["file"] = Used(v)["file"]
BY UsedParts

LEMMA OneMorePlace ==
    ASSUME NEW u, NEW v, NEW x, Placed(u) = Placed(v) \cup {x}
    PROVE  /\ Used(u)["version"] = Used(v)["version"] \cup {x.version}
           /\ Used(u)["file"] = Used(v)["file"] \cup ({x.file} \ {NoRow})
<1>1. {y.version : y \in Placed(u)} =
        {y.version : y \in Placed(v)} \cup {x.version}
  OBVIOUS
<1>2. {y.file : y \in Placed(u)} = {y.file : y \in Placed(v)} \cup {x.file}
  OBVIOUS
<1> QED
  BY <1>1, <1>2, UsedParts

\* The unit being inserted.
LEMMA CurrentUnit ==
    ASSUME RowsInv, stage = "inserting"
    PROVE  /\ current \in Slot /\ current \in Units(tx)
           /\ tx.unit[current] \in Unit /\ tx.unit[current] # NoUnit
           /\ Shaped(tx) /\ Sound(tx) /\ CacheIsTrue(tx, cache)
           /\ left \in Contribution
           /\ Together(Decoded(tx, tx.unit[current]), left, pending[current])
           /\ pending[current] \in Contributions
           /\ \A y \in pending[current].symbols \ left.symbols :
                 /\ y \in DOMAIN cache["symbol"]
                 /\ cache["symbol"][y] \in tx.unit[current].symbols
<1>1. /\ current \in Slot \ install /\ pending[current] # NoUnit
      /\ tx.unit[current] # NoUnit
      /\ Together(Decoded(tx, tx.unit[current]), left, pending[current])
      /\ \A y \in pending[current].symbols \ left.symbols :
            /\ y \in DOMAIN cache["symbol"]
            /\ cache["symbol"][y] \in tx.unit[current].symbols
  BY DEF RowsInv, Inserting
<1>2. /\ Shaped(tx) /\ left \in Contribution
      /\ pending \in [Slot -> Contributions \cup {NoUnit}]
  BY DEF RowsInv, RowTypes
<1>3. Sound(tx) /\ CacheIsTrue(tx, cache)
  BY DEF RowsInv
<1>4. tx.unit \in [Slot -> Unit \cup {NoUnit}]
  BY <1>2 DEF Shaped
<1> QED
  BY <1>1, <1>2, <1>3, <1>4 DEF Units

\* One dependency.
LEMMA InsertInputStep ==
    ASSUME RowsInv, NEW i \in left.inputs, InsertInput(i)
    PROVE  RowsInv'
<1>a. PICK s, d, c, p : /\ s = current /\ d = tx /\ c = cache
                        /\ p = pending[current]
  OBVIOUS
<1>b. PICK u0 : u0 = tx.unit[current]
  OBVIOUS
<1>c. PICK g, k, r : /\ g = WithEntry(d, c, "dependency", i)
                     /\ k = Cached(d, c, "dependency", i)
                     /\ r = RowOf(d, c, "dependency", i)
  OBVIOUS
<1>d. PICK u : u = [u0 EXCEPT !.inputs = @ \cup {r}]
  OBVIOUS
<1>1. /\ s \in Slot /\ s \in Units(d) /\ u0 \in Unit /\ u0 # NoUnit
      /\ u0 = d.unit[s]
      /\ Shaped(d) /\ Sound(d) /\ CacheIsTrue(d, c)
      /\ left \in Contribution /\ Together(Decoded(d, u0), left, p)
      /\ \A y \in p.symbols \ left.symbols :
            y \in DOMAIN c["symbol"] /\ c["symbol"][y] \in u0.symbols
  BY <1>a, <1>b, CurrentUnit DEF InsertInput
<1>2. /\ stage = "inserting" /\ RoomFor(d, c, "dependency", i)
      /\ tx' = [g EXCEPT !.unit[s].inputs = @ \cup {r}]
      /\ cache' = k
      /\ left' = [left EXCEPT !.inputs = @ \ {i}]
      /\ UNCHANGED <<db, stage, remove, install, touched, current, pending,
                     denoted>>
  BY <1>a, <1>c DEF InsertInput
<1>3. i \in Entry["dependency"]
  BY <1>1, Entries DEF Contribution
<1>4. /\ Shaped(g) /\ Grown(d, g) /\ CacheIsTrue(g, k) /\ CacheGrown(c, k)
      /\ r \in Rows(g, "dependency") /\ g.table["dependency"][r] = i
      /\ \A t \in Table :
            NewRows(d, g, t) \subseteq IF t = "dependency" THEN {r} ELSE {}
  BY <1>c, <1>1, <1>2, <1>3, Interned, Tables
<1>5. /\ u \in Unit /\ u.inputs = u0.inputs \cup {r} /\ u.symbols = u0.symbols
      /\ u.locations = u0.locations /\ u.evidence = u0.evidence
  <2>1. r \in Row
    BY <1>4, Tables, RowsTyped
  <2> QED
    BY <1>d, <1>1, <2>1 DEF Unit
<1>6. /\ \A t \in Table : Used(u0)[t] \subseteq Rows(g, t)
      /\ OwnsItsSymbols(g, u0) /\ VersionsMatch(g, u0)
      /\ Decoded(g, u0) = Decoded(d, u0)
  BY <1>1, <1>4, UnitOfGrown
<1>7. /\ \A t \in Table \ {"dependency"} : Used(u)[t] = Used(u0)[t]
      /\ Used(u)["dependency"] = Used(u0)["dependency"] \cup {r}
  <2>1. Placed(u) = Placed(u0)
    BY <1>5 DEF Placed
  <2>2. /\ Used(u)["symbol"] = Used(u0)["symbol"]
        /\ Used(u)["dependency"] = Used(u0)["dependency"] \cup {r}
    BY <1>5, UsedOwn
  <2>3. Used(u)["relation"] = Used(u0)["relation"]
    BY <1>5, SameRelations
  <2>4. /\ Used(u)["version"] = Used(u0)["version"]
        /\ Used(u)["file"] = Used(u0)["file"]
    BY <2>1, SamePlaces
  <2> QED
    BY <2>2, <2>3, <2>4, Tables
<1>8. tx' = [g EXCEPT !.unit[s] = u]
  <2>1. g.unit = d.unit /\ g = [table |-> g.table, unit |-> g.unit]
    BY <1>4 DEF Grown, Shaped
  <2>2. d.unit \in [Slot -> Unit \cup {NoUnit}]
    BY <1>1 DEF Shaped
  <2> QED
    BY <1>d, <1>1, <1>2, <2>1, <2>2
<1>9. Addition(d, g, s, u, tx')
  <2>1. ASSUME NEW t \in Table
        PROVE  /\ Used(u0)[t] \subseteq Used(u)[t]
               /\ Used(u)[t] \subseteq Rows(g, t)
               /\ NewRows(d, g, t) \subseteq Used(u)[t]
    BY <1>4, <1>6, <1>7
  <2>2. NewRows(d, g, "version") = {} /\ NewRows(d, g, "relation") = {}
    BY <1>4, Tables
  <2>3. OwnsItsSymbols(g, u) /\ VersionsMatch(g, u)
    BY <1>5, <1>6 DEF OwnsItsSymbols, VersionsMatch, Placed
  <2> QED
    BY <1>1, <1>4, <1>8, <2>1, <2>2, <2>3 DEF Addition
<1>10. left' \in Contribution /\ left'.symbols = left.symbols
  BY <1>1, <1>2 DEF Contribution
<1>11. Together(Decoded(g, u), left', p)
  <2>1. /\ Decoded(g, u).inputs = Decoded(g, u0).inputs \cup {i}
        /\ Decoded(g, u).symbols = Decoded(g, u0).symbols
        /\ Decoded(g, u).locations = Decoded(g, u0).locations
        /\ Decoded(g, u).evidence = Decoded(g, u0).evidence
    <3>1. InputsSaid(g, u.inputs) = InputsSaid(g, u0.inputs) \cup {i}
      <4>1. u.inputs = u0.inputs \cup {r}
        BY <1>5
      <4>2. InputsSaid(g, u.inputs) =
               InputsSaid(g, u0.inputs) \cup {g.table["dependency"][r]}
        BY <4>1 DEF InputsSaid
      <4> QED
        BY <1>4, <4>2
    <3>2. /\ Decoded(g, u).inputs = InputsSaid(g, u.inputs)
          /\ Decoded(g, u).symbols = SymbolsSaid(g, u.symbols)
          /\ Decoded(g, u).locations = LocationsSaid(g, u.locations)
          /\ Decoded(g, u).evidence = AllEvidenceSaid(g, u.evidence)
      BY DecodedParts
    <3>3. /\ Decoded(g, u0).inputs = InputsSaid(g, u0.inputs)
          /\ Decoded(g, u0).symbols = SymbolsSaid(g, u0.symbols)
          /\ Decoded(g, u0).locations = LocationsSaid(g, u0.locations)
          /\ Decoded(g, u0).evidence = AllEvidenceSaid(g, u0.evidence)
      BY DecodedParts
    <3> QED
      BY <1>5, <3>1, <3>2, <3>3
  <2>2. /\ left'.inputs = left.inputs \ {i} /\ left'.locations = left.locations
        /\ left'.evidence = left.evidence
    BY <1>1, <1>2 DEF Contribution
  <2>3. Together(Decoded(g, u0), left, p) /\ i \in left.inputs
    BY <1>1, <1>6
  <2>4. Decoded(g, u).inputs \cup left'.inputs = p.inputs
    BY <2>1, <2>2, <2>3 DEF Together
  <2>5. /\ Decoded(g, u).symbols \cup left'.symbols = p.symbols
        /\ Decoded(g, u).locations \cup left'.locations = p.locations
        /\ Decoded(g, u).evidence \cup left'.evidence = p.evidence
    BY <1>10, <2>1, <2>2, <2>3 DEF Together
  <2> QED
    BY <2>4, <2>5 DEF Together
<1>12. \A y \in p.symbols \ left'.symbols :
           y \in DOMAIN k["symbol"] /\ k["symbol"][y] \in u.symbols
  BY <1>1, <1>4, <1>5, <1>10, Tables DEF CacheGrown
<1> QED
  <2>1. Addition(tx, g, current, u, tx') /\ CacheGrown(cache, k)
    BY <1>a, <1>4, <1>9
  <2>2. /\ Together(Decoded(g, u), left', pending[current])
        /\ \A y \in pending[current].symbols \ left'.symbols :
              y \in DOMAIN k["symbol"] /\ k["symbol"][y] \in u.symbols
    BY <1>a, <1>11, <1>12
  <2> QED
    BY <1>2, <1>4, <1>5, <1>10, <2>1, <2>2, InsertStep

\* One symbol, cached from now on.
LEMMA InsertSymbolStep ==
    ASSUME RowsInv, NEW y \in left.symbols, InsertSymbol(y)
    PROVE  RowsInv'
<1>a. PICK s, d, c, p : /\ s = current /\ d = tx /\ c = cache
                        /\ p = pending[current]
  OBVIOUS
<1>b. PICK u0 : u0 = tx.unit[current]
  OBVIOUS
<1>c. PICK g, k, r : /\ g = WithEntry(d, c, "symbol", y)
                     /\ k = Cached(d, c, "symbol", y)
                     /\ r = RowOf(d, c, "symbol", y)
  OBVIOUS
<1>d. PICK u : u = [u0 EXCEPT !.symbols = @ \cup {r}]
  OBVIOUS
<1>1. /\ s \in Slot /\ s \in Units(d) /\ u0 \in Unit /\ u0 # NoUnit
      /\ u0 = d.unit[s]
      /\ Shaped(d) /\ Sound(d) /\ CacheIsTrue(d, c)
      /\ left \in Contribution /\ Together(Decoded(d, u0), left, p)
      /\ \A z \in p.symbols \ left.symbols :
            z \in DOMAIN c["symbol"] /\ c["symbol"][z] \in u0.symbols
  BY <1>a, <1>b, CurrentUnit DEF InsertSymbol
<1>2. /\ stage = "inserting" /\ RoomFor(d, c, "symbol", y)
      /\ tx' = [g EXCEPT !.unit[s].symbols = @ \cup {r}]
      /\ cache' = k
      /\ left' = [left EXCEPT !.symbols = @ \ {y}]
      /\ UNCHANGED <<db, stage, remove, install, touched, current, pending,
                     denoted>>
  BY <1>a, <1>c DEF InsertSymbol
<1>3. y \in Entry["symbol"]
  BY <1>1, Entries DEF Contribution
<1>4. /\ Shaped(g) /\ Grown(d, g) /\ CacheIsTrue(g, k) /\ CacheGrown(c, k)
      /\ r \in Rows(g, "symbol") /\ g.table["symbol"][r] = y
      /\ y \in DOMAIN k["symbol"] /\ k["symbol"][y] = r
      /\ \A t \in Table :
            NewRows(d, g, t) \subseteq IF t = "symbol" THEN {r} ELSE {}
  BY <1>c, <1>1, <1>2, <1>3, Interned, Tables
<1>5. /\ u \in Unit /\ u.inputs = u0.inputs /\ u.symbols = u0.symbols \cup {r}
      /\ u.locations = u0.locations /\ u.evidence = u0.evidence
  <2>1. r \in Row
    BY <1>4, Tables, RowsTyped
  <2> QED
    BY <1>d, <1>1, <2>1 DEF Unit
<1>6. /\ \A t \in Table : Used(u0)[t] \subseteq Rows(g, t)
      /\ OwnsItsSymbols(g, u0) /\ VersionsMatch(g, u0)
      /\ Decoded(g, u0) = Decoded(d, u0)
  BY <1>1, <1>4, UnitOfGrown
<1>7. /\ \A t \in Table \ {"symbol"} : Used(u)[t] = Used(u0)[t]
      /\ Used(u)["symbol"] = Used(u0)["symbol"] \cup {r}
  <2>1. Placed(u) = Placed(u0)
    BY <1>5 DEF Placed
  <2>2. /\ Used(u)["symbol"] = Used(u0)["symbol"] \cup {r}
        /\ Used(u)["dependency"] = Used(u0)["dependency"]
    BY <1>5, UsedOwn
  <2>3. Used(u)["relation"] = Used(u0)["relation"]
    BY <1>5, SameRelations
  <2>4. /\ Used(u)["version"] = Used(u0)["version"]
        /\ Used(u)["file"] = Used(u0)["file"]
    BY <2>1, SamePlaces
  <2> QED
    BY <2>2, <2>3, <2>4, Tables
<1>8. tx' = [g EXCEPT !.unit[s] = u]
  <2>1. g.unit = d.unit /\ g = [table |-> g.table, unit |-> g.unit]
    BY <1>4 DEF Grown, Shaped
  <2>2. d.unit \in [Slot -> Unit \cup {NoUnit}]
    BY <1>1 DEF Shaped
  <2> QED
    BY <1>d, <1>1, <1>2, <2>1, <2>2
<1>9. Addition(d, g, s, u, tx')
  <2>1. ASSUME NEW t \in Table
        PROVE  /\ Used(u0)[t] \subseteq Used(u)[t]
               /\ Used(u)[t] \subseteq Rows(g, t)
               /\ NewRows(d, g, t) \subseteq Used(u)[t]
    BY <1>4, <1>6, <1>7
  <2>2. NewRows(d, g, "version") = {} /\ NewRows(d, g, "relation") = {}
    BY <1>4, Tables
  <2>3. OwnsItsSymbols(g, u) /\ VersionsMatch(g, u)
    BY <1>5, <1>6 DEF OwnsItsSymbols, VersionsMatch, Placed
  <2> QED
    BY <1>1, <1>4, <1>8, <2>1, <2>2, <2>3 DEF Addition
<1>10. /\ left' \in Contribution /\ left'.symbols = left.symbols \ {y}
       /\ left'.inputs = left.inputs /\ left'.locations = left.locations
       /\ left'.evidence = left.evidence
  BY <1>1, <1>2 DEF Contribution
<1>11. Together(Decoded(g, u), left', p)
  <2>1. /\ Decoded(g, u).inputs = Decoded(g, u0).inputs
        /\ Decoded(g, u).symbols = Decoded(g, u0).symbols \cup {y}
        /\ Decoded(g, u).locations = Decoded(g, u0).locations
        /\ Decoded(g, u).evidence = Decoded(g, u0).evidence
    <3>1. SymbolsSaid(g, u.symbols) = SymbolsSaid(g, u0.symbols) \cup {y}
      BY <1>4, <1>5 DEF SymbolsSaid
    <3>2. /\ Decoded(g, u).inputs = InputsSaid(g, u.inputs)
          /\ Decoded(g, u).symbols = SymbolsSaid(g, u.symbols)
          /\ Decoded(g, u).locations = LocationsSaid(g, u.locations)
          /\ Decoded(g, u).evidence = AllEvidenceSaid(g, u.evidence)
      BY DecodedParts
    <3>3. /\ Decoded(g, u0).inputs = InputsSaid(g, u0.inputs)
          /\ Decoded(g, u0).symbols = SymbolsSaid(g, u0.symbols)
          /\ Decoded(g, u0).locations = LocationsSaid(g, u0.locations)
          /\ Decoded(g, u0).evidence = AllEvidenceSaid(g, u0.evidence)
      BY DecodedParts
    <3> QED
      BY <1>5, <3>1, <3>2, <3>3
  <2>3. Together(Decoded(g, u0), left, p) /\ y \in left.symbols
    BY <1>1, <1>6
  <2>4. Decoded(g, u).symbols \cup left'.symbols = p.symbols
    BY <1>10, <2>1, <2>3 DEF Together
  <2>5. /\ Decoded(g, u).inputs \cup left'.inputs = p.inputs
        /\ Decoded(g, u).locations \cup left'.locations = p.locations
        /\ Decoded(g, u).evidence \cup left'.evidence = p.evidence
    BY <1>10, <2>1, <2>3 DEF Together
  <2> QED
    BY <2>4, <2>5 DEF Together
<1>12. \A z \in p.symbols \ left'.symbols :
           z \in DOMAIN k["symbol"] /\ k["symbol"][z] \in u.symbols
  BY <1>1, <1>4, <1>5, <1>10, Tables DEF CacheGrown
<1> QED
  <2>1. Addition(tx, g, current, u, tx') /\ CacheGrown(cache, k)
    BY <1>a, <1>4, <1>9
  <2>2. /\ Together(Decoded(g, u), left', pending[current])
        /\ \A z \in pending[current].symbols \ left'.symbols :
              z \in DOMAIN k["symbol"] /\ k["symbol"][z] \in u.symbols
    BY <1>a, <1>11, <1>12
  <2> QED
    BY <1>2, <1>4, <1>5, <1>10, <2>1, <2>2, InsertStep

\* A row bound to a file and a version says the place it was bound to.
LEMMA PlaceBound ==
    ASSUME NEW g, Shaped(g), NEW at \in Location, NEW f, NEW r,
           IF at.path = NoPath THEN f = NoRow
           ELSE f \in Rows(g, "file") /\ g.table["file"][f] = at.path,
           r \in Rows(g, "version"),
           g.table["version"][r] = [file |-> f, digest |-> at.digest],
           NEW x, x.file = f, x.version = r
    PROVE  /\ PlaceOf(g, x) = at
           /\ r \in Row /\ f \in Row \cup {NoRow}
           /\ f \in Rows(g, "file") \cup {NoRow}
<1>1. Rows(g, "file") \subseteq Row /\ Rows(g, "version") \subseteq Row
  BY Tables, RowsTyped
<1>2. at = [path |-> at.path, digest |-> at.digest]
  BY DEF Location
<1>3. /\ at.path = NoPath => f = NoRow
      /\ at.path # NoPath => f # NoRow /\ g.table["file"][f] = at.path
  BY <1>1, AbsentValuesAssumption
<1> QED
  BY <1>1, <1>2, <1>3 DEF PlaceOf

\* One location of a symbol the unit has.
LEMMA InsertLocationStep ==
    ASSUME RowsInv, NEW l \in left.locations, InsertLocation(l)
    PROVE  RowsInv'
<1>a. PICK s, d, c, p : /\ s = current /\ d = tx /\ c = cache
                        /\ p = pending[current]
  OBVIOUS
<1>b. PICK u0, at : u0 = tx.unit[current] /\ at = l.at
  OBVIOUS
<1>c. PICK d1, c1, v : /\ d1 = HasFile(d, c, at) /\ c1 = FileCached(d, c, at)
                       /\ v = VersionEntry(d, c, at)
  OBVIOUS
<1>d. PICK g, k, f, r, y :
         /\ g = WithEntry(d1, c1, "version", v)
         /\ k = Cached(d1, c1, "version", v)
         /\ f = FileRow(d, c, at)
         /\ r = RowOf(d1, c1, "version", v)
         /\ y = RowOf(d1, c1, "symbol", l.symbol)
  OBVIOUS
<1>e. PICK x : x = [symbol |-> y, file |-> f, version |-> r]
  OBVIOUS
<1>f. PICK u : u = [u0 EXCEPT !.locations = @ \cup {x}]
  OBVIOUS
<1>1. /\ s \in Slot /\ s \in Units(d) /\ u0 \in Unit /\ u0 # NoUnit
      /\ u0 = d.unit[s]
      /\ Shaped(d) /\ Sound(d) /\ CacheIsTrue(d, c)
      /\ left \in Contribution /\ Together(Decoded(d, u0), left, p)
      /\ p \in Contributions
      /\ \A z \in p.symbols \ left.symbols :
            z \in DOMAIN c["symbol"] /\ c["symbol"][z] \in u0.symbols
  BY <1>a, <1>b, CurrentUnit DEF InsertLocation
<1>2. /\ stage = "inserting" /\ l.symbol \notin left.symbols
      /\ at.path # NoPath => RoomFor(d, c, "file", at.path)
      /\ RoomFor(d1, c1, "version", v)
      /\ cache' = k
      /\ left' = [left EXCEPT !.locations = @ \ {l}]
      /\ UNCHANGED <<db, stage, remove, install, touched, current, pending,
                     denoted>>
  <2>1. /\ stage = "inserting" /\ l.symbol \notin left.symbols
        /\ left' = [left EXCEPT !.locations = @ \ {l}]
        /\ UNCHANGED <<db, stage, remove, install, touched, current, pending,
                       denoted>>
    BY DEF InsertLocation
  <2>2. /\ at.path # NoPath => RoomFor(d, c, "file", at.path)
        /\ RoomFor(d1, c1, "version", v)
        /\ cache' = k
    BY <1>a, <1>b, <1>c, <1>d DEF InsertLocation
  <2> QED
    BY <2>1, <2>2
<1>3. /\ l = [symbol |-> l.symbol, at |-> at] /\ l.symbol \in Symbol
      /\ at \in Location
  BY <1>b, <1>1 DEF Contribution
<1>4. /\ Shaped(g) /\ Grown(d, g) /\ CacheIsTrue(g, k) /\ CacheGrown(c, k)
      /\ IF at.path = NoPath THEN f = NoRow
         ELSE f \in Rows(g, "file") /\ g.table["file"][f] = at.path
      /\ r \in Rows(g, "version")
      /\ g.table["version"][r] = [file |-> f, digest |-> at.digest]
      /\ \A t \in Table : NewRows(d, g, t) \subseteq
                  CASE t = "file" -> {f} \ {NoRow}
                    [] t = "version" -> {r}
                    [] OTHER -> {}
      /\ CacheGrown(c, c1) /\ FileRow(d1, c1, at) = f
  BY <1>c, <1>d, <1>1, <1>2, <1>3, Bound
<1>5. /\ y \in u0.symbols /\ y \in Rows(g, "symbol")
      /\ g.table["symbol"][y] = l.symbol
  <2>1. l.symbol \in p.symbols
    <3>1. l \in p.locations
      BY <1>1 DEF Together
    <3> QED
      BY <1>1, <3>1, ParametersAssumption
  <2>2. l.symbol \in DOMAIN c["symbol"] /\ c["symbol"][l.symbol] \in u0.symbols
    BY <1>1, <1>2, <2>1
  <2>3. y = c["symbol"][l.symbol]
    <3>1. l.symbol \in DOMAIN c1["symbol"]
          /\ c1["symbol"][l.symbol] = c["symbol"][l.symbol]
      BY <1>4, <2>2, Tables DEF CacheGrown
    <3> QED
      BY <1>d, <3>1 DEF RowOf
  <2>4. d.table["symbol"][y] = l.symbol /\ y \in Row
    BY <1>1, <2>2, <2>3, Tables DEF CacheIsTrue
  <2>5. y \in Rows(d, "symbol")
    BY <1>3, <2>4, Entries, Tables, AbsentValuesAssumption DEF Rows
  <2> QED
    BY <1>4, <2>2, <2>3, <2>4, <2>5, Tables DEF Grown
<1>6. /\ PlaceOf(g, x) = at /\ r \in Row /\ f \in Row \cup {NoRow}
      /\ f \in Rows(g, "file") \cup {NoRow}
  <2>1. x.file = f /\ x.version = r
    BY <1>e
  <2> QED
    BY <1>3, <1>4, <2>1, PlaceBound
<1>7. /\ u \in Unit /\ u.inputs = u0.inputs /\ u.symbols = u0.symbols
      /\ u.locations = u0.locations \cup {x} /\ u.evidence = u0.evidence
  <2>1. y \in Row
    BY <1>4, <1>5, Tables, RowsTyped
  <2>2. x \in [symbol : Row, file : Row \cup {NoRow}, version : Row]
    BY <1>e, <1>6, <2>1
  <2> QED
    BY <1>f, <1>1, <2>2 DEF Unit
<1>8. /\ \A t \in Table : Used(u0)[t] \subseteq Rows(g, t)
      /\ OwnsItsSymbols(g, u0) /\ VersionsMatch(g, u0)
      /\ Decoded(g, u0) = Decoded(d, u0)
  BY <1>1, <1>4, UnitOfGrown
<1>9. Placed(u) = Placed(u0) \cup {x}
  BY <1>7 DEF Placed
<1>10. /\ Used(u)["symbol"] = Used(u0)["symbol"]
       /\ Used(u)["dependency"] = Used(u0)["dependency"]
       /\ Used(u)["relation"] = Used(u0)["relation"]
       /\ Used(u)["version"] = Used(u0)["version"] \cup {r}
       /\ Used(u)["file"] = Used(u0)["file"] \cup ({f} \ {NoRow})
  <2>1. /\ Used(u)["symbol"] = Used(u0)["symbol"]
        /\ Used(u)["dependency"] = Used(u0)["dependency"]
    BY <1>7, UsedOwn
  <2>2. Used(u)["relation"] = Used(u0)["relation"]
    BY <1>7, SameRelations
  <2>3. /\ Used(u)["version"] = Used(u0)["version"] \cup {x.version}
        /\ Used(u)["file"] = Used(u0)["file"] \cup ({x.file} \ {NoRow})
    BY <1>9, OneMorePlace
  <2>4. x.file = f /\ x.version = r
    BY <1>e
  <2> QED
    BY <2>1, <2>2, <2>3, <2>4
<1>11. tx' = [g EXCEPT !.unit[s] = u]
  <2>0. tx' = [g EXCEPT !.unit[s].locations = @ \cup {x}]
    <3>1. tx' = [WithEntry(d1, c1, "version", v) EXCEPT !.unit[s].locations = @ \cup
                  {[symbol |-> RowOf(d1, c1, "symbol", l.symbol),
                    file |-> FileRow(d1, c1, at),
                    version |-> RowOf(d1, c1, "version", v)]}]
      BY <1>a, <1>b, <1>c DEF InsertLocation
    <3> QED
      BY <1>d, <1>e, <1>4, <3>1
  <2>1. g.unit = d.unit /\ g = [table |-> g.table, unit |-> g.unit]
    BY <1>4 DEF Grown, Shaped
  <2>2. d.unit \in [Slot -> Unit \cup {NoUnit}]
    BY <1>1 DEF Shaped
  <2> QED
    BY <1>f, <1>1, <2>0, <2>1, <2>2
<1>12. Addition(d, g, s, u, tx')
  <2>1. ASSUME NEW t \in Table
        PROVE  /\ Used(u0)[t] \subseteq Used(u)[t]
               /\ Used(u)[t] \subseteq Rows(g, t)
               /\ NewRows(d, g, t) \subseteq Used(u)[t]
    BY <1>4, <1>6, <1>8, <1>10, Tables
  <2>2. NewRows(d, g, "relation") = {}
    BY <1>4, Tables
  <2>3. ASSUME NEW q \in NewRows(d, g, "version")
        PROVE  g.table["version"][q].file \in Rows(g, "file") \cup {NoRow}
    <3>1. q = r
      BY <1>4, Tables
    <3> QED
      BY <1>4, <1>6, <3>1
  <2>4. OwnsItsSymbols(g, u)
    BY <1>e, <1>5, <1>7, <1>8 DEF OwnsItsSymbols
  <2>5. VersionsMatch(g, u)
    BY <1>e, <1>4, <1>8, <1>9 DEF VersionsMatch
  <2> QED
    BY <1>1, <1>4, <1>11, <2>1, <2>2, <2>3, <2>4, <2>5 DEF Addition
<1>13. /\ left' \in Contribution /\ left'.symbols = left.symbols
       /\ left'.inputs = left.inputs /\ left'.locations = left.locations \ {l}
       /\ left'.evidence = left.evidence
  BY <1>1, <1>2 DEF Contribution
<1>14. Together(Decoded(g, u), left', p)
  <2>1. /\ Decoded(g, u).inputs = Decoded(g, u0).inputs
        /\ Decoded(g, u).symbols = Decoded(g, u0).symbols
        /\ Decoded(g, u).locations = Decoded(g, u0).locations \cup {l}
        /\ Decoded(g, u).evidence = Decoded(g, u0).evidence
    <3>1. LocationSaid(g, x) = l
      BY <1>e, <1>3, <1>5, <1>6 DEF LocationSaid
    <3>2. LocationsSaid(g, u.locations) = LocationsSaid(g, u0.locations) \cup {l}
      BY <1>7, <3>1 DEF LocationsSaid
    <3>3. /\ Decoded(g, u).inputs = InputsSaid(g, u.inputs)
          /\ Decoded(g, u).symbols = SymbolsSaid(g, u.symbols)
          /\ Decoded(g, u).locations = LocationsSaid(g, u.locations)
          /\ Decoded(g, u).evidence = AllEvidenceSaid(g, u.evidence)
      BY DecodedParts
    <3>4. /\ Decoded(g, u0).inputs = InputsSaid(g, u0.inputs)
          /\ Decoded(g, u0).symbols = SymbolsSaid(g, u0.symbols)
          /\ Decoded(g, u0).locations = LocationsSaid(g, u0.locations)
          /\ Decoded(g, u0).evidence = AllEvidenceSaid(g, u0.evidence)
      BY DecodedParts
    <3> QED
      BY <1>7, <3>2, <3>3, <3>4
  <2>2. Together(Decoded(g, u0), left, p)
    BY <1>1, <1>8
  <2>3. Decoded(g, u).locations \cup left'.locations = p.locations
    BY <1>13, <2>1, <2>2 DEF Together
  <2>4. /\ Decoded(g, u).inputs \cup left'.inputs = p.inputs
        /\ Decoded(g, u).symbols \cup left'.symbols = p.symbols
        /\ Decoded(g, u).evidence \cup left'.evidence = p.evidence
    BY <1>13, <2>1, <2>2 DEF Together
  <2> QED
    BY <2>3, <2>4 DEF Together
<1>15. \A z \in p.symbols \ left'.symbols :
           z \in DOMAIN k["symbol"] /\ k["symbol"][z] \in u.symbols
  BY <1>1, <1>4, <1>7, <1>13, Tables DEF CacheGrown
<1> QED
  <2>1. Addition(tx, g, current, u, tx') /\ CacheGrown(cache, k)
    BY <1>a, <1>4, <1>12
  <2>2. /\ Together(Decoded(g, u), left', pending[current])
        /\ \A z \in pending[current].symbols \ left'.symbols :
              z \in DOMAIN k["symbol"] /\ k["symbol"][z] \in u.symbols
    BY <1>a, <1>14, <1>15
  <2> QED
    BY <1>2, <1>4, <1>7, <1>13, <2>1, <2>2, InsertStep

\* A symbol that is in has its row in the cache.
LEMMA SymbolIsCached ==
    ASSUME RowsInv, stage = "inserting", NEW z \in pending[current].symbols,
           z \notin left.symbols
    PROVE  /\ z \in DOMAIN cache["symbol"] /\ z \in Symbol
           /\ RowOf(tx, cache, "symbol", z) = cache["symbol"][z]
           /\ cache["symbol"][z] \in tx.unit[current].symbols
           /\ cache["symbol"][z] \in Row
           /\ cache["symbol"][z] \in Rows(tx, "symbol")
           /\ tx.table["symbol"][cache["symbol"][z]] = z
<1>1. z \in DOMAIN cache["symbol"] /\ cache["symbol"][z] \in tx.unit[current].symbols
  BY CurrentUnit
<1>2. /\ z \in Entry["symbol"] /\ cache["symbol"][z] \in Row
      /\ tx.table["symbol"][cache["symbol"][z]] = z
  BY <1>1, CurrentUnit, Tables DEF CacheIsTrue
<1>3. cache["symbol"][z] \in Rows(tx, "symbol")
  BY <1>2, Tables, AbsentValuesAssumption DEF Rows
<1>4. RowOf(tx, cache, "symbol", z) = cache["symbol"][z]
  BY <1>1 DEF RowOf
<1> QED
  BY <1>1, <1>2, <1>3, <1>4, Entries

\* A store in which unit s holds one more piece of evidence.
WithEvidence(h, s, x) == [h EXCEPT !.unit[s].evidence = @ \cup {x}]

\* One piece of evidence.
LEMMA InsertEvidenceStep ==
    ASSUME RowsInv, NEW e \in left.evidence, InsertEvidence(e)
    PROVE  RowsInv'
<1>a. PICK s, d, c, p : /\ s = current /\ d = tx /\ c = cache
                        /\ p = pending[current]
  OBVIOUS
<1>b. PICK u0, at : u0 = tx.unit[current] /\ at = e.at
  OBVIOUS
<1>c. PICK y, z : /\ y = RowOf(d, c, "symbol", e.source)
                  /\ z = RowOf(d, c, "symbol", e.target)
  OBVIOUS
<1>d. PICK rel : rel = [source |-> y, target |-> z]
  OBVIOUS
<1>e. PICK g1, k1, q : /\ g1 = WithEntry(d, c, "relation", rel)
                       /\ k1 = Cached(d, c, "relation", rel)
                       /\ q = RowOf(d, c, "relation", rel)
  OBVIOUS
<1>f. PICK d1, c1, v : /\ d1 = HasFile(g1, k1, at) /\ c1 = FileCached(g1, k1, at)
                       /\ v = VersionEntry(g1, k1, at)
  OBVIOUS
<1>g. PICK g, k, f, r :
         /\ g = WithEntry(d1, c1, "version", v)
         /\ k = Cached(d1, c1, "version", v)
         /\ f = FileRow(g1, k1, at)
         /\ r = RowOf(d1, c1, "version", v)
  OBVIOUS
<1>h. PICK x : x = [relation |-> q, file |-> f, version |-> r]
  OBVIOUS
<1>i. PICK u : u = [u0 EXCEPT !.evidence = @ \cup {x}]
  OBVIOUS
<1>1. /\ s \in Slot /\ s \in Units(d) /\ u0 \in Unit /\ u0 # NoUnit
      /\ u0 = d.unit[s]
      /\ Shaped(d) /\ Sound(d) /\ CacheIsTrue(d, c)
      /\ left \in Contribution /\ Together(Decoded(d, u0), left, p)
      /\ p \in Contributions
      /\ \A w \in p.symbols \ left.symbols :
            w \in DOMAIN c["symbol"] /\ c["symbol"][w] \in u0.symbols
  BY <1>a, <1>b, CurrentUnit DEF InsertEvidence
<1>2. /\ stage = "inserting" /\ left.symbols = {}
      /\ RoomFor(d, c, "relation", rel)
      /\ at.path # NoPath => RoomFor(g1, k1, "file", at.path)
      /\ RoomFor(d1, c1, "version", v)
      /\ cache' = k
      /\ left' = [left EXCEPT !.evidence = @ \ {e}]
      /\ UNCHANGED <<db, stage, remove, install, touched, current, pending,
                     denoted>>
  <2>1. /\ stage = "inserting" /\ left.symbols = {}
        /\ left' = [left EXCEPT !.evidence = @ \ {e}]
        /\ UNCHANGED <<db, stage, remove, install, touched, current, pending,
                       denoted>>
    BY DEF InsertEvidence
  <2>2. RoomFor(d, c, "relation", rel)
    BY <1>a, <1>c, <1>d DEF InsertEvidence
  <2>3. /\ at.path # NoPath => RoomFor(g1, k1, "file", at.path)
        /\ RoomFor(d1, c1, "version", v)
        /\ cache' = k
    BY <1>a, <1>b, <1>c, <1>d, <1>e, <1>f, <1>g DEF InsertEvidence
  <2> QED
    BY <2>1, <2>2, <2>3
<1>3. /\ e = [source |-> e.source, target |-> e.target, at |-> at]
      /\ at \in Location
  BY <1>b, <1>1 DEF Contribution
<1>4. /\ y \in u0.symbols /\ y \in Rows(d, "symbol") /\ y \in Row
      /\ d.table["symbol"][y] = e.source
      /\ z \in u0.symbols /\ z \in Rows(d, "symbol") /\ z \in Row
      /\ d.table["symbol"][z] = e.target
  <2>1. e.source \in p.symbols /\ e.target \in p.symbols
    <3>1. e \in p.evidence
      BY <1>1 DEF Together
    <3> QED
      BY <1>1, <3>1, ParametersAssumption
  <2>2. /\ e.source \in pending[current].symbols /\ e.source \notin left.symbols
        /\ e.target \in pending[current].symbols /\ e.target \notin left.symbols
    BY <1>a, <1>2, <2>1
  <2>3. /\ RowOf(tx, cache, "symbol", e.source) \in tx.unit[current].symbols
        /\ RowOf(tx, cache, "symbol", e.source) \in Rows(tx, "symbol")
        /\ RowOf(tx, cache, "symbol", e.source) \in Row
        /\ tx.table["symbol"][RowOf(tx, cache, "symbol", e.source)] = e.source
    BY <1>2, <2>2, SymbolIsCached
  <2>4. /\ RowOf(tx, cache, "symbol", e.target) \in tx.unit[current].symbols
        /\ RowOf(tx, cache, "symbol", e.target) \in Rows(tx, "symbol")
        /\ RowOf(tx, cache, "symbol", e.target) \in Row
        /\ tx.table["symbol"][RowOf(tx, cache, "symbol", e.target)] = e.target
    BY <1>2, <2>2, SymbolIsCached
  <2> QED
    BY <1>a, <1>b, <1>c, <2>3, <2>4
<1>5. /\ Shaped(g1) /\ Grown(d, g1) /\ CacheIsTrue(g1, k1) /\ CacheGrown(c, k1)
      /\ q \in Rows(g1, "relation") /\ g1.table["relation"][q] = rel
      /\ \A t \in Table :
            NewRows(d, g1, t) \subseteq IF t = "relation" THEN {q} ELSE {}
      /\ rel \in DOMAIN k1["relation"] /\ k1["relation"][rel] = q
  <2>1. rel \in Entry["relation"]
    BY <1>d, <1>4, Entries
  <2> QED
    BY <1>e, <1>1, <1>2, <2>1, Interned, Tables
<1>6. /\ Shaped(g) /\ Grown(g1, g) /\ CacheIsTrue(g, k) /\ CacheGrown(k1, k)
      /\ IF at.path = NoPath THEN f = NoRow
         ELSE f \in Rows(g, "file") /\ g.table["file"][f] = at.path
      /\ r \in Rows(g, "version")
      /\ g.table["version"][r] = [file |-> f, digest |-> at.digest]
      /\ \A t \in Table : NewRows(g1, g, t) \subseteq
                  CASE t = "file" -> {f} \ {NoRow}
                    [] t = "version" -> {r}
                    [] OTHER -> {}
      /\ CacheGrown(k1, c1) /\ FileRow(d1, c1, at) = f
  BY <1>f, <1>g, <1>2, <1>3, <1>5, Bound
<1>7. /\ Grown(d, g) /\ CacheGrown(c, k)
      /\ \A t \in Table : NewRows(d, g, t) \subseteq
                  CASE t = "file" -> {f} \ {NoRow}
                    [] t = "version" -> {r}
                    [] t = "relation" -> {q}
                    [] OTHER -> {}
  <2>1. /\ Grown(d, g)
        /\ \A t \in Table : NewRows(d, g, t) \subseteq
               NewRows(d, g1, t) \cup NewRows(g1, g, t)
    BY <1>5, <1>6, GrownTransitive
  <2>2. CacheGrown(c, k)
    BY <1>5, <1>6, CacheGrownTransitive
  <2>3. ASSUME NEW t \in Table
        PROVE  NewRows(d, g, t) \subseteq
                  CASE t = "file" -> {f} \ {NoRow}
                    [] t = "version" -> {r}
                    [] t = "relation" -> {q}
                    [] OTHER -> {}
    BY <1>5, <1>6, <2>1
  <2> QED
    BY <2>1, <2>2, <2>3
<1>8. /\ q \in Rows(g, "relation") /\ q \in Row /\ g.table["relation"][q] = rel
      /\ RowOf(d1, c1, "relation", rel) = q
      /\ y \in Rows(g, "symbol") /\ g.table["symbol"][y] = e.source
      /\ z \in Rows(g, "symbol") /\ g.table["symbol"][z] = e.target
  <2>1. q \in Rows(g, "relation") /\ g.table["relation"][q] = rel
    BY <1>5, <1>6, Tables DEF Grown
  <2>2. q \in Row
    BY <1>6, <2>1, Tables, RowsTyped
  <2>3. RowOf(d1, c1, "relation", rel) = q
    BY <1>5, <1>6, Tables DEF CacheGrown, RowOf
  <2> QED
    BY <1>4, <1>7, <2>1, <2>2, <2>3, Tables DEF Grown
<1>9. /\ PlaceOf(g, x) = at /\ r \in Row /\ f \in Row \cup {NoRow}
      /\ f \in Rows(g, "file") \cup {NoRow}
  <2>1. x.file = f /\ x.version = r
    BY <1>h
  <2> QED
    BY <1>3, <1>6, <2>1, PlaceBound
<1>10. /\ u \in Unit /\ u.inputs = u0.inputs /\ u.symbols = u0.symbols
       /\ u.locations = u0.locations /\ u.evidence = u0.evidence \cup {x}
  <2>1. x \in [relation : Row, file : Row \cup {NoRow}, version : Row]
    BY <1>h, <1>8, <1>9
  <2> QED
    BY <1>i, <1>1, <2>1 DEF Unit
<1>11. /\ \A t \in Table : Used(u0)[t] \subseteq Rows(g, t)
       /\ OwnsItsSymbols(g, u0) /\ VersionsMatch(g, u0)
       /\ Decoded(g, u0) = Decoded(d, u0)
  BY <1>1, <1>7, UnitOfGrown
<1>12. Placed(u) = Placed(u0) \cup {x}
  BY <1>10 DEF Placed
<1>13. /\ Used(u)["symbol"] = Used(u0)["symbol"]
       /\ Used(u)["dependency"] = Used(u0)["dependency"]
       /\ Used(u)["relation"] = Used(u0)["relation"] \cup {q}
       /\ Used(u)["version"] = Used(u0)["version"] \cup {r}
       /\ Used(u)["file"] = Used(u0)["file"] \cup ({f} \ {NoRow})
  <2>1. /\ Used(u)["symbol"] = Used(u0)["symbol"]
        /\ Used(u)["dependency"] = Used(u0)["dependency"]
    BY <1>10, UsedOwn
  <2>2. Used(u)["relation"] = Used(u0)["relation"] \cup {x.relation}
    BY <1>10, OneMoreRelation
  <2>3. /\ Used(u)["version"] = Used(u0)["version"] \cup {x.version}
        /\ Used(u)["file"] = Used(u0)["file"] \cup ({x.file} \ {NoRow})
    BY <1>12, OneMorePlace
  <2>4. x.file = f /\ x.version = r /\ x.relation = q
    BY <1>h
  <2> QED
    BY <2>1, <2>2, <2>3, <2>4
<1>14. tx' = [g EXCEPT !.unit[s] = u]
  <2>1. tx' = [g EXCEPT !.unit[s].evidence = @ \cup {x}]
    <3>1. tx' = [WithEntry(d1, c1, "version", v) EXCEPT !.unit[s].evidence = @ \cup
                  {[relation |-> RowOf(d1, c1, "relation", rel),
                    file |-> FileRow(d1, c1, at),
                    version |-> RowOf(d1, c1, "version", v)]}]
      <4> DEFINE rel2 == [source |-> RowOf(tx, cache, "symbol", e.source),
                          target |-> RowOf(tx, cache, "symbol", e.target)]
                 g2 == WithEntry(tx, cache, "relation", rel2)
                 k2 == Cached(tx, cache, "relation", rel2)
                 d2 == HasFile(g2, k2, e.at)
                 c2 == FileCached(g2, k2, e.at)
                 v2 == VersionEntry(g2, k2, e.at)
                 x2 == [relation |-> RowOf(d2, c2, "relation", rel2),
                        file |-> FileRow(d2, c2, e.at),
                        version |-> RowOf(d2, c2, "version", v2)]
      <4>1. tx' = WithEvidence(WithEntry(d2, c2, "version", v2), current, x2)
        BY Zenon DEF InsertEvidence, WithEvidence
      <4>2. rel2 = rel
        BY <1>a, <1>c, <1>d
      <4>3. g2 = g1 /\ k2 = k1
        BY <1>a, <1>e, <4>2
      <4>4. d2 = d1 /\ c2 = c1 /\ v2 = v
        BY <1>b, <1>f, <4>3
      <4>5. x2 = [relation |-> RowOf(d1, c1, "relation", rel),
                  file |-> FileRow(d1, c1, at),
                  version |-> RowOf(d1, c1, "version", v)]
        BY <1>b, <4>2, <4>4
      <4> HIDE DEF x2, v2, c2, d2, k2, g2, rel2
      <4>6. tx' = WithEvidence(WithEntry(d1, c1, "version", v), s,
                  [relation |-> RowOf(d1, c1, "relation", rel),
                   file |-> FileRow(d1, c1, at),
                   version |-> RowOf(d1, c1, "version", v)])
        BY <1>a, <4>1, <4>4, <4>5
      <4> QED
        BY <4>6, Zenon DEF WithEvidence
    <3> QED
      BY <1>g, <1>h, <1>6, <1>8, <3>1
  <2>2. g.unit = d.unit /\ g = [table |-> g.table, unit |-> g.unit]
    BY <1>6, <1>7 DEF Grown, Shaped
  <2>3. d.unit \in [Slot -> Unit \cup {NoUnit}]
    BY <1>1 DEF Shaped
  <2> QED
    BY <1>i, <1>1, <2>1, <2>2, <2>3
<1>15. Addition(d, g, s, u, tx')
  <2>1. ASSUME NEW t \in Table
        PROVE  /\ Used(u0)[t] \subseteq Used(u)[t]
               /\ Used(u)[t] \subseteq Rows(g, t)
               /\ NewRows(d, g, t) \subseteq Used(u)[t]
    BY <1>6, <1>7, <1>8, <1>9, <1>11, <1>13, Tables
  <2>2. ASSUME NEW w \in NewRows(d, g, "relation")
        PROVE  /\ g.table["relation"][w].source \in Rows(g, "symbol")
               /\ g.table["relation"][w].target \in Rows(g, "symbol")
    <3>1. w = q
      BY <1>7, Tables
    <3> QED
      BY <1>d, <1>8, <3>1
  <2>3. ASSUME NEW w \in NewRows(d, g, "version")
        PROVE  g.table["version"][w].file \in Rows(g, "file") \cup {NoRow}
    <3>1. w = r
      BY <1>7, Tables
    <3> QED
      BY <1>6, <1>9, <3>1
  <2>4. OwnsItsSymbols(g, u)
    BY <1>d, <1>h, <1>4, <1>8, <1>10, <1>11 DEF OwnsItsSymbols
  <2>5. VersionsMatch(g, u)
    BY <1>h, <1>6, <1>11, <1>12 DEF VersionsMatch
  <2> QED
    BY <1>1, <1>6, <1>7, <1>14, <2>1, <2>2, <2>3, <2>4, <2>5 DEF Addition
<1>16. /\ left' \in Contribution /\ left'.symbols = left.symbols
       /\ left'.inputs = left.inputs /\ left'.locations = left.locations
       /\ left'.evidence = left.evidence \ {e}
  BY <1>1, <1>2 DEF Contribution
<1>17. Together(Decoded(g, u), left', p)
  <2>1. /\ Decoded(g, u).inputs = Decoded(g, u0).inputs
        /\ Decoded(g, u).symbols = Decoded(g, u0).symbols
        /\ Decoded(g, u).locations = Decoded(g, u0).locations
        /\ Decoded(g, u).evidence = Decoded(g, u0).evidence \cup {e}
    <3>1. EvidenceSaid(g, x) = e
      <4>1. x.relation = q
        BY <1>h
      <4>2. rel.source = y /\ rel.target = z
        BY <1>d
      <4> QED
        BY <1>3, <1>8, <1>9, <4>1, <4>2 DEF EvidenceSaid
    <3>2. AllEvidenceSaid(g, u.evidence) = AllEvidenceSaid(g, u0.evidence) \cup {e}
      BY <1>10, <3>1 DEF AllEvidenceSaid
    <3>3. /\ Decoded(g, u).inputs = InputsSaid(g, u.inputs)
          /\ Decoded(g, u).symbols = SymbolsSaid(g, u.symbols)
          /\ Decoded(g, u).locations = LocationsSaid(g, u.locations)
          /\ Decoded(g, u).evidence = AllEvidenceSaid(g, u.evidence)
      BY DecodedParts
    <3>4. /\ Decoded(g, u0).inputs = InputsSaid(g, u0.inputs)
          /\ Decoded(g, u0).symbols = SymbolsSaid(g, u0.symbols)
          /\ Decoded(g, u0).locations = LocationsSaid(g, u0.locations)
          /\ Decoded(g, u0).evidence = AllEvidenceSaid(g, u0.evidence)
      BY DecodedParts
    <3> QED
      BY <1>10, <3>2, <3>3, <3>4
  <2>2. Together(Decoded(g, u0), left, p)
    BY <1>1, <1>11
  <2>3. Decoded(g, u).evidence \cup left'.evidence = p.evidence
    BY <1>16, <2>1, <2>2 DEF Together
  <2>4. /\ Decoded(g, u).inputs \cup left'.inputs = p.inputs
        /\ Decoded(g, u).symbols \cup left'.symbols = p.symbols
        /\ Decoded(g, u).locations \cup left'.locations = p.locations
    BY <1>16, <2>1, <2>2 DEF Together
  <2> QED
    BY <2>3, <2>4 DEF Together
<1>18. \A w \in p.symbols \ left'.symbols :
           w \in DOMAIN k["symbol"] /\ k["symbol"][w] \in u.symbols
  BY <1>1, <1>7, <1>10, <1>16, Tables DEF CacheGrown
<1> QED
  <2>1. Addition(tx, g, current, u, tx') /\ CacheGrown(cache, k)
    BY <1>a, <1>7, <1>15
  <2>2. /\ Together(Decoded(g, u), left', pending[current])
        /\ \A w \in pending[current].symbols \ left'.symbols :
              w \in DOMAIN k["symbol"] /\ k["symbol"][w] \in u.symbols
    BY <1>a, <1>17, <1>18
  <2> QED
    BY <1>2, <1>6, <1>10, <1>16, <2>1, <2>2, InsertStep

----------------------------------------------------------------------------
\* Pruning.

\* What a pruning statement asks is whether a unit uses the row.
LEMMA StillUsedMeansUsed ==
    ASSUME NEW d, Sound(d), NEW t \in Table, NEW r
    PROVE  StillUsed(d, t, r) <=> r \in UsedRows(d, t)
<1>1. CASE t # "version"
  BY <1>1 DEF StillUsed, UsedRows
<1>2. CASE t = "version"
  <2>1. StillUsed(d, t, r) <=> \E s \in Units(d) : \E x \in Placed(d.unit[s]) :
            x.version = r /\ x.file = d.table["version"][r].file
    BY <1>2 DEF StillUsed, PlacedRows
  <2>2. r \in UsedRows(d, t) <=> \E s \in Units(d) :
            \E x \in Placed(d.unit[s]) : x.version = r
    <3>1. \A s \in Units(d) : Used(d.unit[s])["version"] =
             {x.version : x \in Placed(d.unit[s])}
      BY UsedParts
    <3>2. r \in UsedRows(d, t) <=>
              \E s \in Units(d) : r \in Used(d.unit[s])["version"]
      BY <1>2, Zenon DEF UsedRows
    <3>3. \A s \in Units(d) : r \in Used(d.unit[s])["version"] <=>
              \E x \in Placed(d.unit[s]) : x.version = r
      BY <3>1, Zenon
    <3> QED
      BY <3>2, <3>3, Zenon
  <2>3. \A s \in Units(d) : \A x \in Placed(d.unit[s]) :
            d.table["version"][x.version].file = x.file
    BY DEF Sound, VersionsMatch
  <2> QED
    BY <2>1, <2>2, <2>3
<1> QED
  BY <1>1, <1>2

\* A pruning statement deletes no row a unit uses, and so it breaks no
\* reference and changes what no unit says, provided that the relations left
\* when symbols go, and the versions left when files go, are all in use.
LEMMA PrunedSound ==
    ASSUME NEW d, Shaped(d), Sound(d), NEW t \in Table, NEW rows, NEW h,
           h = Pruned(d, t, rows),
           t = "symbol" => Orphans(d, "relation") = {},
           t = "file" => Orphans(d, "version") = {}
    PROVE  /\ Shaped(h) /\ Sound(h) /\ h.unit = d.unit
           /\ \A y \in Table \ {t} : Orphans(h, y) = Orphans(d, y)
           /\ Orphans(h, t) \subseteq Orphans(d, t) \ rows
           /\ \A s \in Units(d) : Decoded(h, d.unit[s]) = Decoded(d, d.unit[s])
<1>1. /\ h.unit = d.unit /\ h = [table |-> h.table, unit |-> h.unit]
      /\ h.table = [y \in Table |-> h.table[y]]
      /\ \A y \in Table \ {t} : h.table[y] = d.table[y]
      /\ h.table[t] = [r \in Row |-> IF r \in rows /\ ~StillUsed(d, t, r)
                                     THEN NoEntry ELSE d.table[t][r]]
  <2>1. /\ d = [table |-> d.table, unit |-> d.unit]
        /\ d.table = [y \in Table |-> d.table[y]]
    BY DEF Shaped
  <2> DEFINE F == [r \in Row |-> IF r \in rows /\ ~StillUsed(d, t, r)
                                 THEN NoEntry ELSE d.table[t][r]]
  <2>2. h = [d EXCEPT !.table[t] = F]
    BY DEF Pruned
  <2> HIDE DEF F
  <2>3. /\ h.unit = d.unit /\ h = [table |-> h.table, unit |-> h.unit]
        /\ h.table = [y \in Table |-> h.table[y]]
        /\ \A y \in Table \ {t} : h.table[y] = d.table[y]
        /\ h.table[t] = F
    BY <2>1, <2>2
  <2> QED
    BY <2>3 DEF F
<1>2. \A r \in Row : StillUsed(d, t, r) <=> r \in UsedRows(d, t)
  BY StillUsedMeansUsed
<1>3. \A r \in Row : h.table[t][r] =
          IF r \in rows /\ r \notin UsedRows(d, t) THEN NoEntry ELSE d.table[t][r]
  BY <1>1, <1>2
<1>4. Shaped(h)
  <2>1. \A r \in Row : h.table[t][r] \in Entry[t] \cup {NoEntry}
    BY <1>3 DEF Shaped
  <2>2. h.table[t] \in [Row -> Entry[t] \cup {NoEntry}]
    BY <1>1, <2>1
  <2> QED
    BY <1>1, <2>2 DEF Shaped
<1>5. /\ \A y \in Table : Rows(h, y) \subseteq Rows(d, y)
      /\ \A y \in Table : \A r \in Rows(h, y) : h.table[y][r] = d.table[y][r]
      /\ \A y \in Table \ {t} : Rows(h, y) = Rows(d, y)
  BY <1>1, <1>3 DEF Rows
<1>6. \A y \in Table : \A r \in Rows(d, y) : r \in UsedRows(d, y) =>
          r \in Rows(h, y) /\ h.table[y][r] = d.table[y][r]
  BY <1>1, <1>3 DEF Rows
<1>7. Units(h) = Units(d)
  BY <1>1 DEF Units
<1>8. ASSUME NEW s \in Units(d)
      PROVE  /\ \A y \in Table : Used(d.unit[s])[y] \subseteq Rows(h, y)
             /\ OwnsItsSymbols(h, d.unit[s]) /\ VersionsMatch(h, d.unit[s])
             /\ Decoded(h, d.unit[s]) = Decoded(d, d.unit[s])
             /\ \A l \in d.unit[s].locations : l.symbol \in Rows(h, "symbol")
  <2>1. /\ OwnsItsSymbols(d, d.unit[s]) /\ VersionsMatch(d, d.unit[s])
        /\ \A y \in Table : Used(d.unit[s])[y] \subseteq Rows(d, y)
    BY DEF Sound, References
  <2>2. \A y \in Table : Used(d.unit[s])[y] \subseteq UsedRows(d, y)
    BY DEF UsedRows
  <2>3. \A y \in Table : Used(d.unit[s])[y] \subseteq Rows(h, y)
    BY <1>6, <2>1, <2>2
  <2>4. Agree(d, h, d.unit[s])
    BY <1>5, <2>3 DEF Agree
  <2>5. OwnsItsSymbols(h, d.unit[s]) /\ VersionsMatch(h, d.unit[s])
    BY <2>1, <2>4, OwnAsBefore
  <2>6. Decoded(h, d.unit[s]) = Decoded(d, d.unit[s])
    BY <2>1, <2>4, DecodedKept
  <2>7. \A l \in d.unit[s].locations : l.symbol \in Rows(h, "symbol")
    BY <2>1, <2>3, UsedOwn, Tables DEF OwnsItsSymbols
  <2> QED
    BY <2>3, <2>5, <2>6, <2>7
<1>9. ASSUME NEW r \in Rows(h, "relation")
      PROVE  /\ h.table["relation"][r].source \in Rows(h, "symbol")
             /\ h.table["relation"][r].target \in Rows(h, "symbol")
  <2>1. /\ r \in Rows(d, "relation")
        /\ h.table["relation"][r] = d.table["relation"][r]
    BY <1>5, Tables
  <2>2. /\ d.table["relation"][r].source \in Rows(d, "symbol")
        /\ d.table["relation"][r].target \in Rows(d, "symbol")
    BY <2>1 DEF Sound, References
  <2>3. CASE t # "symbol"
    BY <1>5, <2>1, <2>2, <2>3, Tables
  <2>4. CASE t = "symbol"
    <3>1. r \in UsedRows(d, "relation")
      BY <2>1, <2>4 DEF Orphans
    <3>2. PICK s \in Units(d) : r \in Used(d.unit[s])["relation"]
      BY <3>1 DEF UsedRows
    <3>3. PICK e \in d.unit[s].evidence : e.relation = r
      BY <3>2, UsedParts
    <3>4. /\ d.table["relation"][r].source \in d.unit[s].symbols
          /\ d.table["relation"][r].target \in d.unit[s].symbols
      BY <3>3 DEF Sound, OwnsItsSymbols
    <3> QED
      BY <1>8, <2>1, <3>4, UsedOwn, Tables
  <2> QED
    BY <2>3, <2>4
<1>10. ASSUME NEW r \in Rows(h, "version")
       PROVE  h.table["version"][r].file \in Rows(h, "file") \cup {NoRow}
  <2>1. /\ r \in Rows(d, "version")
        /\ h.table["version"][r] = d.table["version"][r]
    BY <1>5, Tables
  <2>2. d.table["version"][r].file \in Rows(d, "file") \cup {NoRow}
    BY <2>1 DEF Sound, References
  <2>3. CASE t # "file"
    BY <1>5, <2>1, <2>2, <2>3, Tables
  <2>4. CASE t = "file"
    <3>1. r \in UsedRows(d, "version")
      BY <2>1, <2>4 DEF Orphans
    <3>2. PICK s \in Units(d) : r \in Used(d.unit[s])["version"]
      BY <3>1 DEF UsedRows
    <3>3. PICK x \in Placed(d.unit[s]) : x.version = r
      BY <3>2, UsedParts
    <3>4. d.table["version"][r].file = x.file
      BY <3>3 DEF Sound, VersionsMatch
    <3>5. x.file # NoRow => x.file \in Used(d.unit[s])["file"]
      BY UsedParts
    <3> QED
      BY <1>8, <2>1, <3>4, <3>5, Tables
  <2> QED
    BY <2>3, <2>4
<1>11. Sound(h)
  <2>1. References(h)
    BY <1>1, <1>7, <1>8, <1>9, <1>10 DEF References
  <2> QED
    BY <1>1, <1>7, <1>8, <2>1 DEF Sound
<1>12. \A y \in Table : UsedRows(h, y) = UsedRows(d, y)
  BY <1>1, <1>7 DEF UsedRows
<1>13. \A y \in Table \ {t} : Orphans(h, y) = Orphans(d, y)
  BY <1>5, <1>12 DEF Orphans
<1>14. Orphans(h, t) \subseteq Orphans(d, t) \ rows
  <2> SUFFICES ASSUME NEW r \in Orphans(h, t)
               PROVE  r \in Orphans(d, t) /\ r \notin rows
    OBVIOUS
  <2>1. r \in Rows(h, t) /\ r \notin UsedRows(d, t)
    BY <1>12 DEF Orphans
  <2>2. r \in Rows(d, t) /\ h.table[t][r] # NoEntry /\ r \in Row
    BY <1>5, <2>1 DEF Rows
  <2> QED
    BY <1>3, <2>1, <2>2 DEF Orphans
<1> QED
  BY <1>1, <1>4, <1>8, <1>11, <1>13, <1>14

----------------------------------------------------------------------------
\* The other steps.

LEMMA EmptyCacheIsTrue ==
    ASSUME NEW d
    PROVE  CacheIsTrue(d, EmptyCache)
BY DEF CacheIsTrue, EmptyCache

\* At these stages every row has a user.
LEMMA SettledTables ==
    ASSUME RowsInv, stage \in {"idle", "removing", "inserting"}
    PROVE  NoOrphans(tx)
<1>1. StillToPrune(stage) = {}
  BY DEF StillToPrune
<1> QED
  BY <1>1 DEF RowsInv, NoOrphans

LEMMA SameTablesSay ==
    ASSUME NEW d, NEW h, h.table = d.table, Sound(d), NEW q \in Units(d)
    PROVE  /\ \A t \in Table : Used(d.unit[q])[t] \subseteq Rows(h, t)
           /\ OwnsItsSymbols(h, d.unit[q]) /\ VersionsMatch(h, d.unit[q])
           /\ Decoded(h, d.unit[q]) = Decoded(d, d.unit[q])
<1>1. Grown(d, d)
  BY DEF Grown
<1> QED
  BY <1>1, UnitOfGrown

\* BEGIN of a publication.
LEMMA BeginStep ==
    ASSUME RowsInv, NEW I \in SUBSET Slot, NEW R \in SUBSET Slot,
           NEW i \in [I -> Contributions], Begin(i, R)
    PROVE  RowsInv'
<1>1. /\ stage = "idle" /\ I \cap R = {} /\ cache' = EmptyCache
      /\ stage' = "removing" /\ remove' = I \cup R /\ install' = I
      /\ pending' = [s \in Slot |-> IF s \in I THEN i[s]
                                    ELSE IF s \in R THEN NoUnit ELSE denoted[s]]
      /\ UNCHANGED <<db, tx, touched, current, left, denoted>>
  BY DEF Begin, NewCache
<1>2. /\ RowTypes /\ Sound(tx) /\ Committed /\ tx = db /\ pending = denoted
  BY <1>1 DEF RowsInv, Committed
<1>3. NoUnit \notin Contributions
  BY ParametersAssumption, AbsentValuesAssumption
<1>4. RowTypes'
  <2>1. pending' \in [Slot -> Contributions \cup {NoUnit}]
    BY <1>1, <1>2 DEF RowTypes
  <2> QED
    BY <1>1, <1>2, <2>1 DEF RowTypes
<1>5. Progress'
  <2>1. ASSUME NEW s \in Slot, Settled(s)'
        PROVE  Says(tx', s, pending'[s])
    <3>1. s \notin I \cup R
      BY <1>1, <2>1 DEF Settled
    <3>2. pending'[s] = denoted[s] /\ Says(db, s, denoted[s])
      BY <1>1, <1>2, <3>1 DEF Committed
    <3> QED
      BY <1>1, <1>2, <3>2
  <2>2. install' \ remove' = {} /\ remove' \ install' = R
    BY <1>1
  <2>3. \A s \in install' : pending'[s] # NoUnit
    BY <1>1, <1>3
  <2>4. \A s \in remove' \ install' : pending'[s] = NoUnit
    BY <1>1, <2>2
  <2> QED
    BY <2>1, <2>2, <2>3, <2>4 DEF Progress
<1>6. Inserting'
  BY <1>1 DEF Inserting
<1>7. Committed'
  BY <1>1, <1>2, CommittedKept
<1>8. \A t \in Table : Orphans(tx', t) = {}
  BY <1>1, SettledTables DEF NoOrphans
<1>9. CacheIsTrue(tx', cache')
  BY <1>1, EmptyCacheIsTrue
<1> QED
  BY <1>1, <1>2, <1>4, <1>5, <1>6, <1>7, <1>8, <1>9 DEF RowsInv

\* A unit deleted: what only it used has no user left, and is noted.
LEMMA DeleteUnitStep ==
    ASSUME RowsInv, NEW s \in Slot, DeleteUnit(s)
    PROVE  RowsInv'
<1>a. PICK d, h : d = tx /\ h = tx'
  OBVIOUS
<1>1. /\ stage = "removing" /\ s \in remove /\ s \in Units(d)
      /\ touched' = Used(d.unit[s])
      /\ h = [d EXCEPT !.unit[s] = NoUnit]
      /\ remove' = remove \ {s} /\ stage' = "relation"
      /\ UNCHANGED <<db, cache, install, current, left, pending, denoted>>
  BY <1>a DEF DeleteUnit, PruneOrder
<1>2. /\ RowTypes /\ Shaped(d) /\ Sound(d) /\ Progress /\ Committed
      /\ cache = EmptyCache /\ NoOrphans(d)
  BY <1>a, <1>1, SettledTables DEF RowsInv, RowTypes
<1>3. /\ h.table = d.table /\ h.unit[s] = NoUnit
      /\ \A q \in Slot \ {s} : h.unit[q] = d.unit[q]
      /\ Shaped(h)
  <2>1. /\ d = [table |-> d.table, unit |-> d.unit]
        /\ d.unit \in [Slot -> Unit \cup {NoUnit}]
    BY <1>2 DEF Shaped
  <2>2. h = [table |-> d.table, unit |-> [d.unit EXCEPT ![s] = NoUnit]]
    BY <1>1, <2>1
  <2> QED
    BY <1>2, <2>1, <2>2 DEF Shaped
<1>4. Units(h) = Units(d) \ {s}
  BY <1>3 DEF Units
<1>5. \A t \in Table : Rows(h, t) = Rows(d, t)
  BY <1>3 DEF Rows
<1>6. ASSUME NEW q \in Units(h)
      PROVE  /\ h.unit[q] = d.unit[q] /\ q \in Units(d)
             /\ \A t \in Table : Used(d.unit[q])[t] \subseteq Rows(h, t)
             /\ OwnsItsSymbols(h, d.unit[q]) /\ VersionsMatch(h, d.unit[q])
             /\ Decoded(h, d.unit[q]) = Decoded(d, d.unit[q])
             /\ \A l \in d.unit[q].locations : l.symbol \in Rows(h, "symbol")
  <2>1. q \in Units(d) /\ h.unit[q] = d.unit[q]
    BY <1>3, <1>4 DEF Units
  <2>2. /\ \A t \in Table : Used(d.unit[q])[t] \subseteq Rows(h, t)
        /\ OwnsItsSymbols(h, d.unit[q]) /\ VersionsMatch(h, d.unit[q])
        /\ Decoded(h, d.unit[q]) = Decoded(d, d.unit[q])
    BY <1>2, <1>3, <2>1, SameTablesSay
  <2>3. \A l \in d.unit[q].locations : l.symbol \in Rows(h, "symbol")
    BY <1>5, <2>1, <1>2, Tables DEF Sound, References
  <2> QED
    BY <2>1, <2>2, <2>3
<1>7. Sound(h)
  <2>1. References(h)
    BY <1>2, <1>3, <1>5, <1>6, Tables DEF Sound, References
  <2> QED
    BY <1>6, <2>1 DEF Sound
<1>8. ASSUME NEW t \in Table
      PROVE  Orphans(h, t) \subseteq Used(d.unit[s])[t]
  <2> SUFFICES ASSUME NEW r \in Orphans(h, t), r \notin Used(d.unit[s])[t]
               PROVE  FALSE
    OBVIOUS
  <2>1. r \in UsedRows(d, t)
    BY <1>2, <1>5 DEF NoOrphans, Orphans
  <2>2. PICK q \in Units(d) : r \in Used(d.unit[q])[t]
    BY <2>1 DEF UsedRows
  <2>3. q \in Units(h) /\ h.unit[q] = d.unit[q]
    BY <1>3, <1>4, <2>2 DEF Units
  <2> QED
    BY <2>2, <2>3 DEF Orphans, UsedRows
<1>9. StillToPrune("relation") = Table
  BY DEF StillToPrune
<1>10. RowTypes'
  BY <1>a, <1>1, <1>2, <1>3, Tables DEF RowTypes
<1>11. Progress'
  <2>1. ASSUME NEW q \in Slot, Settled(q)'
        PROVE  Says(h, q, pending[q])
    <3>1. q \notin (remove \ {s}) \cup install
      BY <1>1, <2>1 DEF Settled
    <3>2. CASE q = s
      BY <1>1, <1>2, <1>3, <3>1, <3>2 DEF Progress, Says
    <3>3. CASE q # s
      <4>1. Says(d, q, pending[q])
        BY <1>a, <1>1, <1>2, <3>1, <3>3 DEF Progress, Settled
      <4> QED
        BY <1>3, <1>6, <3>3, <4>1 DEF Says, Units
    <3> QED
      BY <3>2, <3>3
  <2>2. \A q \in install \ (remove \ {s}) : h.unit[q] = NoUnit
    BY <1>a, <1>2, <1>3 DEF Progress, RowTypes
  <2>3. /\ \A q \in install : pending[q] # NoUnit
        /\ \A q \in (remove \ {s}) \ install : pending[q] = NoUnit
    BY <1>2 DEF Progress
  <2> QED
    BY <1>a, <1>1, <2>1, <2>2, <2>3 DEF Progress
<1>12. Inserting'
  BY <1>1 DEF Inserting
<1>13. Committed'
  BY <1>1, <1>2, CommittedKept
<1>14. CacheIsTrue(tx', cache')
  BY <1>1, <1>2, EmptyCacheIsTrue
<1>15. \A t \in Table : Orphans(tx', t) \subseteq
          IF t \in StillToPrune(stage') THEN touched'[t] ELSE {}
  BY <1>a, <1>1, <1>8, <1>9
<1>16. Sound(tx')
  BY <1>a, <1>7
<1>17. stage' # "inserting" => cache' = EmptyCache
  BY <1>1, <1>2
<1> QED
  BY <1>10, <1>11, <1>12, <1>13, <1>14, <1>15, <1>16, <1>17 DEF RowsInv

\* A slot without a unit.
LEMMA NothingToDeleteStep ==
    ASSUME RowsInv, NEW s \in Slot, NothingToDelete(s)
    PROVE  RowsInv'
<1>1. /\ stage = "removing" /\ s \in remove /\ tx.unit[s] = NoUnit
      /\ remove' = remove \ {s}
      /\ UNCHANGED <<db, tx, cache, stage, install, touched, current, left,
                     pending, denoted>>
  BY DEF NothingToDelete, Units
<1>2. RowTypes /\ Sound(tx) /\ Progress /\ Committed /\ cache = EmptyCache
  BY <1>1 DEF RowsInv
<1>3. RowTypes'
  BY <1>1, <1>2 DEF RowTypes
<1>4. Progress'
  <2>1. ASSUME NEW q \in Slot, Settled(q)'
        PROVE  Says(tx, q, pending[q])
    <3>1. CASE q = s
      <4>1. s \in remove \ install
        BY <1>1, <2>1, <3>1 DEF Settled
      <4> QED
        BY <1>1, <1>2, <3>1, <4>1 DEF Progress, Says
    <3>2. CASE q # s
      BY <1>1, <1>2, <2>1, <3>2 DEF Progress, Settled
    <3> QED
      BY <3>1, <3>2
  <2> QED
    BY <1>1, <1>2, <2>1 DEF Progress
<1>5. Inserting'
  BY <1>1 DEF Inserting
<1>6. Committed'
  BY <1>1, <1>2, CommittedKept
<1>7. \A t \in Table : Orphans(tx', t) = {}
  BY <1>1, SettledTables DEF NoOrphans
<1>8. CacheIsTrue(tx', cache')
  BY <1>1, <1>2, EmptyCacheIsTrue
<1> QED
  BY <1>1, <1>2, <1>3, <1>4, <1>5, <1>6, <1>7, <1>8 DEF RowsInv

\* Where each pruning statement stands.
LEMMA PruneStages ==
    ASSUME NEW k \in DOMAIN PruneOrder
    PROVE  /\ PruneOrder[k] \in Table
           /\ PruneOrder[k] \in StillToPrune(PruneOrder[k])
           /\ PruneOrder[k] = "symbol" =>
                 "relation" \notin StillToPrune(PruneOrder[k])
           /\ PruneOrder[k] = "file" =>
                 "version" \notin StillToPrune(PruneOrder[k])
           /\ k = Len(PruneOrder) => StillToPrune(PruneOrder[k]) = {PruneOrder[k]}
           /\ k # Len(PruneOrder) =>
                 /\ PruneOrder[k + 1] \in Table
                 /\ StillToPrune(PruneOrder[k + 1]) =
                      StillToPrune(PruneOrder[k]) \ {PruneOrder[k]}
<1>1. k \in {1, 2, 3, 4, 5} /\ Len(PruneOrder) = 5
  BY DEF PruneOrder
<1>2. /\ PruneOrder[1] = "relation" /\ PruneOrder[2] = "symbol"
      /\ PruneOrder[3] = "version" /\ PruneOrder[4] = "dependency"
      /\ PruneOrder[5] = "file"
  BY DEF PruneOrder
<1>3. /\ StillToPrune("relation") = Table
      /\ StillToPrune("symbol") = {"symbol", "version", "dependency", "file"}
      /\ StillToPrune("version") = {"version", "dependency", "file"}
      /\ StillToPrune("dependency") = {"dependency", "file"}
      /\ StillToPrune("file") = {"file"}
  BY DEF StillToPrune
<1>4. CASE k = 1
  BY <1>1, <1>2, <1>3, <1>4 DEF Table
<1>5. CASE k = 2
  BY <1>1, <1>2, <1>3, <1>5 DEF Table
<1>6. CASE k = 3
  BY <1>1, <1>2, <1>3, <1>6 DEF Table
<1>7. CASE k = 4
  BY <1>1, <1>2, <1>3, <1>7 DEF Table
<1>8. CASE k = 5
  BY <1>1, <1>2, <1>3, <1>8 DEF Table
<1> QED
  BY <1>1, <1>4, <1>5, <1>6, <1>7, <1>8

\* One pruning statement.
LEMMA PruneStep ==
    ASSUME RowsInv, NEW k \in DOMAIN PruneOrder, Prune(k)
    PROVE  RowsInv'
<1>a. PICK d, h, t : d = tx /\ h = tx' /\ t = PruneOrder[k]
  OBVIOUS
<1>1. /\ stage = t /\ h = Pruned(d, t, touched[t])
      /\ k = Len(PruneOrder) => stage' = "removing"
      /\ k # Len(PruneOrder) => stage' = PruneOrder[k + 1] /\ touched' = touched
      /\ UNCHANGED <<db, cache, remove, install, current, left, pending,
                     denoted>>
  BY <1>a DEF Prune
<1>2. /\ t \in Table /\ t \in StillToPrune(t)
      /\ t = "symbol" => "relation" \notin StillToPrune(t)
      /\ t = "file" => "version" \notin StillToPrune(t)
      /\ k = Len(PruneOrder) => StillToPrune(t) = {t}
      /\ k # Len(PruneOrder) =>
            /\ PruneOrder[k + 1] \in Table
            /\ StillToPrune(PruneOrder[k + 1]) = StillToPrune(t) \ {t}
  BY <1>a, PruneStages
<1>3. t # "inserting" /\ t # "idle"
  BY <1>2 DEF Table
<1>4. /\ RowTypes /\ Shaped(d) /\ Sound(d) /\ Progress /\ Committed
      /\ cache = EmptyCache
      /\ \A y \in Table : Orphans(d, y) \subseteq
            IF y \in StillToPrune(t) THEN touched[y] ELSE {}
  BY <1>a, <1>1, <1>3 DEF RowsInv, RowTypes
<1>5. /\ Shaped(h) /\ Sound(h) /\ h.unit = d.unit
      /\ \A y \in Table \ {t} : Orphans(h, y) = Orphans(d, y)
      /\ Orphans(h, t) \subseteq Orphans(d, t) \ touched[t]
      /\ \A s \in Units(d) : Decoded(h, d.unit[s]) = Decoded(d, d.unit[s])
  <2>1. /\ t = "symbol" => Orphans(d, "relation") = {}
        /\ t = "file" => Orphans(d, "version") = {}
    BY <1>2, <1>4, Tables
  <2> QED
    BY <1>1, <1>2, <1>4, <2>1, PrunedSound
<1>6. stage' \in Table \cup {"removing"} /\ stage' # "inserting" /\ stage' # "idle"
  <2>1. stage' \in Table \cup {"removing"}
    BY <1>1, <1>2
  <2> QED
    BY <2>1 DEF Table
<1>7. \A y \in Table : Orphans(h, y) \subseteq
          IF y \in StillToPrune(stage') THEN touched'[y] ELSE {}
  <2>1. Orphans(h, t) = {}
    BY <1>2, <1>4, <1>5
  <2>2. CASE k = Len(PruneOrder)
    <3>1. \A y \in Table : Orphans(h, y) = {}
      BY <1>2, <1>4, <1>5, <2>1, <2>2
    <3> QED
      BY <3>1
  <2>3. CASE k # Len(PruneOrder)
    BY <1>1, <1>2, <1>4, <1>5, <2>1, <2>3
  <2> QED
    BY <2>2, <2>3
<1>8. RowTypes'
  BY <1>a, <1>1, <1>4, <1>5, <1>6 DEF RowTypes
<1>9. Progress'
  <2>1. ASSUME NEW q \in Slot, Settled(q)'
        PROVE  Says(h, q, pending[q])
    <3>1. Settled(q)
      BY <1>1, <1>3, <2>1 DEF Settled
    <3>2. Says(d, q, pending[q])
      BY <1>a, <1>4, <3>1 DEF Progress
    <3> QED
      BY <1>5, <3>2 DEF Says, Units
  <2>2. /\ \A q \in install \ remove : h.unit[q] = NoUnit
        /\ \A q \in install : pending[q] # NoUnit
        /\ \A q \in remove \ install : pending[q] = NoUnit
    BY <1>a, <1>4, <1>5 DEF Progress
  <2> QED
    BY <1>a, <1>1, <2>1, <2>2 DEF Progress
<1>10. Inserting'
  BY <1>6 DEF Inserting
<1>11. Committed'
  BY <1>1, <1>4, <1>6, CommittedKept
<1>12. CacheIsTrue(tx', cache')
  BY <1>1, <1>4, EmptyCacheIsTrue
<1>13. Sound(tx') /\ (stage' # "inserting" => cache' = EmptyCache)
  BY <1>a, <1>1, <1>4, <1>5
<1>14. \A y \in Table : Orphans(tx', y) \subseteq
          IF y \in StillToPrune(stage') THEN touched'[y] ELSE {}
  BY <1>a, <1>7
<1> QED
  BY <1>8, <1>9, <1>10, <1>11, <1>12, <1>13, <1>14 DEF RowsInv

\* A unit of which nothing is left to insert says its contribution.
LEMMA InsertedSays ==
    ASSUME RowsInv, stage = "inserting", left = NoRows
    PROVE  Says(tx, current, pending[current])
<1>a. PICK x, c : x = Decoded(tx, tx.unit[current]) /\ c = pending[current]
  OBVIOUS
<1>1. /\ tx.unit[current] # NoUnit /\ c \in Contributions /\ Together(x, left, c)
  BY <1>a, CurrentUnit
<1>2. /\ left.inputs = {} /\ left.symbols = {} /\ left.locations = {}
      /\ left.evidence = {}
  BY DEF NoRows
<1>3. /\ x.inputs = c.inputs /\ x.symbols = c.symbols
      /\ x.locations = c.locations /\ x.evidence = c.evidence
  BY <1>1, <1>2 DEF Together
<1>4. x = [inputs |-> x.inputs, symbols |-> x.symbols,
           locations |-> x.locations, evidence |-> x.evidence]
  BY <1>a DEF Decoded
<1>5. c = [inputs |-> c.inputs, symbols |-> c.symbols,
           locations |-> c.locations, evidence |-> c.evidence] /\ c # NoUnit
  <2>1. c \in Contribution
    BY <1>1, ParametersAssumption
  <2> QED
    BY <2>1, AbsentValuesAssumption DEF Contribution
<1>6. x = c
  BY <1>3, <1>4, <1>5
<1> QED
  BY <1>a, <1>1, <1>5, <1>6 DEF Says

\* All slots say what they will, once the publication has come to its end.
LEMMA EndSays ==
    ASSUME RowsInv,
           \/ stage = "removing" /\ remove = {}
           \/ stage = "inserting" /\ left = NoRows
    PROVE  /\ remove = {}
           /\ \A q \in Slot \ install : Says(tx, q, pending[q])
           /\ NoOrphans(tx)
<1>1. remove = {}
  BY DEF RowsInv, Inserting
<1>2. NoOrphans(tx)
  BY SettledTables
<1>3. ASSUME NEW q \in Slot \ install
      PROVE  Says(tx, q, pending[q])
  <2>1. CASE stage = "inserting" /\ q = current
    BY <2>1, InsertedSays
  <2>2. CASE ~(stage = "inserting" /\ q = current)
    <3>1. Settled(q)
      BY <1>1, <2>2 DEF Settled
    <3> QED
      BY <3>1 DEF RowsInv, Progress
  <2> QED
    BY <2>1, <2>2
<1> QED
  BY <1>1, <1>2, <1>3

\* A unit without rows of its own uses nothing.
LEMMA NoRowsUseNothing ==
    /\ NoRows \in Unit
    /\ \A t \in Table : Used(NoRows)[t] = {}
    /\ \A d : /\ OwnsItsSymbols(d, NoRows) /\ VersionsMatch(d, NoRows)
              /\ Decoded(d, NoRows).inputs = {}
              /\ Decoded(d, NoRows).symbols = {}
              /\ Decoded(d, NoRows).locations = {}
              /\ Decoded(d, NoRows).evidence = {}
<1>1. /\ NoRows.inputs = {} /\ NoRows.symbols = {} /\ NoRows.locations = {}
      /\ NoRows.evidence = {} /\ NoRows \in Unit
  BY DEF NoRows, Unit
<1>2. Placed(NoRows) = {}
  BY <1>1 DEF Placed
<1>3. \A t \in Table : Used(NoRows)[t] = {}
  <2>1. Used(NoRows)["symbol"] = {} /\ Used(NoRows)["dependency"] = {}
    BY <1>1, UsedOwn
  <2>2. Used(NoRows)["relation"] = {}
    BY <1>1, UsedParts
  <2>3. Used(NoRows)["file"] = {} /\ Used(NoRows)["version"] = {}
    BY <1>2, UsedParts
  <2> QED
    BY <2>1, <2>2, <2>3, Tables
<1>4. ASSUME NEW d
      PROVE  /\ OwnsItsSymbols(d, NoRows) /\ VersionsMatch(d, NoRows)
             /\ Decoded(d, NoRows).inputs = {}
             /\ Decoded(d, NoRows).symbols = {}
             /\ Decoded(d, NoRows).locations = {}
             /\ Decoded(d, NoRows).evidence = {}
  <2>1. OwnsItsSymbols(d, NoRows)
    BY <1>1 DEF OwnsItsSymbols
  <2>2. VersionsMatch(d, NoRows)
    BY <1>2 DEF VersionsMatch
  <2>3. /\ Decoded(d, NoRows).inputs = InputsSaid(d, {})
        /\ Decoded(d, NoRows).symbols = SymbolsSaid(d, {})
        /\ Decoded(d, NoRows).locations = LocationsSaid(d, {})
        /\ Decoded(d, NoRows).evidence = AllEvidenceSaid(d, {})
    BY <1>1, DecodedParts
  <2>4. /\ InputsSaid(d, {}) = {} /\ SymbolsSaid(d, {}) = {}
        /\ LocationsSaid(d, {}) = {} /\ AllEvidenceSaid(d, {}) = {}
    BY DEF InputsSaid, SymbolsSaid, LocationsSaid, AllEvidenceSaid
  <2> QED
    BY <2>1, <2>2, <2>3, <2>4
<1> QED
  BY <1>1, <1>3, <1>4

\* The next contribution.
LEMMA BeginInsertStep ==
    ASSUME RowsInv, NEW s \in Slot, BeginInsert(s)
    PROVE  RowsInv'
<1>a. PICK d, h : d = tx /\ h = tx'
  OBVIOUS
<1>1. /\ \/ stage = "removing" /\ remove = {}
         \/ stage = "inserting" /\ left = NoRows
      /\ s \in install
      /\ h = [d EXCEPT !.unit[s] = NoRows]
      /\ stage' = "inserting" /\ current' = s /\ left' = pending[s]
      /\ install' = install \ {s}
      /\ UNCHANGED <<db, cache, remove, touched, pending, denoted>>
  BY <1>a DEF BeginInsert
<1>2. /\ RowTypes /\ Shaped(d) /\ Sound(d) /\ Progress /\ Committed
      /\ CacheIsTrue(d, cache) /\ NoOrphans(d) /\ remove = {}
      /\ \A q \in Slot \ install : Says(d, q, pending[q])
  BY <1>a, <1>1, EndSays DEF RowsInv, RowTypes
<1>3. d.unit[s] = NoUnit /\ pending[s] # NoUnit /\ pending[s] \in Contributions
  BY <1>a, <1>1, <1>2 DEF Progress, RowTypes
<1>4. Addition(d, d, s, NoRows, h)
  <2>1. Grown(d, d) /\ \A t \in Table : NewRows(d, d, t) = {}
    BY DEF Grown, NewRows
  <2>2. OwnsItsSymbols(d, NoRows) /\ VersionsMatch(d, NoRows)
    BY NoRowsUseNothing
  <2>3. \A t \in Table : Used(NoRows)[t] = {}
    BY NoRowsUseNothing
  <2> QED
    BY <1>1, <1>2, <1>3, <2>1, <2>2, <2>3, Tables DEF Addition
<1>5. /\ Shaped(h) /\ Sound(h) /\ h.table = d.table /\ h.unit[s] = NoRows
      /\ NoOrphans(h) /\ SameElsewhere(d, h, s)
  BY <1>2, <1>4, NoRowsUseNothing, GrownSound
<1>6. RowTypes'
  <2>1. left' \in Contribution
    BY <1>1, <1>3, ParametersAssumption
  <2> QED
    BY <1>a, <1>1, <1>2, <1>5, <2>1 DEF RowTypes
<1>7. CacheIsTrue(tx', cache')
  BY <1>a, <1>1, <1>2, <1>5, CacheOfTables
<1>8. Progress'
  <2>1. ASSUME NEW q \in Slot, Settled(q)'
        PROVE  Says(h, q, pending[q])
    <3>1. q # s /\ q \notin install
      BY <1>1, <2>1 DEF Settled
    <3>2. Says(d, q, pending[q])
      BY <1>2, <3>1
    <3> QED
      BY <1>5, <3>1, <3>2 DEF SameElsewhere, Says, Units
  <2>2. \A q \in (install \ {s}) \ remove : h.unit[q] = NoUnit
    BY <1>a, <1>2, <1>5 DEF SameElsewhere, Progress, RowTypes
  <2>3. /\ \A q \in install \ {s} : pending[q] # NoUnit
        /\ remove \ (install \ {s}) = {}
    BY <1>2 DEF Progress
  <2> QED
    BY <1>a, <1>1, <2>1, <2>2, <2>3 DEF Progress
<1>9. Inserting'
  <2>1. Together(Decoded(h, NoRows), pending[s], pending[s])
    BY NoRowsUseNothing DEF Together
  <2>2. NoRows # NoUnit
    BY NoRowsUseNothing, AbsentValuesAssumption
  <2>3. remove' = {} /\ current' \in Slot \ install' /\ pending'[s] # NoUnit
    BY <1>1, <1>2, <1>3
  <2>4. Together(Decoded(tx', tx'.unit[s]), left', pending'[s])
    BY <1>a, <1>1, <1>5, <2>1
  <2>5. pending'[s].symbols \ left'.symbols = {}
    BY <1>1
  <2> QED
    BY <1>a, <1>1, <1>5, <2>2, <2>3, <2>4, <2>5 DEF Inserting
<1>10. Committed'
  BY <1>1, <1>2, CommittedKept
<1>11. Sound(tx') /\ \A t \in Table : Orphans(tx', t) = {}
  BY <1>a, <1>5 DEF NoOrphans
<1> QED
  BY <1>1, <1>6, <1>7, <1>8, <1>9, <1>10, <1>11 DEF RowsInv

\* What closing a publication leaves, whichever tables are then committed.
LEMMA ClosedStep ==
    ASSUME Closed, Shaped(tx'), Sound(tx'), NoOrphans(tx'), db' = tx',
           pending' \in [Slot -> Contributions \cup {NoUnit}],
           denoted' = pending',
           \A q \in Slot : Says(tx', q, pending'[q])
    PROVE  RowsInv'
<1>1. /\ stage' = "idle" /\ cache' = EmptyCache /\ remove' = {}
      /\ install' = {} /\ left' = NoRows
  BY DEF Closed, NewCache
<1>2. NoRows \in Contribution
  BY DEF NoRows, Contribution
<1>3. RowTypes'
  BY <1>1, <1>2 DEF RowTypes
<1>4. Progress'
  BY <1>1 DEF Progress
<1>5. Inserting'
  BY <1>1 DEF Inserting
<1>6. Committed'
  BY <1>1 DEF Committed
<1>7. CacheIsTrue(tx', cache')
  BY <1>1, EmptyCacheIsTrue
<1>8. \A t \in Table : Orphans(tx', t) = {}
  BY DEF NoOrphans
<1> QED
  BY <1>1, <1>3, <1>4, <1>5, <1>6, <1>7, <1>8 DEF RowsInv

\* COMMIT.
LEMMA CommitStep ==
    ASSUME RowsInv, Commit
    PROVE  RowsInv'
<1>1. /\ \/ stage = "removing" /\ remove = {}
         \/ stage = "inserting" /\ left = NoRows
      /\ install = {} /\ db' = tx /\ denoted' = pending /\ Closed
      /\ tx' = tx /\ pending' = pending
  BY DEF Commit
<1>2. /\ Shaped(tx) /\ Sound(tx)
      /\ pending \in [Slot -> Contributions \cup {NoUnit}]
  BY DEF RowsInv, RowTypes
<1>3. NoOrphans(tx) /\ \A q \in Slot : Says(tx, q, pending[q])
  BY <1>1, EndSays
<1> QED
  BY <1>1, <1>2, <1>3, ClosedStep

\* ROLLBACK.
LEMMA RollbackStep ==
    ASSUME RowsInv, Rollback
    PROVE  RowsInv'
<1>1. /\ tx' = db /\ pending' = denoted /\ Closed
      /\ db' = db /\ denoted' = denoted
  BY DEF Rollback
<1>2. /\ Shaped(db) /\ denoted \in [Slot -> Contributions \cup {NoUnit}]
      /\ Committed
  BY DEF RowsInv, RowTypes
<1>3. /\ Sound(db) /\ NoOrphans(db)
      /\ \A q \in Slot : Says(db, q, denoted[q])
  BY <1>2 DEF Committed
<1> QED
  BY <1>1, <1>2, <1>3, ClosedStep

\* An empty store.
LEMMA RowsStart ==
    ASSUME RowsInit
    PROVE  RowsInv
<1>1. /\ db = [table |-> [t \in Table |-> [r \in Row |-> NoEntry]],
              unit |-> [s \in Slot |-> NoUnit]]
      /\ tx = db /\ cache = EmptyCache /\ stage = "idle" /\ remove = {}
      /\ install = {} /\ left = NoRows
      /\ pending = [s \in Slot |-> NoUnit] /\ denoted = pending
  BY DEF RowsInit
<1>2. Shaped(db)
  <2>1. /\ db.table = [t \in Table |-> [r \in Row |-> NoEntry]]
        /\ db.unit = [s \in Slot |-> NoUnit]
    BY <1>1
  <2>2. \A t \in Table : db.table[t] = [r \in Row |-> NoEntry]
    BY <2>1
  <2>3. \A t \in Table : db.table[t] \in [Row -> Entry[t] \cup {NoEntry}]
    BY <2>2
  <2>4. db = [table |-> db.table, unit |-> db.unit]
    BY <1>1
  <2>5. db.table = [t \in Table |-> db.table[t]]
    BY <2>1
  <2>6. db.unit \in [Slot -> Unit \cup {NoUnit}]
    BY <2>1
  <2> QED
    BY <2>3, <2>4, <2>5, <2>6 DEF Shaped
<1>3. Units(db) = {} /\ \A t \in Table : Rows(db, t) = {}
  BY <1>1 DEF Units, Rows
<1>4. Sound(db)
  BY <1>3, Tables DEF Sound, References
<1>5. NoOrphans(db)
  BY <1>3 DEF NoOrphans, Orphans
<1>6. \A s \in Slot : Says(db, s, denoted[s])
  BY <1>1 DEF Says
<1>7. NoRows \in Contribution
  BY DEF NoRows, Contribution
<1>8. RowTypes
  BY <1>1, <1>2, <1>7 DEF RowTypes
<1>9. Progress /\ Inserting
  BY <1>1, <1>6 DEF Progress, Inserting
<1>10. Committed
  BY <1>1, <1>4, <1>5, <1>6 DEF Committed
<1>11. CacheIsTrue(tx, cache)
  BY <1>1, EmptyCacheIsTrue
<1>12. \A t \in Table : Orphans(tx, t) = {}
  BY <1>1, <1>5 DEF NoOrphans
<1>13. Sound(tx)
  BY <1>1, <1>4
<1> QED
  BY <1>1, <1>8, <1>9, <1>10, <1>11, <1>12, <1>13 DEF RowsInv

LEMMA RowsStep ==
    ASSUME RowsInv, [RowsNext]_rowVars
    PROVE  RowsInv'
<1>1. CASE \E I \in SUBSET Slot : \E R \in SUBSET Slot :
              \E i \in [I -> Contributions] : Begin(i, R)
  BY <1>1, BeginStep
<1>2. CASE \E s \in Slot : DeleteUnit(s)
  BY <1>2, DeleteUnitStep
<1>3. CASE \E s \in Slot : NothingToDelete(s)
  BY <1>3, NothingToDeleteStep
<1>4. CASE \E s \in Slot : BeginInsert(s)
  BY <1>4, BeginInsertStep
<1>5. CASE \E k \in DOMAIN PruneOrder : Prune(k)
  BY <1>5, PruneStep
<1>6. CASE \E i \in left.inputs : InsertInput(i)
  BY <1>6, InsertInputStep
<1>7. CASE \E y \in left.symbols : InsertSymbol(y)
  BY <1>7, InsertSymbolStep
<1>8. CASE \E l \in left.locations : InsertLocation(l)
  BY <1>8, InsertLocationStep
<1>9. CASE \E e \in left.evidence : InsertEvidence(e)
  BY <1>9, InsertEvidenceStep
<1>10. CASE Commit
  BY <1>10, CommitStep
<1>11. CASE Rollback
  BY <1>11, RollbackStep
<1>12. CASE UNCHANGED rowVars
  BY <1>12 DEF rowVars, RowsInv, RowTypes, Progress, Settled, Inserting,
               Committed
<1> QED
  BY <1>1, <1>2, <1>3, <1>4, <1>5, <1>6, <1>7, <1>8, <1>9, <1>10, <1>11, <1>12
     DEF RowsNext, InsertNext

----------------------------------------------------------------------------
\* The invariant of a publication's statements (store.cpp: remove_unit,
\* insert_unit and the statements they run).
THEOREM RowsInvariant == RowsSpec => []RowsInv
<1>1. RowsInit => RowsInv
  BY RowsStart
<1>2. RowsInv /\ [RowsNext]_rowVars => RowsInv'
  BY RowsStep
<1> QED
  BY <1>1, <1>2, PTL DEF RowsSpec

\* After every statement each reference resolves: no statement of remove_unit
\* or insert_unit can fail on a foreign key.
THEOREM ForeignKeysHoldInvariant == RowsSpec => []ForeignKeysHold
<1>1. RowsInv => ForeignKeysHold
  BY DEF RowsInv, Sound, ForeignKeysHold
<1> QED
  BY <1>1, RowsInvariant, PTL

\* Between publications the shared rows are those the units use: pruning
\* leaves no row without a user, and takes none that has one.
THEOREM NothingOrphanedInvariant == RowsSpec => []NothingOrphaned
<1>1. RowsInv => NothingOrphaned
  <2> SUFFICES ASSUME RowsInv, NEW t \in Table
               PROVE  Rows(db, t) = UsedRows(db, t)
    BY DEF NothingOrphaned, UsedRows
  <2>1. Rows(db, t) \subseteq UsedRows(db, t)
    BY DEF RowsInv, Committed, NoOrphans, Orphans
  <2>2. UsedRows(db, t) \subseteq Rows(db, t)
    BY DEF RowsInv, Committed, Sound, References, UsedRows
  <2> QED
    BY <2>1, <2>2
<1> QED
  BY <1>1, RowsInvariant, PTL

\* A committed unit says what it was published with, and a unit the open
\* publication leaves alone says so after each of its statements.
THEOREM RowsDenoteContributionsInvariant ==
    RowsSpec => []RowsDenoteContributions
<1>1. RowsInv => RowsDenoteContributions
  <2> SUFFICES ASSUME RowsInv
               PROVE  RowsDenoteContributions
    OBVIOUS
  <2>1. \A s \in Slot : Says(db, s, denoted[s])
    BY DEF RowsInv, Committed
  <2>2. ASSUME NEW s \in Slot, pending[s] = denoted[s],
               s \notin remove \cup install, s # current, denoted[s] # NoUnit
        PROVE  Says(tx, s, denoted[s])
    BY <2>2 DEF RowsInv, Progress, Settled
  <2> QED
    BY <2>1, <2>2 DEF RowsDenoteContributions, Says
<1> QED
  BY <1>1, RowsInvariant, PTL

\* Every variable keeps its type.
THEOREM RowsTypeInvariant == RowsSpec => []RowsTypeOK
<1> DEFINE Rest == /\ touched \in [Table -> SUBSET (Row \cup {NoRow})]
                   /\ current \in Slot \cup {NoUnit}
<1>1. RowsInv /\ Rest => RowsTypeOK
  <2> SUFFICES ASSUME RowsInv, Rest
               PROVE  RowsTypeOK
    OBVIOUS
  <2>1. RowTypes /\ CacheIsTrue(tx, cache)
    BY DEF RowsInv
  <2>2. ASSUME NEW d, Shaped(d)
        PROVE  d \in Database
    <3>1. /\ d = [table |-> d.table, unit |-> d.unit]
          /\ d.table = [t \in Table |-> d.table[t]]
          /\ d.unit \in [Slot -> Unit \cup {NoUnit}]
          /\ \A t \in Table : d.table[t] \in [Row -> Entry[t] \cup {NoEntry}]
      BY <2>2 DEF Shaped
    <3>2. d.table \in
            [file : [Row -> Entry.file \cup {NoEntry}],
             version : [Row -> Entry.version \cup {NoEntry}],
             symbol : [Row -> Entry.symbol \cup {NoEntry}],
             relation : [Row -> Entry.relation \cup {NoEntry}],
             dependency : [Row -> Entry.dependency \cup {NoEntry}]]
      BY <3>1 DEF Table
    <3> QED
      BY <3>1, <3>2 DEF Database
  <2>3. db \in Database /\ tx \in Database
    BY <2>1, <2>2 DEF RowTypes
  <2>4. \A t \in Table : /\ DOMAIN cache[t] \subseteq Entry[t]
                         /\ \A e \in DOMAIN cache[t] : cache[t][e] \in Row
    BY <2>1 DEF CacheIsTrue
  <2> QED
    BY <2>1, <2>3, <2>4 DEF RowTypes, RowsTypeOK
<1>2. RowsInit => Rest
  BY DEF RowsInit, NothingTouched
<1>3. RowsInv /\ Rest /\ [RowsNext]_rowVars => Rest'
  <2> SUFFICES ASSUME RowsInv, Rest, [RowsNext]_rowVars
               PROVE  Rest'
    OBVIOUS
  <2>1. ASSUME NEW s \in Slot, DeleteUnit(s)
        PROVE  Rest'
    <3>1. tx.unit[s] \in Unit
      <4>1. tx.unit \in [Slot -> Unit \cup {NoUnit}]
        BY DEF RowsInv, RowTypes, Shaped
      <4> QED
        BY <2>1, <4>1 DEF DeleteUnit, Units
    <3>2. Used(tx.unit[s]) \in [Table -> SUBSET (Row \cup {NoRow})]
      <4> PICK u : u = tx.unit[s]
        OBVIOUS
      <4>1. /\ \A x \in Placed(u) : x.file \in Row \cup {NoRow} /\ x.version \in Row
            /\ u.symbols \subseteq Row /\ u.inputs \subseteq Row
            /\ \A e \in u.evidence : e.relation \in Row
        BY <3>1 DEF Unit, Placed
      <4>2. /\ Used(u)["file"] \subseteq Row \cup {NoRow}
            /\ Used(u)["version"] \subseteq Row \cup {NoRow}
            /\ Used(u)["symbol"] \subseteq Row \cup {NoRow}
            /\ Used(u)["relation"] \subseteq Row \cup {NoRow}
            /\ Used(u)["dependency"] \subseteq Row \cup {NoRow}
        BY <4>1, UsedParts
      <4>3. Used(u) = [t \in Table |-> Used(u)[t]]
        BY DEF Used, Table
      <4>4. \A t \in Table : Used(u)[t] \subseteq Row \cup {NoRow}
        BY <4>2, Tables
      <4> QED
        BY <4>3, <4>4
    <3> QED
      BY <2>1, <3>2 DEF DeleteUnit
  <2>2. ASSUME NEW s \in Slot, NothingToDelete(s) \/ BeginInsert(s)
        PROVE  Rest'
    BY <2>2 DEF NothingToDelete, BeginInsert
  <2>3. ASSUME NEW k \in DOMAIN PruneOrder, Prune(k)
        PROVE  Rest'
    <3>1. /\ touched' = NothingTouched \/ touched' = touched
          /\ current' = current
      BY <2>3 DEF Prune
    <3> QED
      BY <3>1 DEF NothingTouched
  <2>4. ASSUME NEW I, NEW R, NEW i, Begin(i, R)
        PROVE  Rest'
    BY <2>4 DEF Begin
  <2>5. CASE InsertNext
    BY <2>5 DEF InsertNext, InsertInput, InsertSymbol, InsertLocation,
                InsertEvidence
  <2>6. CASE Commit \/ Rollback
    BY <2>6 DEF Commit, Rollback, Closed, NothingTouched
  <2>7. CASE UNCHANGED rowVars
    BY <2>7 DEF rowVars
  <2> QED
    BY <2>1, <2>2, <2>3, <2>4, <2>5, <2>6, <2>7 DEF RowsNext
<1> HIDE DEF Rest
<1> QED
  BY <1>1, <1>2, <1>3, RowsInvariant, PTL DEF RowsSpec

====

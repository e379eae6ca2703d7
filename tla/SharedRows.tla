------------------------------ MODULE SharedRows ------------------------------
(***************************************************************************)
(* The rows units share (src/lcm/store/store.cpp): files, file versions,   *)
(* symbols, relations and dependencies are stored once and referenced by   *)
(* row id from every unit that observed them. Within the transaction of a  *)
(* publication,                                                            *)
(*                                                                         *)
(*   remove_unit deletes one unit's own rows and then, table by table, the *)
(*   shared rows it was the last to use;                                   *)
(*   insert_unit interns each key (in the cache of row ids, else in the    *)
(*   table, else as a new row) and adds the unit's own rows.               *)
(*                                                                         *)
(* Each step is one SQL statement or one row, so that what a statement may *)
(* rely on, and a failure between any two, is visible. Ids are SQLite's:   *)
(* one more than the largest, so an id deleted or rolled back comes again. *)
(***************************************************************************)
EXTENDS Integers, Sequences, FiniteSets, FiniteSetsExt

CONSTANTS Slot, Path, Digest, Symbol, Dependency,
          IdOf,           \* the stable id of each canonical key (symbol)
          Contributions,  \* what units are published with
          MaxRow,         \* bound: the largest row id of a table
          NoPath, NoRow, NoEntry, NoUnit

VARIABLES db,       \* the committed tables and units
          tx,       \* those of the open transaction; db when there is none
          cache,    \* InsertCache: table -> (entry -> row id)
          stage,    \* what the publication does next
          remove,   \* the slots still to remove
          install,  \* the slots still to insert
          touched,  \* table -> rows the removed unit used (temp.touched_*)
          current,  \* the slot being inserted
          left,     \* what of its contribution is still to insert
          pending,  \* slot -> contribution, once the publication commits
          denoted   \* history: slot -> contribution, as committed

rowVars == <<db, tx, cache, stage, remove, install, touched, current, left,
          pending, denoted>>

----------------------------------------------------------------------------
Row == 1 .. MaxRow

Table == {"file", "version", "symbol", "relation", "dependency"}

Location == [path : Path \cup {NoPath}, digest : Digest]

\* A contribution, reduced to what its rows refer to. An include site is
\* shared the way a dependency is.
Contribution ==
    [inputs : SUBSET Dependency, symbols : SUBSET Symbol,
     locations : SUBSET [symbol : Symbol, at : Location],
     evidence : SUBSET [source : Symbol, target : Symbol, at : Location]]

\* What a row of each table holds; rows refer to rows by id.
Entry ==
    [file |-> Path,
     version |-> [file : Row \cup {NoRow}, digest : Digest],
     symbol |-> Symbol,
     relation |-> [source : Row, target : Row],
     dependency |-> Dependency]

\* The rows a unit owns: input, unit_symbol, symbol_location, evidence.
Unit ==
    [inputs : SUBSET Row, symbols : SUBSET Row,
     locations : SUBSET [symbol : Row, file : Row \cup {NoRow}, version : Row],
     evidence : SUBSET [relation : Row, file : Row \cup {NoRow},
                        version : Row]]

NoRows == [inputs |-> {}, symbols |-> {}, locations |-> {}, evidence |-> {}]

ASSUME ParametersAssumption ==
    /\ Contributions \subseteq Contribution
    /\ \A c \in Contributions :
          /\ \A l \in c.locations : l.symbol \in c.symbols
          /\ \A e \in c.evidence : {e.source, e.target} \subseteq c.symbols
    /\ IdOf \in [Symbol -> Symbol]
    /\ MaxRow \in Nat

ASSUME AbsentValuesAssumption ==
    /\ NoPath \notin Path
    /\ NoRow \notin Row
    /\ NoUnit \notin Unit \cup Contribution
    /\ \A t \in Table : NoEntry \notin Entry[t]

----------------------------------------------------------------------------
\* Tables.

Rows(d, t) == {r \in Row : d.table[t][r] # NoEntry}

NextRow(d, t) == 1 + Max(Rows(d, t) \cup {0})

Units(d) == {s \in Slot : d.unit[s] # NoUnit}

\* The unit's own rows that carry a location.
Placed(u) == u.locations \cup u.evidence

PlacedRows(d) == UNION {Placed(d.unit[s]) : s \in Units(d)}

\* Mutant: only the locations of symbols are looked at, not those of evidence.
Used_LocationsOnly(u) ==
    [file |-> {x.file : x \in u.locations} \ {NoRow},
     version |-> {x.version : x \in u.locations},
     symbol |-> u.symbols,
     relation |-> {e.relation : e \in u.evidence},
     dependency |-> u.inputs]

\* The shared rows a unit uses, table by table (temp.touched_*).
Used(u) ==
    [file |-> {x.file : x \in Placed(u)} \ {NoRow},
     version |-> {x.version : x \in Placed(u)},
     symbol |-> u.symbols,
     relation |-> {e.relation : e \in u.evidence},
     dependency |-> u.inputs]

NothingTouched == [t \in Table |-> {}]

\* Some unit still uses row r of table t, as the pruning statement asks: for
\* a version, with the very file the version is of.
StillUsed(d, t, r) ==
    IF t = "version"
    THEN \E x \in PlacedRows(d) :
            x.version = r /\ x.file = d.table.version[r].file
    ELSE \E s \in Units(d) : r \in Used(d.unit[s])[t]

\* One pruning statement.
Pruned(d, t, rows) ==
    [d EXCEPT !.table[t] =
        [r \in Row |-> IF r \in rows /\ ~StillUsed(d, t, r)
                       THEN NoEntry ELSE @[r]]]

\* Mutant: files are pruned before the versions that refer to them.
PruneOrder_FilesFirst ==
    <<"relation", "symbol", "file", "version", "dependency">>

\* The order of the pruning statements: what refers goes before what is
\* referred to.
PruneOrder == <<"relation", "symbol", "version", "dependency", "file">>

----------------------------------------------------------------------------
\* Interning.

EmptyCache == [t \in Table |-> [e \in {} |-> NoRow]]

\* Mutant: ids cached by an earlier publication are used again.
NewCache_KeepsOld(c) == c

\* PublicationScope: the cache is dropped when a publication begins and on
\* every exit.
NewCache(c) == EmptyCache

\* The row id of entry e: as cached, else as found, else the next one.
RowOf(d, c, t, e) ==
    IF e \in DOMAIN c[t] THEN c[t][e]
    ELSE IF \E r \in Row : d.table[t][r] = e
    THEN CHOOSE r \in Row : d.table[t][r] = e
    ELSE NextRow(d, t)

\* Tables d once entry e has its row; a cached entry is not looked for.
WithEntry(d, c, t, e) ==
    IF e \in DOMAIN c[t] THEN d
    ELSE [d EXCEPT !.table[t][RowOf(d, c, t, e)] = e]

Cached(d, c, t, e) ==
    [c EXCEPT ![t] = [f \in DOMAIN @ \cup {e} |->
                        IF f = e THEN RowOf(d, c, t, e) ELSE @[f]]]

\* Bound: there is an id left for entry e.
RoomFor(d, c, t, e) == RowOf(d, c, t, e) \in Row

FileRow(d, c, at) ==
    IF at.path = NoPath THEN NoRow ELSE RowOf(d, c, "file", at.path)

VersionEntry(d, c, at) ==
    [file |-> FileRow(d, c, at), digest |-> at.digest]

\* bind_location: the file's row, if the location has a file, then the row of
\* the file's version.
HasFile(d, c, at) ==
    IF at.path = NoPath THEN d ELSE WithEntry(d, c, "file", at.path)

FileCached(d, c, at) ==
    IF at.path = NoPath THEN c ELSE Cached(d, c, "file", at.path)

----------------------------------------------------------------------------
RowsInit ==
    /\ db = [table |-> [t \in Table |-> [r \in Row |-> NoEntry]],
             unit |-> [s \in Slot |-> NoUnit]]
    /\ tx = db
    /\ cache = EmptyCache
    /\ stage = "idle"
    /\ remove = {}
    /\ install = {}
    /\ touched = NothingTouched
    /\ current = NoUnit
    /\ left = NoRows
    /\ pending = [s \in Slot |-> NoUnit]
    /\ denoted = pending

\* BEGIN of a publication that installs contribution i[s] in each slot s of
\* its domain and retires the slots R.
Begin(i, R) ==
    /\ stage = "idle"
    /\ DOMAIN i \cap R = {}
    /\ DOMAIN i # {} \/ R \cap Units(db) # {}
    /\ cache' = NewCache(cache)
    /\ stage' = "removing"
    /\ remove' = DOMAIN i \cup R
    /\ install' = DOMAIN i
    /\ pending' = [s \in Slot |-> IF s \in DOMAIN i THEN i[s]
                                  ELSE IF s \in R THEN NoUnit ELSE denoted[s]]
    /\ UNCHANGED <<db, tx, touched, current, left, denoted>>

\* remove_unit: note the shared rows of the slot's unit, delete the unit and
\* with it, by cascade, its own rows.
DeleteUnit(s) ==
    /\ stage = "removing"
    /\ s \in remove
    /\ s \in Units(tx)
    /\ touched' = Used(tx.unit[s])
    /\ tx' = [tx EXCEPT !.unit[s] = NoUnit]
    /\ remove' = remove \ {s}
    /\ stage' = PruneOrder[1]
    /\ UNCHANGED <<db, cache, install, current, left, pending, denoted>>

\* remove_unit of a slot that has no unit.
NothingToDelete(s) ==
    /\ stage = "removing"
    /\ s \in remove \ Units(tx)
    /\ remove' = remove \ {s}
    /\ UNCHANGED <<db, tx, cache, stage, install, touched, current, left,
                   pending, denoted>>

\* The k-th pruning statement.
Prune(k) ==
    /\ stage = PruneOrder[k]
    /\ tx' = Pruned(tx, stage, touched[stage])
    /\ IF k = Len(PruneOrder)
       THEN stage' = "removing" /\ touched' = NothingTouched
       ELSE stage' = PruneOrder[k + 1] /\ UNCHANGED touched
    /\ UNCHANGED <<db, cache, remove, install, current, left, pending, denoted>>

\* insert_unit of the next contribution, once all old units are removed and
\* the contribution before it is in.
BeginInsert(s) ==
    /\ \/ stage = "removing" /\ remove = {}
       \/ stage = "inserting" /\ left = NoRows
    /\ s \in install
    /\ tx' = [tx EXCEPT !.unit[s] = NoRows]
    /\ stage' = "inserting"
    /\ current' = s
    /\ left' = pending[s]
    /\ install' = install \ {s}
    /\ UNCHANGED <<db, cache, remove, touched, pending, denoted>>

InsertInput(i) ==
    /\ stage = "inserting"
    /\ i \in left.inputs
    /\ RoomFor(tx, cache, "dependency", i)
    /\ tx' = [WithEntry(tx, cache, "dependency", i) EXCEPT
                !.unit[current].inputs =
                    @ \cup {RowOf(tx, cache, "dependency", i)}]
    /\ cache' = Cached(tx, cache, "dependency", i)
    /\ left' = [left EXCEPT !.inputs = @ \ {i}]
    /\ UNCHANGED <<db, stage, remove, install, touched, current, pending,
                   denoted>>

\* Another canonical key has the stable id of symbol y.
IdCollides(d, y) ==
    \E r \in Rows(d, "symbol") :
        d.table.symbol[r] # y /\ IdOf[d.table.symbol[r]] = IdOf[y]

\* symbol_row and unit_symbol; a collision of stable ids fails the
\* publication.
InsertSymbol(y) ==
    /\ stage = "inserting"
    /\ left.inputs = {}
    /\ y \in left.symbols
    /\ ~IdCollides(tx, y)
    /\ RoomFor(tx, cache, "symbol", y)
    /\ tx' = [WithEntry(tx, cache, "symbol", y) EXCEPT
                !.unit[current].symbols =
                    @ \cup {RowOf(tx, cache, "symbol", y)}]
    /\ cache' = Cached(tx, cache, "symbol", y)
    /\ left' = [left EXCEPT !.symbols = @ \ {y}]
    /\ UNCHANGED <<db, stage, remove, install, touched, current, pending,
                   denoted>>

\* One symbol_location of a symbol that has its row.
InsertLocation(l) ==
    LET d == HasFile(tx, cache, l.at)
        c == FileCached(tx, cache, l.at)
        v == VersionEntry(tx, cache, l.at)
    IN  /\ stage = "inserting"
        /\ left.inputs = {}
        /\ l \in left.locations
        /\ l.symbol \notin left.symbols
        /\ l.at.path # NoPath => RoomFor(tx, cache, "file", l.at.path)
        /\ RoomFor(d, c, "version", v)
        /\ tx' = [WithEntry(d, c, "version", v) EXCEPT
                    !.unit[current].locations = @ \cup
                        {[symbol |-> RowOf(d, c, "symbol", l.symbol),
                          file |-> FileRow(d, c, l.at),
                          version |-> RowOf(d, c, "version", v)]}]
        /\ cache' = Cached(d, c, "version", v)
        /\ left' = [left EXCEPT !.locations = @ \ {l}]
        /\ UNCHANGED <<db, stage, remove, install, touched, current, pending,
                   denoted>>

\* One piece of evidence, with the relation's row before the location's.
InsertEvidence(e) ==
    LET rel == [source |-> RowOf(tx, cache, "symbol", e.source),
                target |-> RowOf(tx, cache, "symbol", e.target)]
        d1 == WithEntry(tx, cache, "relation", rel)
        c1 == Cached(tx, cache, "relation", rel)
        d == HasFile(d1, c1, e.at)
        c == FileCached(d1, c1, e.at)
        v == VersionEntry(d1, c1, e.at)
    IN  /\ stage = "inserting"
        /\ left.inputs = {} /\ left.symbols = {} /\ left.locations = {}
        /\ e \in left.evidence
        /\ RoomFor(tx, cache, "relation", rel)
        /\ e.at.path # NoPath => RoomFor(d1, c1, "file", e.at.path)
        /\ RoomFor(d, c, "version", v)
        /\ tx' = [WithEntry(d, c, "version", v) EXCEPT
                    !.unit[current].evidence = @ \cup
                        {[relation |-> RowOf(d, c, "relation", rel),
                          file |-> FileRow(d, c, e.at),
                          version |-> RowOf(d, c, "version", v)]}]
        /\ cache' = Cached(d, c, "version", v)
        /\ left' = [left EXCEPT !.evidence = @ \ {e}]
        /\ UNCHANGED <<db, stage, remove, install, touched, current, pending,
                   denoted>>

\* The publication is over, one way or the other.
Closed ==
    /\ stage' = "idle"
    /\ cache' = NewCache(cache)
    /\ remove' = {}
    /\ install' = {}
    /\ touched' = NothingTouched
    /\ current' = NoUnit
    /\ left' = NoRows

Commit ==
    /\ \/ stage = "removing" /\ remove = {}
       \/ stage = "inserting" /\ left = NoRows
    /\ install = {}
    /\ db' = tx
    /\ denoted' = pending
    /\ Closed
    /\ UNCHANGED <<tx, pending>>

\* An exception at any statement, or the death of the process.
Rollback ==
    /\ stage # "idle"
    /\ tx' = db
    /\ pending' = denoted
    /\ Closed
    /\ UNCHANGED <<db, denoted>>

InsertNext ==
    \/ \E i \in left.inputs : InsertInput(i)
    \/ \E y \in left.symbols : InsertSymbol(y)
    \/ \E l \in left.locations : InsertLocation(l)
    \/ \E e \in left.evidence : InsertEvidence(e)

RowsNext ==
    \/ \E I, R \in SUBSET Slot : \E i \in [I -> Contributions] : Begin(i, R)
    \/ \E s \in Slot : DeleteUnit(s) \/ NothingToDelete(s) \/ BeginInsert(s)
    \/ \E k \in DOMAIN PruneOrder : Prune(k)
    \/ InsertNext
    \/ Commit
    \/ Rollback

RowsSpec == RowsInit /\ [][RowsNext]_rowVars

----------------------------------------------------------------------------
\* Properties.

Database ==
    [table : [file : [Row -> Entry.file \cup {NoEntry}],
              version : [Row -> Entry.version \cup {NoEntry}],
              symbol : [Row -> Entry.symbol \cup {NoEntry}],
              relation : [Row -> Entry.relation \cup {NoEntry}],
              dependency : [Row -> Entry.dependency \cup {NoEntry}]],
     unit : [Slot -> Unit \cup {NoUnit}]]

\* Every variable keeps its type.
RowsTypeOK ==
    /\ db \in Database
    /\ tx \in Database
    /\ \A t \in Table : /\ DOMAIN cache[t] \subseteq Entry[t]
                        /\ \A e \in DOMAIN cache[t] : cache[t][e] \in Row
    /\ stage \in {"idle", "removing", "inserting"} \cup Table
    /\ remove \subseteq Slot
    /\ install \subseteq Slot
    /\ touched \in [Table -> SUBSET (Row \cup {NoRow})]
    /\ current \in Slot \cup {NoUnit}
    /\ left \in Contribution
    /\ pending \in [Slot -> Contributions \cup {NoUnit}]
    /\ denoted \in [Slot -> Contributions \cup {NoUnit}]

\* Foreign keys of d, immediate ones: no row or unit refers to a missing row.
References(d) ==
    /\ \A r \in Rows(d, "version") :
          d.table.version[r].file \in Rows(d, "file") \cup {NoRow}
    /\ \A r \in Rows(d, "relation") :
          /\ d.table.relation[r].source \in Rows(d, "symbol")
          /\ d.table.relation[r].target \in Rows(d, "symbol")
    /\ \A s \in Units(d) :
          /\ \A t \in Table : Used(d.unit[s])[t] \subseteq Rows(d, t)
          /\ \A l \in d.unit[s].locations : l.symbol \in Rows(d, "symbol")

\* After every single statement of a publication each reference resolves: a
\* statement that broke one would make SQLite fail the publication, although
\* pruning asks, table by table, only for the units' own rows and never for
\* the versions of a file or the relations of a symbol.
ForeignKeysHold == References(tx)

\* No shared row outlives its last user, and none is pruned before: in a
\* committed state the rows of each table are exactly those the units use,
\* which is what pruning counts on the next time.
NothingOrphaned ==
    \A t \in Table :
        Rows(db, t) = UNION {Used(db.unit[s])[t] : s \in Units(db)}

\* What the rows of unit u say, keys in place of row ids.
Decoded(d, u) ==
    LET At(x) == [path |-> IF x.file = NoRow THEN NoPath
                           ELSE d.table.file[x.file],
                  digest |-> d.table.version[x.version].digest]
        Sym(r) == d.table.symbol[r]
    IN  [inputs |-> {d.table.dependency[r] : r \in u.inputs},
         symbols |-> {Sym(r) : r \in u.symbols},
         locations |-> {[symbol |-> Sym(l.symbol), at |-> At(l)] :
                           l \in u.locations},
         evidence |-> {[source |-> Sym(d.table.relation[e.relation].source),
                        target |-> Sym(d.table.relation[e.relation].target),
                        at |-> At(e)] : e \in u.evidence}]

\* Each committed unit still says exactly what it was published with, however
\* its shared rows were pruned around, re-created under other ids or reused;
\* and inside a transaction a unit the batch does not touch says it after
\* every statement.
RowsDenoteContributions ==
    /\ \A s \in Slot :
          IF denoted[s] = NoUnit THEN db.unit[s] = NoUnit
          ELSE db.unit[s] # NoUnit /\ Decoded(db, db.unit[s]) = denoted[s]
    /\ \A s \in Slot : pending[s] = denoted[s] /\ s \notin remove \cup install
                       /\ s # current /\ denoted[s] # NoUnit =>
          tx.unit[s] # NoUnit /\ Decoded(tx, tx.unit[s]) = denoted[s]

===============================================================================

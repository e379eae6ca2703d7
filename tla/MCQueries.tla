----------------------------- MODULE MCQueries -----------------------------
(* Stores for the query tools: a family of small call graphs, asked for    *)
(* traces only, and two states of one store that publications move         *)
(* between while files come and go.                                        *)
EXTENDS QueryEngine

CONSTANTS StoreCalls, StoreEvents   \* bounds of the two-state store

(* 1 Base::run in the header 1, 2 Derived::run and 3 callAll in 2,         *)
(* 4 an internal helper of 2, 5 a local of 4 located in 3, 6 an external   *)
(* placeholder, 7 a member nobody wrote.                                   *)
At(f, at, role, unit) == [file |-> f, at |-> at, role |-> role, unit |-> unit]
Names == <<"run", "run", "callRun", "helper", "run", "helper", "run">>
Owners == <<<<"Base">>, <<"Derived">>, << >>, << >>, <<"helper">>, << >>, <<"Base">>>>
Ranks == <<2, 3, 1, 5, 6, 7, 4>>
Places ==
    <<{At(1, 1, "declaration", 1), At(1, 1, "declaration", 2), At(2, 1, "definition", 1)},
      {At(2, 2, "definition", 1), At(3, 1, "declaration", 2)},
      {At(2, 2, "definition", 1)},
      {At(2, 3, "definition", 1), At(3, 3, "declaration", 2)},
      {At(3, 2, "definition", 2)},
      {},
      {At(1, 3, "implicit", 1)}>>
Linkages ==
    LET external == [kind |-> "external", scope |-> 0]
    IN  [[s \in 1..7 |-> external]
            EXCEPT ![4] = [kind |-> "internal", scope |-> 2],
                   ![5] = [kind |-> "local", scope |-> 4]]

Ev(f, dispatch, unit) == [file |-> f, dispatch |-> dispatch, unit |-> unit]
Rel(row, s, t, kind, confidence, evidence) ==
    [row |-> row, source |-> s, target |-> t, kind |-> kind, confidence |-> confidence,
     evidence |-> evidence]
Relations ==
    {Rel(1, 3, 1, "calls", "confirmed", {Ev(2, "virtual", 1)}),
      Rel(2, 2, 1, "overrides", "confirmed", {Ev(2, "static", 1), Ev(3, "static", 2)}),
      Rel(3, 2, 4, "calls", "confirmed", {Ev(2, "static", 1)}),
      Rel(4, 4, 3, "calls", "possible", {Ev(3, "static", 2)}),
      Rel(5, 5, 2, "calls", "confirmed", {Ev(2, "static", 1), Ev(3, "static", 2)}),
      Rel(6, 3, 4, "calls", "confirmed", {Ev(3, "static", 2)}),
      Rel(7, 1, 5, "calls", "confirmed", {Ev(1, "static", 1)})}

Store(relations) ==
    [symbols |-> 1..7, name |-> Names, owners |-> Owners, rank |-> Ranks,
     locations |-> Places, placeholder |-> {[symbol |-> 6, unit |-> 2]},
     linkage |-> Linkages, relations |-> relations,
     includes |-> {[includer |-> 2, at |-> 2, target |-> 1, unit |-> 1],
                   [includer |-> 3, at |-> 3, target |-> 1, unit |-> 2],
                   [includer |-> 2, at |-> 2, target |-> 0, unit |-> 1]},
     sites |-> {[owner |-> 3, file |-> 2, unit |-> 1], [owner |-> 4, file |-> 3, unit |-> 2]},
     files |-> 1..3, withheld |-> {}, stale |-> {2}, failed |-> FALSE]

(* The family: the override, the call through its slot, and any others.    *)
Graphs == SUBSET (3..7)
Graph(g) == Store({r \in Relations : r.row \in g \cup {1, 2}})
Whole == {8}
Retired == {9}
WholeStore == Graph(3..7)
RetiredStore ==
    [Retire(WholeStore, 1) EXCEPT !.symbols = 1..6, !.name[6] = "rerun"]

DatabaseDef ==
    [d \in Graphs \cup {Whole, Retired} |->
        CASE d = Whole -> WholeStore [] d = Retired -> RetiredStore [] OTHER -> Graph(d)]
PublicationsDef(d) ==
    CASE d = Whole -> {Retired} [] d = Retired -> {Whole} [] OTHER -> {}

ComponentsDef == [run |-> <<"run">>, callRun |-> <<"call", "run">>, helper |-> <<"helper">>, rerun |-> <<"re", "run">>,
                  Base |-> <<"base">>, Derived |-> <<"derived">>]
PathComponentsDef == <<<<"base", "h">>, <<"run", "cpp">>, <<"helper", "run", "cpp">>>>

FindRequest(anchored, path) ==
    [tool |-> "find_code", query |-> [anchored |-> anchored, path |-> path]]
TraceRequest(sel, incoming, depth) ==
    [tool |-> "trace_calls", selector |-> sel, incoming |-> incoming, depth |-> depth]
GraphRequests ==
    {TraceRequest([id |-> s], incoming, depth) : s \in {1, 2, 4}, incoming \in BOOLEAN, depth \in {1, 4}}
StoreRequests ==
    {FindRequest(FALSE, <<"run">>), FindRequest(FALSE, <<"Derived", "run">>),
     TraceRequest([id |-> 2], TRUE, 4), TraceRequest([anchored |-> FALSE, path |-> <<"run">>], TRUE, 4),
     TraceRequest([anchored |-> TRUE, path |-> <<"callRun">>], FALSE, 4),
     [tool |-> "file_api", file |-> 2], [tool |-> "file_api", file |-> 3]}
IsStore(d) == d \in {Whole, Retired}
RequestsDef == [d \in DOMAIN DatabaseDef |-> IF IsStore(d) THEN StoreRequests ELSE GraphRequests]
MaxCallsDef ==
    [d \in DOMAIN DatabaseDef |->
        CASE IsStore(d) -> StoreCalls [] d = 3..7 -> 4 [] OTHER -> 2]
MaxEventsDef == [d \in DOMAIN DatabaseDef |-> IF IsStore(d) THEN StoreEvents ELSE 0]
LimitsDef == [d \in DOMAIN DatabaseDef |->
    CASE d = Whole -> {1, 2} [] d = Retired -> {0, 2} [] OTHER -> {2}]
FirstDatabasesDef == DOMAIN DatabaseDef \ {Retired}
=============================================================================

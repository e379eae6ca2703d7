------------------------------- MODULE Codec -------------------------------
(***************************************************************************)
(* The binary form in which a contribution waits in a spool:               *)
(* encode_contribution() and decode_contribution().                        *)
(*                                                                         *)
(* A form is a sequence of items: the magic, the number of texts in the    *)
(* table, the texts (each with its size), then the body, whose items are   *)
(* all numbers: a varint, a flag and a reference into the table look       *)
(* alike, so that only the order in which the reader asks for them says    *)
(* what they are. An item that is cut in two is refused like one that is   *)
(* missing, and counts as missing here. A text is <<name, n, digest>>.     *)
(*                                                                         *)
(* Writer and reader each walk a layout of their own, spelled out field by *)
(* field in the order of the calls. A value is a record of its fields; an  *)
(* optional is a list of at most one element.                              *)
(***************************************************************************)
EXTENDS FactSets, SequencesExt

CONSTANTS Contributions,  \* what analyses hand to the spool
          WordMax,        \* the largest uint32_t (scaled down)
          Reservable,     \* the longest table memory can be reserved for
          Strange         \* numbers a damaged body may hold

VARIABLES contribution,   \* what was encoded
          form,           \* its items
          fate,           \* what has happened to them
          decoded         \* what the reader made of them

codecVars == <<contribution, form, fate, decoded>>

Magic == [magic |-> "lcm.contribution.v1"]
ForeignMagic == [magic |-> "other"]
Num(n) == [number |-> n]
Txt(t) == [text |-> t]

-----------------------------------------------------------------------------
(* Enumerators the code goes by. *)

PresenceCode(p) ==
    CASE p = "indexed" -> 0 [] p = "external_placeholder" -> 1
      [] p = "endpoint_only" -> 2 [] p = "implicit_hidden" -> 3

ImplicitDeclaration == 2
UnresolvedConfidence == 2

-----------------------------------------------------------------------------
(* Layouts. *)

Text == [kind |-> "text"]
Digest == [kind |-> "digest"]
Number == [kind |-> "number"]
Word == [kind |-> "word"]
Code == [kind |-> "code"]
Flag == [kind |-> "flag"]
Maybe(T) == [kind |-> "optional", of |-> T]
List(T) == [kind |-> "list", of |-> T]
OneOf(Ts) == [kind |-> "choice", of |-> Ts]
Checked(T) == [kind |-> "checked", of |-> T]
Rec(names, Ts) == [kind |-> "record", names |-> names, of |-> Ts]

Times(n, T) == [i \in 1..n |-> T]

\* Layout by layout, the fields that put() writes and those that get_*() reads.
PutPath == Rec(<<"generic", "as_written">>, <<Text, Text>>)
GetPath == Rec(<<"generic", "as_written">>, <<Text, Text>>)

PutHash == Rec(<<"digest", "size">>, <<Digest, Number>>)
GetHash == Rec(<<"digest", "size">>, <<Digest, Number>>)

PutLocation ==
    Rec(<<"file", "content_hash", "begin_offset", "end_offset", "begin_line",
          "begin_column", "end_line", "end_column", "span_hash">>,
        <<PutPath, PutHash>> \o Times(6, Number) \o <<Maybe(Digest)>>)
GetLocation ==
    Rec(<<"file", "content_hash", "begin_offset", "end_offset", "begin_line",
          "begin_column", "end_line", "end_column", "span_hash">>,
        <<GetPath, GetHash>> \o Times(6, Word) \o <<Maybe(Digest)>>)

PutOwner ==
    Rec(<<"kind", "name", "normalized_signature", "template_role",
          "template_parameters", "template_arguments">>,
        <<Code, Text, Text, Code, Text, Text>>)
GetOwner ==
    Rec(<<"kind", "name", "normalized_signature", "template_role",
          "template_parameters", "template_arguments">>,
        <<Code, Text, Text, Code, Text, Text>>)

\* External, internal and local linkage, behind their index.
PutLinkage ==
    OneOf(<<Rec(<<>>, <<>>), Rec(<<"file_scope">>, <<PutPath>>),
            Rec(<<"enclosing", "anchor", "ordinal">>, <<Text, Text, Number>>)>>)
GetLinkage ==
    OneOf(<<Rec(<<>>, <<>>), Rec(<<"file_scope">>, <<GetPath>>),
            Rec(<<"enclosing", "anchor", "ordinal">>, <<Text, Text, Word>>)>>)

PutKey ==
    Rec(<<"repository_member", "language", "kind", "owner_chain", "canonical_name",
          "normalized_signature", "linkage", "template_role",
          "template_parameters", "template_arguments">>,
        <<Text, Code, Code, List(PutOwner), Text, Text, PutLinkage, Code, Text, Text>>)
GetKey ==
    Rec(<<"repository_member", "language", "kind", "owner_chain", "canonical_name",
          "normalized_signature", "linkage", "template_role",
          "template_parameters", "template_arguments">>,
        <<Text, Code, Code, List(GetOwner), Text, Text, GetLinkage, Code, Text, Text>>)

PutSymbolLocation ==
    Rec(<<"role", "location", "body_hash", "analysis_unit", "explicitly_defaulted",
          "deleted_as_written", "implicitly_deleted", "trivial">>,
        <<Code, PutLocation, Maybe(Digest), Text>> \o Times(4, Flag))
GetSymbolLocation ==
    Rec(<<"role", "location", "body_hash", "analysis_unit", "explicitly_defaulted",
          "deleted_as_written", "implicitly_deleted", "trivial">>,
        <<Code, GetLocation, Maybe(Digest), Text>> \o Times(4, Flag))

PutBase == Rec(<<"effective_access", "access_written", "is_virtual", "lexical_ordinal">>,
               <<Code, Flag, Flag, Number>>)
GetBase == Rec(<<"effective_access", "access_written", "is_virtual", "lexical_ordinal">>,
               <<Code, Flag, Flag, Word>>)

PutEvidence ==
    Rec(<<"analysis_unit", "kind", "location", "provider_key", "evaluation", "dispatch",
          "template_use", "immediately_invoked_lambda", "template_arguments",
          "subobject_role", "subobject", "lifetime", "potentially_elided", "base">>,
        <<Text, Code, PutLocation, Maybe(Text), Code, Code, Code, Flag, Text, Code,
          Text, Code, Flag, Maybe(PutBase)>>)

\* Mutant: two enumerations that look alike trade places.
GetEvidence_Swapped ==
    Rec(<<"analysis_unit", "kind", "location", "provider_key", "dispatch", "evaluation",
          "template_use", "immediately_invoked_lambda", "template_arguments",
          "subobject_role", "subobject", "lifetime", "potentially_elided", "base">>,
        <<Text, Code, GetLocation, Maybe(Text), Code, Code, Code, Flag, Text, Code,
          Text, Code, Flag, Maybe(GetBase)>>)

GetEvidence ==
    Rec(<<"analysis_unit", "kind", "location", "provider_key", "evaluation", "dispatch",
          "template_use", "immediately_invoked_lambda", "template_arguments",
          "subobject_role", "subobject", "lifetime", "potentially_elided", "base">>,
        <<Text, Code, GetLocation, Maybe(Text), Code, Code, Code, Flag, Text, Code,
          Text, Code, Flag, Maybe(GetBase)>>)

PutTerm == Rec(<<"kind", "expression_as_written", "location">>, <<Code, Text, PutLocation>>)
GetTerm == Rec(<<"kind", "expression_as_written", "location">>, <<Code, Text, GetLocation>>)

PutInclude ==
    Rec(<<"includer", "directive_kind", "operand_kind", "operand_as_written",
          "expanded_spelling", "activity", "resolution", "resolved_repo_target",
          "external_dependency_key", "directive_location", "condition_path",
          "analysis_unit">>,
        <<PutPath, Code, Code, Text, Maybe(Text), Code, Code, Maybe(PutPath), Text,
          PutLocation,
          List(Rec(<<"preceding_branches", "own_condition", "is_else">>,
                   <<List(PutTerm), Maybe(PutTerm), Flag>>)), Text>>)
GetInclude ==
    Rec(<<"includer", "directive_kind", "operand_kind", "operand_as_written",
          "expanded_spelling", "activity", "resolution", "resolved_repo_target",
          "external_dependency_key", "directive_location", "condition_path",
          "analysis_unit">>,
        <<GetPath, Code, Code, Text, Maybe(Text), Code, Code, Maybe(GetPath), Text,
          GetLocation,
          List(Rec(<<"preceding_branches", "own_condition", "is_else">>,
                   <<List(GetTerm), Maybe(GetTerm), Flag>>)), Text>>)

SiteNames == <<"enclosing", "expression", "location", "reason", "analysis_unit">>
CaptureNames == <<"lambda", "kind", "explicit_capture", "init_capture", "pack_expansion",
                  "name", "target_descriptor", "location", "analysis_unit">>
RelationNames == <<"source", "target", "kind", "confidence", "evidence">>
FactNames == <<"symbols", "relations", "sites", "captures", "includes">>

PutFacts ==
    Rec(FactNames,
        <<List(Rec(<<"key", "presence", "locations">>,
                   <<PutKey, Code, List(PutSymbolLocation)>>)),
          List(Rec(RelationNames, <<Text, Text, Code, Code, List(PutEvidence)>>)),
          List(Rec(SiteNames, <<Text, Text, PutLocation, Code, Text>>)),
          List(Rec(CaptureNames,
                   <<Text, Code, Flag, Flag, Flag, Text, Text, PutLocation, Text>>)),
          List(PutInclude)>>)

\* Checked: what FactSet's adders refuse as they are called.
GetFacts ==
    Rec(FactNames,
        <<List(Rec(<<"key", "presence", "locations">>,
                   <<GetKey, Code, List(Checked(GetSymbolLocation))>>)),
          List(Checked(Rec(RelationNames,
                           <<Text, Text, Code, Code, List(Checked(GetEvidence))>>))),
          List(Checked(Rec(SiteNames, <<Text, Text, GetLocation, Code, Text>>))),
          List(Checked(Rec(CaptureNames,
                   <<Text, Code, Flag, Flag, Flag, Text, Text, GetLocation, Text>>))),
          List(Checked(GetInclude))>>)

ContributionNames ==
    <<"slot", "fact_label", "command_id", "context_id", "replay_id",
      "pch_producer_command_id", "pch_producer_replay_id", "analyzer", "resource_dir",
      "repository_member", "publish_policy", "analysis_status", "build_currency",
      "facts", "inputs", "includes", "diagnostics", "limits">>
InputNames == <<"path_utf8", "repo_path", "role", "content_hash", "is_system">>
EdgeNames == <<"includer_path_utf8", "spelling", "angled", "resolved_path_utf8", "line">>
DiagnosticNames == <<"level", "message", "file", "line", "column">>

PutContribution ==
    Rec(ContributionNames,
        <<Text, Text, Text, Maybe(Text), Text, Maybe(Text), Maybe(Text), Text, Text,
          Text, Text, Text, Code, PutFacts,
          List(Rec(InputNames, <<Text, Maybe(PutPath), Code, PutHash, Flag>>)),
          List(Rec(EdgeNames, <<Maybe(Text), Text, Flag, Maybe(Text), Number>>)),
          List(Rec(DiagnosticNames, <<Text, Text, Maybe(Text), Number, Number>>)),
          List(Text)>>)
GetContribution ==
    Rec(ContributionNames,
        <<Text, Text, Text, Maybe(Text), Text, Maybe(Text), Maybe(Text), Text, Text,
          Text, Text, Text, Code, GetFacts,
          List(Rec(InputNames, <<Text, Maybe(GetPath), Code, GetHash, Flag>>)),
          List(Rec(EdgeNames, <<Maybe(Text), Text, Flag, Maybe(Text), Word>>)),
          List(Rec(DiagnosticNames, <<Text, Text, Maybe(Text), Word, Word>>)),
          List(Text)>>)

-----------------------------------------------------------------------------
(* The writer. *)

\* What put() hands to the writer, in order: numbers, and texts to refer to.
RECURSIVE Put(_, _)
Put(T, v) ==
    CASE T.kind \in {"text", "digest"} -> <<Txt(v)>>
      [] T.kind \in {"number", "code"} -> <<Num(v)>>
      [] T.kind = "flag" -> <<Num(IF v THEN 1 ELSE 0)>>
      [] T.kind \in {"optional", "list"} ->
            <<Num(Len(v))>> \o FlattenSeq([i \in DOMAIN v |-> Put(T.of, v[i])])
      [] T.kind = "choice" -> <<Num(v.index)>> \o Put(T.of[v.index + 1], v.value)
      [] T.kind = "record" -> FlattenSeq([i \in DOMAIN T.of |-> Put(T.of[i], v[T.names[i]])])

IsText(item) == "text" \in DOMAIN item

\* A text is in the table once, where it was put first; the body refers to it.
Finished(items) ==
    LET new == SelectSeq([i \in DOMAIN items |-> i],
                         LAMBDA i : IsText(items[i]) /\ \A j \in 1..i - 1 : items[j] /= items[i])
        Place(i) == CHOOSE n \in DOMAIN new : items[new[n]] = items[i]
    IN  <<Magic, Num(Len(new))>> \o [n \in DOMAIN new |-> items[new[n]]]
          \o [i \in DOMAIN items |-> IF IsText(items[i]) THEN Num(Place(i) - 1) ELSE items[i]]

AsList(set) == FoldSet(LAMBDA x, list : Append(list, x), <<>>, set)

RelationKey(r) == [n \in {"source", "target", "kind", "confidence"} |-> r[n]]

\* The maps and vectors of a FactSet, in the order they are iterated.
Listed(facts) ==
    [symbols |-> LET keys == AsList(DOMAIN facts.symbols)
                 IN  [i \in DOMAIN keys |->
                        [key |-> keys[i], presence |-> PresenceCode(facts.symbols[keys[i]].presence),
                         locations |-> AsList(facts.symbols[keys[i]].locations)]],
     relations |-> LET keys == AsList({RelationKey(r) : r \in facts.relations})
                   IN  [i \in DOMAIN keys |->
                          [n \in ToSet(RelationNames) |->
                             IF n /= "evidence" THEN keys[i][n]
                             ELSE AsList({r.evidence : r \in {x \in facts.relations :
                                                          RelationKey(x) = keys[i]}})]],
     sites |-> AsList(facts.sites),
     captures |-> AsList(facts.captures),
     includes |-> AsList(facts.includes)]

Encoded(c) ==
    Finished(Put(PutContribution, [c EXCEPT !.facts = Listed(@)]))

-----------------------------------------------------------------------------
(* The reader: what is at an item, where the next one is, and the error that *)
(* has been thrown, if one has.                                              *)

Got(at, value) == [at |-> at, value |-> value, error |-> ""]
Thrown(error) == [at |-> 0, value |-> <<>>, error |-> error]
Fail == Thrown("StoreError")

NumberAt(items, at, largest) ==
    IF at \notin DOMAIN items THEN Fail
    ELSE IF items[at].number > largest THEN Fail ELSE Got(at + 1, items[at].number)

\* table[first] is the text of reference 0; r is [items, first, texts].
TextAt(r, at) ==
    IF at \notin DOMAIN r.items THEN Fail
    ELSE IF r.items[at].number >= r.texts THEN Fail
    ELSE Got(at + 1, r.items[r.first + r.items[at].number].text)

DigestAt(r, at) ==
    LET got == TextAt(r, at)
    IN  IF got.error = "" /\ ~got.value[3] THEN Fail ELSE got

\* What the adders of a FactSet throw std::invalid_argument for.
Refuses(v) ==
    IF "evidence" \in DOMAIN v THEN v.confidence = UnresolvedConfidence /\ v.evidence /= <<>>
    ELSE \/ v.analysis_unit[1] = ""
         \/ "role" \in DOMAIN v /\ v.role = ImplicitDeclaration /\ v.body_hash /= <<>>

RECURSIVE Get(_, _, _), GetAll(_, _, _)
GetAll(r, at, Ts) ==
    IF Ts = <<>> THEN Got(at, <<>>)
    ELSE LET first == Get(r, at, Head(Ts))
             rest == GetAll(r, first.at, Tail(Ts))
         IN  CASE first.error /= "" -> first
               [] rest.error /= "" -> rest
               [] OTHER -> Got(rest.at, <<first.value>> \o rest.value)

Get(r, at, T) ==
    LET Counted(largest) ==
            LET n == NumberAt(r.items, at, largest)
            IN  IF n.error /= "" THEN n ELSE GetAll(r, n.at, Times(n.value, T.of))
    IN  CASE T.kind = "text" -> TextAt(r, at)
          [] T.kind = "digest" -> DigestAt(r, at)
          [] T.kind = "number" -> NumberAt(r.items, at, Reservable)
          [] T.kind = "word" -> NumberAt(r.items, at, WordMax)
          [] T.kind = "code" -> NumberAt(r.items, at, 255)
          [] T.kind = "flag" -> LET n == NumberAt(r.items, at, 1)
                                IN  IF n.error /= "" THEN n ELSE [n EXCEPT !.value = @ = 1]
          [] T.kind = "optional" -> Counted(1)
          [] T.kind = "list" -> Counted(Len(r.items))
          [] T.kind = "choice" ->
                LET n == NumberAt(r.items, at, 2)
                    v == Get(r, n.at, T.of[n.value + 1])
                IN  IF n.error /= "" THEN n
                    ELSE [v EXCEPT !.value = [index |-> n.value, value |-> @]]
          [] T.kind = "record" ->
                LET all == GetAll(r, at, T.of)
                IN  IF all.error /= "" THEN all
                    ELSE [all EXCEPT !.value = [n \in ToSet(T.names) |->
                            @[CHOOSE i \in DOMAIN T.names : T.names[i] = n]]]
          [] T.kind = "checked" ->
                LET got == Get(r, at, T.of)
                IN  IF got.error = "" /\ Refuses(got.value) THEN Thrown("invalid_argument")
                    ELSE got

\* The public API of a FactSet, one call after the other.
Rebuilt(lists) ==
    LET AddLocation(f, key, l) == IF l.role = ImplicitDeclaration
                                  THEN AddHiddenMember(f, key, l) ELSE AddSymbolLocation(f, key, l)
        Presented(f, s) ==
            CASE s.presence = PresenceCode("external_placeholder") -> AddExternalPlaceholder(f, s.key)
              [] s.presence = PresenceCode("endpoint_only") -> AddEndpointOnly(f, s.key)
              [] OTHER -> f
        AddSymbol(f, s) ==
            FoldLeft(LAMBDA g, l : AddLocation(g, s.key, l), Presented(f, s), s.locations)
    IN  [FoldLeft(AddSymbol, NoFacts, lists.symbols) EXCEPT
            !.relations = UNION {{[n \in ToSet(RelationNames) |->
                                     IF n = "evidence" THEN e ELSE rel[n]]
                                  : e \in ToSet(rel.evidence)} : rel \in ToSet(lists.relations)},
            !.sites = ToSet(lists.sites), !.captures = ToSet(lists.captures),
            !.includes = ToSet(lists.includes)]

Decoded(items) ==
    LET texts == NumberAt(items, 2, Reservable)
        start == 3 + texts.value
        read == Get([items |-> items, first |-> 3, texts |-> texts.value], start, GetContribution)
    IN  IF items = <<>> \/ Head(items) /= Magic THEN Fail
        ELSE IF texts.error /= ""
             THEN IF Len(items) < 2 THEN Fail ELSE Thrown("length_error")  \* reserve()
        ELSE IF start > Len(items) + 1 THEN Fail
        ELSE IF read.error /= "" THEN read
        ELSE IF read.at /= Len(items) + 1 THEN Fail
        ELSE [read EXCEPT !.value.facts = Rebuilt(@)]

-----------------------------------------------------------------------------

NotDecoded == [at |-> 0, value |-> <<>>, error |-> "not read"]

CodecInit ==
    /\ contribution = <<>> /\ form = <<>>
    /\ fate = "none" /\ decoded = NotDecoded

EncodeContribution ==
    /\ fate = "none"
    /\ contribution' \in Contributions
    /\ form' = Encoded(contribution')
    /\ fate' = "kept"
    /\ UNCHANGED decoded

\* What may happen to bytes in a file: they end too early, or too late, another
\* program wrote them, one of them is another.
\* A size of a text, or a count of texts that still fits, is left as it is:
\* where the next item begins would then depend on the bytes.
Damage ==
    /\ fate = "kept" /\ decoded.error = "not read"
    /\ \/ \E n \in 0..Len(form) - 1 : form' = SubSeq(form, 1, n) /\ fate' = "cut"
       \/ form' = Append(form, Num(0)) /\ fate' = "longer"
       \/ form' = [form EXCEPT ![1] = ForeignMagic] /\ fate' = "foreign"
       \/ \E i \in 2..Len(form), n \in Strange :
             /\ "number" \in DOMAIN form[i] /\ form[i].number /= n
             /\ i = 2 => n > Reservable
             /\ form' = [form EXCEPT ![i] = Num(n)] /\ fate' = "altered"
    /\ UNCHANGED <<contribution, decoded>>

DecodeContribution ==
    /\ fate /= "none" /\ decoded.error = "not read"
    /\ decoded' = Decoded(form)
    /\ UNCHANGED <<contribution, form, fate>>

CodecNext == EncodeContribution \/ Damage \/ DecodeContribution

CodecSpec == CodecInit /\ [][CodecNext]_codecVars

-----------------------------------------------------------------------------

\* What the spool gives back is the contribution it was given, field for field
\* and with the presence its symbols had; bytes that end too early at any item,
\* or too late, or that another format left, are a StoreError and never a
\* contribution. What is read out of altered bytes, when it is not an error, is
\* a contribution like any other: written and read once more it is the same.
WhatIsReadWasWritten ==
    decoded.error /= "not read" =>
        CASE fate = "kept" -> decoded.error = "" /\ decoded.value = contribution
          [] fate \in {"cut", "longer", "foreign"} -> decoded.error = "StoreError"
          [] fate = "altered" ->
                decoded.error = "" => Decoded(Encoded(decoded.value)).value = decoded.value

\* contribution_codec.hpp: "throws StoreError on truncated or malformed bytes".
\* A table too long to reserve is a std::length_error, and what an adder of the
\* FactSet refuses a std::invalid_argument.
MalformedIsAStoreError == decoded.error \in {"", "not read", "StoreError"}
=============================================================================

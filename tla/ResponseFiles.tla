---------------------------- MODULE ResponseFiles ----------------------------
(***************************************************************************)
(* expand_response_files(): the arguments of one native cl.exe command     *)
(* with every @file replaced by the tokens of that file, nested ones too,  *)
(* one look at the disk, or one token, a step, while files are rewritten.  *)
(*                                                                         *)
(* A token is [ref: FALSE, is: a word] or [ref: TRUE, is: a path], already *)
(* resolved against the command's directory. A file is [id, text], text    *)
(* its tokens, each one byte long; a Garbage token stands for bytes that   *)
(* are no accepted encoding or an unclosed quote.                          *)
(***************************************************************************)
EXTENDS Integers, Sequences, FiniteSets, SequencesExt

CONSTANTS NoFile, Garbage,
          Expansions,   \* [command, native, absolute, limits, tree, rewrites]
          Rewrites      \* path -> the files a rewrite may leave there

VARIABLES tree, rewrites, expansion

responseVars == <<tree, rewrites, expansion>>

\* has_response_token, detect_compiler(): whether there is anything to do.
Applicable(w) ==
    w.native /\ \E i \in 2..Len(w.command) : w.command[i].ref

Origin(raw, snapshot, index) == [raw |-> raw, snapshot |-> snapshot, index |-> index]

NewExpansion(w) ==
    [command |-> w.command, limits |-> w.limits, still |-> w.rewrites = 0, absolute |-> w.absolute,
     status |-> CASE ~Applicable(w) -> "not_attempted"
                  [] Applicable(w) /\ (~w.absolute \/ w.limits.tokens = 0) -> "refused"
                  [] OTHER -> "running",
     at |-> "token", next |-> 2, stack |-> <<>>,
     reference |-> NoFile, size |-> 0,
     files |-> <<>>, total |-> 0, visited |-> 0,
     out |-> IF Applicable(w) /\ w.absolute /\ w.limits.tokens > 0
             THEN <<[is |-> w.command[1].is, from |-> Origin(1, 0, 0)]>>
             ELSE <<>>]

ResponseInit ==
    \E w \in Expansions :
        /\ tree = w.tree
        /\ rewrites = w.rewrites
        /\ expansion = NewExpansion(w)

-----------------------------------------------------------------------------

Become(e) == expansion' = e /\ UNCHANGED <<tree, rewrites>>

Running(at) == expansion.status = "running" /\ expansion.at = at

\* All or nothing: a refusal keeps no argument.
Refused(e) == [e EXCEPT !.status = "refused", !.out = <<>>]

\* same_response_file()
SameResponse(p, q) ==
    IF tree[p] /= NoFile /\ tree[q] /= NoFile
    THEN tree[p].id = tree[q].id
    ELSE p = q

\* Mutant: reuse is decided by the spelling.
SnapshotsOf_BySpelling(e, p) ==
    {i \in DOMAIN e.files : e.files[i].path = p}

SnapshotsOf(e, p) == {i \in DOMAIN e.files : SameResponse(e.files[i].path, p)}

First(S) == CHOOSE i \in S : \A j \in S : i <= j

Raw(e) == IF e.stack = <<>> THEN e.next ELSE e.stack[1].raw

\* Mutant: a file read before is read again.
TokensOf_ReadAgain(e, i) ==
    IF tree[e.files[i].path] = NoFile THEN <<>>
    ELSE SelectSeq(tree[e.files[i].path].text, LAMBDA token : token /= Garbage)

TokensOf(e, i) == e.files[i].text

\* The reference is resolved: its tokens come next.
Descend(e, i) ==
    [e EXCEPT !.stack = Append(@, [path |-> e.reference, snapshot |-> i,
                                   tokens |-> TokensOf(e, i), at |-> 1,
                                   raw |-> Raw(e)]),
              !.at = "token"]

-----------------------------------------------------------------------------

\* A word is forwarded, within the bound on what comes out.
Forward(e, word, from) ==
    IF Len(e.out) >= e.limits.tokens THEN Refused(e)
    ELSE [e EXCEPT !.out = Append(@, [is |-> word, from |-> from])]

Spent(e) == e.visited >= e.limits.visited

Refer(e, path) == [e EXCEPT !.at = "enter", !.reference = path]

\* The next argument of the command itself.
NextArgument ==
    LET e == expansion
        token == e.command[e.next]
    IN  /\ Running("token")
        /\ e.stack = <<>>
        /\ e.next <= Len(e.command)
        /\ Become(IF token.ref THEN Refer(e, token.is)
                  ELSE [Forward(e, token.is, Origin(e.next, 0, 0)) EXCEPT !.next = @ + 1])

\* The next token of the file on top; every token examined is work.
NextToken ==
    LET e == expansion
        top == Last(e.stack)
        token == top.tokens[top.at]
        w == [e EXCEPT !.visited = @ + 1, !.stack[Len(e.stack)].at = @ + 1]
    IN  /\ Running("token")
        /\ e.stack /= <<>>
        /\ top.at <= Len(top.tokens)
        /\ Become(CASE Spent(e) -> Refused(e)
                    [] ~Spent(e) /\ token.ref -> Refer(w, token.is)
                    [] ~Spent(e) /\ ~token.ref ->
                         Forward(w, token.is, Origin(top.raw, top.snapshot, top.at)))

EndFile ==
    LET e == expansion IN
    /\ Running("token")
    /\ e.stack /= <<>>
    /\ Last(e.stack).at > Len(Last(e.stack).tokens)
    /\ Become([e EXCEPT !.stack = Front(@),
                        !.next = IF Len(e.stack) = 1 THEN @ + 1 ELSE @])

EndCommand ==
    LET e == expansion IN
    /\ Running("token")
    /\ e.stack = <<>>
    /\ e.next > Len(e.command)
    /\ Become([e EXCEPT !.status = "ok"])

-----------------------------------------------------------------------------
(* One reference: expand(), then snapshot_for(). *)

\* The reference is work even when its file is known; a file on the path to it
\* would be recursion.
Enter ==
    LET e == expansion
        refused == \/ Len(e.stack) + 1 > e.limits.depth
                   \/ Spent(e)
                   \/ \E i \in DOMAIN e.stack : SameResponse(e.stack[i].path, e.reference)
    IN  /\ Running("enter")
        /\ Become(IF refused THEN Refused(e)
                  ELSE [e EXCEPT !.visited = @ + 1, !.at = "find"])

\* A file read before is used again, and the new spelling of it is recorded.
Find ==
    LET e == expansion
        known == SnapshotsOf(e, e.reference)
        i == First(known)
        spelled == IF e.reference = e.files[i].path THEN e
                   ELSE [e EXCEPT !.files[i].aliases = @ \cup {e.reference}]
    IN  /\ Running("find")
        /\ Become(IF known = {} THEN [e EXCEPT !.at = "measure"]
                  ELSE Descend(spelled, i))

\* The size is asked for first, and limited.
Measure ==
    LET e == expansion
        file == tree[e.reference]
        size == Len(file.text)
    IN  /\ Running("measure")
        /\ Become(IF \/ file = NoFile
                     \/ size > e.limits.file
                     \/ e.total + size > e.limits.total
                  THEN Refused(e)
                  ELSE [e EXCEPT !.at = "read", !.size = size])

\* That many bytes are read: a file that shrank is refused, of one that grew
\* the rest is left.
Read ==
    LET e == expansion
        file == tree[e.reference]
        bytes == SubSeq(file.text, 1, e.size)
    IN  /\ Running("read")
        /\ Become(IF \/ file = NoFile
                     \/ Len(file.text) < e.size
                     \/ Garbage \in ToSet(bytes)
                  THEN Refused(e)
                  ELSE Descend([e EXCEPT !.total = @ + e.size,
                                  !.files = Append(@, [path |-> e.reference,
                                      text |-> bytes, aliases |-> {}])],
                               Len(e.files) + 1))

Expand == NextArgument \/ NextToken \/ EndFile \/ EndCommand
            \/ Enter \/ Find \/ Measure \/ Read

\* A file is rewritten, under all its names, or taken away, or replaced.
Rewrite ==
    /\ rewrites > 0
    /\ rewrites' = rewrites - 1
    /\ \E p \in DOMAIN Rewrites : \E f \in Rewrites[p] :
        /\ f /= tree[p]
        /\ tree' = [q \in DOMAIN tree |->
                      IF q = p \/ (f /= NoFile /\ tree[q] /= NoFile /\ tree[q].id = f.id)
                      THEN f ELSE tree[q]]
    /\ UNCHANGED expansion

ResponseNext == Expand \/ Rewrite

ResponseSpec == ResponseInit /\ [][ResponseNext]_responseVars

-----------------------------------------------------------------------------
(* What an expansion must be. *)

\* What a path stands for in the evidence of an expansion.
Recorded(e, p) ==
    {i \in DOMAIN e.files : e.files[i].path = p \/ p \in e.files[i].aliases}

\* One member of each set, in turn.
Joined(parts) == FoldLeft(LAMBDA S, P : {s \o t : s \in S, t \in P}, {<<>>}, parts)

\* What a reference to p may stand for: the tokens of one snapshot recorded for
\* it, nested references in their place, to the depth that is allowed.
RECURSIVE Readings(_, _, _, _)
Readings(e, p, raw, depth) ==
    IF depth = 0 THEN {}
    ELSE UNION {Joined([k \in DOMAIN e.files[i].text |->
                   LET token == e.files[i].text[k] IN
                   IF token.ref THEN Readings(e, token.is, raw, depth - 1)
                   ELSE {<<[is |-> token.is, from |-> Origin(raw, i, k)]>>}])
                : i \in Recorded(e, p)}

\* No path is in the evidence of two snapshots.
OneSnapshotEach(e) == \A p \in DOMAIN tree : Cardinality(Recorded(e, p)) <= 1

\* An accepted expansion is one that its own evidence gives: the command with
\* every reference replaced by the tokens of a snapshot recorded for it, each
\* with its origin, whatever was written to the files meanwhile. When nothing
\* was, each path, links included, has one snapshot and the evidence gives one
\* expansion only.
ExpansionIsOfSnapshots ==
    LET e == expansion
        readings == Joined([k \in DOMAIN e.command |->
            LET token == e.command[k] IN
            IF k > 1 /\ token.ref THEN Readings(e, token.is, k, e.limits.depth)
            ELSE {<<[is |-> token.is, from |-> Origin(k, 0, 0)]>>}])
    IN  e.status = "ok" =>
            /\ e.out \in readings
            /\ e.still => OneSnapshotEach(e)

\* Everything a traversal of path p meets: itself, then its tokens; "stop"
\* where no expansion is possible. The depth ends it.
RECURSIVE Meets(_, _, _)
Meets(e, p, above) ==
    LET file == tree[p] IN
    IF \/ file = NoFile \/ Len(above) + 1 > e.limits.depth
       \/ \E q \in ToSet(above) : tree[q].id = file.id
       \/ Len(file.text) > e.limits.file \/ Garbage \in ToSet(file.text)
    THEN <<[kind |-> "stop", of |-> p]>>
    ELSE <<[kind |-> "file", of |-> p]>>
           \o FlattenSeq([k \in DOMAIN file.text |->
                LET token == file.text[k] IN
                IF token.ref THEN <<[kind |-> "seen", of |-> p]>>
                                    \o Meets(e, token.is, Append(above, p))
                ELSE <<[kind |-> "word", of |-> p]>>])

\* While no file changes a command is expanded exactly when it can be: every
\* reference leads to a readable file and to no file on its own path, and the
\* sizes of the distinct files, the words that come out and the work of every
\* traversal, known files included, are within their limits.
RefusedForACauseOnly ==
    LET e == expansion
        met == FlattenSeq([k \in DOMAIN e.command |->
                   IF k > 1 /\ e.command[k].ref THEN Meets(e, e.command[k].is, <<>>)
                   ELSE <<[kind |-> "argument", of |-> NoFile]>>])
        Times(kinds) == Cardinality({i \in DOMAIN met : met[i].kind \in kinds})
        distinct == {tree[x.of] : x \in {y \in ToSet(met) : y.kind = "file"}}
        bytes == FoldSet(LAMBDA f, n : n + Len(f.text), 0, distinct)
    IN  e.still /\ e.status \in {"ok", "refused"} =>
            (e.status = "ok"
                <=> /\ e.absolute
                    /\ Times({"stop"}) = 0
                    /\ bytes <= e.limits.total
                    /\ Times({"argument", "word"}) <= e.limits.tokens
                    /\ Times({"file", "seen", "word"}) <= e.limits.visited)

-----------------------------------------------------------------------------
(* What the documentation says and does not hold. *)

\* response_file.hpp:58: "A later reference to the same resolved path reuses
\* this snapshot". Violated: snapshot_for compares with the paths that were
\* read and not with their aliases, as they are now. A hard link recorded as an
\* alias and then replaced is read anew by the next reference to it, and stands
\* in the evidence of both snapshots; and a file read by its own name gives way
\* to an earlier snapshot once that one's path has become a link to it.
RepeatsReuseOneSnapshot == expansion.status = "ok" => OneSnapshotEach(expansion)
=============================================================================

----------------------------- MODULE FrozenFiles -----------------------------
(***************************************************************************)
(* FrozenFileSystem, the snapshot every front-end run of one PCH replay    *)
(* reads through: what status() and openFileForRead() answer, given what   *)
(* the snapshot keeps and what is on the disk at the moment of the call.   *)
(*                                                                         *)
(* A disk maps a path to Absent or to a file [id, text]: the names of one  *)
(* file carry one id. Paths are the absolute keys of key_for(). A failed   *)
(* open is a file that is not there; its error code is left out.           *)
(***************************************************************************)
EXTENDS Sequences

CONSTANT Absent

\* An empty function: nothing frozen, asked or known by its identity yet.
Nothing == <<>>

NewSnapshot ==
    [canonical |-> Nothing, text |-> Nothing, byIdentity |-> Nothing,
     failed |-> {}, queried |-> Nothing, sealed |-> FALSE, order |-> <<>>]

With(f, x, y) == [z \in DOMAIN f \cup {x} |-> IF z = x THEN y ELSE f[z]]

Frozen(s, p) == p \in DOMAIN s.canonical

RecordedAbsent(s, p) == p \in DOMAIN s.queried /\ ~s.queried[p]

\* A path enters the snapshot under its own name.
Freeze(s, p, text) ==
    [s EXCEPT !.canonical = With(@, p, p), !.text = With(@, p, text),
              !.order = Append(@, p)]

AddVirtualFile(s, p, text) == IF Frozen(s, p) THEN s ELSE Freeze(s, p, text)

Seal(s) == [s EXCEPT !.sealed = TRUE]

\* What the snapshot would serve for a path it froze.
TextOf(s, p) == s.text[s.canonical[p]]

Remember(s, p, found) ==
    IF s.sealed THEN s ELSE [s EXCEPT !.queried = With(@, p, found)]

\* status(): whether the path exists, and the snapshot afterwards.
Status(s, disk, p) ==
    IF Frozen(s, p) THEN [found |-> TRUE, view |-> s]
    ELSE IF RecordedAbsent(s, p) THEN [found |-> FALSE, view |-> s]
    ELSE LET found == disk[p] /= Absent
         IN  [found |-> found, view |-> Remember(s, p, found)]

\* The first open of a file reads it once; a second name of the same file is
\* a hard link to the first.
ReadOnce(s, p, file) ==
    IF file.id \in DOMAIN s.byIdentity
    THEN [s EXCEPT !.canonical = With(@, p, s.byIdentity[file.id])]
    ELSE [Freeze(s, p, file.text) EXCEPT
             !.byIdentity = With(@, file.id, p)]

\* Mutant: a failed open is not kept.
Missed_Forgotten(s, p) == s

Missed(s, p) == [s EXCEPT !.failed = @ \cup {p}]

\* openFileForRead(): the snapshot after it; the answer is then AnswerOf.
Open(s, disk, p) ==
    CASE Frozen(s, p) \/ RecordedAbsent(s, p) \/ p \in s.failed -> s
      [] OTHER -> IF disk[p] = Absent THEN Missed(s, p)
                  ELSE ReadOnce(s, p, disk[p])

\* What that open answered.
AnswerOf(s, p) == IF Frozen(s, p) THEN TextOf(s, p) ELSE Absent

Opened(s, disk, p) == AnswerOf(Open(s, disk, p), p)
==============================================================================

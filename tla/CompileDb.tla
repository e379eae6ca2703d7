----------------------------- MODULE CompileDb -----------------------------
(***************************************************************************)
(* Compilation databases: how a command line becomes arguments, an entry   *)
(* a command with an identity, and a source file the one command that      *)
(* compiles it, while files come and go.                                   *)
(*                                                                         *)
(* A command line is a sequence of characters: Back, Quote, Apostrophe,    *)
(* Blank and letters. A path is a spelling; Key folds the spellings that   *)
(* are lexically one path, and the files maps a spelling to the object that *)
(* is there, so that several spellings may name one object. The file of an *)
(* entry is what its spelling resolves to under the entry's directory.     *)
(***************************************************************************)
EXTENDS Naturals, SequencesExt

CONSTANTS Documents,  \* what database files hold: sequences of entries
          PathKey,    \* spelling -> path_key()
          Canonical,  \* spelling -> the filesystem's own spelling of it
          Inode,      \* files there may be
          Back, Quote, Apostrophe, Blank,
          MaxChanges  \* bound: what happens to files and to the list of commands

VARIABLES database,   \* the entries of the document
          unparsed,   \* how many of them are still to be read
          commands,   \* the commands they gave
          diagnosed,  \* the entries with an error
          files,       \* spelling -> what is there
          changes,
          index,      \* the FileIndex: an entry for each command, once asked
          asked,      \* the files it was asked on
          selection   \* the last lookup and its answer

dbVars == <<database, unparsed, commands, diagnosed, files, changes, index, asked, selection>>

-----------------------------------------------------------------------------
(* Command lines. *)

\* How many backslashes there are from i on.
Backslashes(line, i) == CHOOSE n \in 0..Len(line) :
    /\ \A j \in i..i + n - 1 : j <= Len(line) /\ line[j] = Back
    /\ i + n <= Len(line) => line[i + n] /= Back

QuoteAt(line, i) == i <= Len(line) /\ line[i] = Quote

NoTokens == [at |-> 1, token |-> <<>>, open |-> FALSE, quoted |-> FALSE, arguments |-> <<>>,
          unterminated |-> FALSE]
Push(t, chars, next) == [t EXCEPT !.token = @ \o chars, !.open = TRUE, !.at = next]
EndToken(t) ==
    IF t.open THEN [t EXCEPT !.arguments = Append(@, t.token), !.token = <<>>, !.open = FALSE]
    ELSE t

\* Mutant: backslashes before a quote are kept as they are.
WindowsBackslashes_Kept(line, t) ==
    LET n == Backslashes(line, t.at)
        end == t.at + n
    IN  Push(t, [i \in 1..n |-> Back], end)

\* A run of backslashes, and the quote that the last of an odd run escapes.
WindowsBackslashes(line, t) ==
    LET n == Backslashes(line, t.at)
        end == t.at + n
    IN  IF ~QuoteAt(line, end) THEN Push(t, [i \in 1..n |-> Back], end)
        ELSE IF n % 2 = 1 THEN Push(t, [i \in 1..n \div 2 |-> Back] \o <<Quote>>, end + 1)
        ELSE Push(t, [i \in 1..n \div 2 |-> Back], end)

WindowsStep(line, t) ==
    CASE line[t.at] = Back -> WindowsBackslashes(line, t)
      [] line[t.at] = Quote -> IF t.quoted /\ QuoteAt(line, t.at + 1) THEN Push(t, <<Quote>>, t.at + 2)
                               ELSE [Push(t, <<>>, t.at + 1) EXCEPT !.quoted = ~@]
      [] line[t.at] = Blank /\ ~t.quoted -> [EndToken(t) EXCEPT !.at = t.at + 1]
      [] OTHER -> Push(t, <<line[t.at]>>, t.at + 1)

\* Between quotes: the characters up to the closing one; a backslash keeps what
\* follows it unless the quotes are single.
RECURSIVE GnuQuoted(_, _, _)
GnuQuoted(line, t, close) ==
    IF t.at > Len(line) THEN [t EXCEPT !.unterminated = TRUE]
    ELSE IF line[t.at] = close THEN [t EXCEPT !.at = @ + 1]
    ELSE LET at == IF close = Quote /\ line[t.at] = Back /\ t.at < Len(line)
                   THEN t.at + 1 ELSE t.at
         IN  GnuQuoted(line, Push(t, <<line[at]>>, at + 1), close)

GnuStep(line, t) ==
    CASE line[t.at] = Blank -> [EndToken(t) EXCEPT !.at = t.at + 1]
      [] line[t.at] \in {Quote, Apostrophe} ->
            GnuQuoted(line, Push(t, <<>>, t.at + 1), line[t.at])
      [] line[t.at] = Back /\ t.at < Len(line) -> Push(t, <<line[t.at + 1]>>, t.at + 2)
      [] OTHER -> Push(t, <<line[t.at]>>, t.at + 1)

RECURSIVE Tokenize(_, _, _)
Tokenize(line, t, syntax) ==
    IF t.at > Len(line) THEN [EndToken(t) EXCEPT !.unterminated = @ \/ t.quoted]
    ELSE Tokenize(line, IF syntax = "windows" THEN WindowsStep(line, t) ELSE GnuStep(line, t), syntax)

TokenizeCommandLine(line, syntax) == Tokenize(line, NoTokens, syntax)

-----------------------------------------------------------------------------
(* Entries. A field is "absent", "malformed", "empty" or what it says. *)

Given(field) == field \notin {"absent", "malformed", "empty"}

\* The arguments of an entry, none when they cannot be determined. `arguments`
\* is used even when there is a `command`.
Arguments(e) ==
    LET tokenized == TokenizeCommandLine(e.line, e.syntax)
    IN  CASE e.arguments /= "absent" -> IF e.arguments = "given" THEN e.listed ELSE <<>>
          [] e.arguments = "absent" /\ e.command = "given" ->
                IF tokenized.unterminated THEN <<>> ELSE tokenized.arguments
          [] OTHER -> <<>>

EntryRejected(e) ==
    \/ ~e.object \/ ~Given(e.directory) \/ ~Given(e.file)
    \/ Arguments(e) = <<>>
    \/ Arguments(e) /= <<>> /\ Head(Arguments(e)) = <<>>
    \/ e.directory = "relative" /\ ~e.based
    \/ e.output \in {"malformed", "empty"}

Gone == "absent"        \* nothing is there
Locked == "locked"      \* a file is there and cannot be opened

\* The filesystem's spelling of an existing path, else the lexical key.
IdentityPathKey(p) ==
    IF files[p] /= Gone THEN <<"fs", Canonical[p]>> ELSE <<"lex", PathKey[p]>>

ComputeCommandId(e) ==
    [directory |-> e.directory, file |-> IdentityPathKey(e.file), arguments |-> Arguments(e),
     output |-> e.output]

NoIndex == <<>>
NotAsked == [file |-> "", kind |-> "not asked", candidates |-> {}, on |-> <<>>]

DbInit ==
    /\ database = <<>> /\ unparsed = 0 /\ commands = <<>> /\ diagnosed = {}
    /\ files = [p \in DOMAIN PathKey |-> Gone]
    /\ changes = 0 /\ index = NoIndex /\ asked = files /\ selection = NotAsked

LoadDatabase ==
    /\ database = <<>>
    /\ database' \in Documents
    /\ unparsed' = Len(database')
    /\ UNCHANGED <<commands, diagnosed, files, changes, index, asked, selection>>

\* parse_entry()
ParseEntry ==
    /\ unparsed > 0
    /\ LET i == Len(database) - unparsed + 1
           e == database[i]
       IN  IF EntryRejected(e)
           THEN diagnosed' = diagnosed \cup {i} /\ UNCHANGED commands
           ELSE /\ commands' = Append(commands, [entry |-> i, file |-> e.file,
                                                arguments |-> Arguments(e),
                                                id |-> ComputeCommandId(e)])
                /\ UNCHANGED diagnosed
    /\ unparsed' = unparsed - 1
    /\ UNCHANGED <<database, files, changes, index, asked, selection>>

\* commands is public: a caller drops one, or sorts them.
AmendCommands ==
    /\ unparsed = 0 /\ changes < MaxChanges /\ changes' = changes + 1
    /\ \/ \E i \in DOMAIN commands : commands' = RemoveAt(commands, i)
       \/ commands' = Reverse(commands)
    /\ UNCHANGED <<database, unparsed, diagnosed, files, index, asked, selection>>

\* Every spelling of the place where a file is written or removed.
ChangeFile ==
    /\ database /= <<>> /\ changes < MaxChanges /\ changes' = changes + 1
    /\ \E at \in Range(Canonical), what \in Inode \cup {Gone, Locked} :
          /\ files' = [p \in DOMAIN files |-> IF Canonical[p] = at THEN what ELSE files[p]]
          /\ files' /= files
    /\ UNCHANGED <<database, unparsed, commands, diagnosed, index, asked, selection>>

-----------------------------------------------------------------------------
(* Lookups. *)

\* Mutant: the index is kept as long as it has as many entries.
Current_BySize == Len(index) = Len(commands)

Current == Len(index) = Len(commands) /\ \A i \in DOMAIN index : index[i].file = commands[i].file

Asked == [i \in DOMAIN commands |-> [file |-> commands[i].file, there |-> files[commands[i].file]]]

\* The filesystem decides between two files that exist; one that cannot be
\* opened is none of them.
Matches(entry, file) ==
    IF files[file] /= Gone /\ entry.there /= Gone
    THEN files[file] = entry.there /\ entry.there /= Locked
    ELSE PathKey[entry.file] = PathKey[file]

SelectionOf(candidates) ==
    CASE candidates = {} -> "none"
      [] Cardinality({commands[i].id : i \in candidates}) = 1 -> "unique"
      [] OTHER -> "ambiguous"

\* select_unique(), with commands_for_file()
SelectUnique(file) ==
    /\ database /= <<>> /\ unparsed = 0
    /\ index' = IF Current THEN index ELSE Asked
    /\ asked' = IF Current THEN asked ELSE files
    /\ LET candidates == {i \in DOMAIN commands : Matches(index'[i], file)}
       IN  selection' = [file |-> file, kind |-> SelectionOf(candidates),
                         candidates |-> {commands[i] : i \in candidates}, on |-> <<files, commands>>]
    /\ UNCHANGED <<database, unparsed, commands, diagnosed, files, changes>>

DbNext ==
    \/ LoadDatabase \/ ParseEntry \/ AmendCommands \/ ChangeFile
    \/ \E file \in DOMAIN PathKey : SelectUnique(file)

DbSpec == DbInit /\ [][DbNext]_dbVars

-----------------------------------------------------------------------------

\* A command has the arguments its entry means, however they had to be quoted
\* to be written on a line, and an entry without a command has an error: a
\* quote that is not closed never gives a guessed argument list an identity.
CommandsAreTheirEntries ==
    \A i \in 1..Len(database) - unparsed :
        /\ i \in diagnosed <=> ~database[i].sound
        /\ database[i].sound =>
              \A n \in DOMAIN commands :
                  commands[n].entry = i => commands[n].arguments = database[i].means

SameExistingFile(a, b) ==
    IF files[a] /= Gone /\ files[b] /= Gone THEN files[a] = files[b] /\ files[a] /= Locked
    ELSE PathKey[a] = PathKey[b]

\* As long as no file has changed since the database asked about its files, a
\* lookup answers for the commands there are now, not those it asked for:
\* the candidates are the commands of that very file, whatever each was spelled
\* like, and the answer is unique only when they are one compilation.
LookupIsTheFilesystems ==
    selection.on = <<files, commands>> /\ asked = files =>
        /\ selection.candidates = {c \in Range(commands) : SameExistingFile(c.file, selection.file)}
        /\ selection.kind = "unique" =>
              \A c, d \in selection.candidates :
                  c.arguments = d.arguments
                    /\ database[c.entry].output = database[d.entry].output
=============================================================================

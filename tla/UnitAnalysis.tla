---------------------------- MODULE UnitAnalysis ----------------------------
(***************************************************************************)
(* analyze_translation_unit() on several threads, with the textual replay  *)
(* of a precompiled header: the gates on the command, the ladder of        *)
(* verify_pch_replay(), the producer's and the consumer's capture through  *)
(* one snapshot, the comparison, the final parse and its comparison, and   *)
(* the process-wide lock every front-end run holds while its driver works. *)
(* Files change on the disk at any moment.                                 *)
(*                                                                         *)
(* A command is a record of what the ladder looks at: the options that     *)
(* matter (uses, creates, artifacts, forced: the headers or files named by *)
(* /Yu, /Yc, /Fp and /FI, in order; ahead: how many /FI come before /Yu),  *)
(* what normalization made of it, the headers a consumer's source starts   *)
(* with, and search, the paths at which a header name is looked for, in    *)
(* order.                                                                  *)
(*                                                                         *)
(* The front end is external. Of a run the model keeps the prefix: it      *)
(* looks up and enters what is forced, or what the producer's source       *)
(* includes, until that is the wrapper, and there does what its text says  *)
(* (look one more header up, ask whether it is there, or nothing). The     *)
(* five axes of a capture are functions of what was looked up, of the      *)
(* texts entered and of the macros there are, and are kept as those three. *)
(***************************************************************************)
EXTENDS FrozenFiles, Naturals, FiniteSetsExt

CONSTANTS Thread, NoThread, Path, NoCommand, NoRequest,
          Meaning,      \* of a text: [kind, name]
          Guard,        \* the path of the order guard
          EmptyText,    \* the order guard's
          Workloads,    \* [requests, edits, disk]: what a behaviour starts with
          Versions,     \* the files an edit may put at a path
          Probed        \* the paths a driver asks about without opening them

\* Of a command: the headers it names are looked for somewhere.
Searchable(c) ==
    /\ \A name \in DOMAIN c.search : c.search[name] \in Seq(Path)
    /\ \A names \in {c.uses, c.forced, c.includes} :
            names \in Seq(DOMAIN c.search)
    /\ c.disables \in BOOLEAN

ASSUME WorkloadAssumption ==
    \A w \in Workloads : \A t \in Thread :
        LET r == w.requests[t] IN
        r /= NoRequest =>
            \A c \in {r.consumer, r.producer} \ {NoCommand} : Searchable(c)

VARIABLES disk, edits, unit, driver

unitVars == <<disk, edits, unit, driver>>

Runs == {"producer", "consumer", "final"}

NoMeasure == [entered |-> FALSE, boundary |-> FALSE, errors |-> FALSE,
              looked |-> <<>>, texts |-> <<>>, macros |-> <<>>,
              before |-> <<>>, top |-> <<>>]

NewUnit(r) ==
    [request |-> r, at |-> IF r = NoRequest THEN "done" ELSE "gate",
     run |-> "final", wrapper |-> Absent, view |-> NewSnapshot,
     replayed |-> FALSE, asks |-> <<>>, tried |-> 0,
     measured |-> [x \in Runs |-> NoMeasure],
     status |-> "none", why |-> "none"]

UnitInit ==
    \E w \in Workloads :
        /\ disk = w.disk
        /\ edits = w.edits
        /\ unit = [t \in Thread |-> NewUnit(w.requests[t])]
        /\ driver = NoThread

-----------------------------------------------------------------------------
(* Steps that only change the unit. *)

Consumer(u) == u.request.consumer
Producer(u) == u.request.producer

Step(t, u) == unit' = [unit EXCEPT ![t] = u] /\ UNCHANGED <<disk, edits>>

Rejected(u, why) == [u EXCEPT !.at = "done", !.status = "rejected", !.why = why]

\* From at to next, or rejected when the check does not hold.
Check(t, at, holds, next) ==
    /\ unit[t].at = at
    /\ Step(t, IF holds THEN [unit[t] EXCEPT !.at = next]
               ELSE Rejected(unit[t], at))
    /\ UNCHANGED driver

-----------------------------------------------------------------------------
(* The gates of analyze_translation_unit(). *)

Unexpanded(c) == c.responses = "kept"

Degraded(c) == c.uses /= <<>> \/ c.dropped \/ Unexpanded(c)

DegradedOnlyByPch(c) == c.uses /= <<>> /\ ~c.dropped /\ ~Unexpanded(c)

AcceptedCommand(c) ==
    /\ c /= NoCommand
    /\ c.absolute
    /\ c.honestId
    /\ c.known
    /\ c.identified

Gate(t) ==
    LET u == unit[t]
        c == Consumer(u)
    IN  /\ u.at = "gate"
        /\ UNCHANGED driver
        /\ Step(t, CASE ~AcceptedCommand(c) -> Rejected(u, "gate")
                     [] AcceptedCommand(c) /\ ~Degraded(c) ->
                            [u EXCEPT !.at = "admit"]
                     [] AcceptedCommand(c) /\ Degraded(c) ->
                            IF DegradedOnlyByPch(c)
                            THEN [u EXCEPT !.at = "ladder"]
                            ELSE Rejected(u, "degraded"))

\* The gates that follow a verified replay, and every other unit's.
Admit(t) ==
    Check(t, "admit", unit[t].request.rooted /\ Consumer(unit[t]).safe, "waiting")

-----------------------------------------------------------------------------
(* The ladder of verify_pch_replay(). *)

Supplied(p) == p /= NoCommand /\ p.honestId /\ ~Unexpanded(p)

SameBuild(c, p) ==
    /\ c.native /\ p.native
    /\ c.compiler = p.compiler
    /\ c.directory = p.directory
    /\ p.identified /\ p.known /\ ~p.dropped

\* Mutant: a producer may force includes of its own.
UniqueOptions_AnyForced(c, p) ==
    /\ ~c.disables /\ ~p.disables
    /\ Len(c.uses) = 1 /\ c.creates = <<>>
    /\ Len(p.creates) = 1 /\ p.uses = <<>>
    /\ Len(c.artifacts) = 1 /\ Len(p.artifacts) = 1

UniqueOptions(c, p) ==
    /\ ~c.disables /\ ~p.disables
    /\ Len(c.uses) = 1 /\ c.creates = <<>>
    /\ Len(p.creates) = 1 /\ p.uses = <<>>
    /\ Len(c.artifacts) = 1 /\ Len(p.artifacts) = 1
    /\ p.forced = <<>>

Ladder(t) ==
    LET c == Consumer(unit[t])
        p == Producer(unit[t])
    IN  Check(t, "ladder",
              /\ Supplied(p)
              /\ SameBuild(c, p)
              /\ c.safe /\ p.safe
              /\ UniqueOptions(c, p)
              /\ c.artifacts = p.artifacts,
              "wrapper")

\* resolve_header(): the first place in the command's search that has a file.
Resolve(d, c, name) ==
    LET places == c.search[name]
        hits == {i \in DOMAIN places : d[places[i]] /= Absent}
    IN  IF hits = {} THEN Absent ELSE places[Min(hits)]

\* same_existing_file()
SameFile(d, p, q) ==
    /\ p /= Absent /\ q /= Absent
    /\ d[p] /= Absent /\ d[q] /= Absent
    /\ d[p].id = d[q].id

ResolveWrapper(t) ==
    LET u == unit[t]
        w == Resolve(disk, Consumer(u), Consumer(u).uses[1])
    IN  /\ u.at = "wrapper"
        /\ UNCHANGED driver
        /\ Step(t, IF w = Absent THEN Rejected(u, "wrapper")
                   ELSE [u EXCEPT !.at = "layout", !.wrapper = w])

\* The normalized forced includes: /Yu stands as one of them, at its place.
Normalized(c) ==
    SubSeq(c.forced, 1, c.ahead) \o c.uses
        \o SubSeq(c.forced, c.ahead + 1, Len(c.forced))

\* The first of them is the wrapper, and the wrapper is a text.
CheckLayout(t) ==
    LET c == Consumer(unit[t])
        w == unit[t].wrapper
    IN  Check(t, "layout",
              /\ SameFile(disk, Resolve(disk, c, Head(Normalized(c))), w)
              /\ Meaning[disk[w].text].kind /= "binary",
              "creates")

\* The producer's /Yc header is that file, and the semantics agree in order.
CheckCreates(t) ==
    LET c == Consumer(unit[t])
        p == Producer(unit[t])
    IN  Check(t, "creates",
              /\ SameFile(disk, Resolve(disk, p, p.creates[1]), unit[t].wrapper)
              /\ c.macros = p.macros,
              "source")

\* The order guard, then the producer's source, read through the snapshot.
FreezeSource(t) ==
    LET u == unit[t]
        p == Producer(u)
        guarded == AddVirtualFile(u.view, Guard, EmptyText)
        view == Open(guarded, disk, p.source)
        text == AnswerOf(view, p.source)
    IN  /\ u.at = "source"
        /\ UNCHANGED driver
        /\ Step(t, IF disk[Guard] = Absent /\ text /= Absent
                        /\ Meaning[text].kind = "wrapperOnly"
                   THEN [u EXCEPT !.at = "include", !.view = view]
                   ELSE Rejected([u EXCEPT !.view = view], "source"))

\* The one header it includes is the wrapper; the captures come next.
CheckInclude(t) ==
    LET u == unit[t]
        p == Producer(u)
        name == Meaning[TextOf(u.view, p.source)].name
    IN  /\ u.at = "include"
        /\ UNCHANGED driver
        /\ Step(t, IF SameFile(disk, Resolve(disk, p, name), u.wrapper)
                   THEN [u EXCEPT !.at = "waiting", !.run = "producer"]
                   ELSE Rejected(u, "include"))

-----------------------------------------------------------------------------
(* The driver phase of a run: the process has one. *)

TakeDriver(t) ==
    /\ unit[t].at = "waiting"
    /\ driver = NoThread
    /\ driver' = t
    /\ Step(t, [unit[t] EXCEPT !.at = "driver"])

Release(t) == driver' = IF driver = t THEN NoThread ELSE driver

\* What the run enters, in order: what the source includes, after what the
\* consumer itself forced, without what /Yu stood for.
Entries(u) ==
    IF u.run = "producer"
    THEN <<Meaning[TextOf(u.view, Producer(u).source)].name>>
    ELSE Consumer(u).forced \o Consumer(u).includes

CommandOf(u) == IF u.run = "producer" THEN Producer(u) ELSE Consumer(u)

Replays(u) == u.run /= "final" \/ u.replayed

\* The invocation exists and the action is about to execute.
ReachAction(t) ==
    LET u == unit[t] IN
    /\ u.at = "driver"
    /\ Release(t)
    /\ Step(t, IF Replays(u)
               THEN [u EXCEPT !.at = "parse", !.asks = Entries(u), !.tried = 0,
                              !.measured[u.run] =
                                  [NoMeasure EXCEPT !.macros = CommandOf(u).macros]]
               ELSE [u EXCEPT !.at = "finish"])

\* Mutant: only the action ends the phase.
DriverFails_KeepsLock(t) ==
    /\ unit[t].at = "driver"
    /\ UNCHANGED driver
    /\ Step(t, [unit[t] EXCEPT !.at = "ran",
                   !.measured[unit[t].run] = [NoMeasure EXCEPT !.errors = TRUE]])

\* The driver gives up: the phase ends with its scope.
DriverFails(t) ==
    /\ unit[t].at = "driver"
    /\ Release(t)
    /\ Step(t, [unit[t] EXCEPT !.at = "ran",
                   !.measured[unit[t].run] = [NoMeasure EXCEPT !.errors = TRUE]])

\* The driver looks for a file it does not open.
Probe(t) ==
    /\ unit[t].at = "driver"
    /\ Replays(unit[t])
    /\ \E p \in Probed :
        Step(t, [unit[t] EXCEPT !.view = Status(@, disk, p).view])
    /\ UNCHANGED driver

-----------------------------------------------------------------------------
(* The front end in the prefix, one look at one place a step. *)

Note(u, m, at) == [u EXCEPT !.at = at, !.measured[u.run] = m]

Outside(m) == ~m.entered

\* A file before the wrapper: of what it says only its macros are compared.
Passed(u, m, text) ==
    [Note(u, [m EXCEPT !.before = Append(@, text),
                  !.macros = IF Meaning[text].kind = "defines"
                             THEN Append(@, text) ELSE @], "parse")
        EXCEPT !.asks = Tail(@), !.tried = 0]

\* The wrapper: its window opens, and closes unless it asks for more.
Entered(u, m, text) ==
    LET in == [m EXCEPT !.entered = TRUE, !.texts = <<text>>]
    IN  IF Meaning[text].kind \in {"search", "probe"}
        THEN [Note(u, in, "parse") EXCEPT
                  !.asks = <<Meaning[text].name>>, !.tried = 0]
        ELSE Note(u, [in EXCEPT !.boundary = TRUE], "ran")

\* What the wrapper asked for is at p: an #include also enters it.
Answered(u, m, p, text) ==
    LET enters == Meaning[m.texts[1]].kind = "search"
    IN  Note(u, [m EXCEPT !.boundary = TRUE,
                     !.looked = Append(@, p),
                     !.texts = IF enters THEN Append(@, text) ELSE @], "ran")

FoundAt(u, p, text) ==
    LET m == u.measured[u.run]
        seen == [m EXCEPT !.top = Append(@, p)]
    IN  IF m.entered THEN Answered(u, m, p, text)
        ELSE IF p = u.wrapper /\ disk[p] /= Absent THEN Entered(u, seen, text)
        ELSE Passed(u, seen, text)

\* No place has it: an error, unless the wrapper only asked.
FoundNowhere(u) ==
    LET m == u.measured[u.run]
        asked == m.entered /\ Meaning[m.texts[1]].kind = "probe"
    IN  Note(u, [m EXCEPT !.errors = ~asked, !.boundary = asked,
                     !.looked = Append(@, Absent)], "ran")

LookUp(t) ==
    LET u == unit[t]
        places == CommandOf(u).search[Head(u.asks)]
        p == places[u.tried + 1]
        view == Open(u.view, disk, p)
        text == AnswerOf(view, p)
        w == [u EXCEPT !.view = view, !.tried = @ + 1]
    IN  /\ u.at = "parse"
        /\ UNCHANGED driver
        /\ Step(t, CASE u.asks = <<>> -> [u EXCEPT !.at = "ran"]
                     [] u.asks /= <<>> /\ u.tried = Len(places) -> FoundNowhere(u)
                     [] OTHER ->
                            IF text = Absent THEN w ELSE FoundAt(w, p, text))

-----------------------------------------------------------------------------
(* Between the runs. *)

SameAxes(m, n) == m.looked = n.looked /\ m.texts = n.texts /\ m.macros = n.macros

Captured(m) == ~m.errors /\ m.entered /\ m.boundary

\* The two captures say the same, and the producer entered only the wrapper.
Equivalent(u) ==
    LET p == u.measured["producer"]
        c == u.measured["consumer"]
    IN  /\ Captured(p) /\ Captured(c)
        /\ p.top = <<u.wrapper>>
        /\ SameAxes(p, c)

RunEnds(t) ==
    LET u == unit[t]
    IN  /\ u.at = "ran"
        /\ UNCHANGED driver
        /\ Step(t, CASE u.run = "producer" ->
                            [u EXCEPT !.at = "waiting", !.run = "consumer"]
                     [] u.run = "consumer" ->
                            IF Equivalent(u)
                            THEN [u EXCEPT !.at = "admit", !.run = "final",
                                      !.replayed = TRUE, !.view = Seal(@)]
                            ELSE Rejected(u, "prefix")
                     [] u.run = "final" -> [u EXCEPT !.at = "finish"])

Drifted(u) ==
    LET proven == u.measured["consumer"]
        actual == u.measured["final"]
    IN  u.replayed /\ (~actual.boundary \/ ~SameAxes(proven, actual))

\* The rest of the unit has errors or not; a driver that gave up is an error.
Finish(t) ==
    LET u == unit[t]
    IN  /\ u.at = "finish"
        /\ UNCHANGED driver
        /\ IF Drifted(u) THEN Step(t, Rejected(u, "drift"))
           ELSE \E s \in {"ok", "completed_with_errors"} :
                    /\ u.measured["final"].errors => s /= "ok"
                    /\ Step(t, [u EXCEPT !.at = "done", !.status = s])

-----------------------------------------------------------------------------
(* The disk. *)

\* File f is at p; what is written shows under every name of the file.
WriteFile(d, p, f) ==
    [q \in Path |-> IF q = p THEN f
                    ELSE IF f /= Absent /\ d[q] /= Absent
                            /\ d[q].id = f.id THEN f
                    ELSE d[q]]

Edit ==
    /\ edits > 0
    /\ edits' = edits - 1
    /\ \E p \in DOMAIN Versions : \E f \in Versions[p] :
        /\ f /= disk[p]
        /\ disk' = WriteFile(disk, p, f)
    /\ UNCHANGED <<unit, driver>>

AnalysisStep(t) ==
    \/ Gate(t) \/ Admit(t)
    \/ Ladder(t) \/ ResolveWrapper(t) \/ CheckLayout(t) \/ CheckCreates(t)
    \/ FreezeSource(t) \/ CheckInclude(t)
    \/ TakeDriver(t) \/ ReachAction(t) \/ DriverFails(t)
    \/ LookUp(t) \/ RunEnds(t) \/ Finish(t)

UnitNext == (\E t \in Thread : AnalysisStep(t) \/ Probe(t)) \/ Edit

UnitSpec ==
    /\ UnitInit /\ [][UnitNext]_unitVars
    /\ \A t \in Thread : WF_unitVars(AnalysisStep(t))

-----------------------------------------------------------------------------
(* What holds of an analysis. *)

\* The state a precompiled header holds, as the producer's compiler left it:
\* who wrote it, where, from which macros, after what, and the texts it read.
PchOf(c, measure) ==
    [by |-> c.compiler, from |-> c.directory, file |-> c.artifacts,
     macros |-> measure.macros, forced |-> c.forced, off |-> c.disables,
     texts |-> measure.texts, looked |-> measure.looked]

\* The state the final parse has at the wrapper's end, as the consumer's
\* compiler would have found it in the precompiled header it names.
ReplayOf(c, measure) ==
    [by |-> c.compiler, from |-> c.directory, file |-> c.artifacts,
     macros |-> measure.macros, forced |-> <<>>, off |-> FALSE,
     texts |-> measure.texts, looked |-> measure.looked]

\* A unit analysed with a replayed header had, at the end of its prefix, the
\* state the producer's compiler writes to the header the consumer names, on
\* the texts that were captured, however the files changed from the first
\* check to the final parse. What the consumer forces ahead of the wrapper is
\* no part of that state; FirstForcedIsTheHeader is about it.
ReplayIsThePch ==
    \A t \in Thread :
        LET u == unit[t] IN
        u.at = "done" /\ u.replayed /\ u.status /= "rejected" =>
            /\ ReplayOf(Consumer(u), u.measured["final"])
                    = PchOf(Producer(u), u.measured["producer"])
            /\ \A i \in DOMAIN u.measured["final"].texts :
                    u.measured["final"].texts[i]
                        \in {u.view.text[p] : p \in DOMAIN u.view.text}

\* Only one of the headers a consumer's parse begins with can be the wrapper.
NamedOnce(c) ==
    LET named == c.forced \o c.includes
        Places(name) == {c.search[name][k] : k \in DOMAIN c.search[name]}
        Wrapper(i) == Places(named[i]) \cap Places(c.uses[1]) /= {}
    IN  \A i, j \in DOMAIN named : Wrapper(i) /\ Wrapper(j) => i = j

\* Once the final parse enters the wrapper it meets what was proven: every
\* file read and every file found missing answers as it did for the captures.
\* When one header alone can be the wrapper, no edit after the proof can cost
\* the unit its acceptance. With two, a wrapper that is gone while the first
\* is looked up is entered by the second, after other macros.
ProvenPrefixCannotDrift ==
    \A t \in Thread :
        LET u == unit[t]
            proven == u.measured["consumer"]
            actual == u.measured["final"]
        IN  u.at = "done" /\ u.replayed /\ actual.entered =>
                /\ actual.boundary
                /\ actual.looked = proven.looked
                /\ actual.texts = proven.texts
                /\ NamedOnce(Consumer(u)) => u.status /= "rejected"

\* Every analysis ends, though all of them need the driver, several times
\* over, and a driver may give up.
AnalysesEnd == \A t \in Thread : <>(unit[t].at = "done")

-----------------------------------------------------------------------------
(* What the documentation says and does not hold. *)

\* The /Yu header is the consumer's first /FI, as a file, in every unit that
\* is analysed with a replayed header. Violated: the ladder looks at the
\* normalized list, where /Yu stands first when it is written first, and the
\* replay then takes it out again; a header forced ahead of the wrapper is
\* parsed before it, and only its macros would be noticed.
FirstForcedIsTheHeader ==
    \A t \in Thread :
        LET u == unit[t] IN
        u.at = "done" /\ u.replayed /\ u.status /= "rejected" =>
            /\ u.measured["final"].before = <<>>
            /\ Consumer(u).forced /= <<>>

\* Every existence answer already given is replayed: a file a driver found is
\* still there. Violated: only absent answers are; a file that was found and
\* not opened can go.
EveryAnswerIsReplayed ==
    \A t \in Thread :
        LET s == unit[t].view IN
        s.sealed => \A p \in DOMAIN s.queried :
            Status(s, disk, p).found = s.queried[p]
=============================================================================

---------------------------- MODULE UsageHistory ----------------------------
(***************************************************************************)
(* spark usage --history (src/usage_history.rs): what sessions of Codex    *)
(* cost, added up from their JSONL files.  A file repeats what its session *)
(* was forked from, may exist twice (archived, or cut off), may lack its   *)
(* first line, and each of its token counts gives the tokens of the turn,  *)
(* the running total, or both.  The files are written by Codex (external). *)
(* A number of tokens is the set of turns that cost them: totals of        *)
(* different turns are different numbers.                                  *)
(***************************************************************************)
EXTENDS Naturals, Sequences, FiniteSets

CONSTANTS MaxTurns,    \* bound: turns of all sessions
          MaxFiles,    \* bound: files
          Limit        \* --max-files

VARIABLES files,       \* [id, fork, events, meta] in the order they were written
          turns,       \* turns made so far
          today        \* the day

vars == <<files, turns, today>>

None == 0
Kinds == {"both", "last", "total"}

Init == files = <<>> /\ turns = 0 /\ today = 1

-----------------------------------------------------------------------------
(* Codex: external.                                                        *)

File(id, fork, events) == [id |-> id, fork |-> fork, events |-> events, meta |-> TRUE]

NewSession ==
    /\ Len(files) < MaxFiles
    /\ files' = Append(files, File(Len(files) + 1, None, <<>>))
    /\ UNCHANGED <<turns, today>>

Turn(f) ==
    /\ turns < MaxTurns
    /\ \A g \in 1 .. f - 1 : files[g].id # files[f].id
    /\ turns' = turns + 1
    /\ \E k \in Kinds : files' = [files EXCEPT ![f].events =
            Append(@, [turn |-> turns + 1, kind |-> k, day |-> today])]
    /\ UNCHANGED today

\* The copied counts keep their days, or have the day of the fork.
Fork(f) ==
    /\ Len(files) < MaxFiles /\ files[f].meta
    /\ \E n \in 0 .. Len(files[f].events), keep \in BOOLEAN :
          LET copied == SubSeq(files[f].events, 1, n) IN
          files' = Append(files, File(Len(files) + 1, files[f].id,
              IF keep THEN copied ELSE [i \in DOMAIN copied |-> [copied[i] EXCEPT !.day = today]]))
    /\ UNCHANGED <<turns, today>>

\* A second file of the session, perhaps with its end missing.
Archive(f) ==
    /\ Len(files) < MaxFiles /\ files[f].meta
    /\ \E n \in 0 .. Len(files[f].events) :
          files' = Append(files, [files[f] EXCEPT !.events = SubSeq(@, 1, n)])
    /\ UNCHANGED <<turns, today>>

LoseMetadata(f) ==
    /\ files[f].meta /\ files[f].fork = None
    /\ \A g \in DOMAIN files \ {f} : files[g].id # files[f].id /\ files[g].fork # files[f].id
    /\ files' = [files EXCEPT ![f].meta = FALSE]
    /\ UNCHANGED <<turns, today>>

NextDay == today < 2 /\ today' = today + 1 /\ UNCHANGED <<files, turns>>

Next ==
    \/ NewSession \/ NextDay
    \/ \E f \in DOMAIN files : Turn(f) \/ Fork(f) \/ Archive(f) \/ LoseMetadata(f)

Spec == Init /\ [][Next]_vars

-----------------------------------------------------------------------------
(* scan_history: the newest files, parsed, one history per session, forks  *)
(* behind the others.                                                      *)

\* sort_history_files_newest_first, truncate.
Scanned == LET n == IF Len(files) < Limit THEN Len(files) ELSE Limit
           IN [i \in 1 .. n |-> files[Len(files) - i + 1]]

\* The running total of the first i counts.
Total(events, i) == {events[j].turn : j \in 1 .. i}

\* The total remembered is that of the last count before i that had one.
PreviousTotal(events, i) ==
    LET with == {j \in 1 .. i - 1 : events[j].kind # "last"}
    IN IF with = {} THEN {} ELSE Total(events, CHOOSE j \in with : \A k \in with : k <= j)

\* parse_session: the tokens of the turn, or else how far the total went up.
\* The key is the total, if there is one.
Observations(events) ==
    [i \in 1 .. Len(events) |->
        [day |-> events[i].day,
         tokens |-> IF events[i].kind = "total" THEN Total(events, i) \ PreviousTotal(events, i)
                    ELSE {events[i].turn},
         key |-> IF events[i].kind = "last" THEN {} ELSE Total(events, i)]]

\* A file without metadata is a session of its own.
History(i) ==
    LET f == Scanned[i] IN
    [id |-> IF f.meta THEN f.id ELSE MaxFiles + i, fork |-> f.fork, seen |-> Observations(f.events)]

\* session_weight: how many observations, then all their tokens.
Tokens(h) == UNION {h.seen[i].tokens : i \in 1 .. Len(h.seen)}
Heavier(g, h) ==
    \/ Len(g.seen) > Len(h.seen)
    \/ Len(g.seen) = Len(h.seen) /\ Tokens(h) \subseteq Tokens(g) /\ Tokens(g) # Tokens(h)

\* select_unique_sessions: of the files of a session the first of the heaviest.
Selected ==
    LET best == {i \in DOMAIN Scanned : \A j \in DOMAIN Scanned :
                    History(j).id = History(i).id =>
                        /\ ~Heavier(History(j), History(i))
                        /\ j < i => Heavier(History(i), History(j))}
    IN {History(i) : i \in best}

\* (Fault: the histories are taken by their name alone.)
ById(g, h) == g.id > h.id

\* The order in which the histories are taken.
RootsFirst(g, h) ==
    \/ g.fork = None /\ h.fork # None
    \/ (g.fork = None <=> h.fork = None) /\ g.id < h.id

Parents(histories) ==
    LET forks == {h \in histories : h.fork # None}
    IN [id \in {h.id : h \in forks} |-> (CHOOSE h \in forks : h.id = id).fork]

\* lineage_roots: up the forks that were read, to a session that was no fork or
\* was not read.  A session is forked from one that was there before.
RootOf(parent, id) ==
    LET up[i \in 0 .. id] == IF i \in DOMAIN parent THEN up[parent[i]] ELSE i
    IN up[id]

\* The observations of the days asked for, by history and place; and which is
\* taken first.
Observed(since) ==
    UNION {{<<h, i>> : i \in {j \in 1 .. Len(h.seen) : h.seen[j].day >= since}} : h \in Selected}

Earlier(a, b) == \/ a[1] # b[1] /\ RootsFirst(a[1], b[1])
                 \/ a[1] = b[1] /\ a[2] < b[2]

TokensOf(o) == o[1].seen[o[2]].tokens
Key(o) == o[1].seen[o[2]].key

\* What is recorded: of a fork no observation whose total its lineage has had.
Recorded(since) ==
    LET parent == Parents(Selected)
        Had(o) == \E b \in Observed(since) :
                     /\ Earlier(b, o) /\ Key(b) = Key(o)
                     /\ RootOf(parent, b[1].id) = RootOf(parent, o[1].id)
    IN {o \in Observed(since) : o[1].fork = None \/ Key(o) = {} \/ ~Had(o)}

-----------------------------------------------------------------------------
(* Properties.                                                             *)

\* The turns the scanned files tell of.
Told == UNION {Total(Scanned[i].events, Len(Scanned[i].events)) : i \in DOMAIN Scanned}

HasTotals == \A f \in DOMAIN files : \A i \in DOMAIN files[f].events : files[f].events[i].kind # "last"

\* The limit leaves no gap in a lineage: what a session that is read was forked
\* from is read, too, or is no fork itself.
LineagesAreRead ==
    \A i \in DOMAIN Scanned : Scanned[i].fork # None =>
        \/ \E j \in DOMAIN Scanned : Scanned[j].id = Scanned[i].fork
        \/ \A f \in DOMAIN files : files[f].id = Scanned[i].fork => files[f].fork = None

\* When all counts have totals and no session in the middle of a lineage is left
\* out, each turn is added once: however sessions were forked from forks, copied
\* and cut off, whichever other files the limit leaves out, and whether the
\* tokens of a turn had to be computed from the totals.
EachTurnCountsOnce ==
    HasTotals /\ LineagesAreRead =>
        LET recorded == Recorded(1)
        IN \A t \in 1 .. turns : Cardinality({o \in recorded : t \in TokensOf(o)})
                                   = IF t \in Told THEN 1 ELSE 0
=============================================================================

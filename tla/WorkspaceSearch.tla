--------------------------- MODULE WorkspaceSearch --------------------------
(***************************************************************************)
(* Finding and moving files (src/tools/fs.rs, src/tools/paths.rs): the     *)
(* walk of fs.list, the two engines of fs.search, fs.write and fs.rename   *)
(* with the directories they create, and which of the workspace and a      *)
(* reference root a path is looked up in.  Other programs change the       *)
(* workspace while a walk goes on.  A path is the sequence of its names; a *)
(* file holds some lines that match; a "text" is one that can be read, an  *)
(* "odd" file is no UTF-8 text, a "large" one is over 1 MiB and a "locked" *)
(* one may not be opened.  Directories can be opened.                      *)
(***************************************************************************)
EXTENDS Naturals, Sequences, FiniteSets, SequencesExt

CONSTANTS Paths,       \* the paths there may be, with all that is above them
          Trees,       \* what the workspace may hold at the beginning
          Matching,    \* the matching lines of a file at a path
          Ignored,     \* by .gitignore
          Linked,      \* the file that links lead to
          Reference,   \* the paths there are in a configured reference root
          Moves,       \* bound: what is moved, and to where
          MaxLimit,    \* bound: results asked for
          MaxDepth,    \* bound: depth asked for
          MaxDirs,     \* FS_LIST_MAX_DIRECTORIES
          MaxFiles,    \* FS_SEARCH_MAX_FILES
          MaxChanges   \* bound: changes of the workspace

VARIABLES tree,      \* what is at each path of the workspace
          walk,      \* the call that is looking
          report,    \* directories a write or a move said it created, and did
          changes    \* how many changes there were

vars == <<tree, walk, report, changes>>

Root == <<>>
Idle == [op |-> "none", out |-> "none"]

Init == /\ tree \in Trees
        /\ walk = Idle /\ report = [said |-> {}, made |-> {}] /\ changes = 0

Parent(p) == SubSeq(p, 1, Len(p) - 1)
Children(p) == {q \in Paths : q # Root /\ Parent(q) = p}
Above(p) == {SubSeq(p, 1, n) : n \in 0..(Len(p) - 1)}
Exists(p) == p \in Paths /\ tree[p] # "none"

\* should_skip_discovery_dir: generated directories, unless asked for.
Skipped(root, p) == p # root /\ p # Root /\ p[Len(p)] = "target"

\* is_generated_discovery_path: ripgrep is then told to leave out nothing.
Generated(p) == \E n \in DOMAIN p : p[n] = "target"

-----------------------------------------------------------------------------
\* resolve_read_path: the workspace first, then the reference root.
Place(p) == CASE Exists(p) -> "workspace"
              [] ~Exists(p) /\ p \in Reference ->
                    IF p # Root /\ p[1] = ".git" THEN "denied" ELSE "reference"
              [] OTHER -> "missing"

Missing(p) == {q \in Above(p) : ~Exists(q)}

\* missing_parent_dirs and create_dir_all: a file in the way makes it fail.
Creatable(p) == \A q \in Above(p) : tree[q] \in {"dir", "none"}

CreatedReport(p, t) == [said |-> Missing(p),
                        made |-> {q \in Above(p) : tree[q] = "none" /\ t[q] = "dir"}]

\* (Links lead to files: nothing makes a directory of what they lead to.)
Change(t) == /\ tree' = t /\ t[Linked] # "dir"
             /\ walk' = IF walk.op = "none" THEN walk ELSE [walk EXCEPT !.clean = FALSE]
             /\ changes < MaxChanges /\ changes' = changes + 1

WithParents(p) == [q \in Paths |-> IF q \in Missing(p) THEN "dir" ELSE tree[q]]

FsWrite ==
    \E p \in Paths \ {Root} :
        LET t == [WithParents(p) EXCEPT ![p] = "text"]
        IN /\ Creatable(p) /\ tree[p] \in {"none", "text", "odd", "large"}
           /\ Change(t)
           /\ report' = CreatedReport(p, t)

\* The path p with to in the place of from, which is above it.
Placed(p, from, to) == to \o SubSeq(p, Len(from) + 1, Len(p))

Moved(from, to) ==
    [p \in Paths |-> CASE IsPrefix(to, p) ->
                            IF Exists(Placed(p, to, from)) THEN tree[Placed(p, to, from)] ELSE "none"
                       [] ~IsPrefix(to, p) /\ IsPrefix(from, p) -> "none"
                       [] OTHER -> WithParents(to)[p]]

\* The destination must not exist; what is below the source moves along.  From
\* nowhere or into itself nothing is moved, but the directories for it were
\* created.
FsRename ==
    \E move \in Moves :
        LET from == move[1]
            to == move[2]
        IN /\ Exists(from) \/ Exists(Parent(from))
           /\ tree[from] # "link" /\ ~Exists(to) /\ Creatable(to)
           /\ IF ~Exists(from) \/ from \in Above(to)
              THEN Change(WithParents(to)) /\ report' = report
              ELSE /\ \A p \in Paths : Exists(p) /\ IsPrefix(from, p) => Placed(p, from, to) \in Paths
                   /\ Change(Moved(from, to))
                   /\ report' = CreatedReport(to, Moved(from, to))

\* Another program removes a path.
Removed ==
    /\ \E p \in Paths \ {Root} :
          /\ Exists(p) /\ \A q \in Children(p) : ~Exists(q)
          /\ Change([tree EXCEPT ![p] = "none"])
    /\ UNCHANGED report

-----------------------------------------------------------------------------
\* ops: "list", and "search" with ripgrep or, where there is none, in process.
Start ==
    /\ walk = Idle
    /\ \E op \in {"list", "ripgrep", "inprocess"}, root \in Paths,
          limit \in 1..MaxLimit, depth \in 0..MaxDepth, recursive \in BOOLEAN :
          /\ op # "list" => recursive
          /\ Place(root) = "workspace" /\ tree[root] # "link"
          /\ walk' = [op |-> op, root |-> root, limit |-> limit, depth |-> depth,
                      recursive |-> recursive, stack |-> << <<root, 0>> >>, found |-> {},
                      visited |-> 0, truncated |-> FALSE, clean |-> TRUE, out |-> "none"]
    /\ UNCHANGED <<tree, report, changes>>

Going(op) == walk.op = op /\ walk.out = "none"
Fails == walk' = [walk EXCEPT !.out = "error"]
Still == UNCHANGED <<tree, report, changes>>

Top == walk.stack[Len(walk.stack)]
Rest == SubSeq(walk.stack, 1, Len(walk.stack) - 1)

\* The deadline of a walk.
DeadlinePasses == walk.op # "none" /\ walk.out = "none" /\ Fails /\ Still

Listable == {q \in Children(Top[1]) : tree[q] \notin {"none", "link"}
                                       /\ ~(tree[q] = "dir" /\ Skipped(walk.root, q))}

\* (Fault: a list that was cut at its limit does not say so.)
QuietlyFull(found) == FALSE

Full(found) == Cardinality(found) >= walk.limit

\* One directory of fs_list, its entries in any order.
ListDirectory ==
    /\ Going("list") /\ walk.stack # <<>>
    /\ Still
    /\ IF tree[Top[1]] # "dir" \/ walk.visited >= MaxDirs THEN Fails
       ELSE \E seen \in SUBSET Listable, order \in SetToSeqs({q \in Listable : tree[q] = "dir"}) :
               LET found == walk.found \cup seen
                   deeper == walk.recursive /\ Top[2] < walk.depth
               IN /\ IF Cardinality(walk.found \cup Listable) >= walk.limit
                     THEN Cardinality(found) = walk.limit ELSE seen = Listable
                  /\ walk' = [walk EXCEPT !.found = found, !.visited = @ + 1,
                                !.truncated = Full(found),
                                !.stack = IF Cardinality(found) >= walk.limit THEN <<>>
                                          ELSE IF deeper THEN Rest \o [i \in DOMAIN order |-> <<order[i], Top[2] + 1>>]
                                          ELSE Rest]

\* The entries are sorted, and the last ones dropped when they are too long.
ListEnds ==
    /\ Going("list") /\ walk.stack = <<>>
    /\ \E kept \in SUBSET walk.found :
          walk' = [walk EXCEPT !.found = kept, !.out = "ok",
                               !.truncated = @ \/ kept # walk.found]
    /\ Still

-----------------------------------------------------------------------------
(* fs.search.                                                              *)

\* read_text_file: UTF-8 and UTF-16 with a mark are text, up to FS_MAX_TEXT_FILE_BYTES.
Readable(kind) == kind = "text"

\* What a link leads to is read as a file of its own.
Followed(p) == IF tree[p] = "link" THEN Linked ELSE p

Hits(p) == {<<p, i>> : i \in 1..Matching[Followed(p)]}
FirstHits(p, n) == {hit \in Hits(p) : hit[2] <= n}

\* One path of fs_search_in_process; the children of a directory in order.  What is not
\* readable, for its size, its text or its permissions, is passed over without a word.
SearchPath ==
    /\ Going("inprocess") /\ walk.stack # <<>>
    /\ Still
    /\ LET p == Top[1]
           kind == tree[Followed(p)]
           enter == kind = "dir" /\ Top[2] <= walk.depth /\ ~Skipped(walk.root, p)
           next == SetToSeq({q \in Children(p) : Exists(q)})
           found == walk.found \cup FirstHits(p, walk.limit - Cardinality(walk.found))
           more == walk.visited < MaxFiles /\ Cardinality(walk.found) < walk.limit
       IN \/ /\ walk.visited >= MaxFiles
             /\ Fails
          \/ /\ walk.visited < MaxFiles /\ Cardinality(walk.found) >= walk.limit
             /\ walk' = [walk EXCEPT !.truncated = TRUE, !.stack = <<>>]
          \/ /\ more /\ enter
             /\ walk' = [walk EXCEPT !.stack = Rest \o [i \in DOMAIN next |-> <<next[i], Top[2] + 1>>]]
          \/ /\ more /\ Readable(kind)
             /\ walk' = [walk EXCEPT !.stack = Rest, !.found = found, !.visited = @ + 1,
                                     !.truncated = @ \/ Full(found)]
          \/ /\ more /\ ~enter /\ ~Readable(kind)
             /\ walk' = [walk EXCEPT !.stack = Rest]

SearchEnds ==
    /\ Going("inprocess") /\ walk.stack = <<>>
    /\ walk' = [walk EXCEPT !.out = "ok"]
    /\ Still

\* What ripgrep opens: hidden files too, no links, and what is ignored or generated only
\* when it was asked for.
Opened == {p \in Paths :
              /\ tree[p] \notin {"none", "dir", "link"}
              /\ IsPrefix(walk.root, p)
              /\ Len(p) - Len(walk.root) <= walk.depth
              /\ \/ Generated(walk.root)
                 \/ \A n \in (Len(walk.root) + 1)..(Len(p) - 1) : ~Skipped(walk.root, SubSeq(p, 1, n))
              /\ p = walk.root \/ p \notin Ignored \/ Generated(walk.root)}

\* What it prints a match of: odd files too, and above --max-filesize only the file that
\* it was told to search.
Printed == {p \in Opened : tree[p] \in {"text", "odd"} \/ (tree[p] = "large" /\ p = walk.root)}

\* One line of its output: the file is read for the lines around the match.
RipgrepMatch ==
    /\ Going("ripgrep") /\ Cardinality(walk.found) < walk.limit
    /\ Still
    /\ \E p \in Printed : \E hit \in Hits(p) \ walk.found :
          LET found == walk.found \cup {hit}
          IN IF ~Readable(tree[p]) THEN Fails
             ELSE walk' = [walk EXCEPT !.found = found, !.truncated = Full(found),
                                       !.out = IF Cardinality(found) >= walk.limit THEN "ok" ELSE "none"]

\* The end of its output.  It exits with an error when there was a file it could not open.
RipgrepEnds ==
    /\ Going("ripgrep")
    /\ UNION {Hits(p) : p \in Printed} \subseteq walk.found
    /\ IF \E p \in Opened : tree[p] = "locked" THEN Fails
       ELSE walk' = [walk EXCEPT !.out = "ok"]
    /\ Still

Next ==
    \/ FsWrite \/ FsRename \/ Removed \/ Start \/ DeadlinePasses
    \/ ListDirectory \/ ListEnds
    \/ SearchPath \/ SearchEnds \/ RipgrepMatch \/ RipgrepEnds

Spec == Init /\ [][Next]_vars

-----------------------------------------------------------------------------
(* Properties.                                                             *)

\* What is below the root and not deeper than asked, but for generated
\* directories; those of a generated root ripgrep looks through too.
Below(depth) == {p \in Paths \ {walk.root} :
                    /\ Exists(p) /\ IsPrefix(walk.root, p)
                    /\ Len(p) - Len(walk.root) <= depth
                    /\ \A q \in Above(p) \cup {p} :
                          Len(q) > Len(walk.root) /\ tree[q] = "dir" /\ Skipped(walk.root, q)
                            => walk.op = "ripgrep" /\ Generated(walk.root)}

\* A list or a search that ended without an error and does not say that it was cut has
\* found everything that was there all along, and nothing else: a list the files and
\* directories of every kind, a search the matches of the text files of up to 1 MiB that
\* can be opened.  In those, what the agent takes for absent is absent.
NothingIsLeftOutSilently ==
    walk.op # "none" /\ walk.out = "ok" /\ ~walk.truncated /\ walk.clean =>
        CASE walk.op = "list" ->
               walk.found = {p \in Below(IF walk.recursive THEN walk.depth + 1 ELSE 1) :
                                tree[p] # "link"}
          [] walk.op = "ripgrep" ->
               walk.found = UNION {Hits(p) : p \in
                              {q \in Below(walk.depth) \cup {walk.root} :
                                  /\ tree[q] = "text"
                                  /\ q \in Ignored => q = walk.root \/ Generated(walk.root)}}
          [] walk.op = "inprocess" ->
               walk.found = UNION {Hits(p) : p \in
                              {q \in Below(walk.depth + 1) \cup {walk.root} :
                                  tree[Followed(q)] = "text"}}

\* (does not hold) A search that does not say it was cut had no file to leave out for its
\* size or its permissions.
SkippedFilesAreTold ==
    walk.op \in {"ripgrep", "inprocess"} /\ walk.out = "ok" /\ ~walk.truncated /\ walk.clean =>
        \A p \in Below(walk.depth) : tree[p] \notin {"large", "locked"}

\* The directories that a write or a move reports as created are those that it
\* created.
CreatedDirectoriesAreReported == report.said = report.made
=============================================================================

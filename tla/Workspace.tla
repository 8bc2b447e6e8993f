------------------------------- MODULE Workspace -------------------------------
(***************************************************************************)
(* What the filesystem adapter computes from one observation of a          *)
(* workspace: the path grammar (path.rs), opening without following links  *)
(* (read_text.rs, query.rs), reading, the exact edits of a patch           *)
(* (apply_patch.rs), and the outputs of the three queries with what their  *)
(* verifier demands of them (query.rs).                                    *)
(*                                                                         *)
(* A path is a sequence of component names, a tree a function from paths   *)
(* to nodes, a text a sequence of symbols of one byte each.  "\n" ends a   *)
(* line and "bad" is a byte that is not UTF-8.  A digest is the text it    *)
(* commits to.                                                             *)
(***************************************************************************)
EXTENDS Integers, Sequences, FiniteSets, SequencesExt

CONSTANTS Paths,          \* every path of the workspace, <<>> its root
          DisplayOrder,   \* Paths in the byte order of their joined names
          NameOrder,      \* component names in byte order
          Workspaces,     \* workspace ids
          This,           \* the id of this workspace
          None,
          MaxText,        \* MAX_ATOMIC_TEXT_BYTES = MAX_READ_TEXT_BYTES
          MaxEdits,       \* MAX_APPLY_PATCH_EDITS
          MaxScan,        \* MAX_DIRECTORY_SCAN_ENTRIES = MAX_SEARCH_VISITED_ENTRIES
          MaxListed,      \* MAX_LIST_DIRECTORY_ENTRIES
          MaxMatches,     \* MAX_SEARCH_MATCHES
          MaxQuery,       \* MAX_SEARCH_QUERY_BYTES
          MaxSearchFile,  \* MAX_SEARCH_FILE_BYTES
          MaxSearchTotal, \* MAX_SEARCH_TOTAL_BYTES
          MaxOutput       \* MAX_QUERY_OUTPUT_CANONICAL_BYTES

ASSUME WorkspaceAssumption ==
    /\ This \in Workspaces
    /\ ToSet(DisplayOrder) = Paths
    /\ {MaxText, MaxEdits, MaxScan, MaxListed, MaxMatches, MaxQuery, MaxSearchFile,
          MaxSearchTotal, MaxOutput} \subseteq Nat \ {0}

-----------------------------------------------------------------------------
(* Paths *)

\* Names of each class validate_component tells apart.
Unportable == {"", ".", "CON", " a", "a."}
Escaping == {"..", "a:b"}

ComponentError(c) ==
    IF c \in Escaping THEN "OutsideBoundary" ELSE IF c \in Unportable THEN "Invalid" ELSE None

\* validate_relative: the first component with an error decides.
RelativeError(parts) ==
    IF parts = <<>> THEN "Invalid"
    ELSE LET bad == {i \in DOMAIN parts : ComponentError(parts[i]) # None} IN
         IF bad = {} THEN None
         ELSE ComponentError(parts[CHOOSE i \in bad : \A j \in bad : i <= j])

\* A resource as a model names it: relative, or under a workspace.
CanonicalResource(r) ==
    IF r.parts = <<>> /\ r.root \in {None, This} THEN [root |-> This, parts |-> <<>>]
    ELSE IF r.root \notin {None, This} \/ RelativeError(r.parts) # None THEN None
    ELSE [root |-> This, parts |-> r.parts]

ParseCanonical(r) ==
    r.root = This /\ (r.parts = <<>> \/ RelativeError(r.parts) = None)

Child(path, name) == Append(path, name)

Portable(path) == path = <<>> \/ ComponentError(Last(path)) = None

NameIndex(name) == CHOOSE i \in DOMAIN NameOrder : NameOrder[i] = name
DisplayIndex(path) == CHOOSE i \in DOMAIN DisplayOrder : DisplayOrder[i] = path

-----------------------------------------------------------------------------
(* Opening and reading *)

Absent == [kind |-> "absent", text |-> <<>>, mode |-> 0, synced |-> TRUE]

\* Every parent is a directory and none a link: open_dir_nofollow.
ParentOpens(tree, path) ==
    path # <<>> /\ \A n \in 0..(Len(path) - 1) : tree[SubSeq(path, 1, n)].kind = "dir"

DirectoryOpens(tree, path) ==
    (path = <<>> \/ ParentOpens(tree, path)) /\ tree[path].kind = "dir"

RegularFileOpens(tree, path) == ParentOpens(tree, path) /\ tree[path].kind = "file"

Utf8(text) == "bad" \notin ToSet(text)

\* The failure of read_text, or None when it yields the text.
ReadFailure(tree, path) ==
    IF ~ParentOpens(tree, path) \/ tree[path].kind \in {"absent", "link"} THEN "Open"
    ELSE IF tree[path].kind # "file" THEN "NonRegular"
    ELSE IF Len(tree[path].text) > MaxText THEN "TooLarge"
    ELSE IF ~Utf8(tree[path].text) THEN "InvalidUtf8"
    ELSE None

-----------------------------------------------------------------------------
(* Exact edits *)

Occurs(source, needle, i) ==
    i + Len(needle) - 1 <= Len(source) /\ SubSeq(source, i, i + Len(needle) - 1) = needle

Occurrences(source, needle) == {i \in DOMAIN source : Occurs(source, needle, i)}

\* find, then contains from the next character on: overlapping ones count.
RangeError(source, needle) ==
    LET at == Occurrences(source, needle) IN
    IF at = {} THEN "ContextMissing" ELSE IF Cardinality(at) > 1 THEN "ContextAmbiguous" ELSE None

RangeStart(source, needle) == CHOOSE i \in Occurrences(source, needle) : TRUE

\* resolved.sort_by_key(start).
Resolved(source, edits) ==
    SortSeq(edits, LAMBDA d, e : RangeStart(source, d.old) < RangeStart(source, e.old))

\* replace_range from the last range to the first.
ReplaceBackwards(source, resolved) ==
    FoldRight(LAMBDA e, text :
                LET at == RangeStart(source, e.old) IN
                SubSeq(text, 1, at - 1) \o e.new \o SubSeq(text, at + Len(e.old), Len(text)),
              resolved, source)

EditsError(source, edits) ==
    LET missing == {i \in DOMAIN edits : RangeError(source, edits[i].old) # None} IN
    IF missing # {}
    THEN RangeError(source, edits[CHOOSE i \in missing : \A j \in missing : i <= j].old)
    ELSE LET r == Resolved(source, edits) IN
         IF \E i \in 1..(Len(r) - 1) :
                RangeStart(source, r[i + 1].old) < RangeStart(source, r[i].old) + Len(r[i].old)
         THEN "OverlappingEdits"
         ELSE IF Len(ReplaceBackwards(source, r)) > MaxText THEN "ResultTooLarge"
         ELSE None

ApplyExactEdits(source, edits) == ReplaceBackwards(source, Resolved(source, edits))

\* What a list of edits means: every symbol outside the old texts stays, and
\* each old text, wherever it stands, becomes its new text.
EditedText(source, edits) ==
    LET covering(i) == {k \in DOMAIN edits :
            i \in RangeStart(source, edits[k].old)..
                  (RangeStart(source, edits[k].old) + Len(edits[k].old) - 1)}
        piece(i) == IF covering(i) = {} THEN <<source[i]>>
                    ELSE LET k == CHOOSE k \in covering(i) : TRUE IN
                         IF i = RangeStart(source, edits[k].old) THEN edits[k].new ELSE <<>>
    IN FlattenSeq([i \in DOMAIN source |-> piece(i)])

-----------------------------------------------------------------------------
(* Query outputs *)

\* match_indices on each line: from the left, not overlapping.
MatchStarts(text, query) ==
    FoldLeft(LAMBDA found, i :
                IF Occurs(text, query, i) /\ \A j \in found : j + Len(query) <= i
                THEN found \union {i} ELSE found,
             {}, [i \in DOMAIN text |-> i])

\* Line and column of a position, both from one.
MatchAt(path, text, i) ==
    LET breaks == {j \in 1..(i - 1) : text[j] = "\n"} IN
    [path |-> path, line |-> Cardinality(breaks) + 1,
     column |-> IF breaks = {} THEN i ELSE i - (CHOOSE j \in breaks : \A k \in breaks : k <= j)]

\* The matches of a file in the order collect_matches finds them.
MatchesIn(path, text, query) ==
    LET starts == SetToSortSeq(MatchStarts(text, query), <) IN
    [k \in DOMAIN starts |-> MatchAt(path, text, starts[k])]

KeyLess(a, b) ==
    \/ DisplayIndex(a.path) < DisplayIndex(b.path)
    \/ a.path = b.path /\ a.line < b.line
    \/ a.path = b.path /\ a.line = b.line /\ a.column < b.column

SortMatches(matches) == SortSeq(matches, KeyLess)

\* The canonical size of a candidate grows with its path, an entry of a listing
\* repeats the name, and the frame costs one.
CandidateSize(c) == Len(c.path) + (IF "kind" \in DOMAIN c THEN 2 ELSE 0)
OutputSize(kept) == 1 + FoldLeft(LAMBDA n, c : n + CandidateSize(c), 0, kept)

\* The longest prefix that fits; leaving anything out is reported.
BoundedCollectionOutput(field, candidates, truncated) ==
    LET fits == {n \in 0..Len(candidates) : OutputSize(SubSeq(candidates, 1, n)) <= MaxOutput}
        kept == CHOOSE n \in fits : \A k \in fits : k <= n
    IN [field |-> field, items |-> SubSeq(candidates, 1, kept),
        truncated |-> truncated \/ kept < Len(candidates)]

StatOutput(kind, size) == [field |-> "stat", kind |-> kind, size |-> size]

\* One entry of a listing, and whether it could not be opened as what it is.
ListedEntry(tree, path, opens) ==
    LET kind == tree[path].kind IN
    IF kind \in {"dir", "file"} /\ opens
    THEN [path |-> path, kind |-> kind,
          size |-> IF kind = "file" THEN Len(tree[path].text) ELSE None]
    ELSE [path |-> path, kind |-> "other", size |-> None]

\* validate_list_output, validate_stat_output and validate_search_output.
OutputAccepted(out) ==
    CASE out.field = "entries" ->
            /\ Len(out.items) <= MaxListed
            /\ \A i \in DOMAIN out.items :
                 /\ CanonicalResource([root |-> None, parts |-> out.items[i].path]) # None
                 /\ (out.items[i].kind = "file") = (out.items[i].size # None)
            /\ \A i \in 1..(Len(out.items) - 1) :
                 DisplayIndex(out.items[i].path) < DisplayIndex(out.items[i + 1].path)
            /\ OutputSize(out.items) <= MaxOutput
      [] out.field = "matches" ->
            /\ Len(out.items) <= MaxMatches
            /\ \A i \in DOMAIN out.items :
                 /\ out.items[i].path # <<>>
                 /\ CanonicalResource([root |-> None, parts |-> out.items[i].path]) # None
            /\ \A i \in 1..(Len(out.items) - 1) : KeyLess(out.items[i], out.items[i + 1])
            /\ OutputSize(out.items) <= MaxOutput
      [] out.field = "stat" ->
            out.kind \in {"file", "dir"} /\ (out.kind = "file") = (out.size # None)
===============================================================================

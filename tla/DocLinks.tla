------------------------------- MODULE DocLinks -----------------------------
(***************************************************************************)
(* Links between the documents, as tools/doccheck.py follows them on the   *)
(* host of whoever edits them and as a reader follows them later.  A path  *)
(* is the tuple of its names; a host may take names for equal that differ  *)
(* in case.  A line of a page is a heading, known by the anchor it asks    *)
(* for, a task marker, or the marker of a fenced block.                    *)
(***************************************************************************)
EXTENDS Findings, Integers, Sequences, SequencesExt

CONSTANTS
    Name,               \* names of files and directories
    Folded,             \* name -> what a host that ignores case takes it for
    Page,               \* the path of the page that has anchors
    PageHeading,        \* anchors headings ask for
    LinkPath,           \* where a link may point, and at which anchor there
    LinkAnchor,
    Fence,              \* markers of a fenced block
    NoAnchor,
    MaxDocEdits

ASSUME DocAssumption ==
    /\ Page \in LinkPath /\ LinkPath \subseteq Seq(Name) \ {<<>>}
    /\ NoAnchor \in LinkAnchor /\ NoAnchor \notin Fence

VARIABLES
    paths,              \* the paths there are
    lines,              \* of Page
    links,              \* of README.md: path and anchor
    docEdits

docVars == <<paths, lines, links, docEdits>>

FoldedPath(path) == [i \in DOMAIN path |-> Folded[path[i]]]

\* What a host opens under a path.
Opens(folds, path) ==
    \E e \in paths : e = path \/ (folds /\ FoldedPath(e) = FoldedPath(path))

---------------------------------------------------------------------------

\* Mutant: a name is one the host would open.
NamedThereOpened(folds, path) == Opens(folds, path)

\* A name is matched against the entries of its directory, exactly.
NamedThere(folds, path) == path \in paths

Missing(folds, path) ==
    \/ \E n \in DOMAIN path : ~NamedThere(folds, SubSeq(path, 1, n))
    \/ ~Opens(folds, path)

\* The marker of the block that is open after a line.  A marker that is not the one that
\* opened the block opens another.
FenceAfter(line, fence) ==
    IF line.kind # "fence" THEN fence ELSE IF fence = line.of THEN NoAnchor ELSE line.of

Fenced(text) ==
    LET fence[n \in 0..Len(text)] ==
            IF n = 0 THEN NoAnchor ELSE FenceAfter(text[n], fence[n - 1])
    IN  fence

\* The lines outside a fenced block.
Unfenced(text) == {n \in DOMAIN text : text[n].kind # "fence" /\ Fenced(text)[n] = NoAnchor}

Headings(text) == {n \in Unfenced(text) : text[n].kind = "heading"}

Repeats(text, i) == Cardinality({j \in Headings(text) : j < i /\ text[j].of = text[i].of})

Slug(head, number) == IF number = 0 THEN head ELSE Append(head, number)

\* A heading repeated gets a number on every repeat after the first.
HeadingSlugs(text) == {Slug(text[i].of, Repeats(text, i)) : i \in Headings(text)}

LinkIssues(folds) ==
    Broken([
        broken |-> \E l \in links : Missing(folds, l.path),
        anchor |-> \E l \in links :
            /\ ~Missing(folds, l.path) /\ l.anchor # NoAnchor
            /\ l.path = Page /\ l.anchor \notin HeadingSlugs(lines)])

TodoIssues == Broken([box |-> \E i \in Unfenced(lines) : lines[i].kind = "badBox"])

---------------------------------------------------------------------------

Line == [kind : {"heading"}, of : PageHeading] \union [kind : {"fence"}, of : Fence]
            \union [kind : {"box", "badBox"}, of : {NoAnchor}]

\* A tree with one page, and one link to it.
DocInit ==
    /\ paths = {SubSeq(Page, 1, n) : n \in DOMAIN Page}
    /\ lines = <<>>
    /\ links = {[path |-> Page, anchor |-> NoAnchor]}
    /\ docEdits = 0

EditDocs ==
    /\ docEdits < MaxDocEdits
    /\ docEdits' = docEdits + 1

\* A path changes the case of its last name, and what is below goes along.
RenameEntry ==
    /\ EditDocs
    /\ \E e \in paths, n \in Name :
        /\ Folded[n] = Folded[Last(e)] /\ n # Last(e)
        /\ paths' = {IF Len(x) >= Len(e) /\ SubSeq(x, 1, Len(e)) = e
                       THEN [x EXCEPT ![Len(e)] = n] ELSE x : x \in paths}
    /\ UNCHANGED <<lines, links>>

RemoveEntry ==
    /\ EditDocs
    /\ \E e \in paths :
            paths' = {x \in paths : ~(Len(x) >= Len(e) /\ SubSeq(x, 1, Len(e)) = e)}
    /\ UNCHANGED <<lines, links>>

EditLine ==
    /\ EditDocs
    /\ \E line \in Line : lines' = Append(lines, line)
    /\ UNCHANGED <<paths, links>>

EditLink ==
    /\ EditDocs
    /\ links' \in {links \union {l} : l \in [path : LinkPath, anchor : LinkAnchor]}
    /\ UNCHANGED <<paths, lines>>

DocNext == RenameEntry \/ RemoveEntry \/ EditLine \/ EditLink

DocSpec == DocInit /\ [][DocNext]_docVars

---------------------------------------------------------------------------

\* As a page is rendered: the marker that opened a block ends it, any other is quoted.
RenderedAfter(line, fence) ==
    IF line.kind # "fence" \/ fence \notin {NoAnchor, line.of} THEN fence
    ELSE IF fence = NoAnchor THEN line.of ELSE NoAnchor

RenderedFences(text) ==
    LET fence[n \in 0..Len(text)] ==
            IF n = 0 THEN NoAnchor ELSE RenderedAfter(text[n], fence[n - 1])
    IN  fence

RenderedLines(text) ==
    {n \in DOMAIN text : text[n].kind # "fence" /\ RenderedFences(text)[n] = NoAnchor}

QuotesFence(text) ==
    \E n \in DOMAIN text :
        text[n].kind = "fence" /\ RenderedFences(text)[n - 1] \notin {NoAnchor, text[n].of}

\* A heading whose anchor is taken gets the first number that is free.
FreeAnchor(head, taken, most) ==
    Slug(head, CHOOSE k \in 0..most : /\ Slug(head, k) \notin taken
                                      /\ \A m \in 0..(k - 1) : Slug(head, m) \in taken)

\* The anchors a page offers, after each line.
OfferedAfter(text, n, taken) ==
    IF n \in RenderedLines(text) /\ text[n].kind = "heading"
      THEN taken \union {FreeAnchor(text[n].of, taken, n)} ELSE taken

Offered(text) ==
    LET offered[n \in 0..Len(text)] ==
            IF n = 0 THEN {} ELSE OfferedAfter(text, n, offered[n - 1])
    IN  offered

(* A link the gate passes, on a host that minds case or one that does not,   *)
(* opens for a reader whose host minds it: a link is never found good where  *)
(* it was written and broken where it is read.                               *)
LinksOpen == \A folds \in BOOLEAN : LinkIssues(folds) = {} => \A l \in links : l.path \in paths

(* Every anchor the gate accepts is one the rendered page offers, however    *)
(* often headings repeat, and no malformed task marker that is rendered      *)
(* escapes it.  A marker quoted in a block that another marker opened turns  *)
(* the gate's reading inside out, so no block is taken to quote one.         *)
PageReadAsRendered ==
    ~QuotesFence(lines) =>
        /\ HeadingSlugs(lines) \subseteq Offered(lines)[Len(lines)]
        /\ TodoIssues = {} => \A i \in RenderedLines(lines) : lines[i].kind # "badBox"

(* The document gate: links open on every host, and a page is read as it is  *)
(* rendered.                                                                 *)
DocumentVerdict == LinksOpen /\ PageReadAsRendered
=============================================================================

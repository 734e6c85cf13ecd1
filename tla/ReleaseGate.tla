----------------------------- MODULE ReleaseGate ----------------------------
(***************************************************************************)
(* The changelog, the upgrade guide and the project version, edited by     *)
(* hand in three files, and what tools/doccheck.py says of them: the       *)
(* changelog format, the upgrade guide and the release version checks.     *)
(***************************************************************************)
EXTENDS Findings, Integers, Sequences, SequencesExt

CONSTANTS
    Unreleased,         \* the title of the section between releases
    Version,            \* the <<major, minor, patch>> a section may be titled with
    ChangeType,         \* the headings the gate knows
    Heading,            \* the headings a section may get
    MaxReleaseEdits

ASSUME VersionAssumption == Version \subseteq Nat \X Nat \X Nat /\ Unreleased \notin Version

VARIABLES
    sections,           \* CHANGELOG.md, newest first: title, dated or not, headings in order
    guide,              \* docs/UPGRADING.md: the <<older, newer>> it has a section for
    version,            \* pyproject.toml
    releaseEdits

releaseVars == <<sections, guide, version, releaseEdits>>

BreakingType == {"Breaking", "Removed"}

Older(v, w) ==
    \/ v[1] < w[1]
    \/ v[1] = w[1] /\ v[2] < w[2]
    \/ v[1] = w[1] /\ v[2] = w[2] /\ v[3] < w[3]

\* Where the sections with a version for a title are, and of those the dated ones.
Versioned == {i \in DOMAIN sections : sections[i].title \in Version}

Released == {i \in Versioned : sections[i].dated}

Breaks(s) == Range(s.headings) \intersect BreakingType # {}

Repeated(headings) ==
    \E i, j \in DOMAIN headings : i < j /\ headings[i] = headings[j] /\ headings[i] \in ChangeType

\* The <<newer, older>> of some sections that follow one another.
Adjacent(places) ==
    {p \in places \X places : p[1] < p[2] /\ ~\E k \in places : p[1] < k /\ k < p[2]}

Title(i) == sections[i].title

SameLine(newer, older) == newer[1] = older[1] /\ newer[2] = older[2]

ChangelogFormat ==
    Broken([
        type |-> \E i \in DOMAIN sections : ~(Range(sections[i].headings) \subseteq ChangeType),
        repeated |-> \E i \in DOMAIN sections : Repeated(sections[i].headings),
        patch |-> \E p \in Adjacent(Versioned) :
            Breaks(sections[p[1]]) /\ SameLine(Title(p[1]), Title(p[2]))])

\* Mutant: a step to the version from anywhere.
UpgradeGuideAnywhere ==
    Broken([upgrade |-> \E p \in Adjacent(Released) :
        /\ \E i \in Versioned : Title(i) = Title(p[1]) /\ Breaks(sections[i])
        /\ ~\E step \in guide : step[2] = Title(p[1])])

UpgradeGuide ==
    Broken([upgrade |-> \E p \in Adjacent(Released) :
        /\ \E i \in Versioned : Title(i) = Title(p[1]) /\ Breaks(sections[i])
        /\ <<Title(p[2]), Title(p[1])>> \notin guide])

ReleaseVersion ==
    IF Released = {} THEN {"no release"}
    ELSE Broken([
            version |-> \E i \in Released :
                version # Title(i) /\ \A j \in Released : i <= j,
            order |-> \E p \in Adjacent(Released) : ~Older(Title(p[2]), Title(p[1]))])

ReleaseGate == ChangelogFormat \union UpgradeGuide \union ReleaseVersion

---------------------------------------------------------------------------

\* A changelog nobody has written to, or one with a first release.
ReleaseInit ==
    /\ \E v \in Version :
        /\ version = v
        /\ sections \in {<<>>,
                         <<[title |-> Unreleased, dated |-> FALSE, headings |-> <<>>],
                           [title |-> v, dated |-> TRUE, headings |-> <<>>]>>}
    /\ guide = {}
    /\ releaseEdits = 0

Edit ==
    /\ releaseEdits < MaxReleaseEdits
    /\ releaseEdits' = releaseEdits + 1

\* An entry under a heading of its own.
WriteEntry ==
    /\ \E i \in DOMAIN sections, h \in Heading :
            sections' = [sections EXCEPT ![i].headings = Append(@, h)]
    /\ Edit
    /\ UNCHANGED <<guide, version>>

\* The unreleased section gets a number, a date or not, and a successor.
CutSection ==
    /\ \E i \in DOMAIN sections, v \in Version, dated \in BOOLEAN :
        /\ sections[i].title = Unreleased
        /\ sections' = InsertAt([sections EXCEPT ![i].title = v, ![i].dated = dated], i,
                                [title |-> Unreleased, dated |-> FALSE, headings |-> <<>>])
    /\ Edit
    /\ UNCHANGED <<guide, version>>

DateSection ==
    /\ \E i \in DOMAIN sections :
            sections[i].title # Unreleased /\ sections' = [sections EXCEPT ![i].dated = ~@]
    /\ Edit
    /\ UNCHANGED <<guide, version>>

\* A merge leaves two sections the wrong way round, or loses one.
MergeSections ==
    /\ \/ \E i \in 1..(Len(sections) - 1) :
            sections' = [sections EXCEPT ![i] = sections[i + 1], ![i + 1] = sections[i]]
       \/ \E i \in DOMAIN sections : sections' = RemoveAt(sections, i)
    /\ Edit
    /\ UNCHANGED <<guide, version>>

WriteGuide ==
    /\ \E older, newer \in Version : guide' = guide \union {<<older, newer>>}
    /\ Edit
    /\ UNCHANGED <<sections, version>>

BumpVersion ==
    /\ version' \in Version \ {version}
    /\ Edit
    /\ UNCHANGED <<sections, guide>>

ReleaseNext ==
    \/ WriteEntry \/ CutSection \/ DateSection \/ MergeSections \/ WriteGuide \/ BumpVersion

ReleaseSpec == ReleaseInit /\ [][ReleaseNext]_releaseVars

---------------------------------------------------------------------------

Releases == {sections[i] : i \in Released}

AllDated == \A i \in DOMAIN sections : sections[i].title # Unreleased => sections[i].dated

\* The release an upgrade to r comes from: the newest of the older ones.
Before(r) ==
    {o \in Releases : Older(o.title, r.title)
                      /\ \A x \in Releases : Older(x.title, r.title) => ~Older(o.title, x.title)}

(* In a tree the gate passes no upgrade crosses a break unawares: between    *)
(* any two releases of one minor line there is none, and every release that  *)
(* breaks something has its step in the guide from the release before it,    *)
(* whichever way round the sections were merged.  A section that lost its    *)
(* date is seen by the format check alone, so all are taken to be dated.     *)
NoSilentBreak ==
    ReleaseGate = {} /\ AllDated =>
        /\ \A older, newer \in Releases :
                Older(older.title, newer.title) /\ SameLine(newer.title, older.title)
                    => ~Breaks(newer)
        /\ \A r \in Releases : \A o \in Before(r) : Breaks(r) => <<o.title, r.title>> \in guide

(* The version a tree the gate passes installs as is the newest release, of  *)
(* all that are dated, and no release is listed twice.                       *)
NewestIsInstalled ==
    ReleaseGate = {} =>
        /\ \A r \in Releases : ~Older(version, r.title)
        /\ \A i, j \in Released : Title(i) = Title(j) => i = j

\* The release: no breaking change ships without its guide, and the newest version is
\* the one installed.
ReleaseVerdict == NoSilentBreak /\ NewestIsInstalled

=============================================================================

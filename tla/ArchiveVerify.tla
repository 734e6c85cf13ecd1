---------------------------- MODULE ArchiveVerify ---------------------------
(***************************************************************************)
(* evidence_export.py verify(), finding by finding, over an archive and a  *)
(* manifest that are damaged and edited after the export.  Module          *)
(* EvidenceDirectory has its verdict only; AcceptedIsVerified relates the  *)
(* two.  The damage is that of the archive fuzzers, and a manifest's       *)
(* digest is what it covers.                                               *)
(***************************************************************************)
EXTENDS Findings, Integers, Sequences, SequencesExt

CONSTANTS
    MaxSegment, MaxRecord,  \* as in EvidenceDirectory
    Exported,               \* the directories an export may have copied
    Damaged,                \* the contents a damaged file may have
    Notes,                  \* a file no export writes and no name rule refuses
    Outside,                \* a name that is not a plain file name
    MaxDamage

Dir == INSTANCE EvidenceDirectory

Content == Dir!SegmentContent \union Dir!IndexContent

\* What a manifest may say: of a file, and as a whole, without its digest and with it.
Entry ==
    [name : Dir!File \union {Notes, Outside, Ill}, sha256 : Content,
     bytes : Int \union {Ill}, records : Int \union {Ill}]
ManifestWith(digests) ==
    [version : {1, 2}, digest : digests, indexFile : {Dir!IndexFile, Outside, Ill},
     files : Seq(Entry \union {Ill}), totalBytes : Int, totalRecords : Int]
Manifest == ManifestWith(ManifestWith({Ill}))

ASSUME ArchiveAssumption ==
    /\ MaxSegment \in Nat \ {0} /\ MaxRecord \in Nat \ {0}
    /\ \A d \in Exported : Dir!IsDirectory(d) /\ d \in [DOMAIN d -> Content] /\ Dir!ChainOK(d)
    /\ Damaged \subseteq Content
    /\ Notes \notin Dir!File /\ Notes \notin {Outside, Ill}
    /\ Outside \notin Dir!File /\ Ill \notin Dir!File /\ Ill # Outside
    /\ Ill \notin Int /\ Ill \notin Entry /\ Ill \notin Manifest

VARIABLES
    copies,         \* the archive's files
    attestation,    \* what manifest.json says, Ill when it cannot be read
    original,       \* the archive as exported
    sealed,         \* nobody recomputed the digest since
    damage          \* how often it was damaged

archiveVars == <<copies, attestation, original, sealed, damage>>

IsSegment(name) == name \in Dir!SegmentId

\* _record_count, file_digest: a partial line is a record, and a byte.
RecordsIn(name, content) ==
    IF IsSegment(name)
    THEN content.last + 1 - content.first + (IF content.torn THEN 1 ELSE 0) ELSE Ill

BytesIn(name, content) ==
    IF IsSegment(name) THEN 2 * RecordsIn(name, content) ELSE 1

Covered(m) == [m EXCEPT !.digest = Ill]

Digested(m) == [m EXCEPT !.digest = Covered(m)]

Attesting(name, content) ==
    [name |-> name, sha256 |-> content, bytes |-> BytesIn(name, content),
     records |-> RecordsIn(name, content)]

IntegerTotal(entries, field) ==
    Sums([i \in DOMAIN entries |->
            IF entries[i] # Ill /\ entries[i][field] \in Int THEN entries[i][field] ELSE 0])[Len(entries)]

\* sorted(): the names of some files, each once, in order.
InOrder(files) ==
    {names \in [1..Cardinality(files) -> files] :
        /\ \A i, j \in DOMAIN names : i < j => names[i] < names[j]
        /\ \A f \in files : \E i \in DOMAIN names : names[i] = f}

BuildManifest(files, index, names) ==
    LET entries == [i \in DOMAIN names |-> Attesting(names[i], files[names[i]])]
    IN  Digested([version |-> 2, digest |-> Ill, indexFile |-> index, files |-> entries,
              totalBytes |-> IntegerTotal(entries, "bytes"),
              totalRecords |-> IntegerTotal(entries, "records")])

---------------------------------------------------------------------------
(* verify(): what it reports. *)

AttestationErrors(m) == Broken([
    version |-> m.version # 2,
    digest |-> m.digest # Covered(m),
    files |-> m.files = <<>>,
    indexFile |-> m.indexFile = Outside])

EntryNameOK(entry) == entry # Ill /\ entry.name \notin {Outside, Ill}

\* Mutant: a member is known by its size.
MemberErrorsBySize(entry) ==
    IF entry.name \notin DOMAIN copies THEN {"missing"}
    ELSE Broken([bytes |-> entry.bytes # BytesIn(entry.name, copies[entry.name])])

\* The digest answers first, then the bytes, then the records where they are claimed.
MemberErrors(entry) ==
    IF entry.name \notin DOMAIN copies THEN {"missing"}
    ELSE LET content == copies[entry.name]
         IN  Broken([
                sha256 |-> entry.sha256 # content,
                bytes |-> entry.sha256 = content /\ entry.bytes # BytesIn(entry.name, content),
                records |-> /\ entry.sha256 = content
                            /\ entry.records # Ill
                            /\ entry.records # RecordsIn(entry.name, content)])

EntryErrors(entry) ==
    IF ~EntryNameOK(entry) THEN {"malformed"}
    ELSE IF ~(entry.bytes \in Int /\ entry.bytes >= 0) THEN {"byte count"}
    ELSE MemberErrors(entry)

\* archive_file_names: the segments and the JSON files, not the manifest.
ArchiveFiles == DOMAIN copies \ {Notes}

Listed(m) == {entry.name : entry \in Range(m.files) \ {Ill}}

Files(directory) == [f \in DOMAIN directory \ {Notes} |-> directory[f]]

\* An index name nobody has is the default one to the chain walk.
ChainErrors == Broken([chain |-> ~Dir!ChainOK(Files(copies))])

VerifyErrors ==
    IF attestation = Ill THEN {"manifest"}
    ELSE IF AttestationErrors(attestation) # {} THEN AttestationErrors(attestation)
    ELSE (UNION {EntryErrors(entry) : entry \in Range(attestation.files)})
         \union ChainErrors
         \union Broken([
            unlisted |-> ~(ArchiveFiles \subseteq Listed(attestation)),
            totalBytes |-> attestation.totalBytes # IntegerTotal(attestation.files, "bytes"),
            totalRecords |-> attestation.totalRecords # IntegerTotal(attestation.files, "records")])

---------------------------------------------------------------------------
(* An export, then damage. *)

ArchiveInit ==
    /\ copies \in Exported
    /\ \E names \in InOrder(DOMAIN copies) :
          attestation = BuildManifest(copies, IF Dir!IndexFile \in DOMAIN copies THEN Dir!IndexFile ELSE Ill, names)
    /\ original = [copies |-> copies, manifest |-> attestation]
    /\ sealed = TRUE
    /\ damage = 0

Damage(c, m) ==
    /\ damage < MaxDamage
    /\ <<c, m>> # <<copies, attestation>>
    /\ copies' = c
    /\ attestation' = m
    /\ damage' = damage + 1
    /\ UNCHANGED <<original, sealed>>

\* A file is cut short, replaced, lost, added or put back from another copy.
DamageFile ==
    \/ \E f \in DOMAIN copies, c \in Damaged :
            (f = Dir!IndexFile) = ("listed" \in DOMAIN c) /\ Damage([copies EXCEPT ![f] = c], attestation)
    \/ \E f \in DOMAIN copies : Damage([g \in DOMAIN copies \ {f} |-> copies[g]], attestation)
    \/ \E f \in Dir!File \ DOMAIN copies, c \in Damaged :
            (f = Dir!IndexFile) = ("listed" \in DOMAIN c) /\ Damage(Dir!Put(copies, f, c), attestation)
    \/ \E f \in DOMAIN original.copies :
            Damage(Dir!Put(copies, f, original.copies[f]), attestation)
    \/ \E c \in Damaged : Damage(Dir!Put(copies, Notes, c), attestation)

\* An entry is lost, doubled, broken, or made to say what its file says by now.
EditEntry ==
    /\ attestation # Ill
    /\ \E i \in DOMAIN attestation.files :
        LET entry == attestation.files[i]
            Rewritten(e) == Damage(copies, [attestation EXCEPT !.files[i] = e])
        IN  \/ Damage(copies, [attestation EXCEPT !.files = RemoveAt(@, i)])
            \/ Damage(copies, [attestation EXCEPT !.files = Append(@, entry)])
            \/ Rewritten(Ill)
            \/ /\ entry # Ill
               /\ \/ \E f \in {"bytes", "records", "name"} : Rewritten([entry EXCEPT ![f] = Ill])
                  \/ Rewritten([entry EXCEPT !.name = Outside])
                  \/ Rewritten([entry EXCEPT !.bytes = -1])
                  \/ /\ entry.name \in DOMAIN copies
                     /\ Rewritten(Attesting(entry.name, copies[entry.name]))

EditAttestation ==
    \/ Damage(copies, Ill)
    \/ Damage(copies, original.manifest)
    \/ /\ attestation # Ill
       /\ \/ Damage(copies, [attestation EXCEPT !.version = 1])
          \/ \E index \in {Ill, Outside, Dir!IndexFile} :
                Damage(copies, [attestation EXCEPT !.indexFile = index])
          \/ Damage(copies, [attestation EXCEPT !.totalBytes = IntegerTotal(attestation.files, "bytes"),
                                             !.totalRecords = IntegerTotal(attestation.files, "records")])

\* Whoever edits a manifest can compute its digest.
Forge ==
    /\ attestation # Ill /\ attestation.digest # Covered(attestation)
    /\ attestation' = Digested(attestation)
    /\ sealed' = FALSE
    /\ UNCHANGED <<copies, original, damage>>

ArchiveNext == DamageFile \/ EditEntry \/ EditAttestation \/ Forge

ArchiveSpec == ArchiveInit /\ [][ArchiveNext]_archiveVars

---------------------------------------------------------------------------

(* An archive verify() accepts is one EvidenceDirectory calls Verified, even *)
(* when the manifest was edited and sealed again: every file is listed with  *)
(* its content, none besides, and the chain holds.  The totals are those of  *)
(* the stream, unless an entry is doubled or claims no record count, which   *)
(* nothing in verify() looks for.                                            *)
AcceptedIsVerified ==
    VerifyErrors = {} =>
        /\ Dir!Verified([attested |-> TRUE, files |-> Files(copies),
                         manifest |-> [f \in Listed(attestation) \ {Notes} |->
                            (CHOOSE e \in Range(attestation.files) : e.name = f).sha256]])
        /\ Len(attestation.files) = Cardinality(Listed(attestation))
           /\ (\A e \in Range(attestation.files) : IsSegment(e.name) => e.records # Ill)
           /\ Notes \notin Listed(attestation)
           => attestation.totalRecords = Cardinality(Dir!Records(Files(copies)))

(* While nobody forges the digest, verify() accepts an archive exactly when  *)
(* its files and its manifest are those of the export, however many times    *)
(* it was damaged and repaired on the way.                                   *)
DamageIsFound ==
    sealed => (VerifyErrors = {} <=> Files(copies) = original.copies /\ attestation = original.manifest)

\* The archive: what is accepted is what was exported, and damage that leaves
\* an unaltered digest is found.
ArchiveVerdict == AcceptedIsVerified /\ DamageIsFound

=============================================================================

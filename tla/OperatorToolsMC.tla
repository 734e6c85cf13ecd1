-------------------------- MODULE OperatorToolsMC --------------------------
(***************************************************************************)
(* The tools an operator runs, for TLC: the values of their constants, and *)
(* a specification in which one of them, chosen at the start, moves.  They *)
(* share no state, so its behaviours are those of each tool alone.         *)
(***************************************************************************)
EXTENDS EvidenceChainMC, ConfigCheckMC, SecretsDrillMC, ArchiveVerify, HostNames, CommandLine

VARIABLE part

-----------------------------------------------------------------------------
(* Archives, and what damage makes of them. *)

Seg(first, last, torn) == [first |-> first, last |-> last, torn |-> torn]

MCExported == {<<Seg(1, 2, FALSE)>>, <<Seg(1, 1, FALSE), Seg(2, 3, FALSE)>>,
               <<Seg(1, 1, FALSE), Seg(2, 2, FALSE), [listed |-> {1, 2}]>>}

MCDamaged == {Seg(1, 1, FALSE), Seg(2, 2, FALSE), Seg(1, 1, TRUE), Seg(2, 3, FALSE),
              [listed |-> {1}], [listed |-> {1, 2}]}

-----------------------------------------------------------------------------
(* Names two hosts take differently, and a directory as the server leaves it. *)

MCFileOrder ==
    <<"evidence-1.jsonl", "evidence-2.jsonl", "EVIDENCE-2.jsonl",
      "index.json", "INDEX.json", "index.json.", "nul.json">>

MCSpelling ==
    [n \in FileName |->
        CASE n = "EVIDENCE-2.jsonl" -> "evidence-2.jsonl"
          [] n \in {"INDEX.json", "index.json."} -> "index.json"
          [] OTHER -> n]

Holding(link, lists) == [link |-> link, lists |-> lists]

MCServerFiles ==
    "evidence-1.jsonl" :> Holding(1, <<>>) @@ "evidence-2.jsonl" :> Holding(2, <<>>)
        @@ "index.json" :> Holding(0, <<"evidence-1.jsonl", "evidence-2.jsonl">>)

-----------------------------------------------------------------------------
(* What a tool may be started with, and what its work may meet. *)

FoundSeqs == BoundedSeq(Text, 2)

Checks(t) ==
    {<<c, d>> : c \in {b \in [found : FoundSeqs, raises : BOOLEAN] :
                         b.raises /\ t # "doccheck" => b.found = <<>>},
                d \in [found : IF t = "doccheck" THEN FoundSeqs ELSE {<<>>}, raises : {FALSE}]}

MCWorld == [t \in Tool |-> [checks : Checks(t), label : Text, readable : BOOLEAN]]

-----------------------------------------------------------------------------
OperatorParts ==
    {"chain", "config", "secrets", "archive", "hosts", "command"}

operatorVars == <<part, chainVars, configVars, secretVars, archiveVars, hostVars, cmdVars>>

OperatorInit ==
    /\ part \in OperatorParts
    /\ IF part = "hosts" THEN HostInit
       ELSE source = <<>> /\ archive = source /\ listing = [files |-> source, index |-> "index.json"] /\ hostEdits = 0
    /\ IF part = "archive" THEN ArchiveInit
       ELSE copies = <<>> /\ attestation = Ill /\ original = copies /\ sealed = FALSE /\ damage = 0
    /\ IF part = "config" THEN TRUE
       ELSE file = ShippedFile /\ env = {} /\ release = CHOOSE r \in Release : TRUE
    /\ ConfigInit
    /\ installed = MovingTo(1)
    /\ IF part = "secrets" THEN TRUE
       ELSE /\ config = Good /\ provenance = {}
            /\ store = [s \in Section |-> Absent]
    /\ SecretInit
    /\ IF part = "command" THEN Invocation
       ELSE tool = "guard_python" /\ given = {} /\ world = [label |-> "plain"]
    /\ NotStarted
    /\ IF part = "chain" THEN stream \in Streams
       ELSE stream = [segs |-> <<>>, index |-> "absent"]
    /\ WalkStarted

\* The parts that do not move keep their state.
OthersRest(p) ==
    /\ UNCHANGED part
    /\ IF p = "chain" THEN TRUE ELSE UNCHANGED chainVars
    /\ IF p = "config" THEN TRUE ELSE UNCHANGED configVars
    /\ IF p = "secrets" THEN TRUE ELSE UNCHANGED secretVars
    /\ IF p = "archive" THEN TRUE ELSE UNCHANGED archiveVars
    /\ IF p = "hosts" THEN TRUE ELSE UNCHANGED hostVars
    /\ IF p = "command" THEN TRUE ELSE UNCHANGED cmdVars

OperatorNext ==
    \/ part = "chain" /\ ChainNext /\ OthersRest("chain")
    \/ part = "config" /\ ConfigNext /\ OthersRest("config")
    \/ part = "secrets" /\ SecretNext /\ OthersRest("secrets")
    \/ part = "archive" /\ ArchiveNext /\ OthersRest("archive")
    \/ part = "hosts" /\ HostNext /\ OthersRest("hosts")
    \/ part = "command" /\ CmdNext /\ OthersRest("command")
    \/ part \notin {"chain", "config", "secrets"} /\ UNCHANGED operatorVars  \* at the bound on edits

OperatorSpec == OperatorInit /\ [][OperatorNext]_operatorVars

\* The state of the part that moves tells two reachable states apart.
PartView ==
    CASE part = "chain" -> <<part, chainVars>>
      [] part = "config" -> <<part, configVars>>
      [] part = "secrets" -> <<part, secretVars>>
      [] part = "archive" -> <<part, archiveVars>>
      [] part = "hosts" -> <<part, hostVars>>
      [] part = "command" -> <<part, cmdVars>>

=============================================================================

----------------------------- MODULE CommandLine ----------------------------
(***************************************************************************)
(* The command lines of the tools, from the arguments to the exit code:    *)
(* the streams are made safe, the arguments are accepted or refused, the   *)
(* work is done and the report is written, a line at a time.  What a tool  *)
(* finds is an input.                                                      *)
(***************************************************************************)
EXTENDS Integers, Sequences, FiniteSets

CONSTANTS
    World,              \* what the work of each tool may meet
    MaxListed           \* findings of one check that doccheck prints

VARIABLES
    tool, given,        \* the tool, and the arguments it is started with
    world,              \* what its work meets
    stage,              \* start, parse, work, write or done
    strict,             \* the streams that raise on text they cannot encode
    failures,           \* what each check found, in the order they ran
    told,               \* how many of them doccheck has come to print
    pending,            \* the lines still to be printed
    output,             \* the lines printed
    status              \* the exit code

cmdVars == <<tool, given, world, stage, strict, failures, told, pending, output, status>>

Text == {"plain", "lone"}       \* "lone" is what a strict stream cannot encode

WorldType ==
    [checks : Seq([found : Seq(Text), raises : BOOLEAN]) \ {<<>>}, label : Text, readable : BOOLEAN]

\* The tools of which every run that comes to its end prints a verdict.  The rule of
\* tools/README.md is for all of them, but replay_contract_check prints none when the
\* trace fails, render_detectors none when the spec cannot be rendered, sbom none beside
\* a document on stdout, and guard_python none ever.
Reporting == {"evidence_check", "evidence_export", "restore_drill", "backup_status",
              "config_check", "doccheck", "report_text"}
Tool == Reporting \union {"replay_contract_check", "sbom", "render_detectors", "guard_python"}

\* "badAge" is a bound that is not in its range, "index" one that is not the default.
Flags(t) ==
    CASE t = "evidence_check"   -> {"dir", "sample", "self-test", "index"}
      [] t = "evidence_export"  -> {"self-test", "dir", "archive", "out", "index"}
      [] t = "restore_drill"    -> {"self-test", "archive", "work", "badAge"}
      [] t = "backup_status"    -> {"self-test", "root", "badAge"}
      [] t = "config_check"     -> {"config", "show-effective", "self-test"}
      [] t = "replay_contract_check" -> {"self-test", "fix-fingerprint"}
      [] t = "sbom"             -> {"out", "self-test"}
      [] t = "render_detectors" -> {"check", "manifest"}
      [] t \in {"doccheck", "report_text"} -> {"self-test"}
      [] t = "guard_python"     -> {}

Exclusive(t) ==
    CASE t = "evidence_check"  -> {"dir", "sample", "self-test"}
      [] t = "evidence_export" -> {"dir", "archive"}
      [] t = "restore_drill"   -> {"self-test", "archive"}
      [] t = "backup_status"   -> {"self-test", "root"}
      [] OTHER -> {}

\* The arguments one of which asks for work, of the tools that do none without.
Requests(t) ==
    CASE t = "evidence_check"  -> {"dir", "sample", "self-test"}
      [] t = "evidence_export" -> {"dir", "archive", "self-test"}
      [] t = "restore_drill"   -> {"archive", "self-test"}
      [] t = "backup_status"   -> {"root", "self-test"}
      [] t = "config_check"    -> {"config", "self-test"}
      [] t = "report_text"     -> {"self-test"}
      [] OTHER -> Flags(t)

ASSUME WorldAssumption ==
    /\ \A t \in Tool : World[t] \subseteq WorldType
    /\ MaxListed \in Nat

NeedsRequest(t) == t \in Reporting \ {"doccheck"}

---------------------------------------------------------------------------

\* argparse: an argument no tool has, or two of a group.
ParserRefuses(t, args) ==
    /\ t # "guard_python"
    /\ "unknown" \in args \/ Cardinality(args \intersect Exclusive(t)) > 1

EvidenceCheckRefuses(args) == "index" \in args /\ "dir" \notin args

EvidenceExportRefuses(args) ==
    \/ "index" \in args /\ "dir" \notin args
    \/ args \intersect {"self-test", "archive"} = {} /\ "dir" \in args /\ "out" \notin args

RestoreDrillRefuses(args) ==
    "self-test" \notin args /\ ("work" \notin args \/ "badAge" \in args)

BackupStatusRefuses(args) == "self-test" \notin args /\ "badAge" \in args

Refuses(t, args) ==
    \/ ParserRefuses(t, args)
    \/ NeedsRequest(t) /\ args \intersect Requests(t) = {}
    \/ t = "evidence_check" /\ EvidenceCheckRefuses(args)
    \/ t = "evidence_export" /\ EvidenceExportRefuses(args)
    \/ t = "restore_drill" /\ RestoreDrillRefuses(args)
    \/ t = "backup_status" /\ BackupStatusRefuses(args)

---------------------------------------------------------------------------

\* A line of a report: what it says of which check, and how many findings it stands for.
Out(kind, text) == [to |-> "out", kind |-> kind, text |-> text, of |-> 1, more |-> 0]
Err(kind, text) == [to |-> "err", kind |-> kind, text |-> text, of |-> 1, more |-> 0]
FindingLines(found) == [i \in DOMAIN found |-> Err("finding", found[i])]

\* The verdict may name a path, which may hold text the stream cannot encode.
Label == IF given \intersect {"self-test", "sample"} = {} THEN world.label ELSE "plain"
PlainReport(found) == <<Out("verdict", Label)>> \o FindingLines(found)

RestoreDrillReport(found) ==
    PlainReport(found) \o
        (IF found = <<>> /\ "self-test" \notin given THEN <<Out("summary", world.label)>> ELSE <<>>)

ConfigCheckReport(found) ==
    IF found = <<>> /\ "show-effective" \in given /\ "self-test" \notin given
    THEN <<Out("data", "plain"), Err("verdict", Label)>>
    ELSE PlainReport(found)

ReplayReport(found) ==
    CASE "self-test" \in given ->
            IF found = <<>> THEN <<Out("verdict", "plain")>>
            ELSE <<Err("verdict", "plain")>> \o FindingLines(found)
      [] OTHER -> IF found = <<>> THEN <<Out("verdict", "plain")>> ELSE FindingLines(found)

SbomReport(found) ==
    CASE "self-test" \in given ->
            IF found = <<>> THEN <<Out("verdict", "plain")>>
            ELSE <<Err("verdict", "plain")>> \o FindingLines(found)
      [] OTHER ->
            IF found # <<>> THEN PlainReport(<<found[1]>>)
            ELSE IF "out" \in given THEN <<Out("verdict", Label)>>
            ELSE <<Out("data", "plain")>>

\* With a spec that cannot be rendered nothing goes to stdout.
RenderReport(found) ==
    IF ~world.readable THEN <<Err("finding", found[1])>>
    ELSE IF found # <<>> /\ "check" \in given THEN PlainReport(<<found[1]>>)
    ELSE <<Out("verdict", "plain")>>

GuardReport(found) == IF found = <<>> THEN <<>> ELSE <<Err("finding", found[1])>>

\* doccheck runs all its checks, every other tool and --self-test one.
RunsMany == tool = "doccheck" /\ "self-test" \notin given

\* _run_check: a check that raises has one finding, and the others still run.
RunOneCheck(check) == IF check.raises THEN <<"plain">> ELSE check.found

\* The findings of one check of doccheck, the list cut short.
CheckReport(i) ==
    LET found == failures[i]
        lines == [k \in DOMAIN found |-> [Err("finding", found[k]) EXCEPT !.of = i]]
    IN  IF Len(found) <= MaxListed THEN lines
        ELSE Append(SubSeq(lines, 1, MaxListed),
                    [Err("more", "plain") EXCEPT !.of = i, !.more = Len(found) - MaxListed])

Lines ==
    LET found == world.checks[1].found
    IN  CASE tool = "restore_drill"         -> RestoreDrillReport(found)
          [] tool = "config_check"          -> ConfigCheckReport(found)
          [] tool = "replay_contract_check" -> ReplayReport(found)
          [] tool = "sbom"                  -> SbomReport(found)
          [] tool = "render_detectors"      -> RenderReport(found)
          [] tool = "guard_python"          -> GuardReport(found)
          [] OTHER                          -> PlainReport(found)

\* A stale file is written again and is no finding, unless it is only to be checked.
Failed ==
    IF tool = "render_detectors"
    THEN world.checks[1].found # <<>> /\ (~world.readable \/ "check" \in given)
    ELSE world.checks[1].found # <<>>

---------------------------------------------------------------------------

\* A file that cannot be read is a finding.
Invocation ==
    /\ tool \in Tool
    /\ given \in SUBSET (Flags(tool) \union (IF tool = "guard_python" THEN {} ELSE {"unknown"}))
    /\ world \in World[tool]
    /\ ~world.readable => tool = "render_detectors" /\ world.checks[1].found # <<>>

NotStarted ==
    /\ stage = "start" /\ strict = {"out"} /\ failures = <<>> /\ told = 0
    /\ pending = <<>> /\ output = <<>> /\ status = 0

CmdInit == Invocation /\ NotStarted

\* Mutant: the streams stay as the host opened them.
SafeStreamsNever(streams) == streams
\* safe_report_streams.  stderr never raises; stdout does until it is made safe.
SafeStreams(streams) == {}

Start ==
    /\ stage = "start"
    /\ strict' = SafeStreams(strict)
    /\ stage' = "parse"
    /\ UNCHANGED <<tool, given, world, failures, told, pending, output, status>>

RefuseArguments ==
    /\ stage = "parse" /\ Refuses(tool, given)
    /\ pending' = <<Err("usage", "plain")>>
    /\ status' = 2
    /\ stage' = "write"
    /\ UNCHANGED <<tool, given, world, strict, failures, told, output>>

Accept ==
    /\ stage = "parse" /\ ~Refuses(tool, given)
    /\ stage' = "work"
    /\ UNCHANGED <<tool, given, world, strict, failures, told, pending, output, status>>

\* What the work raises and nothing catches ends the run in a traceback.
BreaksOff == ~RunsMany /\ world.checks[1].raises

BreakOff ==
    /\ stage = "work" /\ BreaksOff
    /\ pending' = <<Err("traceback", "plain")>>
    /\ status' = 1
    /\ stage' = "write"
    /\ UNCHANGED <<tool, given, world, strict, failures, told, output>>

DoWork ==
    /\ stage = "work" /\ ~RunsMany /\ ~BreaksOff
    /\ pending' = Lines
    /\ status' = IF Failed THEN 1 ELSE 0
    /\ stage' = "write"
    /\ UNCHANGED <<tool, given, world, strict, failures, told, output>>

RunNext ==
    /\ stage = "work" /\ RunsMany
    /\ Len(failures) < Len(world.checks)
    /\ failures' = Append(failures, RunOneCheck(world.checks[Len(failures) + 1]))
    /\ UNCHANGED <<tool, given, world, stage, strict, told, pending, output, status>>

\* The total decides the exit code and is told before the lists.
AllRun ==
    /\ stage = "work" /\ RunsMany
    /\ Len(failures) = Len(world.checks)
    /\ pending' = <<Out("verdict", "plain")>>
    /\ status' = IF \E i \in DOMAIN failures : failures[i] # <<>> THEN 1 ELSE 0
    /\ stage' = "write"
    /\ UNCHANGED <<tool, given, world, strict, failures, told, output>>

TellCheck ==
    /\ stage = "write" /\ pending = <<>>
    /\ told < Len(failures)
    /\ told' = told + 1
    /\ pending' = CheckReport(told + 1)
    /\ UNCHANGED <<tool, given, world, stage, strict, failures, output, status>>

\* A line the stream cannot encode raises, and the run ends in a traceback.
WriteLine ==
    /\ stage = "write" /\ pending # <<>>
    /\ IF Head(pending).to \in strict /\ Head(pending).text = "lone"
       THEN /\ output' = Append(output, Err("traceback", "plain"))
            /\ pending' = <<>>
            /\ status' = 1
            /\ stage' = "done"
       ELSE /\ output' = Append(output, Head(pending))
            /\ pending' = Tail(pending)
            /\ UNCHANGED <<status, stage>>
    /\ UNCHANGED <<tool, given, world, strict, failures, told>>

Exit ==
    /\ stage = "write" /\ pending = <<>>
    /\ told = Len(failures)
    /\ stage' = "done"
    /\ UNCHANGED <<tool, given, world, strict, failures, told, pending, output, status>>

CmdNext ==
    \/ Start \/ RefuseArguments \/ Accept \/ BreakOff \/ DoWork
    \/ RunNext \/ AllRun \/ TellCheck \/ WriteLine \/ Exit

CmdSpec == CmdInit /\ [][CmdNext]_cmdVars

---------------------------------------------------------------------------

\* The checks that were asked for, and how much each has met.
Asked == IF RunsMany THEN DOMAIN world.checks ELSE {1}

MetBy(i) == IF world.checks[i].raises THEN 1 ELSE Len(world.checks[i].found)

Printed(kind) == {i \in DOMAIN output : output[i].kind = kind}

PrintedOf(kind, i) == {l \in Printed(kind) : output[l].of = i}

(* Exit 2 says the arguments were refused, and stdout stays empty; 1 says     *)
(* that something was met, 0 that nothing was, whatever text it is told in    *)
(* and whichever check broke off.  render_detectors, which repairs what it    *)
(* finds, is left to what it prints.                                          *)
ExitCodeTrue ==
    stage = "done" /\ tool # "render_detectors" =>
        /\ status = 2 <=> Printed("usage") # {}
        /\ status = 2 => \A i \in DOMAIN output : output[i].to = "err"
        /\ status # 2 => (status = 1 <=> \E i \in Asked : MetBy(i) > 0)

(* Of the tools that print a verdict in every run: each run that its work did *)
(* not break off prints one, on stdout unless stdout is data, and accounts    *)
(* for everything each check met: a finding is printed, or counted by the one *)
(* line that ends a list cut short.                                           *)
ReportComplete ==
    stage = "done" /\ tool \in Reporting /\ status # 2 /\ ~BreaksOff =>
        /\ Cardinality(Printed("verdict")) = 1
        /\ \A i \in Printed("verdict") : output[i].to = "out" <=> Printed("data") = {}
        /\ \A i \in Printed("finding") : output[i].to = "err"
        /\ \A i \in Asked :
              \/ Cardinality(PrintedOf("finding", i)) = MetBy(i) /\ PrintedOf("more", i) = {}
              \/ \E l \in PrintedOf("more", i) :
                    /\ PrintedOf("more", i) = {l}
                    /\ Cardinality(PrintedOf("finding", i)) + output[l].more = MetBy(i)

(* Every tool, the ones without a verdict and the runs that break off too:    *)
(* what ends with another code than 0 has said why on stderr.                 *)
FailureTold == stage = "done" /\ status # 0 => \E i \in DOMAIN output : output[i].to = "err"

\* The command line: the exit code says what was found, no tool fails in silence, and
\* the report of a tool that promises one lists what was found.
CommandVerdict == ExitCodeTrue /\ FailureTold /\ ReportComplete

=============================================================================

----------------------------- MODULE Definition -----------------------------
(***************************************************************************)
(* A workflow's README as the program understands it: the stages of the    *)
(* frontmatter with the defaults filled in, the transitions that are       *)
(* complete, and the prose under the headings that name a stage.           *)
(*                                                                         *)
(* A README is a record: whether its frontmatter is closed and is YAML of   *)
(* the expected shape, what the stages block says, and the lines after it.  *)
(* A name is a number, 0 for none; a flag that is not given is not in the   *)
(* domain of `says'.  Where the entities are kept is StateCheckout.        *)
(***************************************************************************)
EXTENDS Naturals, Sequences, FiniteSets, SequencesExt

Flags == {"initial", "terminal", "gate", "worktree"}

Failed == [ok |-> FALSE, stages |-> <<>>, transitions |-> <<>>, prose |-> <<>>]

\* What a stage says, else what the defaults say, else no
FlagsOf(raw, defaults) ==
    [flag \in Flags |-> IF flag \in DOMAIN raw THEN raw[flag]
                        ELSE flag \in DOMAIN defaults /\ defaults[flag]]

StageOf(raw, defaults) ==
    LET flags == FlagsOf(raw.says, defaults.says)
    IN  [name |-> raw.name, initial |-> flags["initial"], terminal |-> flags["terminal"],
         gate |-> flags["gate"], worktree |-> flags["worktree"],
         feedback |-> IF raw.feedback # 0 THEN raw.feedback ELSE defaults.feedback]

\* An edge that lacks an end is dropped.
Transitions(raw) == SelectSeq(raw, LAMBDA edge : edge.from # 0 /\ edge.to # 0)

----------------------------------------------------------------------------
(* Prose: a line is a text, blank, or a heading with its level, the names    *)
(* between backticks, whether a backtick is left open, and otherwise the    *)
(* whole of it as a name.                                                   *)

IsAnyHeading(line) == line.is = "heading"

\* stage_heading_names; <<>> when the line opens no stage
StageHeadingNames(line) ==
    IF ~IsAnyHeading(line) \/ line.level # 3 \/ line.open THEN <<>>
    ELSE IF line.ticked # <<>> THEN line.ticked
    ELSE IF line.plain # 0 THEN <<line.plain>> ELSE <<>>

TrimTrailingBlankLines(lines) ==
    LET last == SelectLastInSeq(lines, LAMBDA line : line.is # "blank")
    IN  SubSeq(lines, 1, last)

\* What a block gives to the map: its text under each of its names, in place
\* of what an earlier block gave.
Close(acc) ==
    [n \in DOMAIN acc.prose \cup ToSet(acc.names) |->
        IF n \in ToSet(acc.names) THEN TrimTrailingBlankLines(acc.text) ELSE acc.prose[n]]

\* Mutated form: only a heading that names stages ends a block.
OtherHeadingsStay(line, acc) ==
    IF StageHeadingNames(line) # <<>>
    THEN [prose |-> Close(acc), names |-> StageHeadingNames(line), text |-> <<>>]
    ELSE IF acc.names = <<>> THEN acc ELSE [acc EXCEPT !.text = Append(@, line)]

\* One line: a heading ends the block before it, and may start another; text
\* outside of every block is dropped.
ProseLine(line, acc) ==
    IF IsAnyHeading(line)
    THEN [prose |-> Close(acc), names |-> StageHeadingNames(line), text |-> <<>>]
    ELSE IF acc.names = <<>> THEN acc ELSE [acc EXCEPT !.text = Append(@, line)]

\* parse_stage_prose
ParseStageProse(lines) ==
    Close(FoldLeft(LAMBDA acc, line : ProseLine(line, acc),
                   [prose |-> <<>>, names |-> <<>>, text |-> <<>>], lines))

----------------------------------------------------------------------------

\* parse_workflow_readme: the whole README is refused when its frontmatter is
\* not closed, is malformed, has no stages or a stage without a name.
ParseWorkflowReadme(readme) ==
    IF \/ readme.frontmatter # "good" \/ ~readme.hasStages
       \/ \E i \in DOMAIN readme.states : readme.states[i].name = 0
    THEN Failed
    ELSE [ok |-> TRUE,
          stages |-> [i \in DOMAIN readme.states |-> StageOf(readme.states[i], readme.defaults)],
          transitions |-> Transitions(readme.transitions),
          prose |-> ParseStageProse(readme.body)]

\* WorkflowIndex::stage_counts: the active tasks in each stage, and those the
\* archive holds under the stage that is called done
StageCounts(definition, active, archived, done) ==
    [i \in DOMAIN definition.stages |->
        Cardinality({e \in DOMAIN active : active[e] = definition.stages[i].name})
        + (IF definition.stages[i].name = done THEN archived ELSE 0)]
=============================================================================

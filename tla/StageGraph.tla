----------------------------- MODULE StageGraph -----------------------------
(***************************************************************************)
(* The drawing of a workflow's stages above the list: which of the three   *)
(* forms fits the pane, how the stages are packed into rows, where the     *)
(* arcs, corners and arrows between them are put, and which edges are      *)
(* written out in words because they are not drawn.                        *)
(*                                                                         *)
(* A line is a sequence of spans, each with what it shows and its width; a  *)
(* column is the width of what stands before it.  Colours, the mark of the *)
(* active stage, the title and the letters of a text are left out.  A      *)
(* stage is known by the number of its name, an edge's label by its width.  *)
(***************************************************************************)
EXTENDS Integers, Sequences, FiniteSets, SequencesExt

CONSTANT NameWidth      \* name of a stage -> columns it takes

Max2(a, b) == IF a > b THEN a ELSE b
Min2(a, b) == IF a < b THEN a ELSE b
Minus(a, b) == Max2(a - b, 0)       \* saturating_sub
CeilDiv(a, b) == (a + b - 1) \div b

MaxFeedbackRows == 2
InterRowPadding == 1
RejectWidth == 6            \* the word on a feedback arc

\* glyphs_for: arrows are the only glyphs whose width differs.
GlyphsFor(ascii) == IF ascii THEN [forward |-> 2, narrow |-> 2] ELSE [forward |-> 3, narrow |-> 1]

Span(is, of, to, width) == [is |-> is, of |-> of, to |-> to, width |-> width]
Blank(n) == Span("blank", 0, 0, n)
Blanks(n) == IF n > 0 THEN <<Blank(n)>> ELSE <<>>
Mark(is) == Span(is, 0, 0, 1)
Node(i, width) == Span("node", i, 0, width)

Width(line) == FoldLeft(LAMBDA n, span : n + span.width, 0, line)
\* The column at which the k-th span of a line starts
Column(line, k) == Width(SubSeq(line, 1, k - 1))

Usable(width) ==
    IF width < 20 THEN width ELSE Max2(Min2((width * 9) \div 10, Minus(width, 2)), 1)
LeftMargin(width) == (width - Usable(width)) \div 2
RightMargin(width) == width - Usable(width) - LeftMargin(width)

----------------------------------------------------------------------------
(* The texts of the stages *)

CountWidth(n) == 2 + (IF n < 10 THEN 1 ELSE 2)
Leading(stage) == stage.initial \/ stage.gate \/ stage.worktree
Markers(stage) == Cardinality({m \in {"gate", "worktree", "initial", "terminal"} : stage[m]})

\* What the three forms need of a stage: its text with its marker, without
\* one, and with all of them.
Nodes(stages, counts) ==
    [i \in DOMAIN stages |->
        LET stage == stages[i]
            plain == NameWidth[stage.name] + CountWidth(counts[i])
        IN  [name |-> stage.name, feedback |-> stage.feedback, plain |-> plain,
             wide |-> (IF Leading(stage) THEN 2 ELSE 0) + plain
                      + (IF stage.terminal THEN 2 ELSE 0),
             cell |-> (IF Markers(stage) = 0 THEN 0 ELSE Markers(stage) + 1) + plain + 1]]

FirstNamed(nodes, name) == SelectInSeq(nodes, LAMBDA node : node.name = name)

\* Every feedback edge that leads to a known stage, by its source
FeedbackArcs(nodes) ==
    LET has(i) == nodes[i].feedback # 0 /\ FirstNamed(nodes, nodes[i].feedback) # 0
        from == SelectSeq([i \in DOMAIN nodes |-> i], has)
    IN  [k \in DOMAIN from |-> [from |-> from[k],
                                to |-> FirstNamed(nodes, nodes[from[k]].feedback)]]

SummaryWidth(nodes, g) ==
    Minus(Len(nodes), 1) * (g.narrow + 2)
    + FoldLeft(LAMBDA n, node : n + node.plain, 0, nodes)

----------------------------------------------------------------------------
(* The wide form *)

\* A row is a sequence of stages and the columns at which they start.
RowWidth(nodes, row) == Last(row).at + nodes[Last(row).of].wide

\* dag_layout_rows: stages are added to a row while the arrow and the stage fit.
DagLayoutRows(nodes, gap, budget) ==
    LET place(acc, i) ==
            LET joins == acc.row # <<>> /\ acc.at + gap + nodes[i].wide <= budget
                at == IF joins THEN acc.at + gap ELSE 0
            IN  [rows |-> IF joins \/ acc.row = <<>> THEN acc.rows ELSE Append(acc.rows, acc.row),
                 row |-> Append(IF joins THEN acc.row ELSE <<>>, [of |-> i, at |-> at]),
                 at |-> at + nodes[i].wide]
        last == FoldLeftDomain(place, [rows |-> <<>>, row |-> <<>>, at |-> 0], nodes)
    IN  IF last.row = <<>> THEN last.rows ELSE Append(last.rows, last.row)

PlanRows(nodes, g, width) ==
    DagLayoutRows(nodes, IF Len(nodes) >= 2 THEN g.forward + 2 ELSE 0, Usable(width))

\* Row and place of a stage
RowOf(rows, i) == SelectInSeq(rows, LAMBDA row : \E p \in DOMAIN row : row[p].of = i)
PlaceOf(row, i) == SelectInSeq(row, LAMBDA cell : cell.of = i)
Center(nodes, row, i) == row[PlaceOf(row, i)].at + nodes[i].wide \div 2

FirstFew(arcs) == SubSeq(arcs, 1, Min2(Len(arcs), MaxFeedbackRows))
ArcsForRow(nodes, row) ==
    FirstFew(SelectSeq(FeedbackArcs(nodes),
                       LAMBDA arc : PlaceOf(row, arc.from) # 0 /\ PlaceOf(row, arc.to) # 0))
CrossRowArcs(nodes, rows) ==
    FirstFew(SelectSeq(FeedbackArcs(nodes),
                       LAMBDA arc : RowOf(rows, arc.from) # RowOf(rows, arc.to)))

\* A line of single cells; cells are numbered from column 0.
Cells(total, cell(_)) == [k \in 1 .. total |-> Mark(cell(k - 1))]

\* render_feedback_row: markers with the word between them, and below it the
\* arc.
FeedbackTop(source, target) ==
    LET left == Min2(source, target)
        right == Max2(source, target)
        word == (left + right) \div 2 - RejectWidth \div 2
        cell(c) == IF /\ right > left + 1 + RejectWidth
                      /\ c \in word .. word + RejectWidth - 1
                   THEN "reject"
                   ELSE IF c = target THEN "up" ELSE IF c = source THEN "stem" ELSE "blank"
    IN  Cells(right + 1, cell)
FeedbackBottom(source, target) ==
    LET left == Min2(source, target)
        right == Max2(source, target)
        cell(c) == IF c = right THEN "corner up left" ELSE IF c = left THEN "corner up right"
                   ELSE IF c > left THEN "horizontal" ELSE "blank"
    IN  Cells(right + 1, cell)

\* build_row_break_connector: from the corner that ends a row to the start of
\* the next.
Connector(start, break) ==
    LET left == Min2(start, break)
        right == Max2(start, break)
        cell(c) == IF left = right THEN IF c = left THEN "vertical" ELSE "blank"
                   ELSE IF c = left THEN IF start < break THEN "corner down right" ELSE "corner up right"
                   ELSE IF c = right THEN IF start < break THEN "corner up left" ELSE "corner down left"
                   ELSE IF c > left THEN "horizontal" ELSE "blank"
    IN  Cells(right + 1, cell)

Chain(nodes, g, row, more) ==
    FlattenSeq([p \in DOMAIN row |->
                  (IF p > 1 THEN <<Span("arrow", 0, 0, g.forward + 2)>> ELSE <<>>)
                  \o <<Node(row[p].of, nodes[row[p].of].wide)>>])
    \o (IF more THEN <<Span("tail", 0, 0, 2), Mark("corner down left")>> ELSE <<>>)

\* What a row contributes: itself, its arcs, and the way to the next row.
RowContent(nodes, g, rows, r) ==
    LET row == rows[r]
        more == r < Len(rows)
        end == RowWidth(nodes, row) + (IF more THEN 3 ELSE 0)
        arcs == ArcsForRow(nodes, row)
    IN  <<Chain(nodes, g, row, more)>>
        \o FlattenSeq([k \in DOMAIN arcs |->
              LET source == Center(nodes, row, arcs[k].from)
                  target == Center(nodes, row, arcs[k].to)
              IN  <<FeedbackTop(source, target), FeedbackBottom(source, target)>>])
        \o (IF more THEN <<Connector(Head(rows[r + 1]).at, Minus(end, 1))>> ELSE <<>>)

\* effective_transitions
EffectiveTransitions(definition) ==
    IF definition.transitions # <<>> THEN definition.transitions
    ELSE [i \in 1 .. Minus(Len(definition.stages), 1) |->
            [from |-> definition.stages[i].name, to |-> definition.stages[i + 1].name, label |-> 0]]

\* Mutated form: what is on one row is taken to be drawn.
DrawnOnOneRow(nodes, rows, edge) ==
    LET from == FirstNamed(nodes, edge.from)
        to == FirstNamed(nodes, edge.to)
    IN  RowOf(rows, from) = RowOf(rows, to)

\* An edge is drawn when its stages are neighbours on a row.
DrawnInline(nodes, rows, edge) ==
    LET from == FirstNamed(nodes, edge.from)
        to == FirstNamed(nodes, edge.to)
        row == RowOf(rows, from)
    IN  row = RowOf(rows, to) /\ PlaceOf(rows[row], to) = PlaceOf(rows[row], from) + 1

\* collect_extra_transitions
ExtraTransitions(nodes, rows, definition) ==
    SelectSeq(EffectiveTransitions(definition),
              LAMBDA edge : /\ edge.from # edge.to
                            /\ FirstNamed(nodes, edge.from) # 0 /\ FirstNamed(nodes, edge.to) # 0
                            /\ ~DrawnInline(nodes, rows, edge))

\* An edge in words, after a lead of the given width
Words(is, from, to, lead, label, g) ==
    Span(is, from, to, lead + NameWidth[from] + 2 + g.narrow + NameWidth[to]
                       + (IF label = 0 THEN 0 ELSE label + 3))

\* The rows, and below them the rollbacks between rows and the edges in words
DagContent(definition, nodes, g, rows) ==
    FlattenSeq([r \in DOMAIN rows |-> RowContent(nodes, g, rows, r)])
    \o [k \in DOMAIN CrossRowArcs(nodes, rows) |->
          LET arc == CrossRowArcs(nodes, rows)[k]
          IN  <<Words("rollback", nodes[arc.from].name, nodes[arc.to].name, 2, 0, g)>>]
    \o [k \in DOMAIN ExtraTransitions(nodes, rows, definition) |->
          LET edge == ExtraTransitions(nodes, rows, definition)[k]
          IN  <<Words("edge", edge.from, edge.to, IF edge.label = 0 THEN g.narrow + 1 ELSE 2,
                      edge.label, g)>>]

\* render_dag: all lines are moved right alike, so that the widest is centred.
WidestOf(content) == FoldLeft(LAMBDA n, line : Max2(n, Width(line)), 0, content)
MovedRight(content, pad, width) ==
    [k \in DOMAIN content |->
        Blanks(pad) \o content[k] \o Blanks(Minus(width, pad + Width(content[k])))]
Centred(content, width) ==
    MovedRight(content, Minus(width, Min2(WidestOf(content), width)) \div 2, width)
RenderDag(definition, nodes, g, width) ==
    Centred(DagContent(definition, nodes, g, PlanRows(nodes, g, width)), width)

----------------------------------------------------------------------------
(* The narrow form *)

\* The packing of render_narrow: a row that is left says so with an arrow at
\* its end and one at the start of the next, where they fit.
NarrowRows(nodes, g, usable) ==
    LET arrow == g.narrow + 2
        wrap == g.narrow + 1
        close(acc, trail) == Append(acc.rows, [first |-> acc.first, last |-> acc.last,
                                lead |-> acc.lead, trail |-> trail,
                                width |-> acc.width + (IF trail THEN wrap ELSE 0)])
        place(acc, i) ==
            LET w == nodes[i].wide
                joined == acc.width + arrow + w
                lead == wrap + w <= usable
            IN  IF acc.last = 0 THEN [acc EXCEPT !.last = i, !.width = w]
                ELSE IF joined <= usable THEN [acc EXCEPT !.last = i, !.width = joined]
                ELSE [rows |-> close(acc, acc.width + wrap <= usable), first |-> i, last |-> i,
                      lead |-> lead, width |-> w + (IF lead THEN wrap ELSE 0)]
        end == FoldLeftDomain(place, [rows |-> <<>>, first |-> 1, last |-> 0, lead |-> FALSE,
                                      width |-> 0], nodes)
    IN  IF end.last = 0 THEN <<>> ELSE close(end, FALSE)

\* The spaces of a row are spread over its gaps, the first ones taking the rest.
GapBefore(i, gaps, slack, arrow) ==
    Span("arrow", 0, 0, arrow + slack \div gaps + (IF i <= slack % gaps THEN 1 ELSE 0))

NarrowLine(nodes, g, width, row) ==
    LET gaps == row.last - row.first
        slack == Minus(Usable(width), row.width)
        wrap == <<Span("wrap", 0, 0, g.narrow + 1)>>
    IN  Blanks(LeftMargin(width)) \o (IF row.lead THEN wrap ELSE <<>>)
        \o FlattenSeq([p \in 1 .. gaps + 1 |->
              (IF p > 1 THEN <<GapBefore(p - 1, gaps, slack, g.narrow + 2)>> ELSE <<>>)
              \o <<Node(row.first + p - 1, nodes[row.first + p - 1].wide)>>])
        \o (IF row.trail THEN wrap ELSE <<>>)
        \o (IF gaps = 0 THEN Blanks(slack) ELSE <<>>) \o Blanks(RightMargin(width))

\* feedback_annotations and non_implied_transition_annotations, a line each
FeedbackLine(nodes, g) ==
    LET arcs == FeedbackArcs(nodes)
    IN  IF arcs = <<>> THEN <<>>
        ELSE << [k \in DOMAIN arcs |->
                   Words("rollback", nodes[arcs[k].from].name, nodes[arcs[k].to].name, 22, 0, g)] >>
Implied(nodes, edge) ==
    \E i \in 1 .. Len(nodes) - 1 : nodes[i].name = edge.from /\ nodes[i + 1].name = edge.to
EdgeLine(definition, nodes, g) ==
    LET edges == SelectSeq(definition.transitions, LAMBDA edge : ~Implied(nodes, edge))
    IN  IF edges = <<>> THEN <<>>
        ELSE << [k \in DOMAIN edges |->
                   Words("edge", edges[k].from, edges[k].to, 0, edges[k].label, g)] >>

Spaced(lines) ==
    FlattenSeq([k \in DOMAIN lines |->
                  IF k = 1 THEN <<lines[k]>> ELSE [p \in 1 .. InterRowPadding |-> <<>>] \o <<lines[k]>>])

NarrowLines(nodes, g, width, rows) ==
    Spaced([r \in DOMAIN rows |-> NarrowLine(nodes, g, width, rows[r])])
RenderNarrow(definition, nodes, g, width) ==
    NarrowLines(nodes, g, width, NarrowRows(nodes, g, Usable(width)))
    \o FeedbackLine(nodes, g) \o EdgeLine(definition, nodes, g)

----------------------------------------------------------------------------
(* The very narrow form: a grid of cells as wide as the widest *)

WidestCell(nodes) == FoldLeft(LAMBDA k, node : Max2(k, node.cell), 0, nodes)
FittingColumns(nodes, g, width, widest) ==
    Min2(Max2((Usable(width) + g.narrow + 2) \div (widest + g.narrow + 2), 1), Len(nodes))
RowBudget(nodes, g, height) == Max2(Minus(height, Len(FeedbackLine(nodes, g))), 1)
GridOf(nodes, widest, cols, rows) ==
    [cols |-> cols, rows |-> rows, cells |-> rows * cols, widest |-> widest,
     hidden |-> rows * cols < Len(nodes)]

\* The most columns whose rows fit the height; failing that as many as fit the
\* width, and the last row gives way to the line that names the hidden stages.
RowsKept(n, cols, rows) == IF rows * cols < n /\ rows > 1 THEN rows - 1 ELSE rows
Grid(nodes, g, width, height) ==
    LET widest == WidestCell(nodes)
        cols == FittingColumns(nodes, g, width, widest)
        most == (RowBudget(nodes, g, height) + InterRowPadding) \div (1 + InterRowPadding)
        rows == Min2(CeilDiv(Len(nodes), cols), Max2(most, 1))
    IN  GridOf(nodes, widest, cols, RowsKept(Len(nodes), cols, rows))

\* A row of n cells from the first on; it may come from a row and lead to one.
GridRow(nodes, g, width, widest, first, n, lead, trail) ==
    LET wrap == <<Span("wrap", 0, 0, g.narrow + 1)>>
        wraps == (IF lead THEN g.narrow + 1 ELSE 0) + (IF trail THEN g.narrow + 1 ELSE 0)
        slack == Minus(Usable(width), n * widest + (n - 1) * (g.narrow + 2) + wraps)
    IN  Blanks(LeftMargin(width)) \o (IF lead THEN wrap ELSE <<>>)
        \o FlattenSeq([p \in 1 .. n |->
              (IF p > 1 THEN <<GapBefore(p - 1, n - 1, slack, g.narrow + 2)>> ELSE <<>>)
              \o <<Node(first + p, nodes[first + p].cell)>>
              \o Blanks(widest - nodes[first + p].cell)])
        \o (IF trail THEN wrap ELSE <<>>)
        \o (IF n = 1 THEN Blanks(slack) ELSE <<>>) \o Blanks(RightMargin(width))
GridLine(nodes, g, width, grid, r) ==
    LET first == (r - 1) * grid.cols
        last == Min2(Min2(r * grid.cols, grid.cells), Len(nodes))
    IN  GridRow(nodes, g, width, grid.widest, first, last - first, r > 1, last < grid.cells)

GridLines(nodes, g, width, grid) ==
    LET filled == SelectSeq([r \in 1 .. grid.rows |-> r],
                            LAMBDA r : (r - 1) * grid.cols < Min2(grid.cells, Len(nodes)))
    IN  Spaced([k \in DOMAIN filled |-> GridLine(nodes, g, width, grid, filled[k])])
        \o (IF grid.hidden THEN << <<Span("hidden", Len(nodes) - grid.cells, 0, 0)>> >> ELSE <<>>)
RenderVeryNarrow(definition, nodes, g, width, height) ==
    GridLines(nodes, g, width, Grid(nodes, g, width, height))
    \o FeedbackLine(nodes, g) \o EdgeLine(definition, nodes, g)

----------------------------------------------------------------------------

\* dag_total_line_count: every arc counts, though only some of them take lines.
DagLineCount(nodes, rows) ==
    2 * Len(rows) - 1 + 2 * Min2(Len(FeedbackArcs(nodes)), MaxFeedbackRows)

PickTier(nodes, g, width, height) ==
    IF Usable(width) = 0 THEN "VeryNarrow"
    ELSE IF DagLineCount(nodes, PlanRows(nodes, g, width)) <= height THEN "Wide"
    ELSE IF SummaryWidth(nodes, g) <= Usable(width) THEN "Narrow" ELSE "VeryNarrow"

\* render_stage_graph into a pane with the given inner size; no pane is lower
\* than one line.
Rendered(tier, definition, nodes, g, width, height) ==
    [tier |-> tier,
     lines |-> IF tier = "Wide" THEN RenderDag(definition, nodes, g, width)
               ELSE IF tier = "Narrow" THEN RenderNarrow(definition, nodes, g, width)
               ELSE RenderVeryNarrow(definition, nodes, g, width, height)]
Fitted(definition, nodes, g, width, height) ==
    Rendered(PickTier(nodes, g, width, height), definition, nodes, g, width, height)
Graph(definition, counts, ascii, width, paneHeight) ==
    IF definition.stages = <<>> THEN [tier |-> "none", lines |-> <<>>]
    ELSE Fitted(definition, Nodes(definition.stages, counts), GlyphsFor(ascii), width,
                Max2(paneHeight, 1))
=============================================================================

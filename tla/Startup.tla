------------------------------ MODULE Startup -------------------------------
(***************************************************************************)
(* From the shell to the first frames: the configuration and its keys, the  *)
(* search for workflows, the README of the first one, and the graph of its *)
(* stages drawn at the size of the terminal, again and again while the      *)
(* README is rewritten, the terminal is resized and keys are pressed.       *)
(***************************************************************************)
EXTENDS Keymap, Definition, StageGraph, Discovery

CONSTANTS
    Starts,     \* families of situations a start may find: env, files, tree, readmes, tasks
    PressedKeys \* keys the user may press

NoKey == ""

\* A key in a file is a character or Unreadable.
ASSUME StartsConstants ==
    \A family \in DOMAIN Starts : \A s \in Starts[family] :
        /\ s.tree \in Trees
        /\ \A path \in {"home", "xdg"} :
              \A i \in DOMAIN s.files[path].bindings : s.files[path].bindings[i] # NoKey

VARIABLES
    start,      \* the situation
    step,       \* "config", "scan", "load", "frames", "ended"
    bindings, keys,     \* what the user configured, and the resolved keymap
    readme, definition, \* the file, and what was last made of it
    size,       \* of the terminal
    drawn,      \* the graph on the screen, with the definition it was drawn from
    preview, did        \* the preview pane, and the last key and what it did

configVars == <<bindings, keys>>
graphVars == <<readme, definition, size, drawn>>
keyVars == <<preview, did>>
vars == <<discoveryVars, start, step, configVars, graphVars, keyVars>>

NothingDrawn == [tier |-> "none", lines |-> <<>>, of |-> Failed, size |-> <<0, 0>>]

Init ==
    /\ \E family \in DOMAIN Starts : start \in Starts[family]
    /\ DiscoveryInit(start.tree)
    /\ step = "config"
    /\ bindings = Defaults /\ keys = Defaults
    /\ readme \in start.readmes /\ definition = Failed
    /\ size \in start.sizes /\ drawn = NothingDrawn
    /\ preview = FALSE /\ did = [key |-> NoKey, act |-> "none", preview |-> FALSE]

----------------------------------------------------------------------------

ReadConfig ==
    /\ step = "config"
    /\ bindings' = LoadStartupConfig(start.env, start.files).bindings
    /\ keys' = Resolve(bindings')
    /\ step' = "scan"
    /\ UNCHANGED <<discoveryVars, start, graphVars, keyVars>>

Scan ==
    /\ step = "scan"
    /\ StartWalk \/ Visit \/ Finish \/ Vanish
    /\ step' = IF walk' = "done" THEN "load" ELSE IF walk' = "failed" THEN "ended" ELSE step
    /\ UNCHANGED <<start, configVars, graphVars, keyVars>>

\* A start without a workflow, or with one it cannot read, ends in the shell.
Load ==
    /\ step = "load"
    /\ definition' = ParseWorkflowReadme(readme)
    /\ step' = IF found # {} /\ definition'.ok THEN "frames" ELSE "ended"
    /\ UNCHANGED <<discoveryVars, start, configVars, readme, size, drawn, keyVars>>

----------------------------------------------------------------------------

\* render_overview: the rows the graph gives up so that the list, the status
\* and the freshness line have theirs.
FreshnessHeight(height) == IF height < 10 THEN 0 ELSE 3
GraphHeight(height, attention) ==
    IF attention THEN Min2(7, Minus(height, 7 + FreshnessHeight(height)))
    ELSE IF height < 27 THEN 7 - FreshnessHeight(height) ELSE 7

Counts == StageCounts(definition, start.active, start.archived, start.done)
Drawing ==
    Graph(definition, Counts, start.ascii, size[1],
          Minus(GraphHeight(size[2], start.attention), 2))
    @@ [of |-> definition, size |-> size]

Draw ==
    /\ step = "frames" /\ drawn' = Drawing
    /\ UNCHANGED <<discoveryVars, start, step, configVars, readme, definition, size, keyVars>>

Resize ==
    /\ step = "frames" /\ size' \in start.sizes
    /\ UNCHANGED <<discoveryVars, start, step, configVars, readme, definition, drawn, keyVars>>

\* The README is rewritten, and the next reload reads it; what cannot be read
\* leaves the last definition in place.
Rewrite ==
    /\ step = "frames" /\ readme' \in start.readmes
    /\ UNCHANGED <<discoveryVars, start, step, configVars, definition, size, drawn, keyVars>>
Reload ==
    /\ step = "frames"
    /\ LET read == ParseWorkflowReadme(readme) IN definition' = IF read.ok THEN read ELSE definition
    /\ UNCHANGED <<discoveryVars, start, step, configVars, readme, size, drawn, keyVars>>

At == [preview |-> preview, multi |-> Cardinality(found) > 1, pinned |-> FALSE]

Press ==
    /\ step = "frames" /\ start.types
    /\ \E key \in PressedKeys :
          LET act == KeyAction(keys, key, At)
          IN  /\ did' = [key |-> key, act |-> act, preview |-> preview]
              /\ preview' = IF act = "close" THEN FALSE ELSE preview
              /\ step' = IF act = "quit" THEN "ended" ELSE step
    /\ UNCHANGED <<discoveryVars, start, configVars, graphVars>>

TogglePreview ==
    /\ step = "frames" /\ start.types /\ preview' = ~preview
    /\ UNCHANGED <<discoveryVars, start, step, configVars, graphVars, did>>

Next == \/ ReadConfig \/ Scan \/ Load \/ Draw \/ Resize \/ Rewrite \/ Reload \/ Press \/ TogglePreview
Spec == Init /\ [][Next]_vars

----------------------------------------------------------------------------
(* Properties *)

KeysAreDistinct ==
    step # "config" =>
        /\ \A i, j \in DOMAIN keys : keys[i] = keys[j] => i = j
        /\ \A i \in DOMAIN keys :
              /\ bindings[i] \notin ReservedKeys \cup {Unreadable}
              /\ Cardinality(Alike(bindings, i)) = 1
              => keys[i] = bindings[i]

KeysOpenTheirPane ==
    \A i \in DOMAIN keys :
        did.key = keys[i] => did.act = IF did.preview THEN "none" ELSE Specs[i].name

Drawn == drawn.tier # "none"
IsNode(span) == span.is = "node"
NodesOf(line) ==
    LET spans == SelectSeq(line, IsNode) IN [k \in DOMAIN spans |-> spans[k].of]
Shown == FlattenSeq([k \in DOMAIN drawn.lines |-> NodesOf(drawn.lines[k])])
Says(is) == {span \in UNION {ToSet(drawn.lines[k]) : k \in DOMAIN drawn.lines} : span.is = is}

EveryStageOnce ==
    Drawn =>
        LET hidden == FoldLeft(LAMBDA n, span : n + span.of, 0, SetToSeq(Says("hidden"))) IN
        /\ Shown = [i \in 1 .. Len(drawn.of.stages) - hidden |-> i]
        /\ drawn.tier # "VeryNarrow" => hidden = 0

EdgesAreShown ==
    Drawn =>
        \A edge \in ToSet(EffectiveTransitions(drawn.of)) :
            LET names == [i \in DOMAIN drawn.of.stages |-> drawn.of.stages[i].name]
                written == \E span \in Says("edge") : span.of = edge.from /\ span.to = edge.to
                chained == \E k \in DOMAIN drawn.lines :
                              LET row == NodesOf(drawn.lines[k]) IN
                              \E p \in 1 .. Len(row) - 1 :
                                 names[row[p]] = edge.from /\ names[row[p + 1]] = edge.to
                inOrder == \E i \in 1 .. Len(names) - 1 :
                              names[i] = edge.from /\ names[i + 1] = edge.to
            IN  edge.from # edge.to /\ {edge.from, edge.to} \subseteq ToSet(names) =>
                   IF drawn.tier = "Wide"
                   THEN /\ chained \/ written
                        /\ IsInjective(names) => ~(chained /\ written)
                   ELSE inOrder \/ written

Has(line, is) == \E k \in DOMAIN line : line[k].is = is
ColumnOf(line, is) == Column(line, SelectInSeq(line, LAMBDA span : span.is = is))
NodeAt(line, column) ==
    LET hit == {k \in DOMAIN line : /\ line[k].is = "node"
                                    /\ Column(line, k) <= column
                                    /\ column < Column(line, k) + line[k].width}
    IN  IF hit = {} THEN 0 ELSE line[CHOOSE k \in hit : TRUE].of
\* The chain row that an arc or a connector hangs from, and the one it leads to
RowAbove(k) == SelectLastInSubSeq(drawn.lines, 1, k - 1, LAMBDA line : Has(line, "node"))
RowBelow(k) == SelectInSubSeq(drawn.lines, k + 1, Len(drawn.lines), LAMBDA line : Has(line, "node"))

ArcsMeetStages ==
    drawn.tier = "Wide" =>
        \A k \in DOMAIN drawn.lines :
            LET line == drawn.lines[k]
                up == ColumnOf(line, "up")
                stem == IF Has(line, "stem") THEN ColumnOf(line, "stem") ELSE up
                above == drawn.lines[RowAbove(k)]
                source == NodeAt(above, stem)
                target == NodeAt(above, up)
            IN  /\ Has(line, "up") =>
                     /\ source # 0 /\ target # 0
                     /\ drawn.of.stages[source].feedback = drawn.of.stages[target].name
                     /\ ColumnOf(drawn.lines[k + 1], "corner up left") = Max2(up, stem)
                     /\ up # stem =>
                          ColumnOf(drawn.lines[k + 1], "corner up right") = Min2(up, stem)
                /\ Has(line, "corner down right") =>
                     /\ ColumnOf(above, "corner down left") = ColumnOf(line, "corner up left")
                     /\ ColumnOf(drawn.lines[RowBelow(k)], "node") = ColumnOf(line, "corner down right")

WidePane == 21
EndOf(line) ==
    LET last == SelectLastInSeq(line, LAMBDA span : span.is # "blank")
    IN  Column(line, last) + line[last].width
RowsFit ==
    /\ drawn.tier \in {"Wide", "Narrow"} /\ drawn.size[1] >= WidePane
    /\ \A k \in DOMAIN drawn.lines : \A span \in ToSet(drawn.lines[k]) :
          span.is = "node" => span.width <= Usable(drawn.size[1])
    => \A k \in DOMAIN drawn.lines :
          Has(drawn.lines[k], "node") => EndOf(drawn.lines[k]) <= drawn.size[1]

\* What the definition screen shows under a stage is what the README says
\* under the last heading that names it, up to the next heading of any level.
ProseIsItsOwn ==
    step = "load" =>
        LET body == readme.body
            read == ParseStageProse(body)
            naming(n) == {k \in DOMAIN body : n \in ToSet(StageHeadingNames(body[k]))}
            upTo(k) == CHOOSE e \in k .. Len(body) :
                          /\ \A j \in k + 1 .. e : body[j].is # "heading"
                          /\ e < Len(body) => body[e + 1].is = "heading"
        IN  /\ DOMAIN read = UNION {ToSet(StageHeadingNames(body[k])) : k \in DOMAIN body}
            /\ \A n \in DOMAIN read :
                  LET last == CHOOSE k \in naming(n) : \A j \in naming(n) : j <= k IN
                  \/ read[n] = SubSeq(body, last + 1, upTo(last))
                  \/ /\ IsStrictPrefix(read[n], SubSeq(body, last + 1, upTo(last)))
                     /\ \A j \in last + 1 + Len(read[n]) .. upTo(last) : body[j].is = "blank"

\* The keys of the six panes are never two on one key, and a key that the user
\* gave to one pane only, and that the overview does not keep for itself, is
\* that pane's key.  In the list a pane's key opens that pane, whatever the
\* configuration: no fixed key of the overview takes it first; below the preview
\* it opens none.
KeysAreSound == KeysAreDistinct /\ KeysOpenTheirPane

\* The graph shows every stage once and in order; only the grid may leave some
\* out at the end, and then says how many.  No transition between two stages is
\* lost: its stages follow each other in the drawing, or it is written out below;
\* in the wide form, where the rows are chains of arrows, it is never both,
\* unless two stages have one name.  A feedback arc starts below the stage that
\* sends work back and its arrow is below the stage that gets it, whichever row
\* they are packed into; the corner that ends a row is joined to the start of the
\* next one.  And a stage is not cut off at the right while it could have its
\* place: in a pane of at least WidePane columns, the rows of the wide and the
\* narrow form fit whenever each stage by itself does.
GraphIsTrue == EveryStageOnce /\ EdgesAreShown /\ ArcsMeetStages /\ RowsFit
=============================================================================

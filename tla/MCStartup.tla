----------------------------- MODULE MCStartup ------------------------------
(* Four kinds of starts, each varying one thing: the configured keys, the   *)
(* tree that is scanned, the lines below a README's frontmatter, and the    *)
(* stages with the size of the terminal.                                    *)
EXTENDS Startup, FiniteSetsExt

MCNameWidth == <<3, 6, 4, 9, 5, 7>>

NoFile == [state |-> "missing", bindings |-> <<>>]
GoodFile(b) == [state |-> "good", bindings |-> b]
Env(xdg, home) == [xdg |-> xdg, home |-> home]
OneDir == [marked |-> {1}, unreadable |-> {}, removed |-> {}, fragile |-> {}, entries |-> {},
           topPruned |-> FALSE]

Stage(name, says, feedback) == [name |-> name, says |-> says, feedback |-> feedback]
NoDefaults == [says |-> <<>>, feedback |-> 0]
Readme(states, defaults, transitions, body) ==
    [frontmatter |-> "good", hasStages |-> TRUE, states |-> states, defaults |-> defaults,
     transitions |-> transitions, body |-> body]
Plain == Readme(<<Stage(1, <<>>, 0), Stage(2, <<>>, 0)>>, NoDefaults, <<>>, <<>>)
Broken == [Plain EXCEPT !.frontmatter = "open"]

Usual == [env |-> Env("unset", "absolute"), files |-> [home |-> NoFile, xdg |-> NoFile],
          tree |-> OneDir, readmes |-> {Plain}, sizes |-> {<<60, 30>>}, ascii |-> FALSE,
          attention |-> FALSE, active |-> <<1, 2, 2>>, archived |-> 12, done |-> 2, types |-> FALSE]

----------------------------------------------------------------------------
Values == {"/", "T", "M", "x", "q", "B", Unreadable}
Two == {[i \in {a, b} |-> IF i = a THEN v ELSE w] : a \in 1 .. 6, b \in 1 .. 6, v \in Values, w \in Values}
Three == [{3, 4, 5} -> {"T", "M", "A", "q", "x"}]
KeyFiles == {[home |-> NoFile, xdg |-> NoFile], [home |-> [NoFile EXCEPT !.state = "malformed"], xdg |-> NoFile]}
            \cup {[home |-> GoodFile(b), xdg |-> NoFile] : b \in Two \cup Three}
KeyStarts ==
    {[Usual EXCEPT !.files = f, !.types = TRUE] : f \in KeyFiles}
    \cup {[Usual EXCEPT !.env = Env(x, h),
                        !.files = [home |-> GoodFile(<<"x">>), xdg |-> GoodFile(<<"y">>)]] :
             x \in {"unset", "absolute", "relative"}, h \in {"empty", "absolute"}}

Entry(in, to, pruned) == [in |-> in, to |-> to, pruned |-> pruned]
Pool == {Entry(1, 2, FALSE), Entry(1, 3, TRUE), Entry(2, 4, FALSE), Entry(3, 4, FALSE),
         Entry(4, 1, FALSE), Entry(2, 3, FALSE), Entry(1, 4, FALSE)}
TreeStarts ==
    {[Usual EXCEPT !.tree = [marked |-> m, unreadable |-> u, removed |-> {}, fragile |-> f,
                             entries |-> e, topPruned |-> t]] :
        m \in {{1}, {3, 4}, {2, 3, 4}}, u \in {{}, {3}}, f \in {{}, {2}, {1, 4}},
        e \in SUBSET Pool, t \in BOOLEAN}

Heading(level, ticked, open, plain) ==
    [is |-> "heading", level |-> level, ticked |-> ticked, open |-> open, plain |-> plain]
Lines == {Heading(3, <<>>, FALSE, 1), Heading(3, <<1, 2>>, FALSE, 0), Heading(3, <<>>, TRUE, 0),
          Heading(2, <<>>, FALSE, 1), [is |-> "text"], [is |-> "blank"]}
ProseStarts == {[Usual EXCEPT !.readmes = {[Plain EXCEPT !.body = b]}] : b \in BoundedSeq(Lines, 5)}

Edge(from, to, label) == [from |-> from, to |-> to, label |-> label]
Chains == {<<1>>, <<1, 2>>, <<1, 2, 3>>, <<1, 2, 1>>, <<1, 2, 3, 4>>, <<2, 3, 4, 5, 1>>}
Marked(names, i) == IF i = 1 THEN [initial |-> TRUE]
                    ELSE IF i = 2 THEN [flag \in {"gate", "worktree"} |-> TRUE]
                    ELSE IF i = Len(names) THEN [terminal |-> TRUE] ELSE <<>>
\* At most three feedback edges, or one that every stage has by default
Feedbacks(n) == {f \in [1 .. n -> {0, 1, 3}] : Cardinality({i \in 1 .. n : f[i] # 0}) <= 3}
EdgeLists == {<<>>, <<Edge(1, 2, 0), Edge(2, 3, 4), Edge(3, 1, 0)>>,
              <<Edge(1, 3, 0), Edge(1, 1, 0), Edge(1, 6, 0), Edge(0, 2, 0)>>}
GraphReadmes ==
    UNION {{Readme([i \in DOMAIN c |-> Stage(c[i], Marked(c, i), f[i])],
                   [says |-> IF d = 0 THEN <<>> ELSE [worktree |-> TRUE], feedback |-> d], t, <<>>) :
              f \in Feedbacks(Len(c)), d \in {0, 1}, t \in EdgeLists} : c \in Chains}
Panes == {<<24, FALSE>>, <<30, FALSE>>, <<12, TRUE>>, <<15, TRUE>>}
GraphStarts ==
    {[Usual EXCEPT !.readmes = {r}, !.sizes = {<<w, p[1]>>}, !.attention = p[2], !.ascii = (w = 48)] :
        r \in GraphReadmes, w \in {9, 18, 24, 33, 48}, p \in Panes}

\* Several READMEs and sizes, one after the other
FrameStarts ==
    {[Usual EXCEPT !.readmes = {Plain, Broken, [Plain EXCEPT !.transitions = <<Edge(2, 1, 0)>>],
                                [Plain EXCEPT !.states = <<>>], [Plain EXCEPT !.hasStages = FALSE]},
                   !.sizes = {<<60, 30>>, <<15, 24>>, <<15, 9>>}]}

MCStarts == <<KeyStarts, TreeStarts, ProseStarts, GraphStarts, FrameStarts>>
MCKeys == ToSet(Defaults) \cup {"x", "?", "q", "s", "B", "D", "Y", "P"}
=============================================================================

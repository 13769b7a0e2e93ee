-------------------------- MODULE MCWorkflow -----------------------------
(* Two tasks, two worktrees and the archive. One family of folders has up to  *)
(* five files whose contents differ in body, status and gate record; the      *)
(* other has one main file for each gate record of a systematic set.          *)
EXTENDS Workflow

MCStages == <<
    [name |-> "plan", initial |-> TRUE, gate |-> TRUE, terminal |-> FALSE],
    [name |-> "work", initial |-> FALSE, gate |-> TRUE, terminal |-> FALSE],
    [name |-> "done", initial |-> FALSE, gate |-> TRUE, terminal |-> TRUE]>>

Line(kind) == [kind |-> kind, stage |-> "", text |-> TRUE]
Report1(stage) == [kind |-> "report", stage |-> stage, text |-> TRUE]
Whole == <<Report1("work"), Line("DONE"), Line("text"), Line("summary"), Line("text")>>
MCReport == [b1 |-> Whole,
             b2 |-> Whole \o <<Report1("work"), Line("DONE"), Line("FAILED"), Line("text"),
                               Line("summary"), Line("text")>>,
             b3 |-> <<Line("text")>>,
             b4 |-> <<Report1("work"), Line("DONE"), Line("text"), Line("DONE"), Line("summary"), Line("text")>>]

Content(id, status, gates, body) ==
    [yaml |-> TRUE, id |-> id, status |-> status, gates |-> gates, completed |-> 0, body |-> body]
Broken == [Content("1", "plan", {}, "b3") EXCEPT !.yaml = FALSE]

Zone(zone, year, month, day, hour) ==
    [zone |-> zone, year |-> year, month |-> month, day |-> day, hour |-> hour,
     minute |-> 59, second |-> 59]
Moments == {Zone("Z", 2000, 2, 29, 23), Zone("Z", 1900, 2, 29, 0), Zone("+02:00", 2024, 4, 1, 0),
          Zone("Z", 2024, 4, 31, 0), Zone("Z", 2024, 13, 1, 0), Zone("Z", 2024, 1, 1, 24)}
Withdrawals == {[by |-> FirstOfficer, reasoned |-> TRUE, at |-> t] : t \in Moments}
Answer(id, briefing, decision, reasoned) ==
    [id |-> id, briefing |-> briefing, by |-> "captain", attributed |-> TRUE,
     decision |-> decision, reasoned |-> reasoned, conn |-> {}]
Answers == {Answer("r1", "x1", d, k) : d \in {"Approve", "Revise", "Hold"}, k \in BOOLEAN}
           \cup {Answer("r1", "x2", "Approve", TRUE),
                 [Answer("r1", "x1", "Approve", TRUE) EXCEPT !.conn = {[quoted |-> TRUE]}]}
Applications == {[target |-> t, state |-> s] : t \in {"", "plan", "work", "done", "gone"},
                                               s \in {"Pending", "Consumed"}}
Optional(S) == {{}} \cup {{x} : x \in S}
Attempt(id, briefing, withdrawal, resolution, application) ==
    [id |-> id, briefing |-> [id |-> briefing, bound |-> TRUE], withdrawal |-> withdrawal,
     resolution |-> resolution, application |-> application]
Firsts == {Attempt("a1", "x1", w, r, p) : w \in {{}} , r \in Optional(Answers), p \in Optional(Applications)}
          \cup {Attempt("a1", "x1", w, r, p) : w \in Optional(Withdrawals),
                    r \in {{}, {Answer("r1", "x1", "Approve", TRUE)}},
                    p \in {{}, {[target |-> "work", state |-> "Pending"]}}}
          \cup {[Attempt("a1", "x1", {}, {}, {}) EXCEPT !.briefing.bound = FALSE]}
Seconds == {Attempt(id, briefing, {}, r, p) : id \in {"a1", "a2"}, briefing \in {"x1", "x2"},
                r \in {{}, {Answer("r2", "x2", "Approve", FALSE)}, {Answer("r1", "x2", "Approve", FALSE)}},
                p \in {{}, {[target |-> "done", state |-> "Pending"]}}}
Doc(records) == [readable |-> TRUE, version |-> 1, records |-> records]
Record(id, stage, attempts) == [id |-> id, stage |-> stage, attempts |-> attempts]
Approval == Attempt("a1", "x1", {}, {Answer("r1", "x1", "Approve", FALSE)},
                    {[target |-> "work", state |-> "Pending"]})
GateDocs ==
    {Doc(<<Record("g1", "plan", <<a>>)>>) : a \in Firsts}
    \cup {Doc(<<Record("g1", "plan", <<Approval, a>>)>>) : a \in Seconds}
    \cup {Doc(<<Record("g1", "plan", <<Approval>>), Record(g, s, <<a>>)>>) :
            g \in {"g1", "g2"}, s \in {"plan", "work"}, a \in Seconds}
    \cup {Doc(<< >>), Doc(<<Record("g1", "plan", << >>)>>),
          [Doc(<<Record("g1", "plan", <<Approval>>)>>) EXCEPT !.readable = FALSE]}

Ready == {Doc(<<Record("g1", "plan", <<Approval>>)>>)}
Bare == [p \in Paths |-> {}]
At(root, slug, form) == [root |-> root, slug |-> slug, form |-> form]
M1 == Content("1", "work", {}, "b1")
M2 == Content("1", "plan", Ready, "b2")
M3 == Content("", "work", {}, "b1")
MCMain == {M2}
MCCopy == {Content("1", "work", {}, "b2")}
Folder(main, twin, one, two, old) ==
    [Bare EXCEPT ![At("main", "a", "flat")] = main, ![At("main", "a", "folder")] = twin,
                 ![At("w1", "a", "flat")] = one, ![At("w2", "a", "flat")] = two,
                 ![At("archive", "a", "flat")] = old,
                 ![At("main", "b", "flat")] = {Content("2", "work", {}, "b4")}]
M4 == Content("1", "plan", {}, "b3")
Merges ==
    {Folder(main, {}, one, two, {}) : main \in {{M1}, {M2}}, one \in {{}, {M1}, {M2}, {Broken}},
                                      two \in {{}, {M1}, {M4}}}
    \cup {Folder({}, {}, one, two, old) : one \in {{}, {M2}}, two \in {{}, {M1}, {M4}},
                                          old \in {{}, {M1}}}
    \cup {Folder({M1}, {M3}, one, {}, {}) : one \in {{}, {M2}}}
    \cup {Folder({M1}, {}, {}, {}, {M1})}
GateFolders == {[Bare EXCEPT ![At("main", "a", "flat")] = {Content("1", s, gates, "b1")}] :
                s \in {"plan", "work", "done"}, gates \in Optional(GateDocs)}
Histories == {[Bare EXCEPT ![At("main", "a", "flat")] = {Content("1", s, {}, "b3")},
                           ![At("main", "b", "flat")] = {Content("2", "work", {}, "b3")}] :
              s \in {"work", "done"}}
Namesakes == {[Bare EXCEPT ![At("main", "a", "flat")] = {M1}]}
MCFolders == Merges \cup GateFolders \cup Histories \cup Namesakes
MCCommits == {Paths \ {At("main", "b", "flat")}}
MCSlugs == <<"a", "b">>
MCWorktrees == <<"w1", "w2">>
MCFileName == [a |-> "a.md", b |-> "b.md"]
MCMarkdown == {"a.md", "b.md", "index.md", "README.md"}
MCOthers == {<<"_archive", "README.md">>, <<"a", "b.md">>}

\* The family of a folder says what happens to it: two loads next to an edit,
\* one load of a gate record, two edits and the commits of them, or three loads
\* next to two edits, which can give another task the id and remove the first.
MCInit ==
    /\ WorkflowInit
    /\ \/ files \in Merges /\ edits = MaxEdits - 1 /\ loads = MaxLoads - 2 /\ commits = MaxCommits
       \/ files \in GateFolders /\ edits = MaxEdits /\ loads = MaxLoads - 1 /\ commits = MaxCommits
       \/ files \in Histories /\ edits = MaxEdits - 2 /\ loads = MaxLoads /\ commits = 0
       \/ files \in Namesakes /\ edits = MaxEdits - 2 /\ loads = MaxLoads - 3 /\ commits = MaxCommits
MCSpec == MCInit /\ [][WorkflowNext]_<<indexVars, historyVars>>
=============================================================================

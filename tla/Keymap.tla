------------------------------- MODULE Keymap -------------------------------
(***************************************************************************)
(* What the user's configuration makes of the keys: config.yaml is found    *)
(* and read, each of its six bindings is checked against the keys that the  *)
(* overview keeps for itself and against the others, and the overview       *)
(* looks a pressed key up in the result.                                    *)
(*                                                                         *)
(* A key is a one-character string; a binding that is no single printable  *)
(* character is Unreadable.  Which panes a reserved key drives is Overview *)
(* and Program; here it only matters which keys are taken.                 *)
(***************************************************************************)
EXTENDS Naturals, Sequences, FiniteSets, SequencesExt

Unreadable == "unreadable"

\* binding_specs, in their order
Specs == << [name |-> "search",    default |-> "/"],
            [name |-> "command",   default |-> ":"],
            [name |-> "timeline",  default |-> "T"],
            [name |-> "metrics",   default |-> "M"],
            [name |-> "activity",  default |-> "A"],
            [name |-> "relations", default |-> "R"] >>

DefaultOf(i) == Specs[i].default
Defaults == [i \in DOMAIN Specs |-> DefaultOf(i)]
Space == " "
ReservedKeys == {"S", "O", "B", "a", "s", "D", "Y", "?", "q", "j", "k", "w", "o",
                 "b", "g", "G", "P", Space}

----------------------------------------------------------------------------
(* The configuration file *)

\* Where an environment points: XDG_CONFIG_HOME before HOME, each only if it
\* is an absolute path.
ConfigPath(env) ==
    IF env.xdg = "absolute" THEN "xdg" ELSE IF env.home = "absolute" THEN "home" ELSE "none"

\* load_startup_config: an unreadable or malformed file is a warning and the
\* defaults; a key the file leaves out has its default.
LoadStartupConfig(env, files) ==
    LET path == ConfigPath(env)
        file == IF path = "none" THEN [state |-> "missing", bindings |-> <<>>] ELSE files[path]
    IN  [bindings |-> [i \in DOMAIN Specs |->
                          IF file.state = "good" /\ i \in DOMAIN file.bindings
                          THEN file.bindings[i] ELSE DefaultOf(i)],
         warned |-> file.state \in {"malformed", "unreadable"}]

----------------------------------------------------------------------------
(* Resolving the bindings *)

\* The bindings that read the same key as binding i
Alike(bindings, i) == {j \in DOMAIN bindings : bindings[j] = bindings[i]}

\* The first pass: a key that is unreadable, reserved or wanted twice is
\* replaced by the default, unless it is the default.
Configured(bindings, i) ==
    /\ bindings[i] # Unreadable
    /\ \/ bindings[i] = DefaultOf(i)
       \/ bindings[i] \notin ReservedKeys /\ Cardinality(Alike(bindings, i)) = 1
FirstPass(bindings) ==
    [i \in DOMAIN bindings |-> IF Configured(bindings, i) THEN bindings[i] ELSE DefaultOf(i)]

FallbackKeyFor(default, used) ==
    LET free == SelectInSeq(Defaults, LAMBDA key : key \notin used)
    IN  IF default \notin used \/ free = 0 THEN default ELSE Defaults[free]

\* duplicate_binding_groups
Groups(keys) == {group \in {Alike(keys, i) : i \in DOMAIN keys} : Cardinality(group) > 1}
\* The one of a group that keeps its key: the first one the user configured.
Winner(bindings, group) ==
    LET first(S) == CHOOSE i \in S : \A j \in S : i <= j
        chosen == {i \in group : Configured(bindings, i)}
    IN  IF chosen # {} THEN first(chosen) ELSE first(group)

\* The bindings that share a key which another one keeps
Reassign(bindings) ==
    LET groups == Groups(FirstPass(bindings))
    IN  (UNION groups) \ {Winner(bindings, group) : group \in groups}

\* Binding i gives up its key for the first default nobody uses.
Replace(acc, i) ==
    LET key == FallbackKeyFor(DefaultOf(i), acc.used)
    IN  [keys |-> [acc.keys EXCEPT ![i] = key], used |-> acc.used \cup {key}]

\* Mutated form: two bindings on one key are left as they are.
KeepDuplicates(bindings) == FirstPass(bindings)

\* resolve_final_duplicates: they are replaced one after the other.
Resolve(bindings) ==
    LET keys == FirstPass(bindings)
        reassign == Reassign(bindings)
        first == [keys |-> keys, used |-> {keys[i] : i \in DOMAIN Specs \ reassign}]
        upTo[i \in 0 .. Len(Specs)] ==
            IF i = 0 THEN first
            ELSE IF i \in reassign THEN Replace(upTo[i - 1], i) ELSE upTo[i - 1]
    IN  upTo[Len(Specs)].keys

----------------------------------------------------------------------------
(* A key press in the overview: handle_overview_key_with_keymap, whose arms  *)
(* are tried in order.                                                      *)

Arm(key, when, act) == [key |-> key, when |-> when, act |-> act]
Arms(keys, at) ==
    << Arm("?", TRUE, "help"), Arm("q", TRUE, IF at.preview THEN "close" ELSE "quit"),
       Arm("j", TRUE, "next"), Arm("k", TRUE, "previous"),
       Arm(Space, at.preview, "page down"), Arm("b", at.preview, "page up"),
       Arm("g", at.preview, "top"), Arm("G", at.preview, "bottom"),
       Arm("a", TRUE, "scope"), Arm("w", at.preview, "wrap"), Arm("o", at.preview, "open"),
       Arm("s", ~at.preview, "sort"), Arm("B", TRUE, "gate room"),
       Arm("D", ~at.preview, "definition") >>
    \o [i \in DOMAIN keys |-> Arm(keys[i], ~at.preview, Specs[i].name)]
    \o << Arm("Y", ~at.preview, "sync"), Arm("P", at.multi /\ ~at.pinned, "picker") >>

\* What the list, with or without its preview, does on a key
KeyAction(keys, key, at) ==
    LET arms == Arms(keys, at)
        hit == SelectInSeq(arms, LAMBDA arm : arm.key = key /\ arm.when)
    IN  IF hit = 0 THEN "none" ELSE arms[hit].act
=============================================================================

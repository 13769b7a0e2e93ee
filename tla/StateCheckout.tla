--------------------------- MODULE StateCheckout ---------------------------
(***************************************************************************)
(* Where a workflow keeps its entities, and whether the directory the      *)
(* README declares really is the git checkout it claims to be.             *)
(*                                                                         *)
(* `head` (from GitSync) says what each directory is; `link` says which    *)
(* directory a declared path leads to, so that canonicalizing a path is    *)
(* following the link to a directory that exists.                          *)
(***************************************************************************)
EXTENDS GitSync

CONSTANTS
    Paths,          \* state paths a README can declare: directories or links
    Inside,         \* directories inside the definition directory
    NoState,        \* no supported `state:` declaration
    NoBranch,       \* no `state-branch:` declaration
    DefaultBranch,  \* "spacedock-state/<workflow>"
    NoRoot          \* a path that cannot be canonicalized

ASSUME CheckoutConstants ==
    /\ Paths \subseteq Checkouts \ {Def}
    /\ Inside \subseteq Checkouts
    /\ Def \in Inside
    /\ NoState \notin Checkouts
    /\ NoBranch \notin Branches
    /\ DefaultBranch \in Branches
    /\ NoRoot \notin Checkouts

VARIABLE link       \* the directory each declared path leads to

Readmes == [state : Paths \cup {NoState}, branch : Branches \cup {NoBranch}]

Dispositions == {"Attached", "Detached", "WrongBranch", "Missing", "Unverified"}
SingleRoot == [kind |-> "single"]
SplitRoots == [kind : {"split"}, path : Paths, branch : Branches,
               disposition : Dispositions]
Storages == {SingleRoot} \cup SplitRoots

Canonicalize(p) ==
    LET c == IF p \in Paths THEN link[p] ELSE p
    IN  IF head[c] = "gone" THEN NoRoot ELSE c

ExpectedStateBranch(readme) ==
    IF readme.branch = NoBranch THEN DefaultBranch ELSE readme.branch

(***************************************************************************)
(* `fault` is the git probe that fails, if any; a probe of a "foreign"     *)
(* directory succeeds and names the enclosing repository as the top level. *)
(***************************************************************************)
Unverifiable(p, fault) ==
    \/ Canonicalize(Def) = NoRoot
    \/ Canonicalize(p) \notin Inside
    \/ fault
    \/ Repo(Canonicalize(p)) # Canonicalize(p)

ProbeDisposition(p, expected, fault) ==
    LET c == Canonicalize(p) IN
    IF c = NoRoot THEN "Missing"
    ELSE IF Unverifiable(p, fault) THEN "Unverified"
    ELSE IF head[c] = "detached" THEN "Detached"
    ELSE IF head[c] = expected THEN "Attached"
    ELSE "WrongBranch"

ClassifyStorage(readme, fault) ==
    IF readme.state = NoState
    THEN SingleRoot
    ELSE LET expected == ExpectedStateBranch(readme)
         IN  [kind |-> "split", path |-> readme.state, branch |-> expected,
              disposition |-> ProbeDisposition(readme.state, expected, fault)]

\* The canonical paths are resolved anew when the decision is made.
Eligibility(storage) ==
    IF storage = SingleRoot THEN "NotApplicable"
    ELSE IF /\ storage.disposition = "Attached"
            /\ Canonicalize(Def) # NoRoot
            /\ Canonicalize(storage.path) \notin {NoRoot, Canonicalize(Def)}
         THEN "Eligible"
         ELSE "Blocked"
=============================================================================

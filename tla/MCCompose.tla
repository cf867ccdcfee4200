------------------------------ MODULE MCCompose ------------------------------
(* An instance of Compose for TLC: a replica with two resources, a project  *)
(* of three commands, and its compose file in four versions.                *)
EXTENDS Compose, TLC

CONSTANTS k1, k2
Hook(n, r, e1, o1, e2, o2) ==
    [name |-> n, res |-> r,
     on |-> [ev \in Events |-> CASE ev = e1 -> o1 [] ev = e2 -> o2 [] OTHER -> "unset"]]

\* One resource per start, released by the stop, and one per create, released
\* by the remove with a release that may be ignored.
Both ==
    <<Hook("net", k1, "start_pre", "fail", "stop_post", "fail"),
      Hook("dir", k2, "create_post", "continue", "remove_pre", "ignore")>>
\* The same resource under another hook, next to a plain hook.
Other ==
    <<Hook("check", Nothing, "stop_pre", "fail", "remove_post", "continue"),
      Hook("net", k1, "start_post", "continue", "stop_pre", "continue")>>
\* A resource without a release.
Plain == <<Hook("tmp", k2, "create_pre", "ignore", "", "")>>
ThreeSpecs == {Both, Other, Plain}
NetAtStop == <<"net", "stop_post">>
Symmetric == Permutations(Values)

\* A chain; a file that drops one command
\* and turns a dependency round; another file for the same directory; a cycle.
Yaml(deps, scale, path) ==
    [names |-> DOMAIN deps, file |-> path,
     deps  |-> [c \in Services |-> IF c \in DOMAIN deps THEN deps[c] ELSE {}],
     scale |-> [c \in Services |-> IF c \in DOMAIN deps THEN scale[c] ELSE 1],
     ver   |-> [c \in Services |-> IF c \in DOMAIN deps THEN 1 ELSE 0]]
FourYamls == {
    Yaml([a |-> {}, b |-> {"a"}, c |-> {"b"}], [a |-> 1, b |-> 1, c |-> 1], "f"),
    Yaml([a |-> {"c"}, c |-> {}], [a |-> 2, c |-> 1], "f"),
    Yaml([a |-> {}, b |-> {"a"}], [a |-> 1, b |-> 1], "g"),
    Yaml([a |-> {"b"}, b |-> {"a"}], [a |-> 1, b |-> 1], "f")}

\* The part that rests does so in one initial state.
MCInit ==
    /\ ComposeInit
    /\ part # "replica" => file = Both
    /\ part # "project" => yaml = CHOOSE y \in Yamls : TRUE
MCSpec == MCInit /\ [][ComposeNext]_composeVars
=============================================================================

---------------------------- MODULE MCDirectory ----------------------------
(* Two processes, names of at most   two characters, and paths with each    *)
(* kind of separator, with names that fit, just fit and do not fit, and      *)
(* with a file at "f".                                                       *)
EXTENDS Directory, TLC

CONSTANTS p1, p2

MCChars == {"a", "b", "f", "/", "\\", ":"}

MCFiles == {<<<<"f">>>>}

MCPaths == {
  <<>>,                            \* ""
  <<"a">>,                         \* "a"
  <<"a", "/", "b">>,               \* "a/b"
  <<"/", "a", "\\", "b">>,         \* "/a\b"
  <<":", "a", "a", "/", "/", "b">>,\* ":aa//b"
  <<"a", "a", "a">>,               \* "aaa"
  <<"f", "/", "b">>,               \* "f/b"
  <<"/", "a">>,                    \* "/a"
  <<"f">>}                         \* "f"

Symmetry == Permutations(Procs)
=============================================================================

----------------------------- MODULE MCRuntime -----------------------------
(* Instances of Runtime for TLC. *)
EXTENDS Runtime

\* Alias a has two glyphs that sanitize alike, and one of them has, with its
\* alias, the tool name of alias a_b's only glyph: glyph_a_b_c.
TwoServers == <<"a", "a_b">>
Collisions == [b \in {"a", "a_b"} |->
                 IF b = "a" THEN {"b.c", "b_c"} ELSE {"c"}]
PlainNames == [b \in {"a", "a_b"} |->
                 [g \in {"b.c", "b_c", "c"} |->
                    IF b = "a" THEN IF g = "c" THEN "a_c" ELSE "a_b_c"
                    ELSE IF g = "c" THEN "a_b_c" ELSE "a_b_b_c"]]
SuffixedNames == [b \in {"a", "a_b"} |->
                    [g \in {"b.c", "b_c", "c"} |->
                       IF b = "a"
                       THEN CASE g = "c"   -> "a_c_3"
                              [] g = "b_c" -> "a_b_c_2"
                              [] OTHER     -> "a_b_c_1"
                       ELSE CASE g = "c"   -> "a_b_c_3"
                              [] g = "b_c" -> "a_b_b_c_2"
                              [] OTHER     -> "a_b_b_c_1"]]
=============================================================================

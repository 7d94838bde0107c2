-------------------------- MODULE MC_InlineContent --------------------------
(* Contents of up to three inlines of one to two characters.  Neighbouring *)
(* texts differ in their styles and neighbouring links in their targets:   *)
(* the editor joins them otherwise.                                        *)
EXTENDS InlineContent

Chars == {<<"a">>, <<"b", "c">>}
Texts == {Text(t, s) : t \in Chars, s \in SUBSET Styles}
Joined(x, y) == x.type = y.type /\ ((x.type = "text" /\ x.styles = y.styles) \/
                                    (x.type = "link" /\ x.href = y.href))
Apart(c) == \A i \in 1..(Len(c) - 1) : ~Joined(c[i], c[i + 1])
Links == {Link(h, c) : h \in {"x", "y"},
                       c \in {<<t>> : t \in Texts} \cup {<<t, u>> : t, u \in {v \in Texts : Len(v.text) = 1}}}
Inlines == Texts \cup {l \in Links : Apart(l.content)} \cup {Embed("z")}
Ends == Texts \cup {Embed("z")} \cup {Link("x", <<t>>) : t \in {v \in Texts : Len(v.text) = 1}}
MCContents == {c \in {<<x>> : x \in Inlines} \cup {<<x, y>> : x, y \in Inlines}
                     \cup {<<x, y, z>> : x, z \in Ends, y \in Inlines} : Apart(c)}
=============================================================================

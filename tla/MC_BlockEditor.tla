--------------------------- MODULE MC_BlockEditor ---------------------------
(* Documents of up to four blocks: flat, nested, a heading with a section, *)
(* empty blocks between and above others.                                  *)
EXTENDS BlockEditor

D(kids, words, headings) ==
    [kids |-> [p \in Ids \cup {Root} |-> IF p + 1 \in DOMAIN kids THEN kids[p + 1] ELSE <<>>],
     words |-> [b \in Ids |-> IF b \in DOMAIN words THEN words[b] ELSE <<>>],
     headings |-> headings]

MCInitialDocs ==
    {D(<< <<1, 2, 3, 4>> >>, << <<10>>, <<>>, <<30>>, <<40>> >>, {}),
     D(<< <<1, 4>>, <<2, 3>> >>, << <<10, 11>>, <<20>>, <<>>, <<40>> >>, {1}),
     D(<< <<1, 4>>, <<2>>, <<3>> >>, << <<10>>, <<20>>, <<30>>, <<40>> >>, {})}
=============================================================================

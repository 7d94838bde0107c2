---------------------------- MODULE InlineContent ----------------------------
(***************************************************************************)
(* The text of a block in its two forms: in the editor a sequence of       *)
(* inlines (styled texts, links with styled texts in them, embeds), in the *)
(* daemon one text with annotations on ranges of it.  extractContent of    *)
(* frontend/packages/shared/src/client/from-hm-block.ts makes the second   *)
(* of the first when a draft is saved, toHMInlineContent of to-hm-block.ts *)
(* the first of the second when it is loaded.                              *)
(*                                                                         *)
(* Positions count from 0 and an annotation covers starts..(ends - 1).     *)
(* Every annotation made here has one range.                               *)
(***************************************************************************)
EXTENDS Integers, SequencesExt

CONSTANTS
    Styles,    \* bold, italic, ...
    Contents,  \* the contents of a block in the editor
    NoBlock    \* nothing saved yet

VARIABLES
    content,   \* the inlines in the editor
    block      \* the block the daemon has

vars == <<content, block>>

Text(t, styles) == [type |-> "text", text |-> t, styles |-> styles]
Link(href, texts) == [type |-> "link", href |-> href, content |-> texts]
Embed(ref) == [type |-> "inline-embed", ref |-> ref]
Annotation(type, ref, starts, ends) ==
    [type |-> type, ref |-> ref, starts |-> starts, ends |-> ends]
NoRef == ""
Space == " "

-----------------------------------------------------------------------------
(* The loop of extractContent: the text and the annotations so far, and    *)
(* for each style that is on where it began.  The order of annotations of  *)
(* different styles that end together is that of the styles.               *)
Empty == [text |-> <<>>, annotations |-> <<>>, styleStarts |-> [s \in {} |-> 0]]

Closing(r, styles) ==
    LET s == SetToSeq(styles)
    IN  [i \in DOMAIN s |-> Annotation(s[i], NoRef, r.styleStarts[s[i]], Len(r.text))]

(* Mutant: a style that is on begins again with every text.                *)
extractTextRestarts(r, inline) ==
    LET on == DOMAIN r.styleStarts
    IN  [text |-> r.text \o inline.text,
         annotations |-> r.annotations \o Closing(r, on \ inline.styles),
         styleStarts |-> [s \in inline.styles |-> Len(r.text)]]

extractText(r, inline) ==
    LET on == DOMAIN r.styleStarts
    IN  [text |-> r.text \o inline.text,
         annotations |-> r.annotations \o Closing(r, on \ inline.styles),
         styleStarts |-> [s \in inline.styles |->
                             IF s \in on THEN r.styleStarts[s] ELSE Len(r.text)]]

(* Styles that did not end, end with the text.                             *)
finish(r) == [text |-> r.text, annotations |-> r.annotations \o Closing(r, DOMAIN r.styleStarts)]

extractLinkContent(texts) == finish(FoldLeft(extractText, Empty, texts))

(* A link ends no style: one that is on before it goes on over it.         *)
extractLink(r, inline) ==
    LET link == extractLinkContent(inline.content)
        at == Len(r.text)
        inner == [i \in DOMAIN link.annotations |->
                     [link.annotations[i] EXCEPT !.starts = @ + at, !.ends = @ + at]]
    IN  [r EXCEPT !.text = @ \o link.text,
                  !.annotations = @ \o inner \o
                      <<Annotation("link", inline.href, at, at + Len(link.text))>>]

extractEmbed(r, inline) ==
    [r EXCEPT !.text = Append(@, Space),
              !.annotations = Append(@, Annotation("inline-embed", inline.ref,
                                                   Len(r.text), Len(r.text) + 1))]

extractInline(r, inline) ==
    CASE inline.type = "text" -> extractText(r, inline)
      [] inline.type = "link" -> extractLink(r, inline)
      [] inline.type = "inline-embed" -> extractEmbed(r, inline)

extractContent(c) == finish(FoldLeft(extractInline, Empty, c))

-----------------------------------------------------------------------------
(* The text from position i up to j, 0-based, and the styles at i.         *)
Slice(t, i, j) == SubSeq(t, i + 1, j)
stylesForIndex(b, i) ==
    {s \in Styles : \E k \in DOMAIN b.annotations :
        LET a == b.annotations[k] IN a.type = s /\ a.starts <= i /\ i < a.ends}

(* partialBlockToStyledText on the text from i up to j: one inline for     *)
(* each run of characters with the same styles.                            *)
partialBlockToStyledText(b, i, j) ==
    LET breaks == {i} \cup {k \in (i + 1)..(j - 1) : stylesForIndex(b, k) # stylesForIndex(b, k - 1)}
        starts == SetToSortSeq(breaks, <)
        End(n) == IF n < Len(starts) THEN starts[n + 1] ELSE j
    IN  IF i >= j THEN <<>>
        ELSE [n \in DOMAIN starts |->
                 Text(Slice(b.text, starts[n], End(n)), stylesForIndex(b, starts[n]))]

(* A link or an embed and the text behind it up to the next one.           *)
inlineOf(b, a, end) ==
    (IF a.type = "link" THEN <<Link(a.ref, partialBlockToStyledText(b, a.starts, a.ends))>>
     ELSE <<Embed(a.ref)>>)
    \o partialBlockToStyledText(b, a.ends, end)

toHMInlineContent(b) ==
    LET linkAndEmbed == SelectSeq(b.annotations, LAMBDA a : a.type \notin Styles)
        sorted == SortSeq(linkAndEmbed, LAMBDA x, y : x.starts < y.starts)
        End(n) == IF n < Len(sorted) THEN sorted[n + 1].starts ELSE Len(b.text)
    IN  IF sorted = <<>> THEN partialBlockToStyledText(b, 0, Len(b.text))
        ELSE partialBlockToStyledText(b, 0, sorted[1].starts)
             \o FlattenSeq([n \in DOMAIN sorted |-> inlineOf(b, sorted[n], End(n))])

-----------------------------------------------------------------------------
Init == content \in Contents /\ block = NoBlock

Save == block' = extractContent(content) /\ UNCHANGED content
Load == block # NoBlock /\ content' = toHMInlineContent(block) /\ UNCHANGED block

Next == Save \/ Load

Spec == Init /\ [][Next]_vars

-----------------------------------------------------------------------------
(* What a reader sees: every character with its styles and its link.       *)
Styled(texts, href) ==
    FlattenSeq([i \in DOMAIN texts |->
        [k \in DOMAIN texts[i].text |->
            [char |-> texts[i].text[k], styles |-> texts[i].styles, href |-> href]]])
View(c) ==
    FlattenSeq([i \in DOMAIN c |->
        CASE c[i].type = "text" -> Styled(<<c[i]>>, NoRef)
          [] c[i].type = "link" -> Styled(c[i].content, c[i].href)
          [] c[i].type = "inline-embed" ->
                <<[char |-> Space, styles |-> {}, href |-> c[i].ref]>>])

Plain(c) == LET v == View(c) IN [i \in DOMAIN v |-> [v[i] EXCEPT !.styles = {}]]

(* The styles of the text in front of a link are on in the link too: else  *)
(* extractContent lets them go on over it.                                 *)
RECURSIVE StylesBefore(_, _)
StylesBefore(c, i) ==
    IF i = 1 THEN {}
    ELSE IF c[i - 1].type = "text" THEN c[i - 1].styles ELSE StylesBefore(c, i - 1)
LinksCarryStyles(c) ==
    \A i \in DOMAIN c : c[i].type = "link" =>
        \A k \in DOMAIN c[i].content : StylesBefore(c, i) \subseteq c[i].content[k].styles

(* Saving and loading a block keeps its characters, links and embeds, in   *)
(* their order, and every character's styles too when links carry the      *)
(* styles of the text in front of them.                                    *)
ContentSurvives ==
    [][/\ Plain(content') = Plain(content)
       /\ LinksCarryStyles(content) => View(content') = View(content)]_vars
=============================================================================

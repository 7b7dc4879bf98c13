------------------------------ MODULE Markdown ------------------------------
(***************************************************************************)
(* An article is Markdown in the editor and blocks in the database: each   *)
(* save parses what the textarea holds, and each time the editor opens it  *)
(* writes the blocks out again.  This module follows one article through   *)
(* parse, write and parse, which is what a save without an edit does.      *)
(*                                                                         *)
(* A line is abstracted to the answers it gives to the parser's questions, *)
(* its kind, and to a number for what it says, its word.  What is left out *)
(* is layout within a line, and tags that span several.                    *)
(*                                                                         *)
(* Initial states, steps and specification are named after the parser:     *)
(* TextProofs extends this module and Import, which has the plain names.   *)
(***************************************************************************)
EXTENDS Naturals, Sequences, FiniteSets, SequencesExt

CONSTANTS
  Kinds,       \* kinds of lines that an article is written with
  MaxLines     \* bound: lines of the article

ASSUME LinesAssumption == MaxLines \in Nat

VARIABLES
  source,      \* the lines
  next,        \* the line that the parser is at
  blocks,      \* the blocks it has pushed
  saved,       \* the blocks of the first parse
  pass         \* "first" parse, "second" parse, or "done"

parserVars == <<source, next, blocks, saved, pass>>

Line(kind, word) == [kind |-> kind, word |-> word]

Block(kind, lines) == [kind |-> kind, lines |-> lines]

-----------------------------------------------------------------------------
(***************************************************************************)
(* What the parser asks of a line.                                         *)
(***************************************************************************)

IsBlank(l) == l.kind = "blank"

\* Exactly the URL of a video.
IsVideo(l) == l.kind = "url"

\* A fence may be followed by the name of a language, also where it closes.
IsFence(l) == l.kind \in {"fence", "info"}

IsHeading(l) == l.kind = "heading"

\* With text after its marker, or "bare".
IsQuote(l) == l.kind \in {"quote", "bare"}

IsRule(l) == l.kind \in {"dashes", "underscores"}

\* parse_list_marker needs no space after the marker, so that three dashes are an
\* item that says two ("hyphens").
IsItem(l) == l.kind \in {"bullet", "number", "hyphens", "dashes"}

Ordered(l) == l.kind = "number"

\* parse_image_at_start, over and over: a line of "images" has two; one that begins
\* like an image and is none has none ("bang").
ImagesOf(l) ==
  CASE l.kind = "image" -> <<l.word>>
    [] l.kind = "images" -> <<l.word, l.word + 1>>
    [] OTHER -> <<>>

\* (mutant) A paragraph that stops at whatever begins like an image.
StopsAtBang(l) ==
  IsBlank(l) \/ IsHeading(l) \/ IsQuote(l) \/ IsFence(l) \/ IsRule(l) \/ IsItem(l) \/ l.kind = "bang"

\* What a paragraph does not go on with.
Stops(l) ==
  IsBlank(l) \/ IsHeading(l) \/ IsQuote(l) \/ IsFence(l) \/ IsRule(l) \/ IsItem(l)

\* Bytes beyond ASCII in the attributes of a tag are read as characters of their own.
MaxWord == 2 * MaxLines + 1

Garbled(word) == word + MaxWord

-----------------------------------------------------------------------------
(***************************************************************************)
(* parse_markdown: one action for each kind of block, one step for each    *)
(* turn of its outer loop.                                                 *)
(***************************************************************************)

Here == source[next]

Parsing == pass # "done" /\ next <= Len(source)

\* The end of the longest run of lines from one on that all answer yes.
RunEnd(from, Yes(_)) ==
  CHOOSE end \in (from - 1)..Len(source) :
    /\ \A k \in from..end : Yes(source[k])
    /\ end = Len(source) \/ ~Yes(source[end + 1])

Push(new, after) ==
  /\ blocks' = blocks \o new
  /\ next' = after
  /\ UNCHANGED <<source, saved, pass>>

BlankLine == Parsing /\ IsBlank(Here) /\ Push(<<>>, next + 1)

VideoLine == Parsing /\ IsVideo(Here) /\ Push(<<Block("video", <<Here>>)>>, next + 1)

\* (mutant) The line after the fence goes with it.
AfterFenceAndOne(end) == end + 3

\* One blank line and no line are the same text.
IsEmptyText(lines) == Len(lines) = 1 /\ IsBlank(lines[1])

\* The closing fence is skipped, whether there is one or not.
AfterFence(end) == end + 2

Code ==
  /\ Parsing /\ IsFence(Here)
  /\ LET InCode(l) == ~IsFence(l)
         end == RunEnd(next + 1, InCode)
         code == SubSeq(source, next + 1, end) IN
     Push(<<Block("code", <<Here>> \o IF IsEmptyText(code) THEN <<>> ELSE code)>>, AfterFence(end))

Heading == Parsing /\ IsHeading(Here) /\ Push(<<Block("heading", <<Here>>)>>, next + 1)

\* Bare lines are kept, but not before the first text.
Quote ==
  /\ Parsing /\ IsQuote(Here)
  /\ LET end == RunEnd(next, IsQuote)
         InLead(l) == l.kind = "bare"
         lead == RunEnd(next, InLead) IN
     Push(<<Block("quote", SubSeq(source, lead + 1, end))>>, end + 1)

Divider == Parsing /\ IsRule(Here) /\ Push(<<Block("divider", <<>>)>>, next + 1)

ImageBlock(word) == Block("image", <<Line("image", word)>>)

Images ==
  /\ Parsing /\ ImagesOf(Here) # <<>>
  /\ Push([k \in DOMAIN ImagesOf(Here) |-> ImageBlock(ImagesOf(Here)[k])], next + 1)

ItemOf(l) == IF IsRule(l) THEN Line("hyphens", l.word) ELSE l

\* The items that follow are not asked whether they are rules.
List ==
  /\ Parsing /\ IsItem(Here) /\ ~IsRule(Here)
  /\ LET Goes(l) == IsItem(l) /\ Ordered(l) = Ordered(Here)
         end == RunEnd(next, Goes) IN
     Push(<<Block("list", [k \in 1..(end + 1 - next) |-> ItemOf(source[next + k - 1])])>>, end + 1)

\* Image tags that read as images; "bracketed" has what ends a Markdown image in its
\* alt text or its address.
IsTag(l) == l.kind \in {"tag", "bracketed"}

IsFrame(l) == l.kind \in {"frame", "foreign"}

TagBlock(l) == Block("image", <<Line(IF l.kind = "tag" THEN "image" ELSE "bracketed", l.word)>>)

\* "foreign" has an address beyond ASCII.
FrameBlock(l) ==
  Block("video", <<IF l.kind = "foreign" THEN Line("foreign", Garbled(l.word)) ELSE l>>)

\* html_img_paragraph, then iframe_video_paragraph, then text.
ParagraphBlocks(lines) ==
  CASE \A k \in DOMAIN lines : IsTag(lines[k]) -> [k \in DOMAIN lines |-> TagBlock(lines[k])]
    [] Len(lines) = 1 /\ IsFrame(lines[1]) -> <<FrameBlock(lines[1])>>
    [] OTHER -> <<Block("paragraph", lines)>>

Paragraph ==
  /\ Parsing
  /\ ~(IsBlank(Here) \/ IsVideo(Here) \/ IsFence(Here) \/ IsHeading(Here) \/ IsQuote(Here))
  /\ ~(IsRule(Here) \/ IsItem(Here) \/ ImagesOf(Here) # <<>>)
  /\ LET Goes(l) == ~Stops(l)
         end == RunEnd(next, Goes) IN
     Push(ParagraphBlocks(SubSeq(source, next, end)), end + 1)

-----------------------------------------------------------------------------
(***************************************************************************)
(* blocks_to_markdown.                                                     *)
(***************************************************************************)

BlankOut == Line("blank", 0)

\* The lines of a block: a fence is closed, a quote has one line at least, and a
\* bracket ends the alt text of an image before its time.
Written(b) ==
  CASE b.kind = "code" ->
         (IF Len(b.lines) = 1 THEN Append(b.lines, BlankOut) ELSE b.lines) \o <<Line("fence", 0)>>
    [] b.kind = "quote" -> IF b.lines = <<>> THEN <<Line("bare", 0)>> ELSE b.lines
    [] b.kind = "divider" -> <<Line("dashes", 0)>>
    [] b.kind = "image" /\ b.lines[1].kind = "bracketed" -> <<Line("bang", b.lines[1].word)>>
    [] OTHER -> b.lines

\* (mutant) Blocks joined by one line break.
NoGap == <<>>

Gap == <<BlankOut>>

ToMarkdown(bs) ==
  FlattenSeq([k \in DOMAIN bs |-> (IF k = 1 THEN <<>> ELSE Gap) \o Written(bs[k])])

Save ==
  /\ pass = "first" /\ next > Len(source)
  /\ saved' = blocks
  /\ source' = ToMarkdown(blocks)
  /\ blocks' = <<>> /\ next' = 1
  /\ pass' = "second"

Finish ==
  /\ pass = "second" /\ next > Len(source)
  /\ pass' = "done"
  /\ UNCHANGED <<source, next, blocks, saved>>

-----------------------------------------------------------------------------

\* Each line says something else, so that what is lost, doubled or moved shows.
ParserInit ==
  /\ \E n \in 0..MaxLines : \E kinds \in [1..n -> Kinds] :
       source = [k \in 1..n |-> Line(kinds[k], 2 * k)]
  /\ next = 1 /\ blocks = <<>> /\ saved = <<>> /\ pass = "first"

ParserNext ==
  \/ BlankLine \/ VideoLine \/ Code \/ Heading \/ Quote \/ Divider \/ Images \/ List \/ Paragraph
  \/ Save \/ Finish

\* A parse is a loop, and the loop runs.
ParserSpec == ParserInit /\ [][ParserNext]_parserVars /\ WF_parserVars(ParserNext)

-----------------------------------------------------------------------------

\* Every turn of the parser's loop is on its way to the end: no line is one that
\* the paragraph stops at and that no rule before it takes, at which a save would
\* turn for ever (the conditions of parse_markdown's two loops agree).
ParseEnds == <>(pass = "done")

Speaks == {"text", "bang", "url", "info", "heading", "quote", "image", "images", "bullet", "number",
           "tag", "bracketed", "frame", "foreign"}

\* Every other fence closes.
IsClosing(n) == Cardinality({k \in 1..n : IsFence(source[k])}) % 2 = 0

\* The words of a line; a line of "images" has two.
WordsIn(l) ==
  CASE l.kind = "images" -> <<l.word, l.word + 1>>
    [] l.kind = "foreign" /\ l.word > MaxWord -> <<l.word - MaxWord>>
    [] l.kind \in Speaks /\ ~(l.kind = "foreign" /\ l.word > MaxWord) /\ l.kind # "images" -> <<l.word>>
    [] OTHER -> <<>>

WordsOfLines(lines) == FlattenSeq([k \in DOMAIN lines |-> WordsIn(lines[k])])

\* What the article says, but for a name after a closing fence.
SaidAt(n) == IF IsFence(source[n]) /\ IsClosing(n) THEN <<>> ELSE WordsIn(source[n])

Said == FlattenSeq([n \in DOMAIN source |-> SaidAt(n)])

\* What the blocks say, and in which order.
WordsOf(bs) == FlattenSeq([k \in DOMAIN bs |-> WordsOfLines(bs[k].lines)])

\* Whatever follows whatever, a save drops no line, doubles none and moves none:
\* a block takes exactly the lines up to the next one's first (parse_markdown).
NothingIsDropped == pass = "first" /\ next > Len(source) => WordsOf(blocks) = Said

\* Raw tags whose values do not survive.
Fragile(b) == b.kind \in {"image", "video"} /\ b.lines[1].kind \in {"bracketed", "foreign"}

\* Saving without an edit keeps every block as it is and where it is, so that no
\* version is made and no experiment ends; only tags with a bracket in the alt text
\* or an address beyond ASCII are different, and they disturb no other block
\* (blocks_to_markdown, parse_markdown).
UntouchedSaveKeeps ==
  pass = "done" =>
    /\ Len(blocks) = Len(saved)
    /\ \A k \in DOMAIN saved : ~Fragile(saved[k]) => blocks[k] = saved[k]
=============================================================================

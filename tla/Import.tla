------------------------------- MODULE Import -------------------------------
(***************************************************************************)
(* The import of a Markdown file, alone or in a .zip with its images, as a *)
(* new draft.  Two scanners written by hand read the same text: one finds  *)
(* the images to load, the other rewrites their references.  In between,   *)
(* each image is written to the media store, and after that the draft is   *)
(* created in five calls, of which any may fail.                           *)
(*                                                                         *)
(* A text is a sequence of tokens: the brackets that the scanners look     *)
(* for, and words for the rest.  A word names a file as it stands; what is *)
(* done to a path before it is looked up, and how an archive is packed, is *)
(* left out.                                                               *)
(***************************************************************************)
EXTENDS Naturals, Sequences, FiniteSets, SequencesExt

CONSTANTS
  Word,       \* words of the text
  Picture,    \* words that name an image in the archive
  Other,      \* words that name another file in the archive
  Remote,     \* words that begin an address elsewhere, or on this site
  MaxPieces   \* bound: pieces of the front matter and the text together

ASSUME BoundAssumption == MaxPieces \in Nat

VARIABLES
  kind,       \* "md" or "zip"
  posts,      \* Markdown files in the archive
  front,      \* the front matter with its delimiters, or nothing
  body,       \* the text after it
  phase,      \* where the handler is
  at,         \* where its scanner is
  images,     \* the images that were loaded and are not uploaded yet
  files,      \* words whose images this import wrote to the media directory
  rows,       \* words whose images it recorded in the media table
  out,        \* the text as far as it is rewritten
  unresolved, \* references that were left, those that are not remote
  calls,      \* the calls that create the draft, those that are to come
  content     \* what the draft holds

inputVars == <<kind, posts, front, body>>
scanVars == <<at, images>>
mediaVars == <<files, rows>>
rewriteVars == <<out, unresolved>>
draftVars == <<calls, content>>
vars == <<inputVars, phase, scanVars, mediaVars, rewriteVars, draftVars>>

Open == "!["
Close == "]"
Paren == "("
End == ")"

Bracket == {Open, Close, Paren, End}

\* The line that delimits front matter.
Dashes == "---"

Token == Word \cup Bracket \cup {Dashes}

Reference(w) == <<Open, Close, Paren, w, End>>

\* The address of an image in the media store.
Stored(w) == "/media/" \o w

\* Words are what is no bracket; a file is an image or it is none.
ASSUME WordAssumption ==
  /\ Picture \cup Other \cup Remote \subseteq Word
  /\ Word \cap (Bracket \cup {Dashes}) = {}
  /\ Picture \cap Other = {}

\* The media store gives each upload a name of its own, which is new: no text has it.
ASSUME NameAssumption ==
  /\ \A w \in Picture : Stored(w) \notin Token
  /\ \A v, w \in Picture : Stored(v) = Stored(w) => v = w

\* A text may break off in the middle of a reference, and so may front matter.
Pieces ==
  {<<t>> : t \in Word \cup Bracket} \cup {<<Open, Close>>, <<Open, Close, Paren>>}
    \cup {<<Open, Close, Paren, w>> : w \in Word} \cup {Reference(w) : w \in Word}

FrontMatter(pieces) == <<Dashes>> \o FlattenSeq(pieces) \o <<Dashes>>

Over == {"done", "refused", "failed"}

-----------------------------------------------------------------------------
(***************************************************************************)
(* What the scanners ask.                                                  *)
(***************************************************************************)

Text == IF phase = "scan" THEN front \o body ELSE body

\* str::find from a position on, or past the end.
Find(token, from) ==
  LET text == Text IN
  CHOOSE k \in from..(from + Len(text)) :
    /\ k <= Len(text) => text[k] = token
    /\ \A j \in from..(k - 1) : text[j] # token

Ends(k) == k > Len(Text)

\* The next "![", the first "]" after it, and the first ")" after that.
OpenAt == Find(Open, at)

CloseAt == Find(Close, OpenAt + 1)

EndAt == Find(End, CloseAt + 2)

IsImage == ~Ends(CloseAt + 1) /\ Text[CloseAt + 1] = Paren

Url == SubSeq(Text, CloseAt + 2, EndAt - 1)

LooksRemote(url) == url # <<>> /\ url[1] \in Remote

\* read_zip_image: there is such a file, and it is not too large.
InArchive(url) == Len(url) = 1 /\ url[1] \in Picture \cup Other

-----------------------------------------------------------------------------

\* Front matter is scanned only in an archive, and a text only if it is the only one.
\* The first m pieces are those between the delimiters.
Init ==
  /\ kind \in {"md", "zip"}
  /\ posts \in IF kind = "md" THEN {1} ELSE 0..2
  /\ \E n \in 0..(IF posts = 1 THEN MaxPieces ELSE 0) : \E pieces \in [1..n -> Pieces] :
       \/ front = <<>> /\ body = FlattenSeq(pieces)
       \/ kind = "zip" /\ \E m \in 0..n : /\ front = FrontMatter(SubSeq(pieces, 1, m))
                                        /\ body = FlattenSeq(SubSeq(pieces, m + 1, n))
  /\ phase = IF kind = "md" THEN "rewrite" ELSE "extract"
  /\ at = 1 /\ images = <<>>
  /\ files = {} /\ rows = {}
  /\ out = <<>> /\ unresolved = {}
  /\ calls = <<"create", "title", "slug", "blocks", "tags">> /\ content = <<>>

\* extract_post: an archive holds one Markdown file, and not too much besides.
Extract ==
  /\ phase = "extract"
  /\ phase' = IF posts = 1 THEN "scan" ELSE "refused"
  /\ UNCHANGED <<inputVars, scanVars, mediaVars, rewriteVars, draftVars>>

-----------------------------------------------------------------------------
(***************************************************************************)
(* scan_local_images and for_each_image_ref, one turn of the loop each.    *)
(* The text still has its front matter.                                    *)
(***************************************************************************)

Scanning == phase = "scan" /\ ~Ends(OpenAt) /\ ~Ends(CloseAt)

\* (mutant) A token too far.
AfterLabelAndOne(close) == close + 2

\* (mutant) No further than before.
AfterLabelStays(close) == at

\* Where the search goes on after "![..]" without a "(".
AfterLabel(close) == close + 1

ScanLabel ==
  /\ Scanning /\ ~IsImage
  /\ at' = AfterLabel(CloseAt)
  /\ UNCHANGED <<inputVars, phase, images, mediaVars, rewriteVars, draftVars>>

ScanImage ==
  /\ Scanning /\ IsImage /\ ~Ends(EndAt)
  /\ at' = EndAt + 1
  /\ images' = IF ~LooksRemote(Url) /\ InArchive(Url) /\ ~Contains(images, Url[1])
                 THEN Append(images, Url[1]) ELSE images
  /\ UNCHANGED <<inputVars, phase, mediaVars, rewriteVars, draftVars>>

\* Nothing that is left can be a reference.
EndScan ==
  /\ phase = "scan"
  /\ Ends(OpenAt) \/ Ends(CloseAt) \/ (IsImage /\ Ends(EndAt))
  /\ phase' = "upload"
  /\ at' = 1
  /\ UNCHANGED <<inputVars, images, mediaVars, rewriteVars, draftVars>>

-----------------------------------------------------------------------------
(***************************************************************************)
(* Uploads: the file, then its row.                                        *)
(***************************************************************************)

\* sniff_image does not know the file.
Skip ==
  /\ phase = "upload" /\ images # <<>> /\ Head(images) \in Other
  /\ images' = Tail(images)
  /\ UNCHANGED <<inputVars, phase, at, mediaVars, rewriteVars, draftVars>>

WriteFile ==
  /\ phase = "upload" /\ images # <<>> /\ Head(images) \notin Other
  /\ phase' = "record"
  /\ files' = files \cup {Head(images)}
  /\ UNCHANGED <<inputVars, scanVars, rows, rewriteVars, draftVars>>

InsertRow ==
  /\ phase = "record"
  /\ phase' = "upload"
  /\ rows' = rows \cup {Head(images)}
  /\ images' = Tail(images)
  /\ UNCHANGED <<inputVars, at, files, rewriteVars, draftVars>>

EndUpload ==
  /\ phase = "upload" /\ images = <<>>
  /\ phase' = "rewrite"
  /\ UNCHANGED <<inputVars, scanVars, mediaVars, rewriteVars, draftVars>>

-----------------------------------------------------------------------------
(***************************************************************************)
(* rewrite_image_refs, one turn of the loop each.                          *)
(***************************************************************************)

Rewriting == phase = "rewrite" /\ ~Ends(OpenAt)

\* What is written out, and where the search goes on.
Copy(to) ==
  /\ out' = out \o SubSeq(Text, at, to)
  /\ at' = to + 1

RewriteOpen ==
  /\ Rewriting /\ Ends(CloseAt)
  /\ Copy(OpenAt)
  /\ UNCHANGED <<inputVars, phase, images, mediaVars, unresolved, draftVars>>

RewriteLabel ==
  /\ Rewriting /\ ~Ends(CloseAt) /\ ~IsImage
  /\ Copy(CloseAt)
  /\ UNCHANGED <<inputVars, phase, images, mediaVars, unresolved, draftVars>>

RewriteParen ==
  /\ Rewriting /\ ~Ends(CloseAt) /\ IsImage /\ Ends(EndAt)
  /\ Copy(CloseAt + 1)
  /\ UNCHANGED <<inputVars, phase, images, mediaVars, unresolved, draftVars>>

\* (mutant) The whole address gives way to a resolved one that it begins with.
ResolvedBegins(url) == url # <<>> /\ url[1] \in rows

\* The map from addresses to uploads, which has those of the recorded ones.
Resolved(url) == Len(url) = 1 /\ url[1] \in rows

RewriteImage ==
  /\ Rewriting /\ ~Ends(CloseAt) /\ IsImage /\ ~Ends(EndAt)
  /\ out' = out \o SubSeq(Text, at, CloseAt + 1)
                \o (IF Resolved(Url) THEN <<Stored(Url[1])>> ELSE Url) \o <<End>>
  /\ at' = EndAt + 1
  /\ unresolved' = IF Resolved(Url) \/ LooksRemote(Url) THEN unresolved ELSE unresolved \cup {Url}
  /\ UNCHANGED <<inputVars, phase, images, mediaVars, draftVars>>

\* A file alone has no images with it, so it may not refer to any.
EndRewrite ==
  /\ phase = "rewrite" /\ Ends(OpenAt)
  /\ Copy(Len(Text))
  /\ phase' = IF kind = "md" /\ unresolved # {} THEN "refused" ELSE "draft"
  /\ UNCHANGED <<inputVars, images, mediaVars, unresolved, draftVars>>

-----------------------------------------------------------------------------

\* create_document, update_document_title, regenerate_draft_slug, apply_markdown and
\* set_document_tags, each a transaction of its own.
Call ==
  /\ phase = "draft"
  /\ calls' = Tail(calls)
  /\ content' = IF Head(calls) = "blocks" THEN out ELSE content
  /\ phase' = IF Tail(calls) = <<>> THEN "done" ELSE "draft"
  /\ UNCHANGED <<inputVars, scanVars, mediaVars, rewriteVars>>

\* A write fails, the client hangs up or the process dies: what is done stays.
Fail ==
  /\ phase \in {"upload", "record", "draft"}
  /\ phase' = "failed"
  /\ UNCHANGED <<inputVars, scanVars, mediaVars, rewriteVars, draftVars>>

Work ==
  \/ Extract
  \/ ScanLabel \/ ScanImage \/ EndScan
  \/ Skip \/ WriteFile \/ InsertRow \/ EndUpload
  \/ RewriteOpen \/ RewriteLabel \/ RewriteParen \/ RewriteImage \/ EndRewrite
  \/ Call

Next == Work \/ Fail

\* A handler that does not fail runs on.
Spec == Init /\ [][Next]_vars /\ WF_vars(Work)

-----------------------------------------------------------------------------

\* Each turn of either scanner's loop gets on, whatever the brackets that it finds
\* open, and so an import ends (for_each_image_ref, rewrite_image_refs).
ImportEnds == <>(phase \in Over)

Original(t) ==
  IF \E w \in Picture : t = Stored(w) THEN CHOOSE w \in Picture : t = Stored(w) ELSE t

\* Rewriting changes addresses of images and nothing else: with the old ones put
\* back, what is written is the text up to where the scanner is (rewrite_image_refs,
\* in each of its five branches).
TextIsKept ==
  [k \in DOMAIN out |-> Original(out[k])] = SubSeq(body, 1, IF phase \in {"scan", "upload", "record"} THEN 0 ELSE at - 1)

Used == {w \in Picture : Contains(out, Stored(w))}

\* What begins at o in the front matter, a label or a reference, ends there too.
EndsInFront(o) ==
  \E c \in (o + 1)..Len(front) :
    /\ front[c] = Close /\ \A j \in (o + 1)..(c - 1) : front[j] # Close
    /\ front[c + 1] = Paren => \E e \in (c + 2)..Len(front) : front[e] = End

FrontIsClosed == \A o \in DOMAIN front : front[o] = Open => EndsInFront(o)

\* The two scanners see the same references, although only one of them reads the front
\* matter, unless something in there is left open: it then takes its end from the body,
\* where the other scanner begins afresh.  But for that, of the images in the archive
\* none is left unresolved, and none is stored without being used, unless the front
\* matter names it.  And wherever an import stops, what the draft refers to is stored.
ScannersAgree ==
  /\ phase \in {"draft", "done"} /\ kind = "zip" /\ FrontIsClosed =>
       /\ \A w \in Picture : <<w>> \notin unresolved
       /\ \A w \in rows : w \in Used \/ Contains(front, w)
  /\ \A w \in Picture : Contains(content, Stored(w)) => w \in rows \cap files
=============================================================================

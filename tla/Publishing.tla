----------------------------- MODULE Publishing -----------------------------
(***************************************************************************)
(* Documents from draft to publication, their addresses, and the search    *)
(* index that follows them.                                                *)
(*                                                                         *)
(* A request writes a document in several transactions, and after most of  *)
(* them it refreshes the document's entry in the index in another one.     *)
(* Requests overlap, each of their calls may fail, and the process may die *)
(* between any two.  A request is the steps it has yet to take.            *)
(*                                                                         *)
(* A refresh reads and writes in one transaction: when another connection  *)
(* commits in between, SQLite refuses the write and the step fails.        *)
(***************************************************************************)
EXTENDS Naturals, Sequences

CONSTANTS
  Document,    \* identifiers of documents
  Writer,      \* requests served concurrently
  Title,       \* titles
  Untitled,    \* the title a document is imported under
  Slug,        \* addresses
  SlugsOf,     \* the addresses to try for each title: base, base-2, base-3, ...
  Text,        \* what there is to find of a document: its title, body and tags
  NoText,      \* no entry in the index, or no document
  NoSlug,      \* no document
  NoDocument   \* the document of an idle writer

ASSUME TitleAssumption == Untitled \in Title
ASSUME SlugsAssumption == SlugsOf \in [Title -> Seq(Slug)]
ASSUME NullAssumption == NoText \notin Text /\ NoSlug \notin Slug /\ NoDocument \notin Document

VARIABLES
  status,      \* documents.status; "none" before, "deleted" after the row is there
  slug,        \* documents.slug
  text,        \* the searchable text of the document as it is
  index,       \* and as document_search has it
  server,      \* is the process "down", "rebuilding" the index or "serving"?
  rebuilding,  \* documents whose entries are still to be rebuilt
  writers,     \* the requests in flight
  lost,        \* history: documents of which a refresh failed or was never run
  promoted     \* history: documents with a variant promoted since their last refresh

rowVars == <<status, slug, text>>
vars == <<rowVars, index, server, rebuilding, writers, lost, promoted>>

Step == {"title", "slug", "blocks", "tags", "publish", "refresh"}
Request == [doc : Document \cup {NoDocument}, title : Title, steps : Seq(Step)]

TypeOK ==
  /\ status \in [Document -> {"none", "draft", "published", "deleted"}]
  /\ slug \in [Document -> Slug \cup {NoSlug}]
  /\ text \in [Document -> Text \cup {NoText}]
  /\ index \in [Document -> Text \cup {NoText}]
  /\ server \in {"down", "rebuilding", "serving"}
  /\ rebuilding \subseteq Document
  /\ writers \in [Writer -> Request]
  /\ lost \subseteq Document
  /\ promoted \subseteq Document

-----------------------------------------------------------------------------

Exists(d) == status[d] \in {"draft", "published"}

Idle == [doc |-> NoDocument, title |-> Untitled, steps |-> <<>>]

\* The writes of each kind of request.
Retitle == <<"title", "refresh">>
Rewrite == <<"blocks", "refresh">>

\* (mutant) Tags that are not indexed.
RetagUnindexed == <<"tags">>

Retag == <<"tags", "refresh">>

\* The editor form: the slug follows the title of what was loaded as a draft.
EditorSteps(d) ==
  LET renaming == IF status[d] = "draft" THEN Retitle \o <<"slug">> ELSE Retitle IN
  {renaming \o Rewrite \o Retag, Rewrite \o Retag}

\* PUT /api/documents: the title and the body are optional, the slug stays.
ApiSteps == {Retag, Retitle \o Retag, Rewrite \o Retag, Retitle \o Rewrite \o Retag}

\* POST /api/documents: the body and the tags are optional.
CreateSteps == {<<>>, Rewrite, Retag, Rewrite \o Retag}

ImportSteps == Retitle \o <<"slug">> \o Rewrite \o Retag

PublishSteps == <<"publish", "refresh">>

Owes(w, d) == writers[w].doc = d /\ writers[w].steps # <<>> /\ Head(writers[w].steps) = "refresh"

-----------------------------------------------------------------------------
(***************************************************************************)
(* Addresses.                                                              *)
(***************************************************************************)

\* The first address of a title that no document holds, not even the one it is for.
NextSlug(t) ==
  LET Held(s) == \E d \in Document : Exists(d) /\ slug[d] = s IN
  {SlugsOf[t][i] : i \in {i \in DOMAIN SlugsOf[t] :
     ~Held(SlugsOf[t][i]) /\ \A k \in 1..(i - 1) : Held(SlugsOf[t][k])}}

-----------------------------------------------------------------------------

\* The database is new, or it is older than the index.
Init ==
  /\ status \in [Document -> {"none", "draft", "published"}]
  /\ slug \in [Document -> Slug \cup {NoSlug}]
  /\ \A d \in Document : Exists(d) <=> slug[d] # NoSlug
  /\ \A d, e \in Document : Exists(d) /\ Exists(e) /\ slug[d] = slug[e] => d = e
  /\ text \in {[d \in Document |-> IF Exists(d) THEN c ELSE NoText] : c \in Text}
  /\ index = [d \in Document |-> NoText]
  /\ server = "down"
  /\ rebuilding = {}
  /\ writers = [w \in Writer |-> Idle]
  /\ lost = {}
  /\ promoted = {}

\* What belongs in the index.
Entry(d) == IF status[d] = "published" THEN text[d] ELSE NoText

\* refresh_search_index: the entry is removed, and written anew if it is published.
Refresh(d) ==
  /\ index' = IF Exists(d) THEN [index EXCEPT ![d] = Entry(d)] ELSE index
  /\ lost' = lost \ {d}
  /\ promoted' = promoted \ {d}

Entries(steps) == {steps[i] : i \in DOMAIN steps}

\* A request begins: the document is loaded, or created.  Of its title only the
\* address it is still to give is kept.
Begin(w, d, t, steps) ==
  /\ server = "serving"
  /\ writers[w] = Idle
  /\ writers' = [writers EXCEPT ![w] = IF steps = <<>> THEN Idle
                                       ELSE [doc |-> d, steps |-> steps,
                                             title |-> IF "slug" \in Entries(steps) THEN t ELSE Untitled]]

Change(w, d, t) ==
  /\ Exists(d)
  /\ \E steps \in EditorSteps(d) \cup ApiSteps \cup {PublishSteps} : Begin(w, d, t, steps)
  /\ UNCHANGED <<rowVars, index, server, rebuilding, lost, promoted>>

Create(w, d, t, u) ==
  /\ status[d] = "none"
  /\ \/ \E steps \in CreateSteps : Begin(w, d, t, steps)
     \/ t = Untitled /\ Begin(w, d, u, ImportSteps)
  /\ \E s \in NextSlug(t) : slug' = [slug EXCEPT ![d] = s]
  /\ status' = [status EXCEPT ![d] = "draft"]
  /\ \E c \in Text : text' = [text EXCEPT ![d] = c]
  /\ UNCHANGED <<index, server, rebuilding, lost, promoted>>

\* (mutant) Only the row: the virtual table has no foreign key.
IndexLeft(d) == index

\* remove_search_row, in the transaction of the deletion.
IndexWithout(d) == [index EXCEPT ![d] = NoText]

DeleteDocument(d) ==
  /\ server = "serving"
  /\ Exists(d)
  /\ status' = [status EXCEPT ![d] = "deleted"]
  /\ slug' = [slug EXCEPT ![d] = NoSlug]
  /\ text' = [text EXCEPT ![d] = NoText]
  /\ index' = IndexWithout(d)
  /\ UNCHANGED <<server, rebuilding, writers, lost, promoted>>

-----------------------------------------------------------------------------
(***************************************************************************)
(* The steps of a request.  On a document that was deleted meanwhile an    *)
(* UPDATE changes no row.                                                  *)
(***************************************************************************)

\* (mutant) The status as it was when the document was loaded.
DraftWhenLoaded(d) == TRUE

\* regenerate_draft_slug looks again, in the transaction that writes.
StillDraft(d) == status[d] = "draft"

Write(d, step, t) ==
  CASE step \in {"title", "blocks", "tags"} ->
         /\ IF Exists(d) THEN \E c \in Text : text' = [text EXCEPT ![d] = c] ELSE UNCHANGED text
         /\ UNCHANGED <<status, slug>>
    [] step = "slug" ->
         /\ Exists(d)     \* fetch_one finds a row, or the call fails
         /\ IF StillDraft(d) THEN \E s \in NextSlug(t) : slug' = [slug EXCEPT ![d] = s]
                             ELSE UNCHANGED slug
         /\ UNCHANGED <<status, text>>
    [] step = "publish" ->
         /\ status' = IF Exists(d) THEN [status EXCEPT ![d] = "published"] ELSE status
         /\ UNCHANGED <<slug, text>>

Rest(request) ==
  IF Len(request.steps) = 1 THEN Idle ELSE [request EXCEPT !.steps = Tail(@)]

TakeStep(w) ==
  LET request == writers[w]
      step == Head(request.steps) IN
  /\ request.steps # <<>>
  /\ writers' = [writers EXCEPT ![w] = Rest(@)]
  /\ IF step = "refresh"
       THEN Refresh(request.doc) /\ UNCHANGED rowVars
       ELSE Write(request.doc, step, request.title) /\ UNCHANGED <<index, lost, promoted>>
  /\ UNCHANGED <<server, rebuilding>>

\* A call fails, or the client hangs up: the rest of the request is dropped.
Fail(w) ==
  /\ writers[w].steps # <<>>
  /\ writers' = [writers EXCEPT ![w] = Idle]
  /\ lost' = lost \cup {d \in Document : Owes(w, d)}
  /\ UNCHANGED <<rowVars, index, server, rebuilding, promoted>>

\* An experiment is decided: what the document shows changes.
Promote(d, c) ==
  /\ server = "serving"
  /\ Exists(d)
  /\ text' = [text EXCEPT ![d] = c]
  /\ promoted' = promoted \cup {d}
  /\ UNCHANGED <<status, slug, index, server, rebuilding, writers, lost>>

-----------------------------------------------------------------------------
(***************************************************************************)
(* The life of the process.                                                *)
(***************************************************************************)

Published == {d \in Document : status[d] = "published"}

NeverIndexed == \A d \in Document : index[d] = NoText

\* backfill_search_index: only an index without any entry is rebuilt.
Rebuilt == IF NeverIndexed THEN Published ELSE {}

StartUp ==
  /\ server = "down"
  /\ rebuilding' = Rebuilt
  /\ server' = "rebuilding"
  /\ UNCHANGED <<rowVars, index, writers, lost, promoted>>

RebuildEntry(d) ==
  /\ d \in rebuilding
  /\ rebuilding' = rebuilding \ {d}
  /\ Refresh(d)
  /\ UNCHANGED <<rowVars, server, writers>>

Serve ==
  /\ server = "rebuilding"
  /\ rebuilding = {}
  /\ server' = "serving"
  /\ UNCHANGED <<rowVars, index, rebuilding, writers, lost, promoted>>

Crash ==
  /\ server # "down"
  /\ server' = "down"
  /\ writers' = [w \in Writer |-> Idle]
  /\ rebuilding' = {}
  /\ lost' = lost \cup rebuilding \cup {d \in Document : \E w \in Writer : Owes(w, d)}
  /\ UNCHANGED <<rowVars, index, promoted>>

Next ==
  \/ \E w \in Writer, d \in Document, t \in Title : Change(w, d, t) \/ \E u \in Title : Create(w, d, t, u)
  \/ \E w \in Writer : TakeStep(w) \/ Fail(w)
  \/ \E d \in Document : DeleteDocument(d) \/ RebuildEntry(d) \/ \E c \in Text : Promote(d, c)
  \/ StartUp \/ Serve \/ Crash

Spec == Init /\ [][Next]_vars

-----------------------------------------------------------------------------

\* Whatever two requests do with a document, one that loaded it as a draft and
\* one that publishes it meanwhile: from then on it answers under one address,
\* until it is deleted, and is never taken back (regenerate_draft_slug reads the
\* status again in the transaction that writes the slug).
PublishedUrlIsStable ==
  [][\A d \in Document : status[d] = "published" =>
       \/ status'[d] = "published" /\ slug'[d] = slug[d]
       \/ status'[d] = "deleted"]_vars

\* A search finds nothing that is not public: a refresh that comes after a
\* deletion brings nothing back, and a deletion leaves no row behind in the
\* virtual table, which no foreign key watches (delete_document,
\* refresh_search_index).
OnlyPublishedAreFound ==
  \A d \in Document : index[d] # NoText => status[d] = "published"

\* Somebody still has to refresh the entry: a request, the rebuild at start-up or
\* that of the next start; or a refresh was lost with its request or its process.
RefreshIsOwed(d) ==
  \/ \E w \in Writer : Owes(w, d)
  \/ d \in rebuilding
  \/ server = "down" /\ NeverIndexed
  \/ d \in lost

\* However requests overlap, the index is behind a published document only while
\* a refresh is owed, or after a promotion: the last one to write leaves it right
\* (the writes of the editor end in refresh_search_index, which reads again; a
\* promotion, by conclude_experiment, refreshes nothing).
IndexIsOwed ==
  \A d \in Published : index[d] # text[d] => RefreshIsOwed(d) \/ d \in promoted
=============================================================================

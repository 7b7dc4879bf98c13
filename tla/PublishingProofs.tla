-------------------------- MODULE PublishingProofs --------------------------
(***************************************************************************)
(* Proofs about Publishing, for every number of documents, requests and    *)
(* texts, and every way to make addresses of titles.                       *)
(*                                                                         *)
(* The search index carries the argument: every write of a request is      *)
(* followed by a refresh of the same document, so that between the two the *)
(* request owes it; and a process that ends turns what is owed into what   *)
(* is lost.                                                                *)
(***************************************************************************)
EXTENDS Publishing, SequenceTheorems, TLAPS

-----------------------------------------------------------------------------
(***************************************************************************)
(* The steps of requests.                                                  *)
(***************************************************************************)

\* Every write that changes an entry of the index is followed by a refresh.
Refreshed(steps) ==
  \A i \in 1..Len(steps) : steps[i] \in {"title", "blocks", "tags", "publish"} =>
    i < Len(steps) /\ steps[i + 1] = "refresh"

Plan == {steps \in Seq(Step) : Refreshed(steps)}

\* One such sequence after another is one.
LEMMA PlansCompose ==
  ASSUME NEW a \in Plan, NEW b \in Plan
  PROVE  a \o b \in Plan
<1>1. a \o b \in Seq(Step) /\ Len(a \o b) = Len(a) + Len(b)
  BY ConcatProperties DEF Plan
<1>2. \A i \in 1..(Len(a) + Len(b)) : (a \o b)[i] = IF i <= Len(a) THEN a[i] ELSE b[i - Len(a)]
  BY ConcatProperties DEF Plan
<1>3. Len(a) \in Nat /\ Len(b) \in Nat
  BY DEF Plan
<1>4. ASSUME NEW i \in 1..Len(a \o b), (a \o b)[i] \in {"title", "blocks", "tags", "publish"}
      PROVE  i < Len(a \o b) /\ (a \o b)[i + 1] = "refresh"
  <2>1. CASE i <= Len(a)
    <3>1. i \in 1..Len(a) /\ (a \o b)[i] = a[i]
      BY <1>1, <1>2, <1>3, <2>1
    <3>2. i < Len(a) /\ a[i + 1] = "refresh"
      BY <1>4, <3>1 DEF Plan, Refreshed
    <3>3. i + 1 \in 1..(Len(a) + Len(b)) /\ i + 1 <= Len(a)
      BY <1>3, <3>2
    <3> QED BY <1>1, <1>2, <1>3, <3>2, <3>3
  <2>2. CASE i > Len(a)
    <3>1. i - Len(a) \in 1..Len(b) /\ (a \o b)[i] = b[i - Len(a)]
      BY <1>1, <1>2, <1>3, <2>2
    <3>2. i - Len(a) < Len(b) /\ b[(i - Len(a)) + 1] = "refresh"
      BY <1>4, <3>1 DEF Plan, Refreshed
    <3>3. i + 1 \in 1..(Len(a) + Len(b)) /\ ~(i + 1 <= Len(a)) /\ (i + 1) - Len(a) = (i - Len(a)) + 1
      BY <1>3, <2>2, <3>2
    <3> QED BY <1>1, <1>2, <1>3, <3>2, <3>3
  <2> QED BY <1>1, <1>3, <2>1, <2>2
<1> QED BY <1>1, <1>4 DEF Plan, Refreshed

\* What is left of one after its first step is one, and the write it began with is
\* followed by a refresh.
LEMMA PlansProceed ==
  ASSUME NEW s \in Plan, s # <<>>
  PROVE  /\ Tail(s) \in Plan
         /\ Len(s) = 1 => Head(s) \in {"slug", "refresh"}
         /\ Head(s) \notin {"slug", "refresh"} => Tail(s) # <<>> /\ Head(Tail(s)) = "refresh"
<1>1. Len(s) \in Nat \ {0} /\ Head(s) = s[1] /\ s[1] \in Step /\ s \in Seq(Step)
  BY DEF Plan
<1>2. Tail(s) \in Seq(Step) /\ Len(Tail(s)) = Len(s) - 1 /\ \A i \in 1..(Len(s) - 1) : Tail(s)[i] = s[i + 1]
  BY <1>1
<1>3. Refreshed(Tail(s))
  <2> SUFFICES ASSUME NEW i \in 1..Len(Tail(s)), Tail(s)[i] \in {"title", "blocks", "tags", "publish"}
               PROVE  i < Len(Tail(s)) /\ Tail(s)[i + 1] = "refresh"
    BY DEF Refreshed
  <2>1. i + 1 \in 1..Len(s) /\ Tail(s)[i] = s[i + 1]
    BY <1>1, <1>2
  <2>2. i + 1 < Len(s) /\ s[(i + 1) + 1] = "refresh"
    BY <2>1 DEF Plan, Refreshed
  <2> QED BY <1>1, <1>2, <2>2
<1>4. s[1] \in {"title", "blocks", "tags", "publish"} => 1 < Len(s) /\ s[2] = "refresh"
  BY <1>1 DEF Plan, Refreshed
<1>5. s[1] \notin {"slug", "refresh"} => Tail(s) # <<>> /\ Head(Tail(s)) = "refresh"
  <2> SUFFICES ASSUME s[1] \notin {"slug", "refresh"} PROVE Tail(s) # <<>> /\ Head(Tail(s)) = "refresh"
    OBVIOUS
  <2>1. 1 < Len(s) /\ s[2] = "refresh"
    BY <1>1, <1>4 DEF Step
  <2>2. Len(Tail(s)) >= 1 /\ Tail(s)[1] = "refresh"
    BY <1>1, <1>2, <2>1
  <2>3. Tail(s) # <<>>
    BY <2>2
  <2>4. Head(Tail(s)) = Tail(s)[1]
    BY <1>2, <2>3
  <2> QED BY <2>2, <2>3, <2>4
<1> QED BY <1>1, <1>2, <1>3, <1>4, <1>5 DEF Plan, Step

LEMMA PlanPieces ==
  /\ <<>> \in Plan /\ <<"slug">> \in Plan
  /\ Retitle \in Plan /\ Rewrite \in Plan /\ Retag \in Plan /\ PublishSteps \in Plan
  BY DEF Plan, Refreshed, Step, Retitle, Rewrite, Retag, PublishSteps

\* Every kind of request is one of them.
LEMMA RequestsArePlans ==
  /\ \A d \in Document : EditorSteps(d) \subseteq Plan
  /\ ApiSteps \subseteq Plan /\ CreateSteps \subseteq Plan /\ ImportSteps \in Plan
<1>1. Retitle \o <<"slug">> \in Plan
  BY PlanPieces, PlansCompose
<1>2. Rewrite \o Retag \in Plan
  BY PlanPieces, PlansCompose
<1>3. ASSUME NEW a \in Plan
      PROVE  a \o Rewrite \o Retag \in Plan
  BY <1>3, PlanPieces, PlansCompose
<1>4. ASSUME NEW d \in Document PROVE EditorSteps(d) \subseteq Plan
  BY <1>1, <1>2, <1>3, PlanPieces DEF EditorSteps
<1>5. ApiSteps \subseteq Plan
  BY <1>2, <1>3, PlanPieces, PlansCompose DEF ApiSteps
<1>6. CreateSteps \subseteq Plan
  BY <1>2, PlanPieces DEF CreateSteps
<1>7. ImportSteps \in Plan
  BY <1>1, <1>3 DEF ImportSteps
<1> QED BY <1>4, <1>5, <1>6, <1>7

-----------------------------------------------------------------------------
(***************************************************************************)
(* Types.                                                                  *)
(***************************************************************************)

\* Requests take steps that are refreshed, and none outlives its process.
WritersPlan ==
  /\ \A w \in Writer : writers[w].steps \in Plan
  /\ server # "serving" => \A w \in Writer : writers[w] = Idle
  /\ server # "rebuilding" => rebuilding = {}

LEMMA AddressesAreSlugs ==
  ASSUME NEW t \in Title
  PROVE  NextSlug(t) \subseteq Slug
  BY SlugsAssumption DEF NextSlug

LEMMA IdleIsRequest == Idle \in Request /\ Idle.steps \in Plan
  BY TitleAssumption, PlanPieces DEF Idle, Request, Plan

\* A request that begins is one.
LEMMA BegunIsRequest ==
  ASSUME TypeOK, WritersPlan, NEW w \in Writer, NEW d \in Document, NEW t \in Title, NEW s \in Plan,
         Begin(w, d, t, s)
  PROVE  /\ writers' \in [Writer -> Request]
         /\ \A v \in Writer : writers'[v].steps \in Plan
         /\ server = "serving" /\ writers[w] = Idle
         /\ \A v \in Writer : v # w => writers'[v] = writers[v]
<1> DEFINE q == [doc |-> d, steps |-> s, title |-> IF "slug" \in Entries(s) THEN t ELSE Untitled]
<1>1. q \in Request
  BY TitleAssumption DEF Request, Plan
<1> QED BY <1>1, IdleIsRequest DEF Begin, TypeOK, WritersPlan

LEMMA TypesNext ==
  ASSUME TypeOK, WritersPlan, [Next]_vars
  PROVE  TypeOK' /\ WritersPlan'
<1> USE DEF vars, rowVars
<1>1. ASSUME NEW w \in Writer, NEW d \in Document, NEW t \in Title, Change(w, d, t)
      PROVE TypeOK' /\ WritersPlan'
  <2>1. PICK steps \in EditorSteps(d) \cup ApiSteps \cup {PublishSteps} : Begin(w, d, t, steps)
    BY <1>1 DEF Change
  <2>2. steps \in Plan
    BY RequestsArePlans, PlanPieces
  <2> QED BY <1>1, <2>1, <2>2, BegunIsRequest DEF Change, TypeOK, WritersPlan
<1>2. ASSUME NEW w \in Writer, NEW d \in Document, NEW t \in Title, NEW u \in Title, Create(w, d, t, u)
      PROVE TypeOK' /\ WritersPlan'
  <2>1. PICK steps \in Plan, v \in Title : Begin(w, d, v, steps)
    BY <1>2, RequestsArePlans DEF Create
  <2>2. writers' \in [Writer -> Request] /\ WritersPlan'
    BY <1>2, <2>1, BegunIsRequest DEF Create, WritersPlan
  <2> QED BY <1>2, <2>2, AddressesAreSlugs DEF Create, TypeOK
<1>3. ASSUME NEW w \in Writer, TakeStep(w) PROVE TypeOK' /\ WritersPlan'
  <2> DEFINE q == writers[w]
             d == q.doc
             step == Head(q.steps)
  <2>1. q \in Request /\ q.steps \in Plan /\ q.steps # <<>> /\ q.title \in Title
    BY <1>3 DEF TakeStep, TypeOK, WritersPlan, Request
  <2>2. Tail(q.steps) \in Plan
    BY <2>1, PlansProceed
  <2>3. [q EXCEPT !.steps = Tail(@)] \in Request /\ [q EXCEPT !.steps = Tail(@)].steps \in Plan
    BY <2>1, <2>2 DEF Request, Plan
  <2>4. writers' \in [Writer -> Request] /\ WritersPlan'
    <3>1. Rest(q) \in Request /\ Rest(q).steps \in Plan
      BY <2>3, IdleIsRequest DEF Rest
    <3>2. writers' = [writers EXCEPT ![w] = Rest(q)] /\ UNCHANGED <<server, rebuilding>>
      BY <1>3 DEF TakeStep
    <3>3. server = "serving"
      BY <2>1 DEF WritersPlan, Idle
    <3> QED BY <3>1, <3>2, <3>3 DEF TypeOK, WritersPlan
  <2>5. CASE step = "refresh"
    BY <1>3, <2>4, <2>5 DEF TakeStep, Refresh, Entry, TypeOK
  <2>6. CASE step # "refresh"
    <3>1. Write(d, step, q.title) /\ UNCHANGED <<index, lost, promoted, server, rebuilding>>
      BY <1>3, <2>6 DEF TakeStep
    <3>2. step \in Step
      BY <2>1 DEF Plan
    <3>3. status' \in [Document -> {"none", "draft", "published", "deleted"}]
      BY <3>1, <3>2, <2>6 DEF Write, Step, TypeOK
    <3>4. slug' \in [Document -> Slug \cup {NoSlug}]
      BY <2>1, <3>1, <3>2, <2>6, AddressesAreSlugs DEF Write, Step, TypeOK
    <3>5. text' \in [Document -> Text \cup {NoText}]
      BY <3>1, <3>2, <2>6 DEF Write, Step, TypeOK
    <3> QED BY <2>4, <3>1, <3>3, <3>4, <3>5 DEF TypeOK
  <2> QED BY <2>5, <2>6
<1>4. ASSUME NEW w \in Writer, Fail(w) PROVE TypeOK' /\ WritersPlan'
  BY <1>4, IdleIsRequest DEF Fail, TypeOK, WritersPlan, Idle
<1>5. ASSUME NEW d \in Document, DeleteDocument(d) PROVE TypeOK' /\ WritersPlan'
  BY <1>5 DEF DeleteDocument, IndexWithout, TypeOK, WritersPlan
<1>6. ASSUME NEW d \in Document, RebuildEntry(d) PROVE TypeOK' /\ WritersPlan'
  BY <1>6 DEF RebuildEntry, Refresh, Entry, TypeOK, WritersPlan
<1>7. ASSUME NEW d \in Document, NEW c \in Text, Promote(d, c) PROVE TypeOK' /\ WritersPlan'
  BY <1>7 DEF Promote, TypeOK, WritersPlan
<1>8. CASE StartUp \/ Serve
  BY <1>8 DEF StartUp, Serve, Rebuilt, Published, TypeOK, WritersPlan
<1>9. CASE Crash
  BY <1>9, IdleIsRequest DEF Crash, TypeOK, WritersPlan
<1>10. CASE UNCHANGED vars
  BY <1>10 DEF TypeOK, WritersPlan
<1> QED BY <1>1, <1>2, <1>3, <1>4, <1>5, <1>6, <1>7, <1>8, <1>9, <1>10 DEF Next

-----------------------------------------------------------------------------
(***************************************************************************)
(* What is published, and what a search finds.                             *)
(***************************************************************************)

\* A step writes a document's row, its entry, or neither.
LEMMA StepWrites ==
  ASSUME TypeOK, WritersPlan, NEW w \in Writer, TakeStep(w)
  PROVE  \/ /\ Head(writers[w].steps) = "refresh"
            /\ Refresh(writers[w].doc) /\ UNCHANGED rowVars
         \/ /\ Head(writers[w].steps) \in Step \ {"refresh"}
            /\ Write(writers[w].doc, Head(writers[w].steps), writers[w].title)
            /\ UNCHANGED <<index, lost, promoted>>
<1>1. Head(writers[w].steps) \in Step
  BY DEF TakeStep, WritersPlan, Plan
<1> QED BY <1>1 DEF TakeStep

LEMMA PublishedNext ==
  ASSUME TypeOK, WritersPlan, [Next]_vars, NEW d \in Document, status[d] = "published"
  PROVE  (status'[d] = "published" /\ slug'[d] = slug[d]) \/ status'[d] = "deleted"
<1> USE DEF vars, rowVars, TypeOK
<1>1. ASSUME NEW w \in Writer, TakeStep(w) PROVE status'[d] = "published" /\ slug'[d] = slug[d]
  BY <1>1, StepWrites DEF Write, Step, StillDraft, Exists
<1>2. ASSUME NEW w \in Writer, NEW e \in Document, NEW t \in Title, NEW u \in Title,
             Change(w, e, t) \/ Create(w, e, t, u)
      PROVE status'[d] = "published" /\ slug'[d] = slug[d]
  BY <1>2 DEF Change, Create
<1>3. ASSUME NEW e \in Document, DeleteDocument(e)
      PROVE  (status'[d] = "published" /\ slug'[d] = slug[d]) \/ status'[d] = "deleted"
  BY <1>3 DEF DeleteDocument
<1>4. CASE (\E w \in Writer : Fail(w)) \/ (\E e \in Document : RebuildEntry(e) \/ \E c \in Text : Promote(e, c))
  BY <1>4 DEF Fail, RebuildEntry, Promote
<1>5. CASE StartUp \/ Serve \/ Crash \/ UNCHANGED vars
  BY <1>5 DEF StartUp, Serve, Crash
<1> QED BY <1>1, <1>2, <1>3, <1>4, <1>5 DEF Next

LEMMA FoundNext ==
  ASSUME TypeOK, WritersPlan, OnlyPublishedAreFound, [Next]_vars
  PROVE  OnlyPublishedAreFound'
<1> USE DEF vars, rowVars, TypeOK, OnlyPublishedAreFound
<1>1. ASSUME NEW w \in Writer, TakeStep(w) PROVE OnlyPublishedAreFound'
  <2>1. CASE Refresh(writers[w].doc) /\ UNCHANGED rowVars
    BY <2>1 DEF Refresh, Entry
  <2>2. CASE UNCHANGED index
    <3>1. \A d \in Document : status[d] = "published" => status'[d] = "published"
      BY <1>1, StepWrites DEF Write, Step, Exists
    <3> QED BY <2>2, <3>1
  <2> QED BY <1>1, <2>1, <2>2, StepWrites
<1>2. ASSUME NEW w \in Writer, NEW e \in Document, NEW t \in Title, NEW u \in Title,
             Change(w, e, t) \/ Create(w, e, t, u)
      PROVE OnlyPublishedAreFound'
  BY <1>2 DEF Change, Create
<1>3. ASSUME NEW e \in Document, DeleteDocument(e) PROVE OnlyPublishedAreFound'
  BY <1>3 DEF DeleteDocument, IndexWithout
<1>4. ASSUME NEW e \in Document, RebuildEntry(e) PROVE OnlyPublishedAreFound'
  BY <1>4 DEF RebuildEntry, Refresh, Entry
<1>5. CASE (\E w \in Writer : Fail(w)) \/ (\E e \in Document, c \in Text : Promote(e, c))
  BY <1>5 DEF Fail, Promote
<1>6. CASE StartUp \/ Serve \/ Crash \/ UNCHANGED vars
  BY <1>6 DEF StartUp, Serve, Crash
<1> QED BY <1>1, <1>2, <1>3, <1>4, <1>5, <1>6 DEF Next
-----------------------------------------------------------------------------
(***************************************************************************)
(* Who still has to refresh.                                               *)
(***************************************************************************)

Behind(d) == status[d] = "published" /\ index[d] # text[d]

Owed(d) == RefreshIsOwed(d) \/ d \in promoted

LEMMA OwedIsBehind == IndexIsOwed <=> \A d \in Document : Behind(d) => Owed(d)
  BY DEF IndexIsOwed, Published, Behind, Owed

\* A refreshed entry is not behind.
LEMMA RefreshCatchesUp ==
  ASSUME TypeOK, NEW d \in Document \cup {NoDocument}, Refresh(d), UNCHANGED rowVars
  PROVE  /\ d \in Document => ~Behind(d)'
         /\ \A e \in Document : e # d => /\ Behind(e)' => Behind(e)
                                         /\ e \in lost => e \in lost'
                                         /\ e \in promoted => e \in promoted'
<1>1. /\ lost' = lost \ {d} /\ promoted' = promoted \ {d}
      /\ \A e \in Document : e # d => index'[e] = index[e]
      /\ UNCHANGED <<status, text>>
  BY DEF Refresh, TypeOK, rowVars
<1>2. ASSUME Behind(d)', d \in Document PROVE FALSE
  <2>1. status[d] = "published" /\ d \in Document
    BY <1>1, <1>2 DEF Behind
  <2>2. index'[d] = text[d]
    BY <2>1 DEF Refresh, Entry, Exists, TypeOK
  <2> QED BY <1>1, <1>2, <2>2 DEF Behind
<1> QED BY <1>1, <1>2 DEF Behind

LEMMA OwedNext ==
  ASSUME TypeOK, WritersPlan, OnlyPublishedAreFound, IndexIsOwed, [Next]_vars
  PROVE  IndexIsOwed'
<1> SUFFICES ASSUME NEW d \in Document, Behind(d)' PROVE Owed(d)'
  BY DEF IndexIsOwed, Published, Behind, Owed
<1>0. Behind(d) => Owed(d)
  BY OwedIsBehind
<1> USE DEF vars, rowVars, Owed, RefreshIsOwed
<1>1. ASSUME NEW w \in Writer, TakeStep(w) PROVE Owed(d)'
  <2>1. /\ writers[w].steps \in Plan /\ writers[w].steps # <<>> /\ server = "serving"
        /\ UNCHANGED <<server, rebuilding>>
        /\ \A v \in Writer : v # w => writers'[v] = writers[v]
    BY <1>1 DEF TakeStep, WritersPlan, TypeOK, Idle
  <2>2. \A v \in Writer : v # w /\ Owes(v, d) => Owes(v, d)'
    BY <2>1 DEF Owes
  <2>3. CASE Head(writers[w].steps) = "refresh" /\ Refresh(writers[w].doc) /\ UNCHANGED rowVars
    <3>1. writers[w].doc \in Document \cup {NoDocument}
      BY DEF TypeOK, Request
    <3>2. writers[w].doc # d
      BY <2>3, <3>1, RefreshCatchesUp
    <3>3. Behind(d) /\ (d \in lost => d \in lost') /\ (d \in promoted => d \in promoted')
      BY <2>3, <3>1, <3>2, RefreshCatchesUp
    <3>4. ~Owes(w, d)
      BY <3>2 DEF Owes
    <3> QED BY <1>0, <2>1, <2>2, <3>3, <3>4
  <2>4. CASE /\ Head(writers[w].steps) \in Step \ {"refresh"}
             /\ Write(writers[w].doc, Head(writers[w].steps), writers[w].title)
             /\ UNCHANGED <<index, lost, promoted>>
    <3>1. ~Owes(w, d)
      BY <2>4 DEF Owes
    <3>2. CASE Behind(d)
      BY <1>0, <2>1, <2>2, <2>4, <3>1, <3>2
    <3>3. CASE ~Behind(d)
      <4>1. writers[w].doc = d /\ Head(writers[w].steps) # "slug"
        BY <2>4, <3>3 DEF Behind, Write, Step, Exists, TypeOK
      <4>2. Tail(writers[w].steps) # <<>> /\ Head(Tail(writers[w].steps)) = "refresh" /\ Len(writers[w].steps) # 1
        BY <2>1, <2>4, <4>1, PlansProceed
      <4>3. writers'[w] = [writers[w] EXCEPT !.steps = Tail(@)]
        BY <1>1, <4>2 DEF TakeStep, TypeOK, Rest
      <4>4. writers'[w].doc = d /\ writers'[w].steps = Tail(writers[w].steps)
        BY <4>1, <4>3 DEF TypeOK, Request
      <4> QED BY <4>2, <4>4 DEF Owes
    <3> QED BY <3>2, <3>3
  <2> QED BY <1>1, <2>3, <2>4, StepWrites
<1>2. ASSUME NEW w \in Writer, NEW e \in Document, NEW t \in Title, NEW u \in Title,
             Change(w, e, t) \/ Create(w, e, t, u)
      PROVE Owed(d)'
  <2>1. PICK v \in Title, steps \in Plan : Begin(w, e, v, steps)
    BY <1>2, RequestsArePlans, PlanPieces DEF Change, Create
  <2>2. server = "serving" /\ writers[w] = Idle /\ \A x \in Writer : x # w => writers'[x] = writers[x]
    BY <2>1, BegunIsRequest
  <2>3. ~Owes(w, d)
    BY <2>2 DEF Owes, Idle
  <2>4. Behind(d) /\ UNCHANGED <<server, rebuilding, index, lost, promoted>>
    BY <1>2 DEF Change, Create, Behind, TypeOK
  <2> QED BY <1>0, <2>2, <2>3, <2>4 DEF Owes
<1>3. ASSUME NEW w \in Writer, Fail(w) PROVE Owed(d)'
  <2>1. Behind(d) /\ \A v \in Writer : v # w => writers'[v] = writers[v]
    BY <1>3 DEF Fail, Behind, TypeOK
  <2>2. Owes(w, d) => d \in lost'
    BY <1>3 DEF Fail
  <2>3. \A v \in Writer : v # w /\ Owes(v, d) => Owes(v, d)'
    BY <2>1 DEF Owes
  <2>4. UNCHANGED <<rebuilding, server, index, promoted>> /\ lost \subseteq lost'
    BY <1>3 DEF Fail
  <2> QED BY <1>0, <2>1, <2>2, <2>3, <2>4 DEF NeverIndexed
<1>4. ASSUME NEW e \in Document, DeleteDocument(e) PROVE Owed(d)'
  <2>1. d # e /\ Behind(d)
    BY <1>4 DEF DeleteDocument, IndexWithout, Behind, TypeOK
  <2>2. server = "serving" /\ UNCHANGED <<server, rebuilding, writers, lost, promoted>>
    BY <1>4 DEF DeleteDocument
  <2> QED BY <1>0, <2>1, <2>2 DEF Owes
<1>5. ASSUME NEW e \in Document, RebuildEntry(e) PROVE Owed(d)'
  <2>1. Refresh(e) /\ UNCHANGED rowVars /\ server # "down" /\ UNCHANGED <<server, writers>>
    BY <1>5 DEF RebuildEntry, WritersPlan
  <2>2. d # e /\ Behind(d) /\ (d \in lost => d \in lost') /\ (d \in promoted => d \in promoted')
    BY <2>1, RefreshCatchesUp
  <2> QED BY <1>0, <1>5, <2>1, <2>2 DEF RebuildEntry, Owes
<1>6. ASSUME NEW e \in Document, NEW c \in Text, Promote(e, c) PROVE Owed(d)'
  <2>1. server = "serving" /\ UNCHANGED <<index, server, rebuilding, writers, lost>> /\ promoted' = promoted \cup {e}
    BY <1>6 DEF Promote
  <2>2. d = e \/ Behind(d)
    BY <1>6 DEF Promote, Behind, TypeOK
  <2> QED BY <1>0, <2>1, <2>2 DEF Owes
<1>7. CASE StartUp
  <2>1. Behind(d) /\ UNCHANGED <<writers, lost, promoted>>
    BY <1>7 DEF StartUp, Behind
  <2>2. NeverIndexed => d \in rebuilding'
    BY <1>7, <2>1 DEF StartUp, Rebuilt, Published, Behind
  <2> QED BY <1>0, <1>7, <2>1, <2>2 DEF StartUp, WritersPlan, Owes
<1>8. CASE Serve
  <2>1. Behind(d)
    BY <1>8 DEF Serve, Behind
  <2> QED BY <1>0, <1>8, <2>1 DEF Serve, Owes
<1>9. CASE Crash
  <2>1. Behind(d) /\ server # "down"
    BY <1>9 DEF Crash, Behind
  <2> QED BY <1>0, <1>9, <2>1 DEF Crash
<1>10. CASE UNCHANGED vars
  <2>1. Behind(d)
    BY <1>10 DEF Behind
  <2> QED BY <1>0, <1>10, <2>1 DEF Owes, NeverIndexed
<1> QED BY <1>1, <1>2, <1>3, <1>4, <1>5, <1>6, <1>7, <1>8, <1>9, <1>10 DEF Next

-----------------------------------------------------------------------------

IInv == TypeOK /\ WritersPlan /\ OnlyPublishedAreFound /\ IndexIsOwed

LEMMA InvariantInit == Init => IInv
<1> SUFFICES ASSUME Init PROVE IInv
  OBVIOUS
<1>1. TypeOK /\ WritersPlan
  BY IdleIsRequest DEF Init, TypeOK, WritersPlan, Idle, Exists
<1>2. OnlyPublishedAreFound
  BY DEF Init, OnlyPublishedAreFound
<1>3. IndexIsOwed
  BY DEF Init, IndexIsOwed, RefreshIsOwed, NeverIndexed, Published
<1> QED BY <1>1, <1>2, <1>3 DEF IInv

\* The invariant that every theorem below follows from.
LEMMA Invariant == Spec => []IInv
<1>1. IInv /\ [Next]_vars => IInv'
  BY TypesNext, FoundNext, OwedNext DEF IInv
<1> QED BY <1>1, InvariantInit, PTL DEF Spec

\* Documents, their entries and the requests on them have their types.
THEOREM TypeCorrect == Spec => []TypeOK
<1>1. IInv => TypeOK
  BY DEF IInv
<1> QED BY <1>1, Invariant, PTL

\* What a search finds is public (refresh_search_index, delete_document).
THEOREM SearchIsPublic == Spec => []OnlyPublishedAreFound
<1>1. IInv => OnlyPublishedAreFound
  BY DEF IInv
<1> QED BY <1>1, Invariant, PTL

\* The index is behind only while somebody owes a refresh, after one was lost, or
\* after a promotion (the writes of sqlite.rs and their refreshes).
THEOREM IndexFollows == Spec => []IndexIsOwed
<1>1. IInv => IndexIsOwed
  BY DEF IInv
<1> QED BY <1>1, Invariant, PTL

\* A published document keeps its address until it is deleted
\* (regenerate_draft_slug).
THEOREM AddressesLast == Spec => PublishedUrlIsStable
<1>1. IInv /\ [Next]_vars =>
        [\A d \in Document : status[d] = "published" =>
           \/ status'[d] = "published" /\ slug'[d] = slug[d]
           \/ status'[d] = "deleted"]_vars
  BY PublishedNext DEF IInv
<1> QED BY <1>1, Invariant, PTL DEF Spec, PublishedUrlIsStable
=============================================================================

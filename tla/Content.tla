------------------------------ MODULE Content ------------------------------
(***************************************************************************)
(* The site's content: rows the host edits, the translations made of them  *)
(* in the background, and the files of the gallery.                        *)
(*                                                                         *)
(* A request runs its statements one at a time and other requests run in   *)
(* between.  A save fires its translations and answers without them.  A    *)
(* text is an opaque value, its hash is the text, and a row has one text   *)
(* (the service treats each field alike).  Sort order and publication are  *)
(* left out.  The provider and the file store are outside.                 *)
(***************************************************************************)
EXTENDS Naturals, Sequences

CONSTANTS
    Fixed,      \* pages, sections and settings: upserted by slug, never deleted
    Listed,     \* FAQs, items and reviews: created and deleted by the host
    Image,      \* gallery images, each with a file of its own
    Quotable,   \* those of Listed that are reviews, which may be featured
    Draft,      \* the texts the host may write in each row
    Target,     \* the languages to translate into, in order
    Request,    \* the requests that may run together
    Source,     \* the language the host writes in
    New, Gone   \* a row not written yet, a row deleted

Id == Fixed \cup Listed \cup Image

Text == UNION {Draft[id] : id \in Id}

Locale == {Target[i] : i \in 1..Len(Target)}

ASSUME ContentAssumption ==
    /\ Fixed \cap Listed = {} /\ Fixed \cap Image = {} /\ Listed \cap Image = {}
    /\ Quotable \subseteq Listed
    /\ DOMAIN Draft = Id
    /\ New \notin [of : Text, hash : Text] /\ New \notin [text : Text, featured : BOOLEAN]
    /\ Gone \notin [text : Text, featured : BOOLEAN]
    /\ New # Gone
    /\ Target \in Seq(Locale) /\ Target # <<>> /\ Source \notin Locale

VARIABLES
    rows,       \* the content tables
    stored,     \* the Translation table
    files,      \* the image files in the store
    task,       \* the statement each request runs next
    job,        \* the translations each request has fired
    halted      \* history: reviews promoted, the demotion of the others cut off

vars == <<rows, stored, files, task, job, halted>>

-----------------------------------------------------------------------------
Row == [text : Text, featured : BOOLEAN]

Exists(id) == rows[id] \notin {New, Gone}

\* What one Translation row says: of which text it is a translation, and the
\* hash of the source it was made from.
Translation == [of : Text, hash : Text]

NoTask == [pc |-> "idle"]

NoJob == [pc |-> "idle"]

Task ==
    {NoTask} \cup [pc : {"reply"}]
    \cup [pc : {"update"}, id : Listed \cup Image, text : Text, featured : {FALSE}]
    \cup [pc : {"update"}, id : Quotable, text : Text, featured : {TRUE}]
    \cup [pc : {"demote"}, id : Quotable, text : Text]
    \cup [pc : {"delete", "forget"}, id : Listed \cup Image]
    \cup [pc : {"upload", "remove"}, id : Image]
    \cup [pc : {"load"}, id : Id, locale : Locale \cup {Source}, text : Text]

Job == {NoJob} \cup [pc : {"find", "translate"}, id : Id, text : Text, next : 1..Len(Target)]

Init ==
    /\ rows = [id \in Id |-> New]
    /\ stored = [id \in Id |-> [l \in Locale |-> New]]
    /\ files = {}
    /\ task = [r \in Request |-> NoTask]
    /\ job = [r \in Request |-> NoJob]
    /\ halted = {}

\* Bound: a request starts once the translations of the last one have ended.
Starts(r) == task[r] = NoTask /\ job[r] = NoJob

Goto(r, t) == task' = [task EXCEPT ![r] = t]

-----------------------------------------------------------------------------
(* Saves *)

\* retranslate(): not awaited, of the row as its statement returned it.
Fired(r, id, text) ==
    job' = [job EXCEPT ![r] = [pc |-> "find", id |-> id, text |-> text, next |-> 1]]

\* A slip: looks at the review as it was before it was saved.
AfterSaveAsRead(r, id, row) ==
    IF Exists(id) /\ rows[id].featured
    THEN Goto(r, [pc |-> "demote", id |-> id, text |-> row.text]) /\ UNCHANGED job
    ELSE Goto(r, [pc |-> "reply"]) /\ Fired(r, id, row.text)

\* A featured review demotes the others before its translations are fired.
AfterSave(r, id, row) ==
    IF row.featured
    THEN Goto(r, [pc |-> "demote", id |-> id, text |-> row.text]) /\ UNCHANGED job
    ELSE Goto(r, [pc |-> "reply"]) /\ Fired(r, id, row.text)

Write(r, id, row) ==
    /\ rows' = [rows EXCEPT ![id] = row]
    /\ AfterSave(r, id, row)
    /\ UNCHANGED <<stored, files, halted>>

\* updatePage, updateSection, updateSettings: one upsert.
SaveFixed(r, id, text) ==
    /\ Starts(r) /\ id \in Fixed /\ text \in Draft[id]
    /\ Write(r, id, [text |-> text, featured |-> FALSE])

\* createFaq, createItem, createReview.
Create(r, id, text, featured) ==
    /\ Starts(r) /\ id \in Listed /\ rows[id] = New /\ text \in Draft[id]
    /\ featured => id \in Quotable
    /\ Write(r, id, [text |-> text, featured |-> featured])

\* updateFaq, updateItem, updateReview, updateImage: the row must be there.
StartUpdate(r, id, text, featured) ==
    /\ Starts(r) /\ id \in Listed \cup Image /\ Exists(id) /\ text \in Draft[id]
    /\ featured => id \in Quotable
    /\ Goto(r, [pc |-> "update", id |-> id, text |-> text, featured |-> featured])
    /\ UNCHANGED <<rows, stored, files, job, halted>>

Update(r) ==
    LET t == task[r] IN
    /\ t.pc = "update" /\ Exists(t.id)
    /\ Write(r, t.id, [text |-> t.text, featured |-> t.featured])

Demoted(keep) ==
    [id \in Id |-> IF id \in Quotable \ {keep} /\ Exists(id)
                   THEN [rows[id] EXCEPT !.featured = FALSE]
                   ELSE rows[id]]

DemoteOtherFeatured(r) ==
    LET t == task[r] IN
    /\ t.pc = "demote"
    /\ rows' = Demoted(t.id)
    /\ halted' = {}
    /\ Goto(r, [pc |-> "reply"])
    /\ Fired(r, t.id, t.text)
    /\ UNCHANGED <<stored, files>>

Reply(r) ==
    /\ task[r].pc = "reply"
    /\ Goto(r, NoTask)
    /\ UNCHANGED <<rows, stored, files, job, halted>>

-----------------------------------------------------------------------------
(* Uploads and deletions *)

\* uploadImage: the file first, under a name nobody else has, then its row.
Upload(r, id) ==
    /\ Starts(r) /\ id \in Image /\ rows[id] = New /\ id \notin files
    /\ files' = files \cup {id}
    /\ Goto(r, [pc |-> "upload", id |-> id])
    /\ UNCHANGED <<rows, stored, job, halted>>

\* addImage fires no translation.
AddImage(r, text) ==
    LET t == task[r] IN
    /\ t.pc = "upload" /\ text \in Draft[t.id]
    /\ rows' = [rows EXCEPT ![t.id] = [text |-> text, featured |-> FALSE]]
    /\ Goto(r, [pc |-> "reply"])
    /\ UNCHANGED <<stored, files, job, halted>>

\* A slip: the file goes before the row.
StartDeleteFileFirst(r, id) ==
    /\ Starts(r) /\ id \in Listed \cup Image /\ Exists(id)
    /\ files' = files \ {id}
    /\ Goto(r, [pc |-> "delete", id |-> id])
    /\ UNCHANGED <<rows, stored, job, halted>>

StartDelete(r, id) ==
    /\ Starts(r) /\ id \in Listed \cup Image /\ Exists(id)
    /\ Goto(r, [pc |-> "delete", id |-> id])
    /\ UNCHANGED <<rows, stored, files, job, halted>>

Delete(r) ==
    LET t == task[r] IN
    /\ t.pc = "delete" /\ Exists(t.id)
    /\ rows' = [rows EXCEPT ![t.id] = Gone]
    /\ Goto(r, [pc |-> IF t.id \in Image THEN "remove" ELSE "forget", id |-> t.id])
    /\ UNCHANGED <<stored, files, job, halted>>

\* deleteImage drops the file and leaves the translations of its alt text.
Remove(r) ==
    LET t == task[r] IN
    /\ t.pc = "remove"
    /\ files' \in {files \ {t.id}, files}        \* best effort
    /\ Goto(r, [pc |-> "reply"])
    /\ UNCHANGED <<rows, stored, job, halted>>

Forget(r) ==
    LET t == task[r] IN
    /\ t.pc = "forget"
    /\ stored' = [stored EXCEPT ![t.id] = [l \in Locale |-> New]]
    /\ Goto(r, [pc |-> "reply"])
    /\ UNCHANGED <<rows, files, job, halted>>

\* requireFaq, requireItem, requireReview, requireImage: not there.
NotFound(r, id) ==
    /\ Starts(r) /\ id \in Listed \cup Image /\ ~Exists(id)
    /\ Goto(r, [pc |-> "reply"])
    /\ UNCHANGED <<rows, stored, files, job, halted>>

\* A statement fails or finds its row gone, and the request answers an error.
Fail(r) ==
    LET t == task[r] IN
    /\ t.pc \in {"update", "demote", "upload", "delete", "forget"}
    /\ Goto(r, NoTask)
    /\ halted' = IF t.pc = "demote" THEN halted \cup {t.id} ELSE halted
    /\ UNCHANGED <<rows, stored, files, job>>

-----------------------------------------------------------------------------
(* Translations, made in the background *)

\* On to the next language, or done.
Onward(j) == IF j.next < Len(Target)
             THEN [j EXCEPT !.pc = "find", !.next = j.next + 1]
             ELSE NoJob

\* syncRecord: a translation of this very text is left alone.
Find(r) ==
    LET j == job[r]
        row == stored[j.id][Target[j.next]] IN
    /\ j.pc = "find"
    /\ job' = [job EXCEPT ![r] = IF row # New /\ row.hash = j.text
                                 THEN Onward(j) ELSE [j EXCEPT !.pc = "translate"]]
    /\ UNCHANGED <<rows, stored, files, task, halted>>

\* The lookup fails.  It is outside the try and nobody awaits the job, so the
\* rejection ends the process, and every request and job under way with it.
FindFails(r) ==
    /\ job[r].pc = "find"
    /\ task' = [s \in Request |-> NoTask]
    /\ job' = [s \in Request |-> NoJob]
    /\ halted' = halted \cup {task[s].id : s \in {s \in Request : task[s].pc = "demote"}}
    /\ UNCHANGED <<rows, stored, files>>

Translated(j) == [of |-> j.text, hash |-> j.text]

\* The provider answers and the row is upserted.
Translate(r) ==
    LET j == job[r] IN
    /\ j.pc = "translate"
    /\ stored' = [stored EXCEPT ![j.id][Target[j.next]] = Translated(j)]
    /\ job' = [job EXCEPT ![r] = Onward(j)]
    /\ UNCHANGED <<rows, files, task, halted>>

\* The provider or the upsert fails: logged, and on to the next language.
Refuse(r) ==
    LET j == job[r] IN
    /\ j.pc = "translate"
    /\ job' = [job EXCEPT ![r] = Onward(j)]
    /\ UNCHANGED <<rows, stored, files, task, halted>>

-----------------------------------------------------------------------------
(* The guest's page *)

\* getLocalizedContent: the rows in one query, their translations in another.
\* What follows is one row of the page: every row is localized by itself.
List(r, id, locale) ==
    /\ Starts(r) /\ Exists(id)
    /\ Goto(r, [pc |-> "load", id |-> id, locale |-> locale, text |-> rows[id].text])
    /\ UNCHANGED <<rows, stored, files, job, halted>>

\* A slip: any translation will do.
LocalizeAnyway(text, found) == IF found # New THEN found.of ELSE text

\* Which text the guest reads, be it in translation: the stored translation's,
\* or the source when there is none of this very text.
Localize(text, found) == IF found # New /\ found.hash = text THEN found.of ELSE text

Read(t) == Localize(t.text, IF t.locale = Source THEN New ELSE stored[t.id][t.locale])

Load(r) ==
    /\ task[r].pc = "load"
    /\ Goto(r, NoTask)
    /\ UNCHANGED <<rows, stored, files, job, halted>>

-----------------------------------------------------------------------------
\* What a request does next, the translations it has fired apart.
Statement(r) ==
    \/ Update(r) \/ DemoteOtherFeatured(r) \/ Reply(r) \/ Delete(r)
    \/ Remove(r) \/ Forget(r) \/ Fail(r) \/ Load(r)
    \/ \E text \in Text : AddImage(r, text)

Next ==
    \E r \in Request :
        \/ Statement(r)
        \/ Find(r) \/ FindFails(r) \/ Translate(r) \/ Refuse(r)
        \/ \E id \in Id : Upload(r, id) \/ StartDelete(r, id) \/ NotFound(r, id)
        \/ \E id \in Id, text \in Text : SaveFixed(r, id, text)
        \/ \E id \in Id, text \in Text, featured \in BOOLEAN :
              Create(r, id, text, featured) \/ StartUpdate(r, id, text, featured)
        \/ \E id \in Id, locale \in Locale \cup {Source} : List(r, id, locale)

Spec == Init /\ [][Next]_vars

-----------------------------------------------------------------------------
(* Properties *)

\* Rows, translations, tasks and jobs are well formed: only reviews are
\* featured and nothing is translated into the language of the source.
TypeOK ==
    /\ rows \in [Id -> Row \cup {New, Gone}]
    /\ \A id \in Id \ Quotable : Exists(id) => ~rows[id].featured
    /\ stored \in [Id -> [Locale -> Translation \cup {New}]]
    /\ files \subseteq Image
    /\ task \in [Request -> Task]
    /\ job \in [Request -> Job]
    /\ halted \subseteq Quotable

\* A guest reads the source, or a translation of exactly the source that was
\* listed for the page, however old the stored translation is and whenever the
\* second query runs (localize).
GuestReadsTheSource ==
    \A r \in Request : task[r].pc = "load" => Read(task[r]) = task[r].text

\* Two reviews are featured only while the promotion of one of them has its
\* demotion still to run, or had it cut off since the last one: a save writes the
\* review and then demotes the others, in two statements (demoteOtherFeatured).
OneQuote ==
    \A p, q \in Quotable :
        /\ p # q /\ Exists(p) /\ Exists(q)
        /\ rows[p].featured /\ rows[q].featured
        => \/ {p, q} \cap halted # {}
           \/ \E r \in Request : task[r].pc = "demote" /\ task[r].id \in {p, q}

\* A row of the gallery has its file in the store, through uploads, deletions
\* and failures at every statement (cms.controller.ts, "Row first, then the file").
RowsHaveFiles == \A id \in Image : Exists(id) => id \in files

=============================================================================

--------------------------- MODULE ContentProofs ---------------------------
(***************************************************************************)
(* What Content guarantees for every set of rows, texts, languages and     *)
(* requests.                                                               *)
(***************************************************************************)
EXTENDS Content, TLAPS

LEMMA Apart ==
  /\ Quotable \subseteq Listed /\ Listed \cap Image = {}
  /\ Fixed \cap Image = {} /\ Fixed \cap Listed = {}
  /\ New # Gone /\ New \notin Translation /\ New \notin Row /\ Gone \notin Row
  BY ContentAssumption DEF Translation, Row

-----------------------------------------------------------------------------
(* Type correctness *)

\* The texts of a row are texts, and the languages are those of Target.
LEMMA Texts == \A id \in Id : \A text \in Draft[id] : text \in Text
  BY DEF Text

LEMMA Languages ==
  /\ Len(Target) \in Nat \ {0}
  /\ 1 \in 1..Len(Target)
  /\ \A i \in 1..Len(Target) : Target[i] \in Locale
  BY ContentAssumption DEF Locale

\* What a task of each kind carries.
LEMMA Tasks ==
  ASSUME NEW t \in Task
  PROVE  /\ t.pc = "update" => /\ t.id \in Listed \cup Image /\ t.text \in Text
                               /\ t.featured \in BOOLEAN
                               /\ t.featured => t.id \in Quotable
         /\ t.pc = "demote" => t.id \in Quotable /\ t.text \in Text
         /\ t.pc \in {"delete", "forget"} => t.id \in Listed \cup Image
         /\ t.pc \in {"upload", "remove"} => t.id \in Image
         /\ t.pc = "load" => t.id \in Id /\ t.text \in Text /\ t.locale \in Locale \cup {Source}
  <1>1. \/ t = NoTask
        \/ t \in [pc : {"reply"}]
        \/ t \in [pc : {"update"}, id : Listed \cup Image, text : Text, featured : {FALSE}]
        \/ t \in [pc : {"update"}, id : Quotable, text : Text, featured : {TRUE}]
        \/ t \in [pc : {"demote"}, id : Quotable, text : Text]
        \/ t \in [pc : {"delete", "forget"}, id : Listed \cup Image]
        \/ t \in [pc : {"upload", "remove"}, id : Image]
        \/ t \in [pc : {"load"}, id : Id, locale : Locale \cup {Source}, text : Text]
    BY Zenon DEF Task
  <1>2. CASE t = NoTask
    BY <1>2 DEF NoTask
  <1>3. CASE t \in [pc : {"reply"}]
    BY <1>3
  <1>4. CASE t \in [pc : {"update"}, id : Listed \cup Image, text : Text, featured : {FALSE}]
    BY <1>4
  <1>5. CASE t \in [pc : {"update"}, id : Quotable, text : Text, featured : {TRUE}]
    BY <1>5, Apart
  <1>6. CASE t \in [pc : {"demote"}, id : Quotable, text : Text]
    BY <1>6
  <1>7. CASE t \in [pc : {"delete", "forget"}, id : Listed \cup Image]
    BY <1>7
  <1>8. CASE t \in [pc : {"upload", "remove"}, id : Image]
    BY <1>8
  <1>9. CASE t \in [pc : {"load"}, id : Id, locale : Locale \cup {Source}, text : Text]
    BY <1>9
  <1> QED
    BY <1>1, <1>2, <1>3, <1>4, <1>5, <1>6, <1>7, <1>8, <1>9

LEMMA Jobs ==
  ASSUME NEW j \in Job, j.pc # "idle"
  PROVE  /\ j.id \in Id /\ j.text \in Text /\ j.next \in 1..Len(Target)
         /\ Onward(j) \in Job
         /\ [j EXCEPT !.pc = "translate"] \in Job
  <1>1. j \in [pc : {"find", "translate"}, id : Id, text : Text, next : 1..Len(Target)]
    BY DEF Job, NoJob
  <1>2. Onward(j) \in Job
    <2>1. CASE j.next < Len(Target)
      <3>1. /\ j.next + 1 \in 1..Len(Target)
            /\ Onward(j) = [j EXCEPT !.pc = "find", !.next = j.next + 1]
        BY <1>1, <2>1, Languages DEF Onward
      <3> QED
        BY <1>1, <3>1 DEF Job
    <2>2. CASE ~(j.next < Len(Target))
      BY <2>2 DEF Onward, Job
    <2> QED
      BY <2>1, <2>2
  <1>3. [j EXCEPT !.pc = "translate"] \in Job
    BY <1>1 DEF Job
  <1> QED
    BY <1>1, <1>2, <1>3

\* The tasks a request goes on with.
LEMMA Steps ==
  /\ NoTask \in Task /\ [pc |-> "reply"] \in Task
  /\ \A id \in Listed \cup Image, text \in Text, featured \in BOOLEAN :
        (featured => id \in Quotable) =>
            [pc |-> "update", id |-> id, text |-> text, featured |-> featured] \in Task
  /\ \A id \in Quotable, text \in Text :
        [pc |-> "demote", id |-> id, text |-> text] \in Task
  /\ \A id \in Listed \cup Image, pc \in {"delete", "forget"} :
        [pc |-> pc, id |-> id] \in Task
  /\ \A id \in Image, pc \in {"upload", "remove"} : [pc |-> pc, id |-> id] \in Task
  /\ \A id \in Id, locale \in Locale \cup {Source}, text \in Text :
        [pc |-> "load", id |-> id, locale |-> locale, text |-> text] \in Task
  BY DEF Task, NoTask

\* The first state is well formed.
LEMMA TypeInit == Init => TypeOK
  BY Steps, Apart DEF Init, TypeOK, Exists, Job

\* A save keeps the types when the row it writes is well formed.
LEMMA WriteKeepsTypes ==
  ASSUME TypeOK, NEW r \in Request, NEW id \in Id, NEW text \in Text,
         NEW featured \in BOOLEAN, featured => id \in Quotable,
         Write(r, id, [text |-> text, featured |-> featured])
  PROVE  TypeOK'
  <1> DEFINE row == [text |-> text, featured |-> featured]
  <1>0. row \in Row /\ row.text = text /\ row.featured = featured
    BY DEF Row
  <1> HIDE DEF row
  <1>1. /\ rows' = [rows EXCEPT ![id] = row]
        /\ AfterSave(r, id, row) /\ UNCHANGED <<stored, files, halted>>
    BY DEF Write, row
  <1>2. rows' \in [Id -> Row \cup {New, Gone}]
    BY <1>0, <1>1 DEF TypeOK
  <1>3. \A i \in Id \ Quotable : Exists(i)' => ~rows'[i].featured
    BY <1>0, <1>1 DEF TypeOK, Exists
  <1>4. [pc |-> "find", id |-> id, text |-> row.text, next |-> 1] \in Job
    BY <1>0, Languages DEF Job
  <1>5. task' \in [Request -> Task] /\ job' \in [Request -> Job]
    <2>1. CASE featured
      BY <1>0, <1>1, <2>1, Steps DEF TypeOK, AfterSave, Goto
    <2>2. CASE ~featured
      <3>1. Goto(r, [pc |-> "reply"]) /\ Fired(r, id, row.text)
        BY <1>0, <1>1, <2>2 DEF AfterSave
      <3> QED
        BY <3>1, <1>4, Steps DEF TypeOK, Goto, Fired
    <2> QED
      BY <2>1, <2>2
  <1> QED
    BY <1>1, <1>2, <1>3, <1>5 DEF TypeOK

\* A row that goes, or comes without being featured, keeps the types.
LEMMA RowChangeKeepsTypes ==
  ASSUME TypeOK, NEW r \in Request, NEW id \in Id,
         NEW row \in Row \cup {New, Gone}, row \notin {New, Gone} => ~row.featured,
         NEW t \in Task, rows' = [rows EXCEPT ![id] = row], Goto(r, t),
         UNCHANGED <<stored, files, job, halted>>
  PROVE  TypeOK'
  BY DEF TypeOK, Goto, Exists

LEMMA GotoKeepsTypes ==
  ASSUME TypeOK, NEW r \in Request, NEW t \in Task, Goto(r, t),
         UNCHANGED <<rows, stored, job>>,
         files' \subseteq Image, halted' \subseteq Quotable
  PROVE  TypeOK'
  BY DEF TypeOK, Goto, Exists

\* The background jobs change nothing but the translations.
LEMMA JobKeepsTypes ==
  ASSUME TypeOK, NEW r \in Request, Find(r) \/ Translate(r) \/ Refuse(r)
  PROVE  TypeOK'
  <1> DEFINE j == job[r]
             l == Target[j.next]
  <1>1. j \in Job /\ j.pc # "idle"
    BY DEF TypeOK, Find, Translate, Refuse
  <1>2. /\ j.id \in Id /\ j.text \in Text /\ l \in Locale
        /\ Onward(j) \in Job /\ [j EXCEPT !.pc = "translate"] \in Job
    BY <1>1, Jobs, Languages
  <1>3. job' \in [Request -> Job]
    BY <1>2 DEF TypeOK, Find, Translate, Refuse
  <1>4. UNCHANGED <<rows, files, task, halted>>
    BY DEF Find, Translate, Refuse
  <1>5. stored' \in [Id -> [Locale -> Translation \cup {New}]]
    <2>1. CASE Translate(r)
      <3>1. Translated(j) \in Translation
        BY <1>2 DEF Translated, Translation
      <3>2. stored' = [stored EXCEPT ![j.id][l] = Translated(j)]
        BY <2>1 DEF Translate
      <3> HIDE DEF j, l
      <3> QED
        BY <1>2, <3>1, <3>2 DEF TypeOK
    <2>2. CASE Find(r) \/ Refuse(r)
      BY <2>2 DEF TypeOK, Find, Refuse
    <2> QED
      BY <2>1, <2>2
  <1> QED
    BY <1>3, <1>4, <1>5 DEF TypeOK, Exists

\* A failed lookup ends every request and every job.
LEMMA EndKeepsTypes ==
  ASSUME TypeOK, NEW r \in Request, FindFails(r)
  PROVE  TypeOK'
  <1>1. \A s \in Request : task[s].pc = "demote" => task[s].id \in Quotable
    BY Tasks DEF TypeOK
  <1>2. halted' \subseteq Quotable
    BY <1>1 DEF FindFails, TypeOK
  <1>3. task' \in [Request -> Task] /\ job' \in [Request -> Job]
    BY Steps DEF FindFails, Job
  <1> QED
    BY <1>2, <1>3 DEF FindFails, TypeOK, Exists

LEMMA StatementKeepsTypes ==
  ASSUME TypeOK, NEW r \in Request, Statement(r)
  PROVE  TypeOK'
  <1> DEFINE t == task[r]
  <1>1. t \in Task /\ rows \in [Id -> Row \cup {New, Gone}]
    BY DEF TypeOK
  <1>2. CASE Update(r)
    <2>1. /\ t.id \in Id /\ t.text \in Text /\ t.featured \in BOOLEAN
          /\ t.featured => t.id \in Quotable
          /\ Write(r, t.id, [text |-> t.text, featured |-> t.featured])
      BY <1>1, <1>2, Tasks DEF Update, Id
    <2> HIDE DEF t
    <2> QED
      BY <2>1, WriteKeepsTypes
  <1>3. CASE DemoteOtherFeatured(r)
    <2>1. t.id \in Quotable /\ t.text \in Text
      BY <1>1, <1>3, Tasks DEF DemoteOtherFeatured
    <2>2. Demoted(t.id) \in [Id -> Row \cup {New, Gone}]
      BY <1>1 DEF Demoted, Exists, Row
    <2>3. \A id \in Id \ Quotable : Demoted(t.id)[id] = rows[id]
      BY DEF Demoted
    <2>4. [pc |-> "find", id |-> t.id, text |-> t.text, next |-> 1] \in Job
      BY <2>1, Apart, Languages DEF Job, Id
    <2>5. /\ rows' = Demoted(t.id) /\ UNCHANGED <<stored, files>>
          /\ job' = [job EXCEPT ![r] = [pc |-> "find", id |-> t.id, text |-> t.text, next |-> 1]]
          /\ task' = [task EXCEPT ![r] = [pc |-> "reply"]] /\ halted' = {}
      BY <1>3 DEF DemoteOtherFeatured, Goto, Fired
    <2> HIDE DEF t
    <2>6. job' \in [Request -> Job] /\ task' \in [Request -> Task]
      BY <2>4, <2>5, Steps DEF TypeOK
    <2>7. \A id \in Id \ Quotable : Exists(id)' => ~rows'[id].featured
      BY <2>3, <2>5 DEF TypeOK, Exists
    <2> QED
      BY <2>2, <2>5, <2>6, <2>7 DEF TypeOK
  <1>4. CASE Delete(r)
    <2>1. /\ t.id \in Listed \cup Image /\ t.id \in Id
          /\ [pc |-> IF t.id \in Image THEN "remove" ELSE "forget", id |-> t.id] \in Task
      BY <1>1, <1>4, Tasks, Steps DEF Delete, Id
    <2>2. /\ rows' = [rows EXCEPT ![t.id] = Gone]
          /\ Goto(r, [pc |-> IF t.id \in Image THEN "remove" ELSE "forget", id |-> t.id])
          /\ UNCHANGED <<stored, files, job, halted>>
      BY <1>4 DEF Delete
    <2> HIDE DEF t
    <2> QED
      BY <2>1, <2>2, RowChangeKeepsTypes
  <1>5. CASE Reply(r) \/ Load(r)
    BY <1>5, GotoKeepsTypes, Steps DEF Reply, Load, TypeOK
  <1>6. CASE Remove(r)
    BY <1>6, GotoKeepsTypes, Steps DEF Remove, TypeOK
  <1>7. CASE Forget(r)
    <2>1. t.id \in Id
      BY <1>1, <1>7, Tasks DEF Forget, Id
    <2>2. stored' \in [Id -> [Locale -> Translation \cup {New}]]
      BY <1>7, <2>1 DEF Forget, TypeOK
    <2> QED
      BY <1>7, <2>2, Steps DEF Forget, Goto, TypeOK, Exists
  <1>8. CASE Fail(r)
    <2>1. t.pc = "demote" => t.id \in Quotable
      BY <1>1, Tasks
    <2> QED
      BY <1>8, <2>1, GotoKeepsTypes, Steps DEF Fail, TypeOK
  <1>9. ASSUME NEW text \in Text, AddImage(r, text)
        PROVE  TypeOK'
    <2>1. t.id \in Id
      BY <1>1, <1>9, Tasks DEF AddImage, Id
    <2>2. /\ [text |-> text, featured |-> FALSE] \in Row
          /\ ~[text |-> text, featured |-> FALSE].featured
      BY DEF Row
    <2>3. /\ rows' = [rows EXCEPT ![t.id] = [text |-> text, featured |-> FALSE]]
          /\ Goto(r, [pc |-> "reply"])
          /\ UNCHANGED <<stored, files, job, halted>>
      BY <1>9 DEF AddImage
    <2> HIDE DEF t
    <2> QED
      BY <2>1, <2>2, <2>3, RowChangeKeepsTypes, Steps
  <1> QED
    BY <1>2, <1>3, <1>4, <1>5, <1>6, <1>7, <1>8, <1>9 DEF Statement

LEMMA TypeStep == TypeOK /\ [Next]_vars => TypeOK'
  <1> SUFFICES ASSUME TypeOK, [Next]_vars
               PROVE  TypeOK'
    OBVIOUS
  <1>1. CASE UNCHANGED vars
    BY <1>1 DEF vars, TypeOK, Exists
  <1>2. ASSUME NEW r \in Request, Statement(r)
        PROVE  TypeOK'
    BY <1>2, StatementKeepsTypes
  <1>3. ASSUME NEW r \in Request, Find(r) \/ Translate(r) \/ Refuse(r)
        PROVE  TypeOK'
    BY <1>3, JobKeepsTypes
  <1>4. ASSUME NEW r \in Request, NEW id \in Id,
               Upload(r, id) \/ StartDelete(r, id) \/ NotFound(r, id)
        PROVE  TypeOK'
    BY <1>4, GotoKeepsTypes, Steps DEF Upload, StartDelete, NotFound, TypeOK
  <1>5. ASSUME NEW r \in Request, NEW id \in Id, NEW text \in Text, SaveFixed(r, id, text)
        PROVE  TypeOK'
    BY <1>5, WriteKeepsTypes DEF SaveFixed
  <1>6. ASSUME NEW r \in Request, NEW id \in Id, NEW text \in Text, NEW featured \in BOOLEAN,
               Create(r, id, text, featured)
        PROVE  TypeOK'
    BY <1>6, WriteKeepsTypes DEF Create
  <1>7. ASSUME NEW r \in Request, NEW id \in Id, NEW text \in Text, NEW featured \in BOOLEAN,
               StartUpdate(r, id, text, featured)
        PROVE  TypeOK'
    BY <1>7, GotoKeepsTypes, Steps DEF StartUpdate, TypeOK
  <1>8. ASSUME NEW r \in Request, NEW id \in Id, NEW locale \in Locale \cup {Source},
               List(r, id, locale)
        PROVE  TypeOK'
    <2>1. rows[id].text \in Text
      BY <1>8 DEF List, Exists, TypeOK, Row
    <2> QED
      BY <1>8, <2>1, GotoKeepsTypes, Steps DEF List, TypeOK
  <1>9. ASSUME NEW r \in Request, FindFails(r)
        PROVE  TypeOK'
    BY <1>9, EndKeepsTypes
  <1> QED
    BY <1>1, <1>2, <1>3, <1>4, <1>5, <1>6, <1>7, <1>8, <1>9 DEF Next

\* Rows, translations, tasks and jobs stay well formed.
THEOREM TypeCorrect == Spec => []TypeOK
  BY TypeInit, TypeStep, PTL DEF Spec

-----------------------------------------------------------------------------
(* What a guest reads *)

\* A stored translation is of the text whose hash it carries.
TrueCopies ==
  \A id \in Id, l \in Locale :
      stored[id][l] # New => stored[id][l].of = stored[id][l].hash

LEMMA CopiesStep == TypeOK /\ TrueCopies /\ [Next]_vars => TrueCopies'
  <1> SUFFICES ASSUME TypeOK, TrueCopies, [Next]_vars
               PROVE  TrueCopies'
    OBVIOUS
  <1>1. CASE UNCHANGED stored
    BY <1>1 DEF TrueCopies
  <1>2. ASSUME NEW r \in Request, Forget(r)
        PROVE  TrueCopies'
    BY <1>2 DEF Forget, TrueCopies, TypeOK
  <1>3. ASSUME NEW r \in Request, Translate(r)
        PROVE  TrueCopies'
    <2> DEFINE i == job[r].id
               l == Target[job[r].next]
               made == Translated(job[r])
    <2>1. /\ stored' = [stored EXCEPT ![i][l] = made]
          /\ made.of = made.hash
      BY <1>3 DEF Translate, Translated
    <2>2. i \in Id /\ l \in Locale
      BY <1>3, Jobs, Languages DEF Translate, TypeOK
    <2> HIDE DEF i, l, made
    <2>3. \A id \in Id, k \in Locale :
              stored'[id][k] = IF id = i /\ k = l THEN made ELSE stored[id][k]
      BY <2>1, <2>2 DEF TypeOK
    <2> QED
      BY <2>1, <2>3 DEF TrueCopies
  <1>4. [Next]_vars => \/ UNCHANGED stored
                      \/ \E r \in Request : Forget(r) \/ Translate(r)
    BY DEF Next, vars, Statement, Update, DemoteOtherFeatured, Reply, Delete, Remove, Fail,
           Load, AddImage, Find, FindFails, Refuse, Upload, StartDelete, NotFound, SaveFixed, Create,
           StartUpdate, List, Write
  <1> QED
    BY <1>1, <1>2, <1>3, <1>4

LEMMA CopiesAreRead == TypeOK /\ TrueCopies => GuestReadsTheSource
  <1> SUFFICES ASSUME TypeOK, TrueCopies, NEW r \in Request, task[r].pc = "load"
               PROVE  Read(task[r]) = task[r].text
    BY DEF GuestReadsTheSource
  <1>1. task[r].id \in Id /\ task[r].locale \in Locale \cup {Source}
    BY Tasks DEF TypeOK
  <1> QED
    BY <1>1 DEF Read, Localize, TrueCopies

\* Whatever the languages and however the saves, the translations and the
\* page's two queries interleave, a guest reads the listed text.
THEOREM ReadersGetTheSource == Spec => []GuestReadsTheSource
  <1>1. Init => TrueCopies
    BY DEF Init, TrueCopies
  <1> QED
    BY <1>1, CopiesStep, CopiesAreRead, TypeCorrect, PTL DEF Spec

-----------------------------------------------------------------------------
(* The big quote *)

LEMMA QuoteStep == TypeOK /\ OneQuote /\ [Next]_vars => OneQuote'
  <1> SUFFICES ASSUME TypeOK, OneQuote, [Next]_vars
               PROVE  OneQuote'
    OBVIOUS
  \* A step after which every featured review was featured before, and every
  \* demotion still runs or was cut off.
  <1>1. ASSUME NEW r \in Request, NEW t, Goto(r, t), task[r].pc # "demote", UNCHANGED halted,
               \A q \in Quotable : Exists(q)' /\ rows'[q].featured => Exists(q) /\ rows[q].featured
        PROVE  OneQuote'
    BY <1>1 DEF OneQuote, Goto, TypeOK
  <1>2. CASE UNCHANGED <<rows, task, halted>>
    BY <1>2 DEF OneQuote, Exists
  <1>3. ASSUME NEW r \in Request, NEW id \in Id, NEW row \in Row, task[r].pc # "demote",
               Write(r, id, row)
        PROVE  OneQuote'
    <2>1. rows' = [rows EXCEPT ![id] = row] /\ UNCHANGED halted
      BY <1>3 DEF Write
    <2>2. CASE ~row.featured
      <3>1. Goto(r, [pc |-> "reply"])
        BY <1>3, <2>2 DEF Write, AfterSave
      <3> QED
        BY <1>1, <1>3, <2>1, <2>2, <3>1 DEF Exists, TypeOK
    <2>3. CASE row.featured
      <3>1. task' = [task EXCEPT ![r] = [pc |-> "demote", id |-> id, text |-> row.text]]
        BY <1>3, <2>3 DEF Write, AfterSave, Goto
      <3>2. task'[r].pc = "demote" /\ task'[r].id = id
        BY <3>1 DEF TypeOK
      <3>3. \A q \in Request \ {r} : task'[q] = task[q]
        BY <3>1 DEF TypeOK
      <3>4. SUFFICES ASSUME NEW p \in Quotable \ {id}, NEW q \in Quotable \ {id}, p # q,
                            Exists(p)', Exists(q)', rows'[p].featured, rows'[q].featured
                     PROVE  \/ {p, q} \cap halted # {}
                            \/ \E s \in Request : task'[s].pc = "demote" /\ task'[s].id \in {p, q}
        BY <2>1, <3>2 DEF OneQuote
      <3>5. rows'[p] = rows[p] /\ rows'[q] = rows[q]
        BY <2>1, Apart DEF TypeOK, Id
      <3>6. Exists(p) /\ Exists(q) /\ rows[p].featured /\ rows[q].featured
        BY <3>4, <3>5 DEF Exists
      <3>7. CASE {p, q} \cap halted # {}
        BY <3>7
      <3>8. ASSUME NEW s \in Request, task[s].pc = "demote", task[s].id \in {p, q}
            PROVE  task'[s].pc = "demote" /\ task'[s].id \in {p, q}
        BY <1>3, <3>3, <3>8
      <3> QED
        BY <3>6, <3>7, <3>8, <3>4 DEF OneQuote
    <2> QED
      BY <2>2, <2>3 DEF Row
  <1>4. ASSUME NEW r \in Request, DemoteOtherFeatured(r)
        PROVE  OneQuote'
    <2>1. \A q \in Quotable \ {task[r].id} : Exists(q)' => ~rows'[q].featured
      <3>1. rows' = Demoted(task[r].id) /\ Quotable \subseteq Id
        BY <1>4, Apart DEF DemoteOtherFeatured, Id
      <3>2. \A q \in Quotable \ {task[r].id} :
                rows'[q] = IF Exists(q) THEN [rows[q] EXCEPT !.featured = FALSE] ELSE rows[q]
        BY <3>1 DEF Demoted
      <3> QED
        BY <3>1, <3>2 DEF Exists, TypeOK, Row
    <2> QED
      BY <2>1 DEF OneQuote
  <1>5. ASSUME NEW r \in Request, Fail(r)
        PROVE  OneQuote'
    <2>1. CASE task[r].pc = "demote"
      <3>1. /\ halted' = halted \cup {task[r].id} /\ UNCHANGED rows
            /\ task' = [task EXCEPT ![r] = NoTask]
        BY <1>5, <2>1 DEF Fail, Goto
      <3>2. \A q \in Request \ {r} : task'[q] = task[q]
        BY <3>1 DEF TypeOK
      <3> QED
        BY <3>1, <3>2 DEF OneQuote, Exists
    <2>2. CASE task[r].pc # "demote"
      BY <1>1, <1>5, <2>2 DEF Fail, Exists
    <2> QED
      BY <2>1, <2>2
  <1>6. ASSUME NEW r \in Request,
               Update(r) \/ (\E id \in Id, text \in Text : SaveFixed(r, id, text))
                 \/ (\E id \in Id, text \in Text, f \in BOOLEAN : Create(r, id, text, f))
        PROVE  OneQuote'
    <2>1. CASE Update(r)
      <3>1. /\ task[r].id \in Id
            /\ [text |-> task[r].text, featured |-> task[r].featured] \in Row
        BY <2>1, Tasks DEF Update, TypeOK, Id, Row
      <3> QED
        BY <1>3, <2>1, <3>1 DEF Update
    <2>2. ASSUME NEW id \in Id, NEW text \in Text, NEW f \in BOOLEAN,
                 (SaveFixed(r, id, text) /\ f = FALSE) \/ Create(r, id, text, f)
          PROVE  OneQuote'
      <3>1. task[r].pc # "demote"
        BY <2>2 DEF SaveFixed, Create, Starts, NoTask
      <3>2. [text |-> text, featured |-> f] \in Row
        BY DEF Row
      <3>3. Write(r, id, [text |-> text, featured |-> f])
        BY <2>2 DEF SaveFixed, Create
      <3> QED
        BY <1>3, <3>1, <3>2, <3>3
    <2> QED
      BY <1>6, <2>1, <2>2
  <1>7. ASSUME NEW r \in Request,
               \/ Reply(r) \/ Delete(r) \/ Remove(r) \/ Forget(r) \/ Load(r)
               \/ \E text \in Text : AddImage(r, text)
               \/ \E id \in Id : Upload(r, id) \/ StartDelete(r, id) \/ NotFound(r, id)
               \/ \E id \in Id, text \in Text, f \in BOOLEAN : StartUpdate(r, id, text, f)
               \/ \E id \in Id, locale \in Locale \cup {Source} : List(r, id, locale)
        PROVE  OneQuote'
    <2>1. task[r].pc # "demote"
      <3>1. \/ task[r].pc \in {"reply", "delete", "remove", "forget", "load", "upload"}
            \/ task[r] = NoTask
        BY <1>7 DEF Reply, Delete, Remove, Forget, Load, AddImage, Upload, StartDelete, NotFound,
                    StartUpdate, List, Starts
      <3> QED
        BY <3>1 DEF NoTask
    <2>2. UNCHANGED halted
      BY <1>7 DEF Reply, Delete, Remove, Forget, Load, AddImage, Upload, StartDelete, NotFound,
                  StartUpdate, List
    <2>3. \E t : Goto(r, t)
      BY <1>7 DEF Reply, Delete, Remove, Forget, Load, AddImage, Upload, StartDelete, NotFound,
                  StartUpdate, List
    <2>4. \/ UNCHANGED rows
          \/ \E i : rows' = [rows EXCEPT ![i] = Gone]
          \/ \E i, text : rows' = [rows EXCEPT ![i] = [text |-> text, featured |-> FALSE]]
      BY <1>7 DEF Reply, Delete, Remove, Forget, Load, AddImage, Upload, StartDelete, NotFound,
                  StartUpdate, List
    <2>5. ASSUME NEW q \in Quotable, Exists(q)', rows'[q].featured
          PROVE  Exists(q) /\ rows[q].featured
      <3>1. q \in Id /\ rows \in [Id -> Row \cup {New, Gone}]
        BY Apart DEF TypeOK, Id
      <3>2. CASE UNCHANGED rows
        BY <2>5, <3>2 DEF Exists
      <3>3. ASSUME NEW i, rows' = [rows EXCEPT ![i] = Gone]
            PROVE  rows'[q] = rows[q]
        BY <2>5, <3>1, <3>3 DEF Exists
      <3>4. ASSUME NEW i, NEW text,
                   rows' = [rows EXCEPT ![i] = [text |-> text, featured |-> FALSE]]
            PROVE  rows'[q] = rows[q]
        <4>1. CASE i # q
          BY <3>1, <3>4, <4>1
        <4>2. CASE i = q
          <5>1. rows'[q] = [text |-> text, featured |-> FALSE]
            BY <3>1, <3>4, <4>2
          <5> QED
            BY <2>5, <5>1
        <4> QED
          BY <4>1, <4>2
      <3> QED
        BY <2>4, <2>5, <3>2, <3>3, <3>4 DEF Exists
    <2> QED
      BY <1>1, <2>1, <2>2, <2>3, <2>5
  <1>8. ASSUME NEW r \in Request, FindFails(r)
        PROVE  OneQuote'
    <2>1. /\ UNCHANGED rows /\ halted \subseteq halted'
          /\ \A s \in Request : task[s].pc = "demote" => task[s].id \in halted'
      BY <1>8 DEF FindFails
    <2> QED
      BY <2>1 DEF OneQuote, Exists
  <1> QED
    BY <1>2, <1>4, <1>5, <1>6, <1>7, <1>8
    DEF Next, vars, Statement, Find, Translate, Refuse

\* Two reviews are featured only while a demotion runs or was cut off, for
\* every number of reviews and of requests.  Nothing ends a cut-off one but the
\* next promotion, and two promotions at once may leave no review featured.
THEOREM ASecondQuoteIsUnfinished == Spec => []OneQuote
  <1>1. Init => OneQuote
    BY Apart DEF Init, OneQuote, Exists, Id
  <1> QED
    BY <1>1, QuoteStep, TypeCorrect, PTL DEF Spec

-----------------------------------------------------------------------------
(* The gallery's files *)

\* Why the gallery's rows keep their files: an upload has put its own file and
\* not yet written its row, and a file is removed once its row is gone for good.
FilesTrail ==
  /\ RowsHaveFiles
  /\ \A r \in Request : task[r].pc = "upload" => task[r].id \in files /\ rows[task[r].id] = New
  /\ \A r, s \in Request :
        task[r].pc = "upload" /\ task[s].pc = "upload" /\ task[r].id = task[s].id => r = s
  /\ \A r \in Request : task[r].pc = "remove" => rows[task[r].id] = Gone

\* The requests at work on a file are at work on an image.
LEMMA OfImages ==
  TypeOK => /\ \A r \in Request : task[r].pc \in {"upload", "remove"} => task[r].id \in Image
            /\ Image \subseteq Id
  BY Tasks DEF TypeOK, Id

\* A step that leaves the files, and what images there are, alone.
LEMMA TrailKept ==
  ASSUME TypeOK, FilesTrail, NEW r \in Request, NEW t, Goto(r, t),
         t.pc \notin {"upload", "remove"}, UNCHANGED files,
         \A id \in Image : rows'[id] = rows[id] \/ (Exists(id) /\ Exists(id)')
  PROVE  FilesTrail'
  <1>1. /\ task'[r] = t
        /\ \A s \in Request \ {r} : task'[s] = task[s]
    BY DEF Goto, TypeOK
  <1>2. \A s \in Request : task'[s].pc \in {"upload", "remove"} => s # r /\ task'[s] = task[s]
    BY <1>1
  <1>3. RowsHaveFiles'
    BY DEF FilesTrail, RowsHaveFiles, Exists
  <1>4. \A s \in Request : task'[s].pc = "upload" =>
            task'[s].id \in files' /\ rows'[task'[s].id] = New
    BY <1>2, OfImages DEF FilesTrail, Exists
  <1>5. \A s, u \in Request :
            task'[s].pc = "upload" /\ task'[u].pc = "upload" /\ task'[s].id = task'[u].id => s = u
    BY <1>2 DEF FilesTrail
  <1>6. \A s \in Request : task'[s].pc = "remove" => rows'[task'[s].id] = Gone
    BY <1>2, OfImages DEF FilesTrail, Exists
  <1> QED
    BY <1>3, <1>4, <1>5, <1>6 DEF FilesTrail

\* A save writes no image that was not there.
LEMMA TrailWrite ==
  ASSUME TypeOK, FilesTrail, NEW r \in Request, NEW id \in Id, NEW row \in Row,
         id \notin Image \/ Exists(id), Write(r, id, row)
  PROVE  FilesTrail'
  <1>1. rows' = [rows EXCEPT ![id] = row] /\ UNCHANGED files
    BY DEF Write
  <1>2. PICK t : Goto(r, t) /\ t.pc \notin {"upload", "remove"}
    <2>1. CASE row.featured
      <3>1. Goto(r, [pc |-> "demote", id |-> id, text |-> row.text])
        BY <2>1 DEF Write, AfterSave
      <3> QED
        BY <3>1
    <2>2. CASE ~row.featured
      <3>1. Goto(r, [pc |-> "reply"])
        BY <2>2 DEF Write, AfterSave
      <3> QED
        BY <3>1
    <2> QED
      BY <2>1, <2>2
  <1>3. \A i \in Image : rows'[i] = rows[i] \/ (Exists(i) /\ Exists(i)')
    BY <1>1, OfImages, Apart DEF TypeOK, Exists
  <1> QED
    BY <1>1, <1>2, <1>3, TrailKept

LEMMA TrailStep == TypeOK /\ FilesTrail /\ [Next]_vars => FilesTrail'
  <1> SUFFICES ASSUME TypeOK, FilesTrail, [Next]_vars
               PROVE  FilesTrail'
    OBVIOUS
  <1>1. CASE UNCHANGED <<rows, files, task>>
    BY <1>1 DEF FilesTrail, RowsHaveFiles, Exists
  <1>2. ASSUME NEW r \in Request,
               \/ Reply(r) \/ Forget(r) \/ Fail(r) \/ Load(r)
               \/ \E id \in Id : StartDelete(r, id) \/ NotFound(r, id)
               \/ \E id \in Id, text \in Text, f \in BOOLEAN : StartUpdate(r, id, text, f)
               \/ \E id \in Id, locale \in Locale \cup {Source} : List(r, id, locale)
        PROVE  FilesTrail'
    <2>1. UNCHANGED <<rows, files>>
      BY <1>2 DEF Reply, Forget, Fail, Load, StartDelete, NotFound, StartUpdate, List
    <2>2. PICK t : Goto(r, t) /\ t.pc \notin {"upload", "remove"}
      <3>1. CASE Reply(r) \/ Fail(r) \/ Load(r)
        <4>1. Goto(r, NoTask) /\ NoTask.pc = "idle"
          BY <3>1 DEF Reply, Fail, Load, NoTask
        <4> QED
          BY <4>1
      <3>2. CASE Forget(r) \/ \E id \in Id : NotFound(r, id)
        <4>1. Goto(r, [pc |-> "reply"])
          BY <3>2 DEF Forget, NotFound
        <4> QED
          BY <4>1
      <3>3. ASSUME NEW id \in Id, StartDelete(r, id)
            PROVE  \E t : Goto(r, t) /\ t.pc \notin {"upload", "remove"}
        <4>1. Goto(r, [pc |-> "delete", id |-> id])
          BY <3>3 DEF StartDelete
        <4> QED
          BY <4>1
      <3>4. ASSUME NEW id \in Id, NEW text \in Text, NEW f \in BOOLEAN,
                   StartUpdate(r, id, text, f)
            PROVE  \E t : Goto(r, t) /\ t.pc \notin {"upload", "remove"}
        <4>1. Goto(r, [pc |-> "update", id |-> id, text |-> text, featured |-> f])
          BY <3>4 DEF StartUpdate
        <4> QED
          BY <4>1
      <3>5. ASSUME NEW id \in Id, NEW locale \in Locale \cup {Source}, List(r, id, locale)
            PROVE  \E t : Goto(r, t) /\ t.pc \notin {"upload", "remove"}
        <4>1. Goto(r, [pc |-> "load", id |-> id, locale |-> locale, text |-> rows[id].text])
          BY <3>5 DEF List
        <4> QED
          BY <4>1
      <3> QED
        BY <1>2, <3>1, <3>2, <3>3, <3>4, <3>5
    <2> QED
      BY <2>1, <2>2, TrailKept
  <1>3. ASSUME NEW r \in Request, DemoteOtherFeatured(r)
        PROVE  FilesTrail'
    <2>1. \A i \in Image : rows'[i] = rows[i]
      BY <1>3, Apart, OfImages DEF DemoteOtherFeatured, Demoted
    <2>2. Goto(r, [pc |-> "reply"]) /\ UNCHANGED files
      BY <1>3 DEF DemoteOtherFeatured
    <2> QED
      BY <2>1, <2>2, TrailKept
  <1>4. ASSUME NEW r \in Request, Update(r)
        PROVE  FilesTrail'
    <2>1. /\ task[r].id \in Id
          /\ [text |-> task[r].text, featured |-> task[r].featured] \in Row
      BY <1>4, Tasks DEF Update, TypeOK, Id, Row
    <2> QED
      BY <1>4, <2>1, TrailWrite DEF Update
  <1>5. ASSUME NEW r \in Request, NEW id \in Id, NEW text \in Text, NEW f \in BOOLEAN,
               (SaveFixed(r, id, text) /\ f = FALSE) \/ Create(r, id, text, f)
        PROVE  FilesTrail'
    <2>1. [text |-> text, featured |-> f] \in Row
      BY DEF Row
    <2>2. id \notin Image /\ Write(r, id, [text |-> text, featured |-> f])
      BY <1>5, Apart DEF SaveFixed, Create
    <2> QED
      BY <2>1, <2>2, TrailWrite
  <1>6. ASSUME NEW r \in Request, NEW id \in Id, Upload(r, id)
        PROVE  FilesTrail'
    <2>1. /\ id \in Image /\ rows[id] = New /\ id \notin files
          /\ UNCHANGED rows /\ files' = files \cup {id}
      BY <1>6 DEF Upload
    <2>2. /\ task'[r] = [pc |-> "upload", id |-> id]
          /\ \A s \in Request \ {r} : task'[s] = task[s]
      BY <1>6 DEF Upload, Goto, TypeOK
    <2>3. RowsHaveFiles'
      BY <2>1 DEF FilesTrail, RowsHaveFiles, Exists
    <2>4. \A s \in Request : task'[s].pc = "upload" =>
              task'[s].id \in files' /\ rows'[task'[s].id] = New
      BY <2>1, <2>2 DEF FilesTrail
    <2>5. \A s, u \in Request :
              task'[s].pc = "upload" /\ task'[u].pc = "upload" /\ task'[s].id = task'[u].id => s = u
      BY <2>1, <2>2 DEF FilesTrail
    <2>6. \A s \in Request : task'[s].pc = "remove" => rows'[task'[s].id] = Gone
      BY <2>1, <2>2 DEF FilesTrail
    <2> QED
      BY <2>3, <2>4, <2>5, <2>6 DEF FilesTrail
  <1>7. ASSUME NEW r \in Request, NEW text \in Text, AddImage(r, text)
        PROVE  FilesTrail'
    <2> DEFINE id == task[r].id
    <2>1. /\ task[r].pc = "upload" /\ UNCHANGED files
          /\ rows' = [rows EXCEPT ![id] = [text |-> text, featured |-> FALSE]]
      BY <1>7 DEF AddImage
    <2>2. id \in Image /\ id \in files /\ rows[id] = New /\ id \in Id
      BY <2>1, OfImages DEF FilesTrail
    <2> HIDE DEF id
    <2>3. /\ task'[r] = [pc |-> "reply"]
          /\ \A s \in Request \ {r} : task'[s] = task[s]
      BY <1>7 DEF AddImage, Goto, TypeOK
    <2>4. \A i \in Id \ {id} : rows'[i] = rows[i]
      BY <2>1, <2>2 DEF TypeOK
    <2>5. RowsHaveFiles'
      BY <2>1, <2>2, <2>4, OfImages DEF FilesTrail, RowsHaveFiles, Exists
    <2>6. \A s \in Request \ {r} : task[s].pc \in {"upload", "remove"} => task[s].id \in Id \ {id}
      BY <2>1, <2>2, OfImages, Apart DEF FilesTrail, id
    <2>7. \A s \in Request : task'[s].pc = "upload" =>
              task'[s].id \in files' /\ rows'[task'[s].id] = New
      BY <2>1, <2>3, <2>4, <2>6 DEF FilesTrail
    <2>8. \A s, u \in Request :
              task'[s].pc = "upload" /\ task'[u].pc = "upload" /\ task'[s].id = task'[u].id => s = u
      BY <2>3 DEF FilesTrail
    <2>9. \A s \in Request : task'[s].pc = "remove" => rows'[task'[s].id] = Gone
      BY <2>3, <2>4, <2>6 DEF FilesTrail
    <2> QED
      BY <2>5, <2>7, <2>8, <2>9 DEF FilesTrail
  <1>8. ASSUME NEW r \in Request, Delete(r)
        PROVE  FilesTrail'
    <2> DEFINE id == task[r].id
    <2>1. /\ Exists(id) /\ UNCHANGED files
          /\ rows' = [rows EXCEPT ![id] = Gone]
      BY <1>8 DEF Delete
    <2>2. id \in Id
      BY <1>8, Tasks DEF Delete, TypeOK, Id
    <2>3. /\ task'[r] = [pc |-> IF id \in Image THEN "remove" ELSE "forget", id |-> id]
          /\ \A s \in Request \ {r} : task'[s] = task[s]
      BY <1>8 DEF Delete, Goto, TypeOK
    <2> HIDE DEF id
    <2>4. rows'[id] = Gone /\ \A i \in Id \ {id} : rows'[i] = rows[i]
      BY <2>1, <2>2 DEF TypeOK
    <2>5. RowsHaveFiles'
      BY <2>1, <2>4, OfImages DEF FilesTrail, RowsHaveFiles, Exists
    <2>6. \A s \in Request \ {r} : task[s].pc \in {"upload", "remove"} => task[s].id \in Id \ {id}
      BY <2>1, OfImages DEF FilesTrail, Exists
    <2>7. task'[r].pc # "upload" /\ task'[r].id = id
      BY <2>3
    <2>8. \A s \in Request : task'[s].pc = "upload" =>
              task'[s].id \in files' /\ rows'[task'[s].id] = New
      BY <2>1, <2>3, <2>4, <2>6, <2>7 DEF FilesTrail
    <2>9. \A s, u \in Request :
              task'[s].pc = "upload" /\ task'[u].pc = "upload" /\ task'[s].id = task'[u].id => s = u
      BY <2>3, <2>7 DEF FilesTrail
    <2>10. \A s \in Request : task'[s].pc = "remove" => rows'[task'[s].id] = Gone
      BY <2>3, <2>4, <2>6, <2>7 DEF FilesTrail
    <2> QED
      BY <2>5, <2>8, <2>9, <2>10 DEF FilesTrail
  <1>9. ASSUME NEW r \in Request, Remove(r)
        PROVE  FilesTrail'
    <2> DEFINE id == task[r].id
    <2>1. /\ task[r].pc = "remove" /\ UNCHANGED rows
          /\ files' \in {files \ {id}, files}
      BY <1>9 DEF Remove
    <2>2. id \in Image /\ rows[id] = Gone
      BY <2>1, OfImages DEF FilesTrail
    <2> HIDE DEF id
    <2>3. /\ task'[r] = [pc |-> "reply"]
          /\ \A s \in Request \ {r} : task'[s] = task[s]
      BY <1>9 DEF Remove, Goto, TypeOK
    <2>4. RowsHaveFiles'
      BY <2>1, <2>2 DEF FilesTrail, RowsHaveFiles, Exists
    <2>5. \A s \in Request : task'[s].pc = "upload" =>
              task'[s].id \in files' /\ rows'[task'[s].id] = New
      BY <2>1, <2>2, <2>3, Apart DEF FilesTrail
    <2>6. \A s, u \in Request :
              task'[s].pc = "upload" /\ task'[u].pc = "upload" /\ task'[s].id = task'[u].id => s = u
      BY <2>3 DEF FilesTrail
    <2>7. \A s \in Request : task'[s].pc = "remove" => rows'[task'[s].id] = Gone
      BY <2>1, <2>3 DEF FilesTrail
    <2> QED
      BY <2>4, <2>5, <2>6, <2>7 DEF FilesTrail
  <1>10. ASSUME NEW r \in Request, FindFails(r)
         PROVE  FilesTrail'
    <2>1. UNCHANGED <<rows, files>> /\ \A s \in Request : task'[s] = NoTask
      BY <1>10 DEF FindFails
    <2> QED
      BY <2>1 DEF FilesTrail, RowsHaveFiles, Exists, NoTask
  <1> QED
    BY <1>1, <1>2, <1>3, <1>4, <1>5, <1>6, <1>7, <1>8, <1>9, <1>10
    DEF Next, vars, Statement, Find, Translate, Refuse

\* Every row of the gallery has its file, for every number of images and of
\* requests and whichever statement fails.
THEOREM GalleryHasItsFiles == Spec => []RowsHaveFiles
  <1>1. Init => FilesTrail
    BY OfImages, TypeInit DEF Init, FilesTrail, RowsHaveFiles, Exists, NoTask
  <1>2. FilesTrail => RowsHaveFiles
    BY DEF FilesTrail
  <1> QED
    BY <1>1, <1>2, TrailStep, TypeCorrect, PTL DEF Spec

=============================================================================

--------------------------- MODULE Notifications ---------------------------
(***************************************************************************)
(* Who is told what, and over which channel: the alerts to the host and    *)
(* the mails to the guest that follow a change already made.               *)
(*                                                                         *)
(* A job is the tail of one operation: its notices in order, each awaited. *)
(* An alert goes to all its destinations at once.  Wording, languages and  *)
(* the health check of Meta's token are left out.  The providers are       *)
(* outside: each call is accepted, refused or cannot be made, and the      *)
(* answer to one that was accepted may be lost.                            *)
(***************************************************************************)
EXTENDS Sequences, Integers

CONSTANTS
    Job,        \* the operations that may be notifying together
    Deploy,     \* the credentials a deployment may have
    Setting     \* the notification settings the host may save

Channel == {"Email", "Twilio", "Meta", "Telegram"}

Alert == {"booking", "cancellation", "change", "message"}

ASSUME NotificationsAssumption ==
    /\ \A d \in Deploy :
          d \in [mail : BOOLEAN, twilio : BOOLEAN, meta : BOOLEAN,
                 telegram : BOOLEAN, text : BOOLEAN, document : BOOLEAN]
    /\ \A s \in Setting :
          s \in [on : SUBSET Alert, email : BOOLEAN, number : BOOLEAN,
                 chat : BOOLEAN, provider : {"Twilio", "Meta"}]

VARIABLES
    deploy,     \* the environment of the process
    settings,   \* the SiteSettings row
    job,        \* how far each operation is with its notices
    log,        \* what was logged of each notice and destination
    accepted    \* what a provider took: the message, and in what form

vars == <<deploy, settings, job, log, accepted>>

-----------------------------------------------------------------------------
(* What each operation says, to whom and in which order *)

ToHost(event) == [to |-> "host", event |-> event, force |-> FALSE, throws |-> FALSE]

\* The host's switches do not silence it: it is a task, not information.
ToHostAlways(event) == [ToHost(event) EXCEPT !.force = TRUE]

ToGuest == [to |-> "guest", event |-> "mail", force |-> FALSE, throws |-> FALSE]

\* guestChange() is the one mail without a catch of its own.
ToGuestUncaught == [ToGuest EXCEPT !.throws = TRUE]

\* A slip: the mail of a cancellation has no catch either.
NoticesUncaught(kind) ==
    CASE kind = "confirmed" -> <<ToHost("booking"), ToGuest>>
      [] kind = "cancelled" -> <<ToHost("cancellation"), ToGuestUncaught>>
      [] OTHER -> <<ToGuest>>

Notices(kind) ==
    CASE kind = "confirmed" -> <<ToHost("booking"), ToGuest>>
      [] kind = "conflict"  -> <<ToHostAlways("booking")>>
      [] kind = "changed"   -> <<ToHost("change"), ToGuestUncaught>>
      [] kind = "cancelled" -> <<ToHost("cancellation"), ToGuest>>
      [] kind = "refunded"  -> <<ToGuest, ToHost("cancellation")>>
      [] kind = "message"   -> <<ToHost("message")>>
      [] kind \in {"manual", "released"} -> <<ToGuest>>

Kind == {"confirmed", "conflict", "changed", "cancelled", "refunded",
         "message", "manual", "released"}

Notice(j) == Notices(job[j].kind)[job[j].done + 1]

-----------------------------------------------------------------------------
(* Where an alert goes *)

\* The addresses that are filled in, whose channel has its credentials.  Only
\* the WhatsApp provider the host picked counts.
Reachable(s) ==
    (IF s.email THEN {"Email"} ELSE {})
      \cup (IF s.number /\ s.provider = "Twilio" /\ deploy.twilio THEN {"Twilio"} ELSE {})
      \cup (IF s.number /\ s.provider = "Meta" /\ deploy.meta THEN {"Meta"} ELSE {})
      \cup (IF s.chat /\ deploy.telegram THEN {"Telegram"} ELSE {})

\* A slip: every alert obeys the switch.
DestinationsSwitched(s, notice) ==
    IF notice.event \in s.on THEN Reachable(s) ELSE {}

DestinationsFor(s, notice) ==
    IF notice.force \/ notice.event \in s.on THEN Reachable(s) ELSE {}

\* A slip: the file always comes along.
CarriesFilesAlways == TRUE

\* Meta: a file goes out when a template carries it, or when there is no text
\* template for it to displace.
CarriesFiles == deploy.document \/ ~deploy.text

\* What the first call to a channel carries.  A caption that would be cut is
\* sent as a text and then the document.
FirstStep(c, file, long) ==
    CASE c = "Meta" /\ file /\ CarriesFiles -> "upload"
      [] c = "Telegram" /\ file /\ long     -> "text"
      [] OTHER                              -> "post"

\* A template arrives at any hour; the rest only while the host wrote lately.
MetaForm(uploaded) ==
    IF uploaded THEN (IF deploy.document THEN "template" ELSE "freeform")
    ELSE IF deploy.text THEN "template" ELSE "freeform"

-----------------------------------------------------------------------------
(* Jobs *)

NoJob == [stage |-> "none", kind |-> "none", done |-> 0, file |-> FALSE, long |-> FALSE]

Init ==
    /\ deploy \in Deploy
    /\ settings \in Setting
    /\ job = [j \in Job |-> NoJob]
    /\ log = {} /\ accepted = {}

Entry(j, c, says) == [j |-> j, n |-> job[j].done + 1, c |-> c, says |-> says]

Took(j, c, form) == [j |-> j, n |-> job[j].done + 1, c |-> c, form |-> form]

Step(j, t) == job' = [job EXCEPT ![j] = t]

\* One notice is dealt with, and the next one begins, if there is one.
NextNotice(j) ==
    LET t == [stage |-> "notice", kind |-> job[j].kind, done |-> job[j].done + 1,
              file |-> job[j].file, long |-> job[j].long]
    IN Step(j, IF t.done = Len(Notices(t.kind)) THEN [t EXCEPT !.stage = "finished"] ELSE t)

Fail(j) == Step(j, [job[j] EXCEPT !.stage = "failed"])

\* The operation is done and committed.  The booking's PDF may not render,
\* and only the alert of a new booking has one.
Start(j) ==
    /\ job[j] = NoJob
    /\ \E kind \in Kind, file, long \in BOOLEAN :
          /\ file => kind = "confirmed"
          /\ long => file
          /\ Step(j, [stage |-> "notice", kind |-> kind, done |-> 0,
                      file |-> file, long |-> long])
    /\ UNCHANGED <<deploy, settings, log, accepted>>

\* destinationsFor(), and the calls of deliver() begin together.
Resolve(j) ==
    /\ job[j].stage = "notice" /\ Notice(j).to = "host"
    /\ LET to == DestinationsFor(settings, Notice(j)) IN
       IF to = {} THEN NextNotice(j)
       ELSE Step(j, [stage |-> "deliver", kind |-> job[j].kind, done |-> job[j].done,
                     file |-> job[j].file, long |-> job[j].long,
                     calls |-> [c \in to |-> FirstStep(c, job[j].file, job[j].long)]])
    /\ UNCHANGED <<deploy, settings, log, accepted>>

\* The settings cannot be read, and nobody catches it.
ResolveFails(j) ==
    /\ job[j].stage = "notice" /\ Notice(j).to = "host"
    /\ Fail(j)
    /\ UNCHANGED <<deploy, settings, log, accepted>>

\* A slip: one channel that throws is the end of the delivery.
CallEndsAll(j, c, says) ==
    LET left == DOMAIN job[j].calls \ {c} IN
    /\ log' = log \cup {Entry(j, c, says)}
    /\ IF says = "could not send" THEN Fail(j)
       ELSE IF left = {} THEN NextNotice(j)
       ELSE Step(j, [job[j] EXCEPT !.calls = [d \in left |-> job[j].calls[d]]])

\* A channel is through.  deliver() waits for all of them.
CallEnds(j, c, says) ==
    LET left == DOMAIN job[j].calls \ {c} IN
    /\ log' = log \cup {Entry(j, c, says)}
    /\ IF left = {} THEN NextNotice(j)
       ELSE Step(j, [job[j] EXCEPT !.calls = [d \in left |-> job[j].calls[d]]])

Calling(j, c) == job[j].stage = "deliver" /\ c \in DOMAIN job[j].calls

\* The file is with Meta, or the text is with Telegram, and the message or the
\* document is next.
FirstHalf(j, c) ==
    /\ Calling(j, c) /\ job[j].calls[c] \in {"upload", "text"}
    /\ Step(j, [job[j] EXCEPT !.calls[c] = IF @ = "upload" THEN "attach" ELSE "document"])
    /\ accepted' = IF c = "Telegram" THEN accepted \cup {Took(j, c, "freeform")} ELSE accepted
    /\ UNCHANGED <<deploy, settings, log>>

Form(j, c) == IF c = "Meta" THEN MetaForm(job[j].calls[c] = "attach") ELSE "freeform"

\* The provider takes the message and says so.  The mail has to have a key.
Accept(j, c) ==
    /\ Calling(j, c) /\ job[j].calls[c] \notin {"upload", "text"}
    /\ c = "Email" => deploy.mail
    /\ accepted' = accepted \cup {Took(j, c, Form(j, c))}
    /\ CallEnds(j, c, "Sent")
    /\ UNCHANGED <<deploy, settings>>

\* The provider takes it, and its answer does not arrive: fetch throws, as it
\* does when nothing was taken.
AnswerLost(j, c) ==
    /\ Calling(j, c) /\ job[j].calls[c] # "upload"
    /\ c = "Email" => deploy.mail
    /\ accepted' = accepted \cup {Took(j, c, Form(j, c))}
    /\ CallEnds(j, c, "could not send")
    /\ UNCHANGED <<deploy, settings>>

\* A slip: a mail that was not sent counts as sent.
MailSaysSent == "Sent"

\* MailService.send without a key, or refused by the provider.
MailSays == "not delivered"

\* Nothing was taken.  Another channel throws, and so does a mail that cannot
\* be handed over.
Refuse(j, c) ==
    /\ Calling(j, c)
    /\ \/ c = "Email" /\ CallEnds(j, c, MailSays)
       \/ (c = "Email" => deploy.mail) /\ CallEnds(j, c, "could not send")
    /\ UNCHANGED <<deploy, settings, accepted>>

\* A mail to the guest.
MailAccepted(j) ==
    /\ job[j].stage = "notice" /\ Notice(j).to = "guest"
    /\ deploy.mail
    /\ log' = log \cup {Entry(j, "Email", "Sent")}
    /\ accepted' = accepted \cup {Took(j, "Email", "freeform")}
    /\ NextNotice(j)
    /\ UNCHANGED <<deploy, settings>>

MailRefused(j) ==
    /\ job[j].stage = "notice" /\ Notice(j).to = "guest"
    /\ log' = log \cup {Entry(j, "Email", MailSays)}
    /\ NextNotice(j)
    /\ UNCHANGED <<deploy, settings, accepted>>

\* The call throws: the provider could not be reached, or it took the mail and
\* its answer was lost.  Logged, but for guestChange(), which throws in turn.
MailThrows(j) ==
    /\ job[j].stage = "notice" /\ Notice(j).to = "guest"
    /\ deploy.mail
    /\ \E taken \in SUBSET {Took(j, "Email", "freeform")} :
          accepted' = accepted \cup taken
    /\ IF Notice(j).throws
       THEN Fail(j) /\ UNCHANGED log
       ELSE NextNotice(j) /\ log' = log \cup {Entry(j, "Email", "could not send")}
    /\ UNCHANGED <<deploy, settings>>

\* The host saves other settings at any moment, but not the environment.
SaveSettings ==
    /\ settings' \in Setting
    /\ UNCHANGED <<deploy, job, log, accepted>>

\* The process stops.
Stop(j) ==
    /\ job[j].stage \in {"notice", "deliver"}
    /\ Step(j, [job[j] EXCEPT !.stage = "stopped"])
    /\ UNCHANGED <<deploy, settings, log, accepted>>

Next ==
    \/ \E j \in Job :
          \/ Start(j) \/ Resolve(j) \/ ResolveFails(j)
          \/ MailAccepted(j) \/ MailRefused(j) \/ MailThrows(j) \/ Stop(j)
          \/ \E c \in Channel :
             \/ FirstHalf(j, c) \/ Accept(j, c) \/ AnswerLost(j, c) \/ Refuse(j, c)
    \/ SaveSettings

Fairness ==
    \A j \in Job :
        /\ WF_vars(Resolve(j) \/ ResolveFails(j))
        /\ WF_vars(MailAccepted(j) \/ MailRefused(j) \/ MailThrows(j))
        /\ \A c \in Channel :
              WF_vars(FirstHalf(j, c) \/ Accept(j, c) \/ AnswerLost(j, c) \/ Refuse(j, c))

Spec == Init /\ [][Next]_vars /\ Fairness

-----------------------------------------------------------------------------
(* Properties *)

\* The calls under way, each at its step.
Calls == UNION {[to -> {"upload", "attach", "text", "document", "post"}] :
                   to \in (SUBSET Channel) \ {{}}}

Operation ==
    [stage : {"none", "notice", "finished", "failed", "stopped"},
     kind : Kind \cup {"none"}, done : 0..2, file : BOOLEAN, long : BOOLEAN]
    \cup [stage : {"deliver", "failed", "stopped"},
          kind : Kind, done : 0..1, file : BOOLEAN, long : BOOLEAN, calls : Calls]

\* Jobs, logs and messages are well formed, and only Meta has a file uploaded
\* to it before the message (TelegramChannel sends it along).
TypeOK ==
    /\ deploy \in Deploy /\ settings \in Setting
    /\ job \in [Job -> Operation]
    /\ \A j \in Job :
          /\ job[j].stage \in {"notice", "deliver"} =>
                /\ job[j].kind \in Kind
                /\ job[j].done < Len(Notices(job[j].kind))
          /\ job[j].stage = "deliver" =>
                \A c \in DOMAIN job[j].calls :
                      /\ job[j].calls[c] \in {"upload", "attach"} => c = "Meta"
                      /\ job[j].calls[c] \in {"text", "document"} => c = "Telegram"
    /\ log \subseteq [j : Job, n : 1..2, c : Channel,
                      says : {"Sent", "not delivered", "could not send"}]
    /\ accepted \subseteq [j : Job, n : 1..2, c : Channel, form : {"template", "freeform"}]

Delivered(l) == \E a \in accepted : a.j = l.j /\ a.n = l.n /\ a.c = l.c

\* The log never claims work nobody did, nor denies work that was done: "Sent"
\* is a message a provider took, and "not delivered" one that no provider took.
\* "Could not send" claims neither: the call threw, and the provider may have
\* taken the message before its answer was lost (MailService.send, deliver).
LogsTellTheTruth ==
    \A l \in log :
        /\ l.says = "Sent" => Delivered(l)
        /\ l.says = "not delivered" => ~Delivered(l)

\* With a text template approved, an alert arrives at any hour, file or no
\* file (carriesFiles: "being told is not" a convenience).
FileNeverCostsTheTemplate ==
    deploy.text => \A a \in accepted : a.c = "Meta" => a.form = "template"

\* A change already made is reported as failed only before any channel of an
\* alert is called, when the settings cannot be read, or by the mail of
\* guestChange, which has no catch: once the calls are under way no provider
\* decides what an operation answers, and neither does any other mail.
NoChannelFailsAnOperation ==
    [][\A j \in Job :
          job[j].stage # "failed" /\ job'[j].stage = "failed" =>
              /\ job[j].stage = "notice"
              /\ Notice(j).to = "host" \/ job[j].kind = "changed"]_vars

\* Money taken for nights that are gone is an alert no switch keeps back: it
\* sets out for every channel that can reach the host at that moment, and only
\* when there is none is it over untold (bookingConflict).  What the channels
\* then make of it, and a process that stops first, are another matter.
ConflictIgnoresSwitches ==
    [][\A j \in Job :
          job[j].kind = "conflict" /\ job[j].stage = "notice" =>
              /\ job'[j].stage = "deliver" => DOMAIN job'[j].calls = Reachable(settings)
              /\ job'[j].stage = "finished" => Reachable(settings) = {}]_vars

\* One channel's failure does not stop another: every destination is tried to
\* the end, and the log says how it went (deliver).
EveryDestinationIsTried ==
    \A j \in Job, c \in Channel :
        Calling(j, c) ~> \/ \E l \in log : l.j = j /\ l.c = c
                        \/ job[j].stage = "stopped"
=============================================================================

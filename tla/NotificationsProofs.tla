------------------------ MODULE NotificationsProofs ------------------------
(***************************************************************************)
(* What Notifications guarantees for every number of operations at once,   *)
(* every deployment and all settings the host may save.                    *)
(***************************************************************************)
EXTENDS Notifications, TLAPS

LEMMA Deployed ==
  ASSUME TypeOK
  PROVE  /\ deploy \in [mail : BOOLEAN, twilio : BOOLEAN, meta : BOOLEAN,
                        telegram : BOOLEAN, text : BOOLEAN, document : BOOLEAN]
         /\ settings \in [on : SUBSET Alert, email : BOOLEAN, number : BOOLEAN,
                          chat : BOOLEAN, provider : {"Twilio", "Meta"}]
  BY NotificationsAssumption DEF TypeOK

\* What each operation says, and to whom.
LEMMA NoticesOf ==
  ASSUME NEW kind \in Kind
  PROVE  /\ Len(Notices(kind)) \in 1..2
         /\ \A i \in 1..Len(Notices(kind)) :
               /\ Notices(kind)[i].to \in {"host", "guest"}
               /\ Notices(kind)[i].throws => kind = "changed"
               /\ kind = "conflict" => Notices(kind)[i].to = "host" /\ Notices(kind)[i].force
  <1>1. /\ ToGuest.to = "guest" /\ ToGuest.throws = FALSE /\ ToGuestUncaught.to = "guest"
        /\ \A e : /\ ToHost(e).to = "host" /\ ToHost(e).throws = FALSE
                  /\ ToHostAlways(e).to = "host" /\ ToHostAlways(e).throws = FALSE
                  /\ ToHostAlways(e).force = TRUE
    BY DEF ToGuest, ToGuestUncaught, ToHost, ToHostAlways
  <1>2. CASE kind = "confirmed"
    <2>1. Notices(kind) = <<ToHost("booking"), ToGuest>>
      BY <1>2 DEF Notices
    <2> QED
      BY <1>1, <1>2, <2>1
  <1>3. CASE kind = "conflict"
    <2>1. Notices(kind) = <<ToHostAlways("booking")>>
      BY <1>3 DEF Notices
    <2> QED
      BY <1>1, <1>3, <2>1
  <1>4. CASE kind = "changed"
    <2>1. Notices(kind) = <<ToHost("change"), ToGuestUncaught>>
      BY <1>4 DEF Notices
    <2> QED
      BY <1>1, <1>4, <2>1
  <1>5. CASE kind = "cancelled"
    <2>1. Notices(kind) = <<ToHost("cancellation"), ToGuest>>
      BY <1>5 DEF Notices
    <2> QED
      BY <1>1, <1>5, <2>1
  <1>6. CASE kind = "refunded"
    <2>1. Notices(kind) = <<ToGuest, ToHost("cancellation")>>
      BY <1>6 DEF Notices
    <2> QED
      BY <1>1, <1>6, <2>1
  <1>7. CASE kind = "message"
    <2>1. Notices(kind) = <<ToHost("message")>>
      BY <1>7 DEF Notices
    <2> QED
      BY <1>1, <1>7, <2>1
  <1>8. CASE kind \in {"manual", "released"}
    <2>1. Notices(kind) = <<ToGuest>>
      BY <1>8 DEF Notices
    <2> QED
      BY <1>1, <1>8, <2>1
  <1> QED
    BY <1>2, <1>3, <1>4, <1>5, <1>6, <1>7, <1>8 DEF Kind

-----------------------------------------------------------------------------
(* Type correctness *)

Phase == {"upload", "attach", "text", "document", "post"}

LEMMA CallsAre ==
  /\ \A f \in Calls : /\ DOMAIN f \subseteq Channel /\ DOMAIN f # {}
                      /\ f \in [DOMAIN f -> Phase]
  /\ \A to \in SUBSET Channel : to # {} => \A f \in [to -> Phase] : f \in Calls
  BY DEF Calls, Phase

Passive ==
  [stage : {"none", "notice", "finished", "failed", "stopped"},
   kind : Kind \cup {"none"}, done : 0..2, file : BOOLEAN, long : BOOLEAN]

Delivering ==
  [stage : {"deliver", "failed", "stopped"},
   kind : Kind, done : 0..1, file : BOOLEAN, long : BOOLEAN, calls : Calls]

LEMMA Operations ==
  \A o \in Operation :
      /\ o \in Passive \/ o \in Delivering
      /\ o.stage = "deliver" => o \in Delivering
      /\ o.stage \in {"none", "notice"} => o \in Passive
      /\ o.done \in 0..2 /\ o.file \in BOOLEAN /\ o.long \in BOOLEAN
  BY DEF Operation, Passive, Delivering

\* What holds of an operation at any stage.
Fits(o) ==
  /\ o.stage \in {"notice", "deliver"} => o.kind \in Kind /\ o.done < Len(Notices(o.kind))
  /\ o.stage = "deliver" =>
        \A c \in DOMAIN o.calls :
            /\ o.calls[c] \in {"upload", "attach"} => c = "Meta"
            /\ o.calls[c] \in {"text", "document"} => c = "Telegram"

Logged == [j : Job, n : 1..2, c : Channel, says : {"Sent", "not delivered", "could not send"}]

Taken == [j : Job, n : 1..2, c : Channel, form : {"template", "freeform"}]

LEMMA Parts ==
  /\ TypeOK <=> /\ deploy \in Deploy /\ settings \in Setting
                /\ job \in [Job -> Operation] /\ (\A j \in Job : Fits(job[j]))
                /\ log \subseteq Logged /\ accepted \subseteq Taken
  /\ TypeOK' <=> /\ deploy' \in Deploy /\ settings' \in Setting
                 /\ job' \in [Job -> Operation] /\ (\A j \in Job : Fits(job'[j]))
                 /\ log' \subseteq Logged /\ accepted' \subseteq Taken
  BY DEF TypeOK, Fits, Logged, Taken

\* An operation that is at work on a notice.
LEMMA AtWork ==
  ASSUME TypeOK, NEW j \in Job, job[j].stage \in {"notice", "deliver"}
  PROVE  /\ job[j].kind \in Kind /\ job[j].done \in 0..1
         /\ job[j].done + 1 \in 1..Len(Notices(job[j].kind))
         /\ job[j].file \in BOOLEAN /\ job[j].long \in BOOLEAN
         /\ Notice(j).to \in {"host", "guest"}
         /\ Notice(j).throws => job[j].kind = "changed"
         /\ job[j].kind = "conflict" => Notice(j).to = "host" /\ Notice(j).force
  <1>1. /\ job[j].kind \in Kind /\ job[j].done < Len(Notices(job[j].kind))
        /\ job[j].done \in 0..2 /\ job[j].file \in BOOLEAN /\ job[j].long \in BOOLEAN
    BY Parts, Operations DEF Fits
  <1>2. Len(Notices(job[j].kind)) \in 1..2 /\ job[j].done + 1 \in 1..Len(Notices(job[j].kind))
    BY <1>1, NoticesOf
  <1> QED
    BY <1>1, <1>2, NoticesOf DEF Notice

\* An operation that delivers has calls under way.
LEMMA AtCalls ==
  ASSUME TypeOK, NEW j \in Job, job[j].stage = "deliver"
  PROVE  /\ job[j] \in Delivering
         /\ DOMAIN job[j].calls \subseteq Channel /\ DOMAIN job[j].calls # {}
         /\ job[j].calls \in [DOMAIN job[j].calls -> Phase]
         /\ \A c \in DOMAIN job[j].calls :
               /\ job[j].calls[c] \in {"upload", "attach"} => c = "Meta"
               /\ job[j].calls[c] \in {"text", "document"} => c = "Telegram"
  <1>1. job[j] \in Delivering
    BY Parts, Operations
  <1>2. job[j].calls \in Calls
    BY <1>1 DEF Delivering
  <1> QED
    BY <1>1, <1>2, CallsAre, Parts DEF Fits

\* On to the next notice, or to the end.
LEMMA NextIs ==
  ASSUME TypeOK, NEW j \in Job, job[j].stage \in {"notice", "deliver"}, NextNotice(j)
  PROVE  \E t \in Operation :
            /\ Step(j, t) /\ Fits(t)
            /\ t.stage \in {"notice", "finished"}
            /\ t.kind = job[j].kind /\ t.done = job[j].done + 1
  <1> DEFINE t == [stage |-> "notice", kind |-> job[j].kind, done |-> job[j].done + 1,
                   file |-> job[j].file, long |-> job[j].long]
             u == [t EXCEPT !.stage = "finished"]
  <1>1. job[j].kind \in Kind /\ job[j].done + 1 \in 1..Len(Notices(job[j].kind))
    BY AtWork
  <1>2. Len(Notices(job[j].kind)) \in 1..2
    BY <1>1, NoticesOf
  <1>3. t \in Operation /\ u \in Operation
    BY <1>1, <1>2, AtWork DEF Operation
  <1>4. /\ t.stage = "notice" /\ t.kind = job[j].kind /\ t.done = job[j].done + 1
        /\ u.stage = "finished" /\ u.kind = job[j].kind /\ u.done = job[j].done + 1
    OBVIOUS
  <1>5. Step(j, IF t.done = Len(Notices(t.kind)) THEN u ELSE t)
    BY DEF NextNotice
  <1> HIDE DEF t, u
  <1>6. Fits(u)
    BY <1>4 DEF Fits
  <1>7. t.done # Len(Notices(t.kind)) => Fits(t)
    BY <1>1, <1>2, <1>4 DEF Fits
  <1> QED
    BY <1>3, <1>4, <1>5, <1>6, <1>7

\* One channel is through, and the others go on, or it was the last.
LEMMA CallEndsIs ==
  ASSUME TypeOK, NEW j \in Job, NEW c \in Channel, Calling(j, c), NEW says,
         CallEnds(j, c, says)
  PROVE  \E t \in Operation :
            /\ Step(j, t) /\ Fits(t) /\ t.kind = job[j].kind
            /\ \/ /\ t.stage \in {"notice", "finished"} /\ t.done = job[j].done + 1
               \/ /\ t.stage = "deliver" /\ t.done = job[j].done
                  /\ DOMAIN t.calls = DOMAIN job[j].calls \ {c}
                  /\ \A d \in DOMAIN t.calls : t.calls[d] = job[j].calls[d]
  <1> DEFINE left == DOMAIN job[j].calls \ {c}
             kept == [d \in left |-> job[j].calls[d]]
             t == [job[j] EXCEPT !.calls = kept]
  <1>1. job[j].stage = "deliver" /\ c \in DOMAIN job[j].calls
    BY DEF Calling
  <1>2. CASE left = {}
    BY <1>1, <1>2, NextIs DEF CallEnds
  <1>3. CASE left # {}
    <2>1. Step(j, t)
      BY <1>3 DEF CallEnds
    <2>2. kept \in Calls
      <3>1. left \in SUBSET Channel /\ kept \in [left -> Phase]
        BY <1>1, AtCalls
      <3> HIDE DEF left, kept
      <3> QED
        BY <1>3, <3>1, CallsAre
    <2>3. DOMAIN kept = left /\ \A d \in left : kept[d] = job[j].calls[d]
      OBVIOUS
    <2> HIDE DEF kept
    <2>4. /\ t \in Delivering /\ t.stage = "deliver" /\ t.kind = job[j].kind
          /\ t.done = job[j].done /\ t.calls = kept
      BY <1>1, <2>2, AtCalls DEF Delivering
    <2> HIDE DEF t
    <2>5. Fits(t)
      BY <1>1, <2>3, <2>4, AtCalls, Parts DEF Fits
    <2>6. t \in Operation
      BY <2>4 DEF Operation, Delivering
    <2> QED
      BY <2>1, <2>3, <2>4, <2>5, <2>6
  <1> QED
    BY <1>2, <1>3
-----------------------------------------------------------------------------
(* What a step does to one operation, its logs and its messages *)

\* The operation o is through with its n-th notice at channel c.
Past(o, n, c) ==
  \/ n <= o.done
  \/ o.stage \in {"finished", "failed", "stopped"}
  \/ o.stage = "deliver" /\ n = o.done + 1 /\ c \notin DOMAIN o.calls

\* A file is on its way to Meta only where it costs no template.
Careful(o) ==
  o.stage = "deliver" =>
      \A c \in DOMAIN o.calls : o.calls[c] \in {"upload", "attach"} => CarriesFiles

\* The operation j fails, if t has, over the settings or the uncaught mail.
Blameless(j, t) ==
  t.stage = "failed" =>
      job[j].stage = "notice" /\ (Notice(j).to = "host" \/ job[j].kind = "changed")

\* How the operation j goes on as t.
GoesOn(j, t) ==
  /\ Step(j, t) /\ Fits(t) /\ job[j].stage \notin {"finished", "failed", "stopped"}
  /\ \A n \in 1..2, c \in Channel : Past(job[j], n, c) => Past(t, n, c)
  /\ Careful(job[j]) => Careful(t)
  /\ Blameless(j, t)
  /\ deploy' = deploy /\ settings' = settings

\* A conflict sets out for every channel there is, or finds none.
Alerted(j, t) ==
  job[j].kind = "conflict" /\ job[j].stage = "notice" =>
      /\ t.stage = "deliver" => DOMAIN t.calls = Reachable(settings)
      /\ t.stage = "finished" => Reachable(settings) = {}

Silent == log' = log /\ accepted' = accepted

\* A message is taken and nothing is logged: the text before a document, or
\* the uncaught mail whose answer was lost.
OnlyTaken(j, t, c) ==
  /\ log' = log /\ accepted' = accepted \cup {Took(j, c, "freeform")}
  /\ job[j].done + 1 \in 1..2
  /\ ~Past(job[j], job[j].done + 1, c)
  /\ c = "Telegram" \/ (c = "Email" /\ Past(t, job[j].done + 1, c))

Reports(j, t, c, says) ==
  /\ log' = log \cup {Entry(j, c, says)}
  /\ job[j].done + 1 \in 1..2
  /\ ~Past(job[j], job[j].done + 1, c) /\ Past(t, job[j].done + 1, c)

\* A message is taken, and the answer arrives or is lost.
Sends(j, t, c, form, says) ==
  /\ Reports(j, t, c, says) /\ says \in {"Sent", "could not send"}
  /\ accepted' = accepted \cup {Took(j, c, form)}
  /\ c = "Meta" /\ deploy.text /\ Careful(job[j]) => form = "template"

DoesNotSend(j, t, c, says) ==
  /\ Reports(j, t, c, says) /\ says \in {"not delivered", "could not send"}
  /\ says = "not delivered" => c = "Email"
  /\ accepted' = accepted

Writes(j, t) ==
  \/ Silent
  \/ \E c \in {"Telegram", "Email"} : OnlyTaken(j, t, c)
  \/ \E c \in Channel, form \in {"template", "freeform"}, says \in {"Sent", "could not send"} :
        Sends(j, t, c, form, says)
  \/ \E c \in Channel, says \in {"not delivered", "could not send"} :
        DoesNotSend(j, t, c, says)

Does(j) == \E t \in Operation : GoesOn(j, t) /\ Alerted(j, t) /\ Writes(j, t)

\* On to the next notice, when this one is through.
LEMMA OnwardGoesOn ==
  ASSUME TypeOK, NEW j \in Job, job[j].stage \in {"notice", "deliver"},
         NEW t \in Operation, Step(j, t), Fits(t), UNCHANGED <<deploy, settings>>,
         t.stage \in {"notice", "finished"}, t.done = job[j].done + 1
  PROVE  /\ GoesOn(j, t)
         /\ \A c \in Channel : Past(t, job[j].done + 1, c)
  <1>1. job[j].done \in 0..1
    BY AtWork
  <1>2. \A n \in 1..2, c \in Channel : Past(job[j], n, c) => Past(t, n, c)
    BY <1>1 DEF Past
  <1>3. Careful(t) /\ Blameless(j, t)
    BY DEF Careful, Blameless
  <1>4. \A c \in Channel : Past(t, job[j].done + 1, c)
    BY <1>1 DEF Past
  <1> QED
    BY <1>2, <1>3, <1>4 DEF GoesOn

\* A channel that was called is through, and had not been.
LEMMA EndedGoesOn ==
  ASSUME TypeOK, NEW j \in Job, NEW c \in Channel, Calling(j, c), NEW says,
         CallEnds(j, c, says), UNCHANGED <<deploy, settings>>
  PROVE  \E t \in Operation :
            GoesOn(j, t) /\ Alerted(j, t) /\ Reports(j, t, c, says)
  <1>1. job[j].stage = "deliver" /\ c \in DOMAIN job[j].calls
    BY DEF Calling
  <1>2. job[j].done \in 0..1 /\ job[j].done + 1 \in 1..2
    BY <1>1, AtWork
  <1>3. log' = log \cup {Entry(j, c, says)} /\ ~Past(job[j], job[j].done + 1, c)
    BY <1>1, <1>2 DEF CallEnds, Past
  <1>5. PICK t \in Operation :
            /\ Step(j, t) /\ Fits(t) /\ t.kind = job[j].kind
            /\ \/ /\ t.stage \in {"notice", "finished"} /\ t.done = job[j].done + 1
               \/ /\ t.stage = "deliver" /\ t.done = job[j].done
                  /\ DOMAIN t.calls = DOMAIN job[j].calls \ {c}
                  /\ \A d \in DOMAIN t.calls : t.calls[d] = job[j].calls[d]
    BY CallEndsIs
  <1>6. GoesOn(j, t) /\ Past(t, job[j].done + 1, c)
    <2>1. CASE t.stage \in {"notice", "finished"} /\ t.done = job[j].done + 1
      BY <1>1, <1>5, <2>1, OnwardGoesOn
    <2>2. CASE /\ t.stage = "deliver" /\ t.done = job[j].done
               /\ DOMAIN t.calls = DOMAIN job[j].calls \ {c}
               /\ \A d \in DOMAIN t.calls : t.calls[d] = job[j].calls[d]
      <3>1. \A n \in 1..2, d \in Channel : Past(job[j], n, d) => Past(t, n, d)
        BY <1>1, <2>2 DEF Past
      <3>2. (Careful(job[j]) => Careful(t)) /\ Blameless(j, t)
        BY <1>1, <2>2 DEF Careful, Blameless
      <3>3. Past(t, job[j].done + 1, c)
        BY <2>2 DEF Past
      <3> QED
        BY <1>1, <1>5, <3>1, <3>2, <3>3 DEF GoesOn
    <2> QED
      BY <1>5, <2>1, <2>2
  <1> QED
    BY <1>1, <1>2, <1>3, <1>6 DEF Alerted, Reports

LEMMA StartDoes ==
  ASSUME TypeOK, NEW j \in Job, Start(j)
  PROVE  Does(j)
  <1>1. PICK kind \in Kind, file \in BOOLEAN, long \in BOOLEAN :
            Step(j, [stage |-> "notice", kind |-> kind, done |-> 0,
                     file |-> file, long |-> long])
    BY DEF Start
  <1> DEFINE t == [stage |-> "notice", kind |-> kind, done |-> 0, file |-> file, long |-> long]
  <1>2. Step(j, t)
    BY <1>1
  <1>3. t \in Operation
    BY DEF Operation
  <1>4. /\ t.stage = "notice" /\ t.kind = kind /\ t.done = 0
        /\ job[j].stage = "none" /\ job[j].done = 0
    BY DEF Start, NoJob
  <1> HIDE DEF t
  <1>5. Fits(t) /\ Careful(t) /\ Blameless(j, t)
    <2>1. 0 < Len(Notices(kind))
      BY NoticesOf
    <2> QED
      BY <1>4, <2>1 DEF Fits, Careful, Blameless
  <1>6. \A n \in 1..2, c \in Channel : Past(job[j], n, c) => Past(t, n, c)
    BY <1>4 DEF Past
  <1>7. GoesOn(j, t) /\ Alerted(j, t) /\ Silent
    BY <1>2, <1>4, <1>5, <1>6 DEF GoesOn, Alerted, Silent, Start
  <1> QED
    BY <1>3, <1>7 DEF Does, Writes

LEMMA ResolveDoes ==
  ASSUME TypeOK, NEW j \in Job, Resolve(j)
  PROVE  Does(j)
  <1> DEFINE to == DestinationsFor(settings, Notice(j))
             calls == [c \in to |-> FirstStep(c, job[j].file, job[j].long)]
             t == [stage |-> "deliver", kind |-> job[j].kind, done |-> job[j].done,
                   file |-> job[j].file, long |-> job[j].long, calls |-> calls]
  <1>1. /\ job[j].stage = "notice" /\ UNCHANGED <<deploy, settings, log, accepted>>
        /\ IF to = {} THEN NextNotice(j) ELSE Step(j, t)
    BY DEF Resolve
  <1>2. Silent
    BY <1>1 DEF Silent
  <1>3. to \subseteq Channel
    BY DEF DestinationsFor, Reachable, Channel
  <1>4. job[j].kind = "conflict" => to = Reachable(settings)
    BY <1>1, AtWork DEF DestinationsFor
  <1> HIDE DEF to
  <1>5. CASE to = {}
    <2>1. PICK u \in Operation :
             /\ Step(j, u) /\ Fits(u) /\ u.stage \in {"notice", "finished"}
             /\ u.kind = job[j].kind /\ u.done = job[j].done + 1
      BY <1>1, <1>5, NextIs
    <2>2. GoesOn(j, u)
      BY <1>1, <2>1, OnwardGoesOn
    <2>3. Alerted(j, u)
      BY <1>4, <1>5, <2>1 DEF Alerted
    <2> QED
      BY <1>2, <2>2, <2>3 DEF Does, Writes
  <1>6. CASE to # {}
    <2>1. \A c \in to : /\ FirstStep(c, job[j].file, job[j].long) \in Phase
                        /\ FirstStep(c, job[j].file, job[j].long) # "attach"
                        /\ FirstStep(c, job[j].file, job[j].long) = "upload" =>
                              c = "Meta" /\ CarriesFiles
                        /\ FirstStep(c, job[j].file, job[j].long) \in {"text", "document"} =>
                              c = "Telegram"
      BY DEF FirstStep, Phase
    <2>2. calls \in [to -> Phase] /\ DOMAIN calls = to
      BY <2>1
    <2>3. calls \in Calls
      BY <1>3, <1>6, <2>2, CallsAre
    <2>4. \A c \in to : /\ calls[c] \in {"upload", "attach"} => c = "Meta" /\ CarriesFiles
                        /\ calls[c] \in {"text", "document"} => c = "Telegram"
      BY <2>1
    <2> HIDE DEF calls
    <2>5. t \in Delivering
      BY <1>1, <2>3, AtWork DEF Delivering
    <2>6. Step(j, t) /\ t.stage = "deliver" /\ t.kind = job[j].kind
          /\ t.done = job[j].done /\ t.calls = calls
      BY <1>1, <1>6
    <2> HIDE DEF t
    <2>7. t \in Operation
      BY <2>5 DEF Operation, Delivering
    <2>8. Fits(t)
      BY <1>1, <2>2, <2>4, <2>6, AtWork, Parts DEF Fits
    <2>9. Careful(t) /\ Blameless(j, t)
      BY <2>2, <2>4, <2>6 DEF Careful, Blameless
    <2>10. \A n \in 1..2, c \in Channel : Past(job[j], n, c) => Past(t, n, c)
      BY <1>1, <2>6 DEF Past
    <2>11. GoesOn(j, t) /\ Alerted(j, t)
      BY <1>1, <1>4, <2>2, <2>6, <2>8, <2>9, <2>10 DEF GoesOn, Alerted
    <2> QED
      BY <1>2, <2>7, <2>11 DEF Does, Writes
  <1> QED
    BY <1>5, <1>6

\* The operation is over before its notices are.
LEMMA EndsIs ==
  ASSUME TypeOK, NEW j \in Job, job[j].stage \in {"notice", "deliver"},
         NEW stage \in {"failed", "stopped"},
         Step(j, [job[j] EXCEPT !.stage = stage]),
         stage = "failed" =>
            job[j].stage = "notice" /\ (Notice(j).to = "host" \/ job[j].kind = "changed"),
         UNCHANGED <<deploy, settings>>
  PROVE  \E t \in Operation :
            GoesOn(j, t) /\ Alerted(j, t) /\ t.stage = stage
  <1> DEFINE t == [job[j] EXCEPT !.stage = stage]
  <1>1. job[j] \in Passive \/ job[j] \in Delivering
    BY Parts, Operations
  <1>2. /\ t \in Operation /\ t.stage = stage
        /\ t.kind = job[j].kind /\ t.done = job[j].done
    <2>1. CASE job[j] \in Passive
      BY <2>1 DEF Passive, Operation
    <2>2. CASE job[j] \in Delivering
      BY <2>2 DEF Delivering, Operation
    <2> QED
      BY <1>1, <2>1, <2>2
  <1>3. Step(j, t)
    OBVIOUS
  <1> HIDE DEF t
  <1>4. Fits(t) /\ Careful(t) /\ Alerted(j, t)
    BY <1>2 DEF Fits, Careful, Alerted
  <1>5. Blameless(j, t)
    BY <1>2 DEF Blameless
  <1>6. \A n \in 1..2, c \in Channel : Past(job[j], n, c) => Past(t, n, c)
    BY <1>2 DEF Past
  <1>7. GoesOn(j, t)
    BY <1>3, <1>4, <1>5, <1>6 DEF GoesOn
  <1> QED
    BY <1>2, <1>4, <1>7

LEMMA EndsDoes ==
  ASSUME TypeOK, NEW j \in Job, job[j].stage \in {"notice", "deliver"},
         NEW stage \in {"failed", "stopped"},
         Step(j, [job[j] EXCEPT !.stage = stage]),
         stage = "failed" =>
            job[j].stage = "notice" /\ (Notice(j).to = "host" \/ job[j].kind = "changed"),
         UNCHANGED <<deploy, settings, log, accepted>>
  PROVE  Does(j)
  BY EndsIs DEF Does, Writes, Silent

LEMMA FirstHalfDoes ==
  ASSUME TypeOK, NEW j \in Job, NEW c \in Channel, FirstHalf(j, c)
  PROVE  Does(j)
  <1> DEFINE at == job[j].calls[c]
             on == IF at = "upload" THEN "attach" ELSE "document"
             calls == [job[j].calls EXCEPT ![c] = on]
             t == [job[j] EXCEPT !.calls = calls]
  <1>1. job[j].stage = "deliver" /\ c \in DOMAIN job[j].calls /\ at \in {"upload", "text"}
    BY DEF FirstHalf, Calling
  <1>2. Step(j, t)
    BY DEF FirstHalf, Step
  <1>3. /\ at = "upload" => c = "Meta"
        /\ at = "text" => c = "Telegram"
        /\ DOMAIN job[j].calls \subseteq Channel /\ DOMAIN job[j].calls # {}
        /\ job[j].calls \in [DOMAIN job[j].calls -> Phase]
        /\ job[j] \in Delivering
    BY <1>1, AtCalls
  <1>4. /\ DOMAIN calls = DOMAIN job[j].calls
        /\ \A d \in DOMAIN calls : calls[d] = IF d = c THEN on ELSE job[j].calls[d]
        /\ calls \in [DOMAIN job[j].calls -> Phase]
    BY <1>1, <1>3 DEF Phase
  <1>5. calls \in Calls
    BY <1>3, <1>4, CallsAre
  <1> HIDE DEF calls
  <1>6. /\ t \in Delivering /\ t.stage = "deliver" /\ t.kind = job[j].kind
        /\ t.done = job[j].done /\ t.calls = calls
    BY <1>1, <1>3, <1>5 DEF Delivering
  <1> HIDE DEF t
  <1>7. t \in Operation
    BY <1>6 DEF Operation, Delivering
  <1>8. Fits(t)
    BY <1>1, <1>3, <1>4, <1>6, AtCalls, Parts DEF Fits
  <1>9. (Careful(job[j]) => Careful(t)) /\ Blameless(j, t)
    BY <1>1, <1>4, <1>6 DEF Careful, Blameless
  <1>10. \A n \in 1..2, d \in Channel : Past(job[j], n, d) => Past(t, n, d)
    BY <1>1, <1>4, <1>6 DEF Past
  <1>11. GoesOn(j, t) /\ Alerted(j, t)
    BY <1>1, <1>2, <1>6, <1>8, <1>9, <1>10 DEF GoesOn, Alerted, FirstHalf
  <1>12. Silent \/ OnlyTaken(j, t, "Telegram")
    <2>1. CASE c = "Telegram"
      <3>1. job[j].done \in 0..1
        BY <1>1, AtWork
      <3>2. ~Past(job[j], job[j].done + 1, c) /\ job[j].done + 1 \in 1..2
        BY <1>1, <3>1 DEF Past
      <3> QED
        BY <2>1, <3>2 DEF FirstHalf, OnlyTaken
    <2>2. CASE c # "Telegram"
      BY <2>2 DEF FirstHalf, Silent
    <2> QED
      BY <2>1, <2>2
  <1> QED
    BY <1>7, <1>11, <1>12 DEF Does, Writes

LEMMA TakenDoes ==
  ASSUME TypeOK, NEW j \in Job, NEW c \in Channel, Accept(j, c) \/ AnswerLost(j, c)
  PROVE  Does(j)
  <1> DEFINE form == Form(j, c)
  <1>1. PICK says \in {"Sent", "could not send"} : CallEnds(j, c, says)
    BY DEF Accept, AnswerLost
  <1>2. /\ Calling(j, c) /\ UNCHANGED <<deploy, settings>>
        /\ accepted' = accepted \cup {Took(j, c, form)}
    BY DEF Accept, AnswerLost
  <1>3. form \in {"template", "freeform"}
    BY DEF Form, MetaForm
  <1>4. c = "Meta" /\ deploy.text /\ Careful(job[j]) => form = "template"
    <2>1. job[j].stage = "deliver" /\ c \in DOMAIN job[j].calls
      BY <1>2 DEF Calling
    <2>2. job[j].calls[c] = "attach" /\ Careful(job[j]) => CarriesFiles
      BY <2>1 DEF Careful
    <2>3. (job[j].calls[c] = "attach") \in BOOLEAN
      OBVIOUS
    <2> QED
      BY <2>2, <2>3 DEF CarriesFiles, Form, MetaForm
  <1> HIDE DEF form
  <1>5. PICK t \in Operation : GoesOn(j, t) /\ Alerted(j, t) /\ Reports(j, t, c, says)
    BY <1>1, <1>2, EndedGoesOn
  <1>6. Sends(j, t, c, form, says)
    BY <1>1, <1>2, <1>4, <1>5 DEF Sends
  <1> QED
    BY <1>1, <1>3, <1>5, <1>6 DEF Does, Writes

LEMMA RefuseDoes ==
  ASSUME TypeOK, NEW j \in Job, NEW c \in Channel, Refuse(j, c)
  PROVE  Does(j)
  <1>1. PICK says \in {"not delivered", "could not send"} :
            CallEnds(j, c, says) /\ (says = "not delivered" => c = "Email")
    BY DEF Refuse, MailSays
  <1>2. Calling(j, c) /\ UNCHANGED <<deploy, settings, accepted>>
    BY DEF Refuse
  <1>3. PICK t \in Operation : GoesOn(j, t) /\ Alerted(j, t) /\ Reports(j, t, c, says)
    BY <1>1, <1>2, EndedGoesOn
  <1>4. DoesNotSend(j, t, c, says)
    BY <1>1, <1>2, <1>3 DEF DoesNotSend
  <1> QED
    BY <1>1, <1>3, <1>4 DEF Does, Writes

\* A mail to the guest that is through, accepted or not.
LEMMA MailDoes ==
  ASSUME TypeOK, NEW j \in Job, job[j].stage = "notice", Notice(j).to = "guest",
         NEW says, log' = log \cup {Entry(j, "Email", says)}, NextNotice(j),
         UNCHANGED <<deploy, settings>>
  PROVE  \E t \in Operation :
            GoesOn(j, t) /\ Alerted(j, t) /\ Reports(j, t, "Email", says)
  <1>1. PICK t \in Operation :
            /\ Step(j, t) /\ Fits(t) /\ t.stage \in {"notice", "finished"}
            /\ t.kind = job[j].kind /\ t.done = job[j].done + 1
    BY NextIs
  <1>2. GoesOn(j, t) /\ \A c \in Channel : Past(t, job[j].done + 1, c)
    BY <1>1, OnwardGoesOn
  <1>3. job[j].kind # "conflict" /\ job[j].done \in 0..1
    BY AtWork
  <1>4. ~Past(job[j], job[j].done + 1, "Email") /\ job[j].done + 1 \in 1..2
    BY <1>3 DEF Past
  <1> QED
    BY <1>2, <1>3, <1>4 DEF Alerted, Reports, Channel

LEMMA MailsDo ==
  ASSUME TypeOK, NEW j \in Job, MailAccepted(j) \/ MailRefused(j) \/ MailThrows(j)
  PROVE  Does(j)
  <1>1. CASE MailAccepted(j)
    <2>1. PICK t \in Operation :
              GoesOn(j, t) /\ Alerted(j, t) /\ Reports(j, t, "Email", "Sent")
      BY <1>1, MailDoes DEF MailAccepted
    <2>2. Sends(j, t, "Email", "freeform", "Sent")
      BY <1>1, <2>1 DEF Sends, MailAccepted
    <2> QED
      BY <2>1, <2>2 DEF Does, Writes, Channel
  <1>2. CASE MailRefused(j)
    <2>1. PICK t \in Operation :
              GoesOn(j, t) /\ Alerted(j, t) /\ Reports(j, t, "Email", "not delivered")
      BY <1>2, MailDoes DEF MailRefused, MailSays
    <2>2. DoesNotSend(j, t, "Email", "not delivered")
      BY <1>2, <2>1 DEF DoesNotSend, MailRefused
    <2> QED
      BY <2>1, <2>2 DEF Does, Writes, Channel
  <1>3. CASE MailThrows(j)
    <2> DEFINE took == Took(j, "Email", "freeform")
    <2>1. /\ job[j].stage = "notice" /\ Notice(j).to = "guest"
          /\ UNCHANGED <<deploy, settings>>
      BY <1>3 DEF MailThrows
    <2>2. accepted' = accepted \/ accepted' = accepted \cup {took}
      <3>1. PICK taken \in SUBSET {took} : accepted' = accepted \cup taken
        BY <1>3 DEF MailThrows
      <3>2. taken = {} \/ taken = {took}
        OBVIOUS
      <3> QED
        BY <3>1, <3>2
    <2> HIDE DEF took
    <2>3. CASE Notice(j).throws
      <3>1. log' = log /\ Step(j, [job[j] EXCEPT !.stage = "failed"])
        BY <1>3, <2>3 DEF MailThrows, Fail
      <3>2. job[j].kind = "changed" /\ job[j].done \in 0..1
        BY <2>1, <2>3, AtWork
      <3>3. PICK t \in Operation : GoesOn(j, t) /\ Alerted(j, t) /\ t.stage = "failed"
        BY <2>1, <3>1, <3>2, EndsIs
      <3>4. CASE accepted' = accepted
        BY <3>1, <3>3, <3>4 DEF Does, Writes, Silent
      <3>5. CASE accepted' = accepted \cup {took}
        <4>1. /\ ~Past(job[j], job[j].done + 1, "Email") /\ job[j].done + 1 \in 1..2
              /\ Past(t, job[j].done + 1, "Email")
          BY <2>1, <3>2, <3>3 DEF Past
        <4>2. OnlyTaken(j, t, "Email")
          BY <3>1, <3>5, <4>1 DEF OnlyTaken, took
        <4> QED
          BY <3>3, <4>2 DEF Does, Writes
      <3> QED
        BY <2>2, <3>4, <3>5
    <2>4. CASE ~Notice(j).throws
      <3>1. PICK t \in Operation :
                GoesOn(j, t) /\ Alerted(j, t) /\ Reports(j, t, "Email", "could not send")
        BY <1>3, <2>1, <2>4, MailDoes DEF MailThrows
      <3>2. \/ DoesNotSend(j, t, "Email", "could not send")
            \/ Sends(j, t, "Email", "freeform", "could not send")
        BY <2>2, <3>1 DEF DoesNotSend, Sends, took
      <3> QED
        BY <3>1, <3>2 DEF Does, Writes, Channel
    <2> QED
      BY <2>3, <2>4
  <1> QED
    BY <1>1, <1>2, <1>3

\* Every step goes on with one operation, saves other settings, or is none.
LEMMA Effects ==
  ASSUME TypeOK, [Next]_vars
  PROVE  \/ \E j \in Job : Does(j)
         \/ settings' \in Setting /\ UNCHANGED <<deploy, job, log, accepted>>
  <1>1. ASSUME NEW j \in Job, Start(j) PROVE Does(j)
    BY <1>1, StartDoes
  <1>2. ASSUME NEW j \in Job, Resolve(j) PROVE Does(j)
    BY <1>2, ResolveDoes
  <1>3. ASSUME NEW j \in Job, ResolveFails(j) PROVE Does(j)
    BY <1>3, EndsDoes DEF ResolveFails, Fail
  <1>4. ASSUME NEW j \in Job, MailAccepted(j) \/ MailRefused(j) \/ MailThrows(j)
        PROVE  Does(j)
    BY <1>4, MailsDo
  <1>5. ASSUME NEW j \in Job, Stop(j) PROVE Does(j)
    BY <1>5, EndsDoes DEF Stop
  <1>6. ASSUME NEW j \in Job, NEW c \in Channel, FirstHalf(j, c) PROVE Does(j)
    BY <1>6, FirstHalfDoes
  <1>7. ASSUME NEW j \in Job, NEW c \in Channel, Accept(j, c) \/ AnswerLost(j, c)
        PROVE  Does(j)
    BY <1>7, TakenDoes
  <1>8. ASSUME NEW j \in Job, NEW c \in Channel, Refuse(j, c) PROVE Does(j)
    BY <1>8, RefuseDoes
  <1>9. CASE UNCHANGED vars
    BY <1>9 DEF vars, TypeOK
  <1> QED
    BY <1>1, <1>2, <1>3, <1>4, <1>5, <1>6, <1>7, <1>8, <1>9 DEF Next, SaveSettings

-----------------------------------------------------------------------------
(* The theorems *)

\* Only the operation that goes on changes.
LEMMA OthersStay ==
  ASSUME TypeOK, NEW j \in Job, NEW t, Step(j, t)
  PROVE  /\ job'[j] = t
         /\ \A i \in Job \ {j} : job'[i] = job[i]
         /\ \A i \in Job : job'[i] = IF i = j THEN t ELSE job[i]
         /\ t \in Operation => job' \in [Job -> Operation]
  BY Parts DEF Step

\* What is logged and taken stays well formed.
LEMMA WritesFit ==
  ASSUME TypeOK, NEW j \in Job, NEW t \in Operation, Writes(j, t)
  PROVE  log' \subseteq Logged /\ accepted' \subseteq Taken
  <1>1. log \subseteq Logged /\ accepted \subseteq Taken
    BY Parts
  <1>2. CASE Silent
    BY <1>1, <1>2 DEF Silent
  <1>3. ASSUME NEW c \in {"Telegram", "Email"}, OnlyTaken(j, t, c)
        PROVE  log' \subseteq Logged /\ accepted' \subseteq Taken
    <2>1. Took(j, c, "freeform") \in Taken
      BY <1>3 DEF OnlyTaken, Took, Taken, Channel
    <2> QED
      BY <1>1, <1>3, <2>1 DEF OnlyTaken
  <1>4. ASSUME NEW c \in Channel, NEW form \in {"template", "freeform"},
               NEW says \in {"Sent", "could not send"}, Sends(j, t, c, form, says)
        PROVE  log' \subseteq Logged /\ accepted' \subseteq Taken
    <2>1. Took(j, c, form) \in Taken /\ Entry(j, c, says) \in Logged
      BY <1>4 DEF Sends, Reports, Took, Entry, Taken, Logged
    <2> QED
      BY <1>1, <1>4, <2>1 DEF Sends, Reports
  <1>5. ASSUME NEW c \in Channel, NEW says \in {"not delivered", "could not send"},
               DoesNotSend(j, t, c, says)
        PROVE  log' \subseteq Logged /\ accepted' \subseteq Taken
    <2>1. Entry(j, c, says) \in Logged
      BY <1>5 DEF DoesNotSend, Reports, Entry, Logged
    <2> QED
      BY <1>1, <1>5, <2>1 DEF DoesNotSend, Reports
  <1> QED
    BY <1>2, <1>3, <1>4, <1>5 DEF Writes

LEMMA TypeStep ==
  ASSUME TypeOK, [Next]_vars
  PROVE  TypeOK'
  <1>1. ASSUME NEW j \in Job, Does(j)
        PROVE  TypeOK'
    <2>1. PICK t \in Operation : GoesOn(j, t) /\ Writes(j, t)
      BY <1>1 DEF Does
    <2>2. job' \in [Job -> Operation] /\ \A i \in Job : Fits(job'[i])
      BY <2>1, OthersStay, Parts DEF GoesOn
    <2>3. log' \subseteq Logged /\ accepted' \subseteq Taken
      BY <2>1, WritesFit
    <2>4. deploy' \in Deploy /\ settings' \in Setting
      BY <2>1, Parts DEF GoesOn
    <2> QED
      BY <2>2, <2>3, <2>4, Parts
  <1>2. CASE settings' \in Setting /\ UNCHANGED <<deploy, job, log, accepted>>
    BY <1>2 DEF TypeOK, Notice
  <1> QED
    BY <1>1, <1>2, Effects

\* Every state is well formed, whatever operations notify together, whatever
\* credentials the deployment has and whatever the host saves meanwhile.
THEOREM TypeCorrect == Spec => []TypeOK
  <1>1. Init => TypeOK
    <2> SUFFICES ASSUME Init PROVE TypeOK
      OBVIOUS
    <2>1. NoJob \in Operation /\ NoJob.stage = "none"
      BY DEF NoJob, Operation
    <2>2. job = [i \in Job |-> NoJob]
      BY DEF Init
    <2> HIDE DEF NoJob
    <2>3. job \in [Job -> Operation] /\ \A j \in Job : job[j].stage = "none"
      BY <2>1, <2>2
    <2>4. \A j \in Job : Fits(job[j])
      BY <2>3 DEF Fits
    <2> QED
      BY <2>3, <2>4, Parts DEF Init
  <1> QED
    BY <1>1, TypeStep, PTL DEF Spec

\* What was logged, and what was taken but for the text before a document, is
\* of a call that is through: so a call is answered once, and its log line and
\* its message belong together.  Only the mails are refused without a throw.
LogTrail ==
  /\ \A l \in log : Past(job[l.j], l.n, l.c)
  /\ \A l \in log : l.says = "not delivered" => l.c = "Email"
  /\ \A a \in accepted : a.c = "Telegram" \/ Past(job[a.j], a.n, a.c)
  /\ LogsTellTheTruth

LEMMA PastStays ==
  ASSUME TypeOK, NEW j \in Job, NEW t \in Operation, GoesOn(j, t)
  PROVE  \A i \in Job, n \in 1..2, c \in Channel : Past(job[i], n, c) => Past(job'[i], n, c)
  BY OthersStay DEF GoesOn

LEMMA LogTrailStep ==
  ASSUME TypeOK, LogTrail, NEW j \in Job, NEW t \in Operation, GoesOn(j, t), Writes(j, t)
  PROVE  LogTrail'
  <1> DEFINE n == job[j].done + 1
  <1>1. /\ \A l \in log : l.j \in Job /\ l.n \in 1..2 /\ l.c \in Channel
        /\ \A a \in accepted : a.j \in Job /\ a.n \in 1..2 /\ a.c \in Channel
    BY Parts DEF Logged, Taken
  <1>2. /\ \A l \in log : Past(job'[l.j], l.n, l.c)
        /\ \A l \in log : l.says = "not delivered" => l.c = "Email"
        /\ \A a \in accepted : a.c = "Telegram" \/ Past(job'[a.j], a.n, a.c)
    BY <1>1, PastStays DEF LogTrail
  <1>3. LogsTellTheTruth /\ job'[j] = t
    BY OthersStay DEF LogTrail, GoesOn
  \* Nothing was said yet of a call that is not through.
  <1>4. ASSUME NEW c \in Channel, ~Past(job[j], n, c)
        PROVE  /\ \A l \in log : ~(l.j = j /\ l.n = n /\ l.c = c)
               /\ c # "Telegram" => \A a \in accepted : ~(a.j = j /\ a.n = n /\ a.c = c)
    BY <1>4 DEF LogTrail
  <1>5. CASE Silent
    BY <1>2, <1>3, <1>5 DEF Silent, LogTrail, LogsTellTheTruth, Delivered
  <1>6. ASSUME NEW c \in {"Telegram", "Email"}, OnlyTaken(j, t, c)
        PROVE  LogTrail'
    <2> DEFINE b == Took(j, c, "freeform")
    <2>1. b.j = j /\ b.n = n /\ b.c = c
      BY DEF Took
    <2>2. /\ log' = log /\ accepted' = accepted \cup {b}
          /\ ~Past(job[j], n, c) /\ (c = "Telegram" \/ Past(t, n, c))
      BY <1>6 DEF OnlyTaken
    <2> HIDE DEF b, n
    <2>3. \A l \in log : ~(l.j = j /\ l.n = n /\ l.c = c)
      BY <1>4, <2>2 DEF Channel
    <2>4. ASSUME NEW l \in log, l.says = "not delivered"
          PROVE  ~(b.j = l.j /\ b.n = l.n /\ b.c = l.c)
      BY <2>1, <2>3, <2>4
    <2>5. LogsTellTheTruth'
      BY <1>3, <2>2, <2>4 DEF LogsTellTheTruth, Delivered
    <2> QED
      BY <1>2, <1>3, <2>1, <2>2, <2>5 DEF LogTrail
  <1>7. ASSUME NEW c \in Channel, NEW form \in {"template", "freeform"},
               NEW says \in {"Sent", "could not send"}, Sends(j, t, c, form, says)
        PROVE  LogTrail'
    <2> DEFINE b == Took(j, c, form)
               e == Entry(j, c, says)
    <2>1. /\ b.j = j /\ b.n = n /\ b.c = c
          /\ e.j = j /\ e.n = n /\ e.c = c /\ e.says # "not delivered"
      BY DEF Took, Entry
    <2>2. /\ log' = log \cup {e} /\ accepted' = accepted \cup {b}
          /\ ~Past(job[j], n, c) /\ Past(t, n, c)
      BY <1>7 DEF Sends, Reports
    <2> HIDE DEF b, e, n
    <2>3. \A l \in log : ~(l.j = j /\ l.n = n /\ l.c = c)
      BY <1>4, <2>2
    <2>4. \E a \in accepted' : a.j = e.j /\ a.n = e.n /\ a.c = e.c
      BY <2>1, <2>2
    <2>5. ASSUME NEW l \in log
          PROVE  /\ l.says = "Sent" => \E a \in accepted' : a.j = l.j /\ a.n = l.n /\ a.c = l.c
                 /\ l.says = "not delivered" =>
                       ~\E a \in accepted' : a.j = l.j /\ a.n = l.n /\ a.c = l.c
      <3>1. /\ l.says = "Sent" => \E a \in accepted : a.j = l.j /\ a.n = l.n /\ a.c = l.c
            /\ l.says = "not delivered" =>
                  ~\E a \in accepted : a.j = l.j /\ a.n = l.n /\ a.c = l.c
        BY <1>3 DEF LogsTellTheTruth, Delivered
      <3>2. ~(b.j = l.j /\ b.n = l.n /\ b.c = l.c)
        BY <2>1, <2>3
      <3> QED
        BY <2>2, <3>1, <3>2
    <2>6. LogsTellTheTruth'
      BY <2>1, <2>2, <2>4, <2>5 DEF LogsTellTheTruth, Delivered
    <2> QED
      BY <1>2, <1>3, <2>1, <2>2, <2>6 DEF LogTrail
  <1>8. ASSUME NEW c \in Channel, NEW says \in {"not delivered", "could not send"},
               DoesNotSend(j, t, c, says)
        PROVE  LogTrail'
    <2> DEFINE e == Entry(j, c, says)
    <2>1. e.j = j /\ e.n = n /\ e.c = c /\ e.says = says /\ says # "Sent"
      BY DEF Entry
    <2>2. /\ log' = log \cup {e} /\ accepted' = accepted
          /\ ~Past(job[j], n, c) /\ Past(t, n, c)
          /\ says = "not delivered" => c = "Email"
      BY <1>8 DEF DoesNotSend, Reports
    <2> HIDE DEF e, n
    <2>3. says = "not delivered" => \A a \in accepted : ~(a.j = j /\ a.n = n /\ a.c = c)
      BY <1>4, <2>2
    <2>4. LogsTellTheTruth'
      BY <1>3, <2>1, <2>2, <2>3 DEF LogsTellTheTruth, Delivered
    <2> QED
      BY <1>2, <1>3, <2>1, <2>2, <2>4 DEF LogTrail
  <1> QED
    BY <1>5, <1>6, <1>7, <1>8 DEF Writes

\* A log line that says a message was sent has a message a provider took, and
\* one that says it was not delivered has none: at whatever moment a call is
\* refused, throws, or loses the answer to a message that was taken.
THEOREM LogsAreTrue == Spec => []LogsTellTheTruth
  <1>1. Init => LogTrail
    BY DEF Init, LogTrail, LogsTellTheTruth
  <1>2. TypeOK /\ LogTrail /\ [Next]_vars => LogTrail'
    <2> SUFFICES ASSUME TypeOK, LogTrail, [Next]_vars PROVE LogTrail'
      OBVIOUS
    <2>1. ASSUME NEW j \in Job, Does(j)
          PROVE  LogTrail'
      BY <2>1, LogTrailStep DEF Does
    <2>2. CASE UNCHANGED <<deploy, job, log, accepted>>
      BY <2>2 DEF LogTrail, LogsTellTheTruth, Delivered
    <2> QED
      BY <2>1, <2>2, Effects
  <1>3. LogTrail => LogsTellTheTruth
    BY DEF LogTrail
  <1> QED
    BY <1>1, <1>2, <1>3, TypeCorrect, PTL DEF Spec

-----------------------------------------------------------------------------

\* A file is on its way to Meta only where it costs no template, and so it was.
FileTrail ==
  /\ \A j \in Job : Careful(job[j])
  /\ FileNeverCostsTheTemplate

\* Where a text template is approved, whatever Meta took arrives at any hour.
THEOREM ATemplateIsNeverLost == Spec => []FileNeverCostsTheTemplate
  <1>1. Init => FileTrail
    <2> SUFFICES ASSUME Init PROVE FileTrail
      OBVIOUS
    <2>1. NoJob.stage = "none"
      BY DEF NoJob
    <2>2. \A j \in Job : job[j].stage = "none"
      BY <2>1 DEF Init
    <2> QED
      BY <2>2 DEF FileTrail, Careful, FileNeverCostsTheTemplate, Init
  <1>2. TypeOK /\ FileTrail /\ [Next]_vars => FileTrail'
    <2> SUFFICES ASSUME TypeOK, FileTrail, [Next]_vars PROVE FileTrail'
      OBVIOUS
    <2>1. ASSUME NEW j \in Job, NEW t \in Operation, GoesOn(j, t), Writes(j, t)
          PROVE  FileTrail'
      <3>1. \A i \in Job : Careful(job'[i]) /\ deploy' = deploy
        BY <2>1, OthersStay DEF FileTrail, GoesOn
      <3>2. (\A i \in Job : Careful(job[i]))'
        BY <3>1 DEF Careful, CarriesFiles
      <3>3. CASE accepted' = accepted
        BY <2>1, <3>2, <3>3 DEF FileTrail, FileNeverCostsTheTemplate, GoesOn
      <3>4. ASSUME NEW c \in {"Telegram", "Email"}, OnlyTaken(j, t, c)
            PROVE  FileTrail'
        <4>1. accepted' = accepted \cup {Took(j, c, "freeform")}
              /\ Took(j, c, "freeform").c # "Meta"
          BY <3>4 DEF OnlyTaken, Took
        <4> QED
          BY <2>1, <3>2, <4>1 DEF FileTrail, FileNeverCostsTheTemplate, GoesOn
      <3>5. ASSUME NEW c \in Channel, NEW form \in {"template", "freeform"},
                   NEW says \in {"Sent", "could not send"}, Sends(j, t, c, form, says)
            PROVE  FileTrail'
        <4>1. /\ accepted' = accepted \cup {Took(j, c, form)}
              /\ Took(j, c, form).c = c /\ Took(j, c, form).form = form
              /\ c = "Meta" /\ deploy.text => form = "template"
          BY <3>5 DEF Sends, Took, FileTrail
        <4> QED
          BY <2>1, <3>2, <4>1 DEF FileTrail, FileNeverCostsTheTemplate, GoesOn
      <3> QED
        BY <2>1, <3>3, <3>4, <3>5 DEF Writes, Silent, DoesNotSend
    <2>2. CASE UNCHANGED <<deploy, job, log, accepted>>
      BY <2>2 DEF FileTrail, FileNeverCostsTheTemplate, Careful, CarriesFiles
    <2> QED
      BY <2>1, <2>2, Effects DEF Does
  <1>3. FileTrail => FileNeverCostsTheTemplate
    BY DEF FileTrail
  <1> QED
    BY <1>1, <1>2, <1>3, TypeCorrect, PTL DEF Spec

\* Once an alert's calls are under way no channel decides what an operation
\* answers, and no mail does but that of a change: an operation fails only at
\* a notice to the host before any call, or with the mail of a change.
THEOREM ChannelsFailNoOperation == Spec => NoChannelFailsAnOperation
  <1> DEFINE Fault == \A j \in Job :
                 job[j].stage # "failed" /\ job'[j].stage = "failed" =>
                     /\ job[j].stage = "notice"
                     /\ Notice(j).to = "host" \/ job[j].kind = "changed"
  <1>1. TypeOK /\ [Next]_vars => [Fault]_vars
    <2> SUFFICES ASSUME TypeOK, [Next]_vars PROVE Fault
      OBVIOUS
    <2>1. ASSUME NEW j \in Job, NEW t \in Operation, GoesOn(j, t)
          PROVE  Fault
      BY <2>1, OthersStay DEF GoesOn, Blameless
    <2>2. CASE job' = job
      BY <2>2
    <2> QED
      BY <2>1, <2>2, Effects DEF Does
  <1> QED
    BY <1>1, TypeCorrect, PTL DEF Spec, NoChannelFailsAnOperation

\* Money taken for nights that are gone is an alert that sets out over every
\* channel that can reach the host, whatever she has switched off, and is over
\* untold only when there is none.
THEOREM ConflictsGoOutToAll == Spec => ConflictIgnoresSwitches
  <1> DEFINE Out == \A j \in Job :
                 job[j].kind = "conflict" /\ job[j].stage = "notice" =>
                     /\ job'[j].stage = "deliver" => DOMAIN job'[j].calls = Reachable(settings)
                     /\ job'[j].stage = "finished" => Reachable(settings) = {}
  <1>1. TypeOK /\ [Next]_vars => [Out]_vars
    <2> SUFFICES ASSUME TypeOK, [Next]_vars PROVE Out
      OBVIOUS
    <2>1. ASSUME NEW j \in Job, NEW t \in Operation, GoesOn(j, t), Alerted(j, t)
          PROVE  Out
      BY <2>1, OthersStay DEF GoesOn, Alerted
    <2>2. CASE job' = job
      BY <2>2
    <2> QED
      BY <2>1, <2>2, Effects DEF Does
  <1> QED
    BY <1>1, TypeCorrect, PTL DEF Spec, ConflictIgnoresSwitches
=============================================================================

--------------------------- MODULE AccountsProofs ---------------------------
(***************************************************************************)
(* What Accounts guarantees for every set of accounts, requests, codes and *)
(* tokens.                                                                 *)
(***************************************************************************)
EXTENDS Accounts, FiniteSetTheorems, TLAPS

LEMMA Apart ==
  /\ Unused \notin Account /\ Unused \notin RecoveryCode /\ Unused \notin RefreshToken
  /\ Deleted \notin RecoveryCode /\ Unused # Deleted
  /\ Present \subseteq User /\ Founder \in User
  /\ Code \cap Way = {}
  BY AccountsAssumption

-----------------------------------------------------------------------------
(* Type correctness *)

\* The parts of TypeOK, a table each.
AccountsOK == account \in [User -> Account \cup {Unused}]

CodesOK ==
  /\ code \in [Code -> RecoveryCode \cup {Unused, Deleted}]
  /\ \A c \in Code : code[c] \notin {Unused, Deleted} => account[code[c].user] # Unused

TokensOK ==
  /\ token \in [Token -> RefreshToken \cup {Unused}]
  /\ \A k \in Token : token[k] # Unused => account[token[k].user] # Unused

ChallengesOK == challenged \subseteq User /\ \A u \in challenged : account[u] # Unused

TasksOK ==
  /\ task \in [Request -> Task]
  /\ \A r \in Request : task[r] # NoTask => account[task[r].user] # Unused

\* The session that is about to be replaced was opened.
RotatesOK ==
  \A r \in Request : task[r].pc = "rotate" => token[task[r].token] # Unused

LEMMA Parts ==
  /\ TypeOK <=> /\ AccountsOK /\ CodesOK /\ TokensOK /\ ChallengesOK
                /\ TasksOK /\ RotatesOK
  /\ TypeOK' <=> /\ AccountsOK' /\ CodesOK' /\ TokensOK' /\ ChallengesOK'
                 /\ TasksOK' /\ RotatesOK'
  BY DEF TypeOK, AccountsOK, CodesOK, TokensOK, ChallengesOK, TasksOK, RotatesOK

Setup == [pc : {"secret", "enable"}, user : User, saw : SecondFactor]

Edit == [pc : {"count", "write"}, user : User, role : Role, active : BOOLEAN,
         saw : SUBSET User]

\* What a task of each kind carries.
LEMMA Tasks ==
  ASSUME NEW t \in Task
  PROVE  /\ t # NoTask => t.user \in User /\ t.pc # "idle"
         /\ t.pc = "issue" => t.by \in By
         /\ t.pc = "spend" => t.code \in Code
         /\ t.pc = "rotate" => t.token \in Token
         /\ t.pc = "revoke" => t.reissue \in BOOLEAN
         /\ t.pc \in {"count", "write"} =>
               t \in Edit
  <1>1. \/ t = NoTask
        \/ t \in [pc : {"issue"}, user : User, by : By]
        \/ t \in [pc : {"spend"}, user : User, code : Code]
        \/ t \in [pc : {"rotate"}, user : User, token : Token]
        \/ t \in Setup
        \/ t \in [pc : {"disable"}, user : User]
        \/ t \in [pc : {"revoke"}, user : User, reissue : BOOLEAN]
        \/ t \in Edit
    BY Zenon DEF Task, Setup, Edit
  <1>2. CASE t = NoTask
    BY <1>2 DEF NoTask
  <1>3. CASE t \in [pc : {"issue"}, user : User, by : By]
    BY <1>3
  <1>4. CASE t \in [pc : {"spend"}, user : User, code : Code]
    BY <1>4
  <1>5. CASE t \in [pc : {"rotate"}, user : User, token : Token]
    BY <1>5
  <1>6. CASE t \in Setup
    BY <1>6 DEF Setup
  <1>7. CASE t \in [pc : {"revoke"}, user : User, reissue : BOOLEAN]
    BY <1>7
  <1>8. CASE t \in Edit
    BY <1>8 DEF Edit
  <1>9. CASE t \in [pc : {"disable"}, user : User]
    BY <1>9
  <1> QED
    BY <1>1, <1>2, <1>3, <1>4, <1>5, <1>6, <1>7, <1>8, <1>9

\* The tasks a request goes on with.
LEMMA Steps ==
  /\ NoTask \in Task
  /\ \A u \in User, by \in By : [pc |-> "issue", user |-> u, by |-> by] \in Task
  /\ \A u \in User, c \in Code : [pc |-> "spend", user |-> u, code |-> c] \in Task
  /\ \A u \in User, k \in Token : [pc |-> "rotate", user |-> u, token |-> k] \in Task
  /\ \A u \in User, pc \in {"secret", "enable"}, f \in SecondFactor :
        [pc |-> pc, user |-> u, saw |-> f] \in Task
  /\ \A u \in User : [pc |-> "disable", user |-> u] \in Task
  /\ \A u \in User, reissue \in BOOLEAN :
        [pc |-> "revoke", user |-> u, reissue |-> reissue] \in Task
  /\ \A u \in User, role \in Role, active \in BOOLEAN, pc \in {"count", "write"},
        saw \in SUBSET User :
        [pc |-> pc, user |-> u, role |-> role, active |-> active, saw |-> saw] \in Task
  <1>1. \A u \in User, by \in By : [pc |-> "issue", user |-> u, by |-> by] \in Task
    BY DEF Task
  <1>2. \A u \in User, c \in Code : [pc |-> "spend", user |-> u, code |-> c] \in Task
    BY DEF Task
  <1>3. \A u \in User, k \in Token : [pc |-> "rotate", user |-> u, token |-> k] \in Task
    BY DEF Task
  <1>4. /\ \A u \in User, pc \in {"secret", "enable"}, f \in SecondFactor :
              [pc |-> pc, user |-> u, saw |-> f] \in Task
        /\ \A u \in User : [pc |-> "disable", user |-> u] \in Task
    BY DEF Task
  <1>5. \A u \in User, reissue \in BOOLEAN :
            [pc |-> "revoke", user |-> u, reissue |-> reissue] \in Task
    BY DEF Task
  <1>6. \A u \in User, role \in Role, active \in BOOLEAN, pc \in {"count", "write"},
           saw \in SUBSET User :
            [pc |-> pc, user |-> u, role |-> role, active |-> active, saw |-> saw] \in Task
    BY DEF Task
  <1>7. NoTask \in Task
    BY DEF Task
  <1> QED
    BY <1>1, <1>2, <1>3, <1>4, <1>5, <1>6, <1>7

LEMMA TypeInit == Init => TypeOK
  <1> SUFFICES ASSUME Init
               PROVE  TypeOK
    OBVIOUS
  <1>1. AccountsOK
    BY Apart DEF Init, AccountsOK, Account, Role
  <1>2. CodesOK /\ TokensOK /\ ChallengesOK
    BY DEF Init, CodesOK, TokensOK, ChallengesOK
  <1>3. TasksOK /\ RotatesOK
    BY Steps DEF Init, TasksOK, RotatesOK, NoTask
  <1> QED
    BY <1>1, <1>2, <1>3, Parts

\* Accounts are created and changed, and never deleted.
Grows ==
  /\ AccountsOK'
  /\ \A u \in User : account[u] # Unused => account'[u] # Unused

LEMMA Referred ==
  ASSUME TypeOK, Grows
  PROVE  /\ UNCHANGED code => CodesOK'
         /\ UNCHANGED token => TokensOK'
         /\ UNCHANGED challenged => ChallengesOK'
         /\ UNCHANGED task => TasksOK'
         /\ UNCHANGED <<task, token>> => RotatesOK'
  <1>1. ASSUME UNCHANGED code
        PROVE  CodesOK'
    BY <1>1, Parts DEF Grows, CodesOK, RecoveryCode
  <1>2. ASSUME UNCHANGED token
        PROVE  TokensOK'
    BY <1>2, Parts DEF Grows, TokensOK, RefreshToken
  <1>3. ASSUME UNCHANGED challenged
        PROVE  ChallengesOK'
    BY <1>3, Parts DEF Grows, ChallengesOK
  <1>4. ASSUME UNCHANGED task
        PROVE  TasksOK'
    <2>1. \A r \in Request : task[r] # NoTask => task[r].user \in User
      BY Parts, Tasks DEF TasksOK
    <2> QED
      BY <1>4, <2>1, Parts DEF Grows, TasksOK
  <1>5. ASSUME UNCHANGED <<task, token>>
        PROVE  RotatesOK'
    BY <1>5, Parts DEF RotatesOK
  <1> QED
    BY <1>1, <1>2, <1>3, <1>4, <1>5

LEMMA Same == TypeOK /\ UNCHANGED account => Grows
  BY Parts DEF Grows, AccountsOK

LEMMA TaskGoesOn ==
  ASSUME TypeOK, Grows, NEW r \in Request, NEW t \in Task, Goto(r, t),
         t # NoTask => account'[t.user] # Unused
  PROVE  TasksOK'
  <1>1. task' = [task EXCEPT ![r] = t] /\ task \in [Request -> Task]
    BY Parts DEF Goto, TasksOK
  <1>2. \A s \in Request : task[s] # NoTask => task[s].user \in User
    BY <1>1, Tasks
  <1> QED
    BY <1>1, <1>2, Parts DEF TasksOK, Grows

\* No session is forgotten, and a request goes on with one that was opened.
LEMMA RotatesGoOn ==
  ASSUME TypeOK, NEW r \in Request, NEW t \in Task, Goto(r, t),
         \A k \in Token : token[k] # Unused => token'[k] # Unused,
         t.pc = "rotate" => token[t.token] # Unused
  PROVE  RotatesOK'
  <1>1. /\ task' = [task EXCEPT ![r] = t] /\ task \in [Request -> Task]
        /\ \A s \in Request : task'[s] = IF s = r THEN t ELSE task[s]
    BY Parts DEF Goto, TasksOK
  <1>2. \A s \in Request : task[s].pc = "rotate" => task[s].token \in Token
    BY <1>1, Tasks
  <1>3. t.pc = "rotate" => t.token \in Token
    BY Tasks
  <1> QED
    BY <1>1, <1>2, <1>3, Parts DEF RotatesOK

\* A step that only moves its request on.
LEMMA OnlyKeepsTypes ==
  ASSUME TypeOK, NEW r \in Request, NEW t \in Task, Only(r, t),
         t # NoTask => account[t.user] # Unused,
         t.pc = "rotate" => token[t.token] # Unused
  PROVE  TypeOK'
  <1>1. Goto(r, t) /\ UNCHANGED <<account, code, token, challenged>>
    BY DEF Only
  <1> QED
    BY <1>1, Same, Referred, TaskGoesOn, RotatesGoOn, Parts DEF Grows

\* Whom the task of a request is about.
LEMMA Whom ==
  ASSUME TypeOK, NEW r \in Request, task[r].pc # "idle"
  PROVE  /\ task[r] \in Task /\ task[r] # NoTask
         /\ task[r].user \in User /\ account[task[r].user] # Unused
         /\ account[task[r].user] \in Account
  BY Parts, Tasks DEF TasksOK, AccountsOK, NoTask

\* One row of a table is replaced.
LEMMA AccountReplaced ==
  ASSUME TypeOK, NEW u \in User, NEW row \in Account, account' = [account EXCEPT ![u] = row]
  PROVE  Grows
  BY Apart, Parts DEF Grows, AccountsOK

LEMMA CodeReplaced ==
  ASSUME TypeOK, Grows, NEW c \in Code, NEW row \in RecoveryCode,
         account[row.user] # Unused, code' = [code EXCEPT ![c] = row]
  PROVE  CodesOK'
  <1>1. /\ code \in [Code -> RecoveryCode \cup {Unused, Deleted}]
        /\ \A d \in Code : code'[d] = IF d = c THEN row ELSE code[d]
    BY Parts DEF CodesOK
  <1>2. \A d \in Code : code'[d] \notin {Unused, Deleted} =>
            code'[d].user \in User /\ account[code'[d].user] # Unused
    BY <1>1, Parts DEF CodesOK, RecoveryCode
  <1> QED
    BY <1>1, <1>2 DEF CodesOK, Grows

LEMMA TokenReplaced ==
  ASSUME TypeOK, Grows, NEW k \in Token, NEW row \in RefreshToken,
         account[row.user] # Unused, token' = [token EXCEPT ![k] = row]
  PROVE  TokensOK'
  <1>1. /\ token \in [Token -> RefreshToken \cup {Unused}]
        /\ \A l \in Token : token'[l] = IF l = k THEN row ELSE token[l]
    BY Parts DEF TokensOK
  <1>2. \A l \in Token : token'[l] # Unused =>
            token'[l].user \in User /\ account[token'[l].user] # Unused
    BY <1>1, Parts DEF TokensOK, RefreshToken
  <1> QED
    BY <1>1, <1>2 DEF TokensOK, Grows

LEMMA CodeStatements ==
  ASSUME TypeOK, NEW r \in Request,
         ConsumeRecoveryCode(r) \/ StoreSecret(r) \/ DisableTotp(r) \/ EnableTotp(r)
  PROVE  TypeOK'
  <1>1. CASE ConsumeRecoveryCode(r)
    <2> DEFINE t == task[r]
               row == [code[t.code] EXCEPT !.used = TRUE]
    <2>1. t.user \in User /\ account[t.user] # Unused /\ t.code \in Code
      BY <1>1, Whom, Tasks DEF ConsumeRecoveryCode
    <2>2. CASE IsSpendable(t.code, t.user)
      <3>1. /\ code' = [code EXCEPT ![t.code] = row]
            /\ Goto(r, [pc |-> "issue", user |-> t.user, by |-> t.code])
            /\ UNCHANGED <<account, token, challenged>>
        BY <1>1, <2>2 DEF ConsumeRecoveryCode
      <3>2. [pc |-> "issue", user |-> t.user, by |-> t.code] \in Task
        BY <2>1, Steps DEF By
      <3>3. row \in RecoveryCode /\ account[row.user] # Unused
        BY <2>1, <2>2, Parts DEF IsSpendable, CodesOf, CodesOK, RecoveryCode
      <3> HIDE DEF t, row
      <3>4. CodesOK'
        BY <2>1, <3>1, <3>3, Same, CodeReplaced
      <3>5. TasksOK' /\ RotatesOK'
        BY <2>1, <3>1, <3>2, Same, TaskGoesOn, RotatesGoOn
      <3> QED
        BY <3>1, <3>4, <3>5, Same, Referred, Parts DEF Grows
    <2>3. CASE ~IsSpendable(t.code, t.user)
      <3>1. Only(r, NoTask)
        BY <1>1, <2>3 DEF ConsumeRecoveryCode, Only
      <3> QED
        BY <3>1, OnlyKeepsTypes, Steps DEF NoTask
    <2> QED
      BY <2>2, <2>3
  <1>2. CASE StoreSecret(r) \/ DisableTotp(r) \/ EnableTotp(r)
    <2> DEFINE u == task[r].user
    <2>1. u \in User /\ account[u] \in Account /\ account[u] # Unused
      BY <1>2, Whom DEF StoreSecret, DisableTotp, EnableTotp
    <2>2. /\ Goto(r, NoTask)
          /\ UNCHANGED <<token, challenged>>
      BY <1>2 DEF StoreSecret, DisableTotp, EnableTotp
    <2>3. \/ UNCHANGED code
          \/ \E print \in SUBSET Code : code' = Reprinted(u, print)
      BY <1>2 DEF StoreSecret, DisableTotp, EnableTotp, CodesAfterDisable
    <2>4. \E row \in Account : account' = [account EXCEPT ![u] = row]
      <3>1. /\ \A new \in Secret : [account[u] EXCEPT !.secret = new] \in Account
            /\ [account[u] EXCEPT !.enabled = TRUE] \in Account
            /\ [account[u] EXCEPT !.secret = NoSecret, !.enabled = FALSE] \in Account
        BY <2>1 DEF Account
      <3>2. \/ \E new \in Secret :
                  account' = [account EXCEPT ![u] = [account[u] EXCEPT !.secret = new]]
            \/ account' = [account EXCEPT ![u] = [account[u] EXCEPT !.enabled = TRUE]]
            \/ account' = [account EXCEPT ![u] =
                              [account[u] EXCEPT !.secret = NoSecret, !.enabled = FALSE]]
        BY <1>2, <2>1, Parts DEF StoreSecret, DisableTotp, EnableTotp, AccountsOK
      <3> QED
        BY <3>1, <3>2
    <2> HIDE DEF u
    <2>5. Grows
      BY <2>1, <2>4, AccountReplaced
    <2>6. ASSUME NEW print \in SUBSET Code, code' = Reprinted(u, print)
          PROVE  CodesOK'
      <3>1. code' \in [Code -> RecoveryCode \cup {Unused, Deleted}]
        BY <2>1, <2>6, Parts DEF Reprinted, CodesOK, RecoveryCode
      <3>2. ASSUME NEW c \in Code, code'[c] \notin {Unused, Deleted}
            PROVE  account'[code'[c].user] # Unused
        <4>1. code'[c] = code[c] \/ code'[c] = [user |-> u, used |-> FALSE]
          BY <2>6, <3>2 DEF Reprinted
        <4>2. CASE code'[c] = code[c]
          BY <2>5, <3>2, <4>2, Parts DEF Grows, CodesOK, RecoveryCode
        <4>3. CASE code'[c] = [user |-> u, used |-> FALSE]
          BY <2>1, <2>5, <4>3, Apart DEF Grows
        <4> QED
          BY <4>1, <4>2, <4>3
      <3> QED
        BY <3>1, <3>2 DEF CodesOK
    <2>7. TasksOK' /\ RotatesOK'
      BY <2>2, <2>5, TaskGoesOn, RotatesGoOn, Steps DEF NoTask
    <2> QED
      BY <2>2, <2>3, <2>5, <2>6, <2>7, Referred, Parts DEF Grows
  <1> QED
    BY <1>1, <1>2

LEMMA TokenStatements ==
  ASSUME TypeOK, NEW r \in Request,
         Rotate(r) \/ (\E k \in Token : Logout(r, k)) \/ IssueTokens(r) \/ RevokeAllForUser(r)
  PROVE  TypeOK'
  <1> DEFINE t == task[r]
  <1>1. CASE Rotate(r)
    <2> DEFINE row == [token[t.token] EXCEPT !.live = FALSE]
    <2>1. /\ t.user \in User /\ account[t.user] # Unused /\ t.token \in Token
          /\ [pc |-> "issue", user |-> t.user, by |-> "refresh"] \in Task
      BY <1>1, Whom, Tasks, Steps DEF Rotate, By, Way
    <2>2. /\ token' = [token EXCEPT ![t.token] = row]
          /\ Goto(r, [pc |-> "issue", user |-> t.user, by |-> "refresh"])
          /\ UNCHANGED <<account, code, challenged>>
      BY <1>1 DEF Rotate
    <2>3. row \in RefreshToken /\ account[row.user] # Unused
      BY <1>1, <2>1, Parts DEF Rotate, RotatesOK, TokensOK, RefreshToken
    <2> HIDE DEF t, row
    <2>4. TokensOK'
      BY <2>1, <2>2, <2>3, Same, TokenReplaced
    <2>5. \A k \in Token : token[k] # Unused => token'[k] # Unused
      BY <2>1, <2>2, <2>3, Apart, Parts DEF TokensOK
    <2>6. TasksOK' /\ RotatesOK'
      BY <2>1, <2>2, <2>5, Same, TaskGoesOn, RotatesGoOn
    <2> QED
      BY <2>2, <2>4, <2>6, Same, Referred, Parts DEF Grows
  <1>2. ASSUME NEW k \in Token, Logout(r, k)
        PROVE  TypeOK'
    <2> DEFINE row == [token[k] EXCEPT !.live = FALSE]
    <2>1. token' = [token EXCEPT ![k] = row] /\ UNCHANGED <<account, code, challenged, task>>
      BY <1>2 DEF Logout
    <2>2. row \in RefreshToken /\ account[row.user] # Unused
      BY <1>2, Parts DEF Logout, TokensOK, RefreshToken
    <2> HIDE DEF row
    <2>3. TokensOK'
      BY <2>1, <2>2, Same, TokenReplaced
    <2>4. \A l \in Token : token[l] # Unused => token'[l] # Unused
      BY <2>1, <2>2, Apart, Parts DEF TokensOK
    <2>5. RotatesOK'
      <3>1. \A s \in Request : task[s].pc = "rotate" => task[s].token \in Token
        BY Parts, Tasks DEF TasksOK
      <3> QED
        BY <2>1, <2>4, <3>1, Parts DEF RotatesOK
    <2> QED
      BY <2>1, <2>3, <2>5, Same, Referred, Parts DEF Grows
  <1>3. CASE IssueTokens(r)
    <2> DEFINE row == [user |-> t.user, live |-> TRUE, by |-> t.by]
    <2>1. /\ account[t.user] # Unused /\ row \in RefreshToken /\ row.user = t.user
      BY <1>3, Whom, Tasks DEF IssueTokens, RefreshToken
    <2>2. PICK k \in Token : token' = [token EXCEPT ![k] = row]
      BY <1>3 DEF IssueTokens
    <2>3. Goto(r, NoTask) /\ UNCHANGED <<account, code, challenged>>
      BY <1>3 DEF IssueTokens
    <2> HIDE DEF row, t
    <2>4. TokensOK'
      BY <2>1, <2>2, <2>3, Same, TokenReplaced
    <2>5. \A l \in Token : token[l] # Unused => token'[l] # Unused
      BY <2>1, <2>2, Apart, Parts DEF TokensOK
    <2>6. TasksOK' /\ RotatesOK'
      BY <2>3, <2>5, Same, Steps, TaskGoesOn, RotatesGoOn DEF NoTask
    <2> QED
      BY <2>3, <2>4, <2>6, Same, Referred, Parts DEF Grows
  <1>4. CASE RevokeAllForUser(r)
    <2>1. /\ t.user \in User /\ account[t.user] # Unused
          /\ [pc |-> "issue", user |-> t.user, by |-> "password"] \in Task
      BY <1>4, Whom, Steps DEF RevokeAllForUser, By, Way
    <2>2. /\ token' = [k \in Token |-> IF token[k] # Unused /\ token[k].user = t.user
                                       THEN [token[k] EXCEPT !.live = FALSE] ELSE token[k]]
          /\ UNCHANGED <<account, code, challenged>>
      BY <1>4 DEF RevokeAllForUser
    <2>3. PICK n \in {NoTask, [pc |-> "issue", user |-> t.user, by |-> "password"]} : Goto(r, n)
      BY <1>4 DEF RevokeAllForUser
    <2>4. n \in Task /\ n.pc # "rotate" /\ (n # NoTask => n.user = t.user)
      BY <2>1, <2>3, Steps DEF NoTask
    <2> HIDE DEF t
    <2>5. \A k \in Token : token[k] # Unused =>
              /\ token'[k] \in RefreshToken
              /\ token'[k].user = token[k].user
      BY <2>2, Parts DEF TokensOK, RefreshToken
    <2>6. \A k \in Token : token[k] = Unused => token'[k] = Unused
      BY <2>2
    <2>7. TokensOK'
      BY <2>2, <2>5, <2>6, Parts DEF TokensOK
    <2>8. TasksOK' /\ RotatesOK'
      BY <2>1, <2>2, <2>3, <2>4, <2>5, Apart, Same, TaskGoesOn, RotatesGoOn
    <2> QED
      BY <2>2, <2>7, <2>8, Same, Referred, Parts DEF Grows
  <1> QED
    BY <1>1, <1>2, <1>3, <1>4

\* Where a request begins, and where it ends before its time.
LEMMA Beginnings ==
  ASSUME TypeOK, NEW r \in Request, NEW u \in User,
         \/ Login(r, u) \/ VerifyTotpChallenge(r, u) \/ BeginTotpSetup(r, u)
         \/ ConfirmTotp(r, u) \/ StartDisable(r, u)
         \/ \E c \in Code : PresentRecoveryCode(r, u, c)
         \/ \E reissue \in BOOLEAN : ChangePassword(r, u, reissue)
  PROVE  TypeOK'
  <1>1. account[u] # Unused
    BY DEF Login, VerifyTotpChallenge, BeginTotpSetup, ConfirmTotp, StartDisable,
           PresentRecoveryCode, ChangePassword, IsActive
  <1>2. CASE challenged' = challenged \cup {u} /\ UNCHANGED <<account, code, token, task>>
    <2>1. ChallengesOK'
      BY <1>1, <1>2, Parts DEF ChallengesOK
    <2> QED
      BY <1>2, <2>1, Same, Referred, Parts DEF Grows
  <1>3. ASSUME NEW by \in Way, Only(r, [pc |-> "issue", user |-> u, by |-> by])
        PROVE  TypeOK'
    BY <1>1, <1>3, Steps, OnlyKeepsTypes DEF By
  <1>4. ASSUME NEW pc \in {"secret", "enable"},
               Only(r, [pc |-> pc, user |-> u, saw |-> FactorOf(u)])
        PROVE  TypeOK'
    <2>1. FactorOf(u) \in SecondFactor
      BY <1>1, Parts DEF FactorOf, SecondFactor, AccountsOK, Account
    <2> QED
      BY <1>1, <1>4, <2>1, Steps, OnlyKeepsTypes
  <1>9. CASE Only(r, [pc |-> "disable", user |-> u])
    BY <1>1, <1>9, Steps, OnlyKeepsTypes
  <1>5. ASSUME NEW c \in Code, PresentRecoveryCode(r, u, c)
        PROVE  TypeOK'
    BY <1>1, <1>5, Steps, OnlyKeepsTypes DEF PresentRecoveryCode
  <1>6. ASSUME NEW reissue \in BOOLEAN, ChangePassword(r, u, reissue)
        PROVE  TypeOK'
    BY <1>1, <1>6, Steps, OnlyKeepsTypes DEF ChangePassword
  <1>7. CASE Login(r, u) \/ VerifyTotpChallenge(r, u)
    BY <1>2, <1>3, <1>7 DEF Login, VerifyTotpChallenge, Way
  <1>8. CASE BeginTotpSetup(r, u) \/ ConfirmTotp(r, u) \/ StartDisable(r, u)
    BY <1>4, <1>8, <1>9 DEF BeginTotpSetup, ConfirmTotp, StartDisable
  <1> QED
    BY <1>5, <1>6, <1>7, <1>8

LEMMA SigningKeepsTypes ==
  ASSUME TypeOK, NEW r \in Request, Signing(r)
  PROVE  TypeOK'
  <1>1. ASSUME NEW k \in Token, Refresh(r, k)
        PROVE  TypeOK'
    <2>1. token[k] # Unused /\ token[k].user \in User /\ account[token[k].user] # Unused
      BY <1>1, Parts DEF Refresh, TokensOK, RefreshToken
    <2>2. \/ Only(r, [pc |-> "rotate", user |-> token[k].user, token |-> k])
          \/ Only(r, [pc |-> "revoke", user |-> token[k].user, reissue |-> FALSE])
      BY <1>1 DEF Refresh
    <2> QED
      BY <2>1, <2>2, Steps, OnlyKeepsTypes
  <1> QED
    BY <1>1, CodeStatements, TokenStatements, Beginnings, Apart DEF Signing

LEMMA EditingKeepsTypes ==
  ASSUME TypeOK, NEW r \in Request, Editing(r)
  PROVE  TypeOK'
  <1>1. CASE CountOthers(r)
    <2> DEFINE t == [task[r] EXCEPT !.pc = "write", !.saw = Superadmins]
    <2>1. /\ task[r] \in Edit
          /\ account[task[r].user] # Unused
      BY <1>1, Whom, Tasks DEF CountOthers
    <2>2. t \in Task /\ t.pc = "write" /\ t.user = task[r].user
      BY <2>1 DEF Task, Edit, Superadmins
    <2>3. Only(r, NoTask) \/ Only(r, t)
      BY <1>1 DEF CountOthers
    <2>4. CASE Only(r, NoTask)
      BY <2>4, Steps, OnlyKeepsTypes DEF NoTask
    <2>5. CASE Only(r, t)
      <3> HIDE DEF t
      <3> QED
        BY <2>1, <2>2, <2>5, OnlyKeepsTypes
    <2> QED
      BY <2>3, <2>4, <2>5
  <1>2. CASE Update(r)
    <2> DEFINE t == task[r]
               row == [account[t.user] EXCEPT !.role = t.role, !.active = t.active]
    <2>1. /\ t.user \in User /\ account[t.user] # Unused
          /\ account[t.user] \in Account /\ t.role \in Role /\ t.active \in BOOLEAN
          /\ [pc |-> "revoke", user |-> t.user, reissue |-> FALSE] \in Task
      BY <1>2, Whom, Tasks, Steps DEF Update, Edit
    <2>2. row \in Account
      BY <2>1 DEF Account
    <2>3. /\ account' = [account EXCEPT ![t.user] = row]
          /\ UNCHANGED <<code, token, challenged>>
      BY <1>2, <2>1, Parts DEF Update, AccountsOK
    <2>4. PICK n \in {NoTask, [pc |-> "revoke", user |-> t.user, reissue |-> FALSE]} : Goto(r, n)
      BY <1>2 DEF Update
    <2>5. n \in Task /\ n.pc # "rotate" /\ (n # NoTask => n.user = t.user)
      <3>1. CASE n = NoTask
        BY <3>1, Steps DEF NoTask
      <3>2. CASE n = [pc |-> "revoke", user |-> t.user, reissue |-> FALSE]
        BY <2>1, <3>2
      <3> QED
        BY <2>4, <3>1, <3>2
    <2> HIDE DEF row, t
    <2>6. Grows
      BY <2>1, <2>2, <2>3, AccountReplaced
    <2>7. account'[t.user] # Unused
      BY <2>1, <2>6 DEF Grows
    <2>8. TasksOK' /\ RotatesOK'
      BY <2>3, <2>4, <2>5, <2>6, <2>7, TaskGoesOn, RotatesGoOn
    <2> QED
      BY <2>3, <2>6, <2>8, Referred, Parts DEF Grows
  <1>3. ASSUME NEW u \in User, NEW role \in Role, Create(r, u, role)
        PROVE  TypeOK'
    <2> DEFINE row == [role |-> role, active |-> TRUE,
                      secret |-> NoSecret, enabled |-> FALSE]
    <2>1. account' = [account EXCEPT ![u] = row] /\ UNCHANGED <<code, token, challenged, task>>
      BY <1>3 DEF Create
    <2>2. row \in Account
      BY DEF Account
    <2> HIDE DEF row
    <2> QED
      BY <2>1, <2>2, AccountReplaced, Referred, Parts DEF Grows
  <1>4. ASSUME NEW actor \in User, NEW u \in User, NEW role \in Role, NEW active \in BOOLEAN,
               StartUpdate(r, actor, u, role, active)
        PROVE  TypeOK'
    <2>1. account[u] # Unused
      BY <1>4 DEF StartUpdate
    <2>2. PICK pc \in {"count", "write"} :
              Only(r, [pc |-> pc, user |-> u, role |-> role, active |-> active,
                       saw |-> Superadmins])
      BY <1>4 DEF StartUpdate
    <2>3. Superadmins \in SUBSET User
      BY DEF Superadmins
    <2> QED
      BY <2>1, <2>2, <2>3, Steps, OnlyKeepsTypes
  <1> QED
    BY <1>1, <1>2, <1>3, <1>4 DEF Editing

LEMMA TypeStep == TypeOK /\ [Next]_vars => TypeOK'
  <1> SUFFICES ASSUME TypeOK, [Next]_vars
               PROVE  TypeOK'
    OBVIOUS
  <1>1. CASE UNCHANGED vars
    BY <1>1 DEF vars, TypeOK
  <1>2. ASSUME NEW r \in Request, Fail(r)
        PROVE  TypeOK'
    BY <1>2, OnlyKeepsTypes, Steps DEF Fail, NoTask
  <1> QED
    BY <1>1, <1>2, SigningKeepsTypes, EditingKeepsTypes, TokenStatements DEF Next

\* Accounts, codes, sessions and requests stay well formed, and refer to what
\* was created.
THEOREM TypeCorrect == Spec => []TypeOK
  BY TypeInit, TypeStep, PTL DEF Spec
-----------------------------------------------------------------------------
(* Recovery codes *)

\* What a new print does to the codes of everyone.
LEMMA Printed ==
  ASSUME TypeOK, NEW u \in User, NEW print \in SUBSET {c \in Code : code[c] = Unused},
         code' = Reprinted(u, print)
  PROVE  /\ CodesOf(u)' = print
         /\ \A v \in User \ {u} : CodesOf(v)' = CodesOf(v)
  <1>1. \A c \in Code : code'[c] = IF c \in CodesOf(u) THEN Deleted
                                   ELSE IF c \in print THEN [user |-> u, used |-> FALSE]
                                   ELSE code[c]
    BY DEF Reprinted
  <1>2. [user |-> u, used |-> FALSE] \notin {Unused, Deleted}
    <2>1. [user |-> u, used |-> FALSE] \in RecoveryCode
      BY DEF RecoveryCode
    <2> QED
      BY <2>1, Apart
  <1>3. CodesOf(u)' = print
    BY <1>1, <1>2 DEF CodesOf
  <1>4. ASSUME NEW v \in User \ {u}
        PROVE  CodesOf(v)' = CodesOf(v)
    BY <1>1, <1>2 DEF CodesOf
  <1> QED
    BY <1>3, <1>4

\* The codes' half of EnrolmentIsProven.
CodesFollow ==
  \A u \in User : account[u] # Unused => (account[u].enabled <=> CodesOf(u) # {})

LEMMA EnrolmentStep == TypeOK /\ CodesFollow /\ [Next]_vars => CodesFollow'
  <1> SUFFICES ASSUME TypeOK, CodesFollow, [Next]_vars
               PROVE  CodesFollow'
    OBVIOUS
  <1>1. ASSUME \A u \in User : CodesOf(u)' = CodesOf(u),
               \A u \in User : account'[u] # Unused =>
                   account[u] # Unused /\ account'[u].enabled = account[u].enabled
        PROVE  CodesFollow'
    BY <1>1 DEF CodesFollow
  <1>2. CASE UNCHANGED <<account, code>>
    BY <1>1, <1>2 DEF CodesOf
  <1>3. ASSUME NEW r \in Request, ConsumeRecoveryCode(r)
        PROVE  CodesFollow'
    <2> DEFINE c == task[r].code
    <2>1. CASE UNCHANGED code
      BY <1>2, <1>3, <2>1 DEF ConsumeRecoveryCode
    <2>2. CASE ~UNCHANGED code
      <3>1. /\ c \in Code /\ code[c] \in RecoveryCode
            /\ code' = [code EXCEPT ![c].used = TRUE] /\ UNCHANGED account
        BY <1>3, <2>2, Whom, Tasks, Parts
        DEF ConsumeRecoveryCode, IsSpendable, CodesOf, CodesOK
      <3> HIDE DEF c
      <3>2. /\ code'[c] \in RecoveryCode /\ code'[c].user = code[c].user
            /\ \A d \in Code \ {c} : code'[d] = code[d]
        BY <3>1, Parts DEF CodesOK, RecoveryCode
      <3>3. \A u \in User : CodesOf(u)' = CodesOf(u)
        BY <3>1, <3>2, Apart DEF CodesOf
      <3> QED
        BY <1>1, <3>1, <3>3
    <2> QED
      BY <2>1, <2>2
  <1>4. ASSUME NEW r \in Request, StoreSecret(r) \/ Update(r)
        PROVE  CodesFollow'
    <2> DEFINE t == task[r]
    <2>1. t.user \in User /\ account[t.user] \in Account
      BY <1>4, Whom DEF StoreSecret, Update
    <2>2. UNCHANGED code
      BY <1>4 DEF StoreSecret, Update
    <2>3. \/ \E new \in Secret : account' = [account EXCEPT ![t.user].secret = new]
          \/ account' = [account EXCEPT ![t.user].role = t.role, ![t.user].active = t.active]
      BY <1>4 DEF StoreSecret, Update
    <2>4. account'[t.user].enabled = account[t.user].enabled
      <3>1. ASSUME NEW new \in Secret, account' = [account EXCEPT ![t.user].secret = new]
            PROVE  account'[t.user].enabled = account[t.user].enabled
        BY <2>1, <3>1, Parts DEF Account, AccountsOK
      <3>2. ASSUME account' = [account EXCEPT ![t.user].role = t.role, ![t.user].active = t.active]
            PROVE  account'[t.user].enabled = account[t.user].enabled
        BY <2>1, <3>2, Parts DEF Account, AccountsOK
      <3> QED
        BY <2>3, <3>1, <3>2
    <2>5. \A u \in User \ {t.user} : account'[u] = account[u]
      BY <2>1, <2>3, Parts DEF AccountsOK
    <2> HIDE DEF t
    <2> QED
      BY <1>1, <2>1, <2>2, <2>4, <2>5, Apart DEF CodesOf
  <1>5. ASSUME NEW r \in Request, NEW u \in User, NEW role \in Role, Create(r, u, role)
        PROVE  CodesFollow'
    <2>1. /\ ~account'[u].enabled /\ account[u] = Unused
          /\ \A v \in User \ {u} : account'[v] = account[v]
      BY <1>5, Parts DEF Create, AccountsOK
    <2>2. CodesOf(u) = {}
      BY <2>1, Parts DEF CodesOK, CodesOf
    <2>3. UNCHANGED code
      BY <1>5 DEF Create
    <2> QED
      BY <2>1, <2>2, <2>3 DEF CodesFollow, CodesOf
  <1>6. ASSUME NEW r \in Request, EnableTotp(r)
        PROVE  CodesFollow'
    <2>1. PICK u \in User : u = task[r].user /\ account[u] \in Account
      BY <1>6, Whom DEF EnableTotp
    <2>2. account' = [account EXCEPT ![u].enabled = TRUE]
      BY <1>6, <2>1 DEF EnableTotp
    <2>3. PICK print \in SUBSET {c \in Code : code[c] = Unused} :
              Cardinality(print) = PerPrint /\ code' = Reprinted(u, print)
      BY <1>6, <2>1 DEF EnableTotp
    <2>4. print # {}
      BY <2>3, FS_EmptySet, AccountsAssumption
    <2>5. /\ account'[u].enabled = TRUE
          /\ \A v \in User \ {u} : account'[v] = account[v]
      BY <2>1, <2>2, Parts DEF Account, AccountsOK
    <2>6. CodesOf(u)' = print /\ \A v \in User \ {u} : CodesOf(v)' = CodesOf(v)
      BY <2>1, <2>3, Printed
    <2> QED
      BY <2>4, <2>5, <2>6 DEF CodesFollow
  <1>7. ASSUME NEW r \in Request, DisableTotp(r)
        PROVE  CodesFollow'
    <2>1. PICK u \in User : u = task[r].user /\ account[u] \in Account
      BY <1>7, Whom DEF DisableTotp
    <2>2. /\ account' = [account EXCEPT ![u].secret = NoSecret, ![u].enabled = FALSE]
          /\ code' = Reprinted(u, {})
      BY <1>7, <2>1 DEF DisableTotp, CodesAfterDisable
    <2>3. /\ account'[u].enabled = FALSE
          /\ \A v \in User \ {u} : account'[v] = account[v]
      BY <2>1, <2>2, Parts DEF Account, AccountsOK
    <2>4. CodesOf(u)' = {} /\ \A v \in User \ {u} : CodesOf(v)' = CodesOf(v)
      BY <2>1, <2>2, Printed
    <2> QED
      BY <2>3, <2>4 DEF CodesFollow
  <1> QED
    BY <1>2, <1>3, <1>4, <1>5, <1>6, <1>7
    DEF Next, vars, Signing, Editing, Login, VerifyTotpChallenge,
        PresentRecoveryCode, IssueTokens, Refresh, Rotate, Logout, RevokeAllForUser,
        ChangePassword, BeginTotpSetup, ConfirmTotp, StartDisable, StartUpdate, CountOthers,
        Fail, Only

-----------------------------------------------------------------------------
(* Sessions opened with a recovery code *)

Spent(c) == code[c] = Deleted \/ (code[c] # Unused /\ code[c].used)

Opened(k, c) == token[k] # Unused /\ token[k].by = c

Opening(r, c) == task[r].pc = "issue" /\ task[r].by = c

\* Why a code opens one session: it is spent before the session is made, and
\* who spent it is the only one that goes on to make one.
SessionTrail ==
  /\ CodeOpensOneSession
  /\ \A c \in Code, k \in Token : Opened(k, c) => Spent(c)
  /\ \A c \in Code, r \in Request : Opening(r, c) => Spent(c)
  /\ \A c \in Code, k \in Token, r \in Request : ~(Opened(k, c) /\ Opening(r, c))
  /\ \A c \in Code, r, s \in Request : Opening(r, c) /\ Opening(s, c) => r = s

\* A step that opens nothing with a code.
LEMMA TrailKept ==
  ASSUME SessionTrail,
         \A c \in Code : Spent(c) => Spent(c)',
         \A c \in Code, k \in Token : Opened(k, c)' => Opened(k, c),
         \A c \in Code, r \in Request : Opening(r, c)' => Opening(r, c)
  PROVE  SessionTrail'
  <1>1. CodeOpensOneSession'
    BY DEF SessionTrail, CodeOpensOneSession, Opened
  <1> QED
    BY <1>1 DEF SessionTrail

\* Nothing but the session of a code leads on with that code.
LEMMA GoesOnOtherwise ==
  ASSUME TypeOK, NEW r \in Request, NEW t, Goto(r, t), t.pc # "issue" \/ t.by \in Way
  PROVE  \A c \in Code, q \in Request : Opening(q, c)' => Opening(q, c)
  <1>1. \A q \in Request : task'[q] = IF q = r THEN t ELSE task[q]
    BY Parts DEF Goto, TasksOK
  <1> QED
    BY <1>1, Apart DEF Opening

\* Codes are spent and deleted, and never given back.
LEMMA StaysSpent ==
  ASSUME TypeOK, [Next]_vars, NEW c \in Code, Spent(c)
  PROVE  Spent(c)'
  <1>1. CASE UNCHANGED code
    BY <1>1 DEF Spent
  <1>2. ASSUME NEW r \in Request, ConsumeRecoveryCode(r)
        PROVE  Spent(c)'
    <2> DEFINE d == task[r].code
    <2>1. CASE UNCHANGED code
      BY <2>1 DEF Spent
    <2>2. CASE ~UNCHANGED code
      <3>1. /\ d \in Code /\ code[d] \in RecoveryCode
            /\ code' = [code EXCEPT ![d].used = TRUE]
        BY <1>2, <2>2, Whom, Tasks, Parts
        DEF ConsumeRecoveryCode, IsSpendable, CodesOf, CodesOK
      <3> HIDE DEF d
      <3>2. /\ code'[d] \in RecoveryCode /\ code'[d].used = TRUE
            /\ \A e \in Code \ {d} : code'[e] = code[e]
        BY <3>1, Parts DEF CodesOK, RecoveryCode
      <3> QED
        BY <3>2, Apart DEF Spent
    <2> QED
      BY <2>1, <2>2
  <1>3. ASSUME NEW u, NEW print \in SUBSET {d \in Code : code[d] = Unused},
               code' = Reprinted(u, print)
        PROVE  Spent(c)'
    BY <1>3, Apart DEF Spent, Reprinted
  <1>4. ASSUME NEW r \in Request, EnableTotp(r) \/ DisableTotp(r)
        PROVE  Spent(c)'
    BY <1>3, <1>4 DEF EnableTotp, DisableTotp, CodesAfterDisable
  <1>5. \/ UNCHANGED code
        \/ \E r \in Request : ConsumeRecoveryCode(r) \/ EnableTotp(r) \/ DisableTotp(r)
    BY DEF Next, vars, Signing, Editing, Login, VerifyTotpChallenge,
           PresentRecoveryCode, IssueTokens, Refresh, Rotate, Logout, RevokeAllForUser,
           ChangePassword, BeginTotpSetup, StoreSecret, ConfirmTotp, StartDisable, Create,
           StartUpdate, CountOthers, Update, Fail, Only
  <1> QED
    BY <1>1, <1>2, <1>4, <1>5

\* A session keeps the way it was opened.
LEMMA SameWay ==
  ASSUME TypeOK, NEW r \in Request,
         Rotate(r) \/ (\E k \in Token : Logout(r, k)) \/ RevokeAllForUser(r)
  PROVE  \A c \in Code, k \in Token : Opened(k, c)' => Opened(k, c)
  <1>1. CASE Rotate(r)
    <2> DEFINE l == task[r].token
    <2>1. /\ l \in Token /\ token[l] \in RefreshToken
          /\ token' = [token EXCEPT ![l].live = FALSE]
      BY <1>1, Whom, Tasks, Parts DEF Rotate, RotatesOK, TokensOK
    <2> HIDE DEF l
    <2>2. \A k \in Token : token'[k] # Unused => token[k] # Unused /\ token'[k].by = token[k].by
      BY <2>1, Apart, Parts DEF TokensOK, RefreshToken
    <2> QED
      BY <2>2 DEF Opened
  <1>2. ASSUME NEW l \in Token, Logout(r, l)
        PROVE  \A c \in Code, k \in Token : Opened(k, c)' => Opened(k, c)
    <2>1. token[l] \in RefreshToken /\ token' = [token EXCEPT ![l].live = FALSE]
      BY <1>2, Parts DEF Logout, TokensOK
    <2>2. \A k \in Token : token'[k] # Unused => token[k] # Unused /\ token'[k].by = token[k].by
      BY <2>1, Apart, Parts DEF TokensOK, RefreshToken
    <2> QED
      BY <2>2 DEF Opened
  <1>3. CASE RevokeAllForUser(r)
    <2>1. \A k \in Token : token'[k] = token[k] \/
              (token[k] # Unused /\ token'[k] = [token[k] EXCEPT !.live = FALSE])
      BY <1>3 DEF RevokeAllForUser
    <2>2. \A k \in Token : token'[k] # Unused => token[k] # Unused /\ token'[k].by = token[k].by
      BY <2>1, Parts DEF TokensOK, RefreshToken
    <2> QED
      BY <2>2 DEF Opened
  <1> QED
    BY <1>1, <1>2, <1>3

LEMMA TrailStep == TypeOK /\ SessionTrail /\ [Next]_vars => SessionTrail'
  <1> SUFFICES ASSUME TypeOK, SessionTrail, [Next]_vars
               PROVE  SessionTrail'
    OBVIOUS
  <1>1. \A c \in Code : Spent(c) => Spent(c)'
    BY StaysSpent
  <1>2. CASE UNCHANGED <<token, task>>
    BY <1>1, <1>2, TrailKept DEF Opened, Opening
  \* What neither makes a session nor goes on to make one with a code.
  <1>3. ASSUME NEW r \in Request, NEW t, Goto(r, t), t.pc # "issue" \/ t.by \in Way,
               \A c \in Code, k \in Token : Opened(k, c)' => Opened(k, c)
        PROVE  SessionTrail'
    <2>1. \A c \in Code, q \in Request : Opening(q, c)' => Opening(q, c)
      BY <1>3, GoesOnOtherwise
    <2> QED
      BY <1>1, <1>3, <2>1, TrailKept
  <1>4. ASSUME NEW r \in Request, ConsumeRecoveryCode(r)
        PROVE  SessionTrail'
    <2> DEFINE t == task[r]
    <2>1. CASE ~IsSpendable(t.code, t.user)
      <3>1. Goto(r, NoTask) /\ UNCHANGED token /\ NoTask.pc # "issue"
        BY <1>4, <2>1 DEF ConsumeRecoveryCode, NoTask
      <3> QED
        BY <1>3, <3>1 DEF Opened
    <2>2. CASE IsSpendable(t.code, t.user)
      <3>1. PICK c \in Code, u \in User : c = t.code /\ u = t.user
        BY <1>4, Whom, Tasks DEF ConsumeRecoveryCode
      <3>2. /\ UNCHANGED token
            /\ code' = [code EXCEPT ![c].used = TRUE]
            /\ Goto(r, [pc |-> "issue", user |-> u, by |-> c])
        BY <1>4, <2>2, <3>1 DEF ConsumeRecoveryCode
      <3>3. code[c] \notin {Unused, Deleted} /\ ~code[c].used /\ code[c] \in RecoveryCode
        BY <2>2, <3>1, Parts DEF IsSpendable, CodesOf, CodesOK
      <3>4. ~Spent(c) /\ Spent(c)'
        <4>1. code'[c] \in RecoveryCode /\ code'[c].used = TRUE
          BY <3>2, <3>3, Parts DEF CodesOK, RecoveryCode
        <4> QED
          BY <3>3, <4>1, Apart DEF Spent
      <3>5. /\ \A q \in Request \ {r} : task'[q] = task[q]
            /\ task'[r].pc = "issue" /\ task'[r].by = c
        BY <3>2, Parts DEF Goto, TasksOK
      <3>6. \A d \in Code, k \in Token : Opened(k, d)' <=> Opened(k, d)
        BY <3>2 DEF Opened
      <3>7. \A d \in Code, q \in Request :
                Opening(q, d)' <=> (IF q = r THEN d = c ELSE Opening(q, d))
        BY <3>5 DEF Opening
      <3>8. /\ \A k \in Token : ~Opened(k, c)
            /\ \A q \in Request : ~Opening(q, c)
        BY <3>4 DEF SessionTrail
      <3>9. CodeOpensOneSession'
        BY <3>2 DEF SessionTrail, CodeOpensOneSession
      <3> QED
        BY <1>1, <3>4, <3>6, <3>7, <3>8, <3>9 DEF SessionTrail
    <2> QED
      BY <2>1, <2>2
  <1>5. ASSUME NEW r \in Request, IssueTokens(r)
        PROVE  SessionTrail'
    <2>1. PICK by \in By, u \in User : by = task[r].by /\ u = task[r].user
      BY <1>5, Whom, Tasks DEF IssueTokens
    <2>2. PICK k \in Token :
              /\ token[k] = Unused
              /\ token' = [token EXCEPT ![k] = [user |-> u, live |-> TRUE, by |-> by]]
      BY <1>5, <2>1 DEF IssueTokens
    <2>3. [user |-> u, live |-> TRUE, by |-> by] # Unused
      <3>1. [user |-> u, live |-> TRUE, by |-> by] \in RefreshToken
        BY DEF RefreshToken
      <3> QED
        BY <3>1, Apart
    <2>4. task[r].pc = "issue" /\ Goto(r, NoTask)
      BY <1>5 DEF IssueTokens
    <2>5. \A c \in Code, l \in Token : Opened(l, c)' <=> (IF l = k THEN by = c ELSE Opened(l, c))
      BY <2>2, <2>3, Parts DEF Opened, TokensOK
    <2>6. \A c \in Code, q \in Request : Opening(q, c)' <=> (q # r /\ Opening(q, c))
      BY <2>4, Parts DEF Opening, Goto, NoTask, TasksOK
    <2>7. \A c \in Code : Opening(r, c) <=> by = c
      BY <2>1, <2>4 DEF Opening
    <2>8. CodeOpensOneSession'
      <3>1. \A c \in Code, l, m \in Token : Opened(l, c)' /\ Opened(m, c)' => l = m
        BY <2>5, <2>7 DEF SessionTrail, CodeOpensOneSession, Opened
      <3> QED
        BY <3>1 DEF CodeOpensOneSession, Opened
    <2> QED
      BY <1>1, <2>5, <2>6, <2>7, <2>8 DEF SessionTrail
  <1>6. ASSUME NEW r \in Request,
               Rotate(r) \/ (\E k \in Token : Logout(r, k)) \/ RevokeAllForUser(r)
        PROVE  SessionTrail'
    <2>1. \A c \in Code, k \in Token : Opened(k, c)' => Opened(k, c)
      BY <1>6, SameWay
    <2>2. CASE UNCHANGED task
      BY <1>1, <2>1, <2>2, TrailKept DEF Opening
    <2>3. CASE Rotate(r)
      <3>1. Goto(r, [pc |-> "issue", user |-> task[r].user, by |-> "refresh"])
        BY <2>3 DEF Rotate
      <3> QED
        BY <1>3, <2>1, <3>1 DEF Way
    <2>4. CASE RevokeAllForUser(r)
      <3>1. \/ Goto(r, [pc |-> "issue", user |-> task[r].user, by |-> "password"])
            \/ Goto(r, NoTask)
        BY <2>4 DEF RevokeAllForUser
      <3>2. NoTask.pc # "issue"
        BY DEF NoTask
      <3> QED
        BY <1>3, <2>1, <3>1, <3>2 DEF Way
    <2> QED
      BY <1>6, <2>2, <2>3, <2>4 DEF Logout
  \* The remaining steps go on to anything but a session opened with a code.
  <1>7. ASSUME NEW r \in Request, NEW t, Goto(r, t), UNCHANGED token,
               t.pc # "issue" \/ t.by \in Way
        PROVE  SessionTrail'
    BY <1>3, <1>7 DEF Opened
  <1>8. ASSUME NEW r \in Request, NEW u \in User,
               \/ Login(r, u) \/ VerifyTotpChallenge(r, u) \/ BeginTotpSetup(r, u)
               \/ ConfirmTotp(r, u) \/ StartDisable(r, u)
               \/ \E c \in Code : PresentRecoveryCode(r, u, c)
               \/ \E reissue \in BOOLEAN : ChangePassword(r, u, reissue)
        PROVE  SessionTrail'
    <2>1. UNCHANGED token
      BY <1>8 DEF Login, VerifyTotpChallenge, BeginTotpSetup, ConfirmTotp, StartDisable,
                  PresentRecoveryCode, ChangePassword, Only
    <2>2. \/ UNCHANGED task
          \/ \E by \in Way : Goto(r, [pc |-> "issue", user |-> u, by |-> by])
          \/ \E pc \in {"secret", "enable"} :
                Goto(r, [pc |-> pc, user |-> u, saw |-> FactorOf(u)])
          \/ Goto(r, [pc |-> "disable", user |-> u])
          \/ \E c \in Code : Goto(r, [pc |-> "spend", user |-> u, code |-> c])
          \/ \E x \in BOOLEAN : Goto(r, [pc |-> "revoke", user |-> u, reissue |-> x])
      <3>1. CASE Login(r, u) \/ VerifyTotpChallenge(r, u)
        BY <3>1 DEF Login, VerifyTotpChallenge, Only, Way
      <3>2. CASE BeginTotpSetup(r, u) \/ ConfirmTotp(r, u) \/ StartDisable(r, u)
        BY <3>2 DEF BeginTotpSetup, ConfirmTotp, StartDisable, Only
      <3>3. CASE \E c \in Code : PresentRecoveryCode(r, u, c)
        BY <3>3 DEF PresentRecoveryCode, Only
      <3>4. CASE \E reissue \in BOOLEAN : ChangePassword(r, u, reissue)
        BY <3>4 DEF ChangePassword, Only
      <3> QED
        BY <1>8, <3>1, <3>2, <3>3, <3>4
    <2> QED
      BY <1>2, <1>7, <2>1, <2>2
  <1>9. ASSUME NEW r \in Request, NEW k \in Token, Refresh(r, k)
        PROVE  SessionTrail'
    <2>1. /\ UNCHANGED token
          /\ \/ Goto(r, [pc |-> "rotate", user |-> token[k].user, token |-> k])
             \/ Goto(r, [pc |-> "revoke", user |-> token[k].user, reissue |-> FALSE])
      BY <1>9 DEF Refresh, Only
    <2> QED
      BY <1>7, <2>1
  <1>10. ASSUME NEW r \in Request,
                \/ StoreSecret(r) \/ EnableTotp(r) \/ DisableTotp(r) \/ CountOthers(r)
                \/ Update(r) \/ Fail(r)
                \/ \E actor, u \in User, role \in Role, active \in BOOLEAN :
                      StartUpdate(r, actor, u, role, active)
         PROVE  SessionTrail'
    <2>1. UNCHANGED token
      BY <1>10 DEF StoreSecret, EnableTotp, DisableTotp, CountOthers, Update, Fail,
                   StartUpdate, Only
    <2>2. \/ Goto(r, NoTask)
          \/ Goto(r, [task[r] EXCEPT !.pc = "write", !.saw = Superadmins])
                /\ task[r].pc = "count"
          \/ Goto(r, [pc |-> "revoke", user |-> task[r].user, reissue |-> FALSE])
          \/ \E u, role, active : \E pc \in {"count", "write"} :
                Goto(r, [pc |-> pc, user |-> u, role |-> role, active |-> active,
                         saw |-> Superadmins])
      <3>1. CASE StoreSecret(r) \/ EnableTotp(r) \/ DisableTotp(r) \/ Fail(r)
        BY <3>1 DEF StoreSecret, EnableTotp, DisableTotp, Fail, Only
      <3>2. CASE CountOthers(r)
        BY <3>2 DEF CountOthers, Only
      <3>3. CASE Update(r)
        BY <3>3 DEF Update
      <3>4. ASSUME NEW actor \in User, NEW u \in User, NEW role \in Role, NEW active \in BOOLEAN,
                   StartUpdate(r, actor, u, role, active)
            PROVE  \E pc \in {"count", "write"} :
                      Goto(r, [pc |-> pc, user |-> u, role |-> role, active |-> active,
                               saw |-> Superadmins])
        BY <3>4 DEF StartUpdate, Only
      <3> QED
        BY <1>10, <3>1, <3>2, <3>3, <3>4
    <2>3. NoTask.pc # "issue"
      BY DEF NoTask
    <2>4. CASE /\ task[r].pc = "count"
               /\ Goto(r, [task[r] EXCEPT !.pc = "write", !.saw = Superadmins])
      <3>1. [task[r] EXCEPT !.pc = "write", !.saw = Superadmins].pc # "issue"
        BY <2>4, Whom, Tasks DEF Edit
      <3> QED
        BY <1>7, <2>1, <2>4, <3>1
    <2> QED
      BY <1>7, <2>1, <2>2, <2>3, <2>4
  <1>11. CASE UNCHANGED vars
    BY <1>2, <1>11 DEF vars
  <1>12. ASSUME NEW r \in Request, Signing(r)
         PROVE  SessionTrail'
    BY <1>4, <1>6, <1>8, <1>9, <1>10, <1>12, Apart DEF Signing
  <1>13. ASSUME NEW r \in Request, Editing(r)
         PROVE  SessionTrail'
    BY <1>2, <1>10, <1>13 DEF Editing, Create
  <1> QED
    BY <1>5, <1>6, <1>10, <1>11, <1>12, <1>13 DEF Next

\* A recovery code opens one session, however many requests present it.
THEOREM CodesAreSingleUse == Spec => []CodeOpensOneSession
  <1>1. Init => SessionTrail
    BY DEF Init, SessionTrail, CodeOpensOneSession, Opened, Opening, NoTask
  <1>2. SessionTrail => CodeOpensOneSession
    BY DEF SessionTrail
  <1> QED
    BY <1>1, <1>2, TrailStep, TypeCorrect, PTL DEF Spec

-----------------------------------------------------------------------------
(* What a request read *)

Loses(t) == ~t.active \/ t.role # "SUPERADMIN"

\* A setup began over a second factor that was off, and an edit that takes
\* from a superadmin has seen another.
Prudent(t) ==
  /\ t.pc = "secret" => t.saw.enabled = FALSE
  /\ t.pc = "write" /\ Loses(t) => t.user \notin t.saw \/ t.saw \ {t.user} # {}

ReadTrail == \A r \in Request : Prudent(task[r])

LEMMA PrudentKept ==
  ASSUME TypeOK, ReadTrail, NEW r \in Request, NEW t, Goto(r, t), Prudent(t)
  PROVE  ReadTrail'
  <1>1. \A q \in Request : task'[q] = IF q = r THEN t ELSE task[q]
    BY Parts DEF Goto, TasksOK
  <1>2. \A q \in Request : Prudent(task'[q])
    BY <1>1 DEF ReadTrail
  <1> QED
    BY <1>2 DEF ReadTrail, Prudent, Loses

LEMMA ReadStep == TypeOK /\ ReadTrail /\ [Next]_vars => ReadTrail'
  <1> SUFFICES ASSUME TypeOK, ReadTrail, [Next]_vars
               PROVE  ReadTrail'
    OBVIOUS
  <1>0. NoTask.pc = "idle"
    BY DEF NoTask
  <1>1. CASE UNCHANGED task
    BY <1>1 DEF ReadTrail, Prudent, Loses
  <1>2. ASSUME NEW r \in Request, NEW t, Goto(r, t), t.pc \notin {"secret", "write"}
        PROVE  ReadTrail'
    BY <1>2, PrudentKept DEF Prudent
  <1>3. ASSUME NEW r \in Request, NEW u \in User,
               \/ Login(r, u) \/ VerifyTotpChallenge(r, u)
               \/ ConfirmTotp(r, u) \/ StartDisable(r, u)
               \/ \E c \in Code : PresentRecoveryCode(r, u, c)
               \/ \E reissue \in BOOLEAN : ChangePassword(r, u, reissue)
        PROVE  ReadTrail'
    <2>1. \/ UNCHANGED task
          \/ \E by \in Way : Goto(r, [pc |-> "issue", user |-> u, by |-> by])
          \/ Goto(r, [pc |-> "enable", user |-> u, saw |-> FactorOf(u)])
          \/ Goto(r, [pc |-> "disable", user |-> u])
          \/ \E c \in Code : Goto(r, [pc |-> "spend", user |-> u, code |-> c])
          \/ \E x \in BOOLEAN : Goto(r, [pc |-> "revoke", user |-> u, reissue |-> x])
      <3>1. CASE Login(r, u) \/ VerifyTotpChallenge(r, u)
        BY <3>1 DEF Login, VerifyTotpChallenge, Only, Way
      <3>2. CASE ConfirmTotp(r, u) \/ StartDisable(r, u)
        BY <3>2 DEF ConfirmTotp, StartDisable, Only
      <3>3. CASE \E c \in Code : PresentRecoveryCode(r, u, c)
        BY <3>3 DEF PresentRecoveryCode, Only
      <3>4. CASE \E reissue \in BOOLEAN : ChangePassword(r, u, reissue)
        BY <3>4 DEF ChangePassword, Only
      <3> QED
        BY <1>3, <3>1, <3>2, <3>3, <3>4
    <2> QED
      BY <1>1, <1>2, <2>1
  <1>4. ASSUME NEW r \in Request, NEW u \in User, BeginTotpSetup(r, u)
        PROVE  ReadTrail'
    <2> DEFINE t == [pc |-> "secret", user |-> u, saw |-> FactorOf(u)]
    <2>1. Goto(r, t) /\ ~account[u].enabled /\ account[u] \in Account
      BY <1>4, Parts DEF BeginTotpSetup, Only, IsActive, AccountsOK
    <2>2. Prudent(t)
      BY <2>1 DEF Prudent, FactorOf, Account
    <2> QED
      BY <2>1, <2>2, PrudentKept
  <1>5. ASSUME NEW r \in Request, NEW k \in Token, Refresh(r, k) \/ Logout(r, k)
        PROVE  ReadTrail'
    <2>1. \/ UNCHANGED task
          \/ Goto(r, [pc |-> "rotate", user |-> token[k].user, token |-> k])
          \/ Goto(r, [pc |-> "revoke", user |-> token[k].user, reissue |-> FALSE])
      BY <1>5 DEF Refresh, Logout, Only
    <2> QED
      BY <1>1, <1>2, <2>1
  <1>6. ASSUME NEW r \in Request,
               \/ ConsumeRecoveryCode(r) \/ Rotate(r) \/ IssueTokens(r)
               \/ RevokeAllForUser(r) \/ Fail(r)
               \/ StoreSecret(r) \/ EnableTotp(r) \/ DisableTotp(r)
        PROVE  ReadTrail'
    <2>1. Goto(r, NoTask) \/ \E u, by : Goto(r, [pc |-> "issue", user |-> u, by |-> by])
      BY <1>6 DEF ConsumeRecoveryCode, Rotate, IssueTokens, RevokeAllForUser, Fail, Only,
                  StoreSecret, EnableTotp, DisableTotp
    <2> QED
      BY <1>0, <1>2, <2>1
  <1>7. ASSUME NEW r \in Request, NEW actor \in User, NEW u \in User, NEW role \in Role,
               NEW active \in BOOLEAN, StartUpdate(r, actor, u, role, active)
        PROVE  ReadTrail'
    <2> DEFINE loses == ~active \/ role # "SUPERADMIN"
               t(pc) == [pc |-> pc, user |-> u, role |-> role, active |-> active,
                         saw |-> Superadmins]
    <2>1. PICK pc \in {"count", "write"} :
              Goto(r, t(pc)) /\ (pc = "write" => ~IsSuperadmin(u) \/ ~loses)
      BY <1>7 DEF StartUpdate, Only
    <2>2. /\ t(pc).pc = pc /\ t(pc).user = u /\ t(pc).saw = Superadmins
          /\ Loses(t(pc)) <=> loses
      BY DEF Loses
    <2> HIDE DEF t, loses
    <2>3. Prudent(t(pc))
      BY <2>1, <2>2 DEF Prudent, Superadmins
    <2> QED
      BY <2>1, <2>3, PrudentKept
  <1>8. ASSUME NEW r \in Request, CountOthers(r)
        PROVE  ReadTrail'
    <2> DEFINE t == [task[r] EXCEPT !.pc = "write", !.saw = Superadmins]
    <2>1. CASE OtherSuperadmins(task[r].user) = {}
      <3>1. Goto(r, NoTask)
        BY <1>8, <2>1 DEF CountOthers, Only
      <3> QED
        BY <1>0, <1>2, <3>1
    <2>2. CASE OtherSuperadmins(task[r].user) # {}
      <3>1. task[r] \in Edit
        BY <1>8, Whom, Tasks DEF CountOthers
      <3>2. t.pc = "write" /\ t.user = task[r].user /\ t.saw = Superadmins
        BY <3>1 DEF Edit
      <3>3. Goto(r, t)
        BY <1>8, <2>2 DEF CountOthers, Only
      <3> HIDE DEF t
      <3>4. Prudent(t)
        BY <2>2, <3>2 DEF Prudent, OtherSuperadmins
      <3> QED
        BY <3>3, <3>4, PrudentKept
    <2> QED
      BY <2>1, <2>2
  <1>9. ASSUME NEW r \in Request, Update(r)
        PROVE  ReadTrail'
    <2>1. \/ Goto(r, [pc |-> "revoke", user |-> task[r].user, reissue |-> FALSE])
          \/ Goto(r, NoTask)
      BY <1>9 DEF Update
    <2> QED
      BY <1>0, <1>2, <2>1
  <1>10. ASSUME NEW r \in Request, NEW u \in User, NEW role \in Role, Create(r, u, role)
         PROVE  ReadTrail'
    BY <1>1, <1>10 DEF Create
  <1> QED
    BY <1>1, <1>3, <1>4, <1>5, <1>6, <1>7, <1>8, <1>9, <1>10, Apart
    DEF Next, vars, Signing, Editing

LEMMA ReadTrailHolds == Spec => []ReadTrail
  <1>1. Init => ReadTrail
    <2>1. NoTask.pc = "idle"
      BY DEF NoTask
    <2> QED
      BY <2>1 DEF Init, ReadTrail, Prudent
  <1> QED
    BY <1>1, ReadStep, TypeCorrect, PTL DEF Spec

\* Who writes to the accounts.
LEMMA Writers ==
  ASSUME [Next]_vars
  PROVE  \/ UNCHANGED account
         \/ \E r \in Request : \/ StoreSecret(r) \/ EnableTotp(r) \/ DisableTotp(r) \/ Update(r)
                               \/ \E u \in User, role \in Role : Create(r, u, role)
  BY DEF Next, vars, Signing, Editing, Login, VerifyTotpChallenge, ConsumeRecoveryCode,
         PresentRecoveryCode, IssueTokens, Refresh, Rotate, Logout, RevokeAllForUser,
         ChangePassword, BeginTotpSetup, ConfirmTotp, StartDisable, StartUpdate,
         CountOthers, Fail, Only

\* A request that is through with its statement.
LEMMA Through ==
  ASSUME TypeOK, NEW r \in Request, StoreSecret(r) \/ EnableTotp(r) \/ Update(r)
  PROVE  Ends(r)
  <1>1. task[r].pc \in {"secret", "enable", "write"}
    BY DEF StoreSecret, EnableTotp, Update
  <1>2. \/ Goto(r, NoTask)
        \/ Goto(r, [pc |-> "revoke", user |-> task[r].user, reissue |-> FALSE])
    BY DEF StoreSecret, EnableTotp, Update
  <1>3. NoTask.pc = "idle" /\ task \in [Request -> Task]
    BY Parts DEF NoTask, TasksOK
  <1>4. task'[r].pc \in {"idle", "revoke"}
    BY <1>2, <1>3 DEF Goto
  <1> QED
    BY <1>1, <1>3, <1>4 DEF Ends

-----------------------------------------------------------------------------
(* The second factor *)

\* The other half of EnrolmentIsProven.
OnlyProven ==
  \A u \in User :
      /\ account[u] # Unused /\ account'[u].enabled
      /\ FactorOf(u)' # FactorOf(u)
      => \E r \in Request :
            /\ Ends(r) /\ task[r].user = u
            /\ \/ task[r].pc = "enable" /\ account'[u].secret = task[r].saw.secret
               \/ SetupOvertaken(r)

LEMMA ProvenStep == TypeOK /\ ReadTrail /\ [Next]_vars => OnlyProven
  <1> SUFFICES ASSUME TypeOK, ReadTrail, [Next]_vars, NEW u \in User,
                      account[u] # Unused, account'[u].enabled,
                      FactorOf(u)' # FactorOf(u)
               PROVE  \E r \in Request :
                         /\ Ends(r) /\ task[r].user = u
                         /\ \/ task[r].pc = "enable" /\ account'[u].secret = task[r].saw.secret
                            \/ SetupOvertaken(r)
    BY DEF OnlyProven
  <1>0. account \in [User -> Account \cup {Unused}] /\ account[u] \in Account
    BY Parts DEF AccountsOK
  <1>1. account'[u] # account[u]
    BY DEF FactorOf
  <1>2. ASSUME NEW r \in Request, StoreSecret(r)
        PROVE  Ends(r) /\ task[r].user = u /\ SetupOvertaken(r)
    <2>1. PICK new \in Secret : account' = [account EXCEPT ![task[r].user].secret = new]
      BY <1>2 DEF StoreSecret
    <2>2. task[r].user = u
      BY <1>0, <1>1, <2>1
    <2>3. account[u].enabled
      BY <1>0, <2>1, <2>2 DEF Account
    <2>4. task[r].pc = "secret" /\ task[r].saw.enabled = FALSE
      BY <1>2 DEF StoreSecret, ReadTrail, Prudent
    <2>5. FactorOf(u) # task[r].saw
      BY <2>3, <2>4 DEF FactorOf
    <2> QED
      BY <1>2, <2>2, <2>4, <2>5, Through DEF SetupOvertaken
  <1>3. ASSUME NEW r \in Request, EnableTotp(r)
        PROVE  /\ Ends(r) /\ task[r].user = u
               /\ \/ task[r].pc = "enable" /\ account'[u].secret = task[r].saw.secret
                  \/ SetupOvertaken(r)
    <2>1. account' = [account EXCEPT ![task[r].user].enabled = TRUE] /\ task[r].pc = "enable"
      BY <1>3 DEF EnableTotp
    <2>2. task[r].user = u
      BY <1>0, <1>1, <2>1
    <2>3. account'[u].secret = account[u].secret
      BY <1>0, <2>1, <2>2 DEF Account
    <2>4. FactorOf(u) = task[r].saw => account[u].secret = task[r].saw.secret
      BY DEF FactorOf
    <2> QED
      BY <1>3, <2>1, <2>2, <2>3, <2>4, Through DEF SetupOvertaken
  <1>4. ASSUME NEW r \in Request, DisableTotp(r)
        PROVE  FALSE
    <2>1. account' = [account EXCEPT ![task[r].user].secret = NoSecret,
                                     ![task[r].user].enabled = FALSE]
      BY <1>4 DEF DisableTotp
    <2>2. task[r].user = u
      BY <1>0, <1>1, <2>1
    <2>3. account'[u].enabled = FALSE
      BY <1>0, <2>1, <2>2 DEF Account
    <2> QED
      BY <2>3
  <1>5. ASSUME NEW r \in Request, Update(r)
        PROVE  FALSE
    <2> DEFINE t == task[r]
    <2>1. account' = [account EXCEPT ![t.user].role = t.role, ![t.user].active = t.active]
      BY <1>5 DEF Update
    <2> HIDE DEF t
    <2>2. t.user = u
      BY <1>0, <1>1, <2>1
    <2>3. account'[u].secret = account[u].secret /\ account'[u].enabled = account[u].enabled
      BY <1>0, <2>1, <2>2 DEF Account
    <2> QED
      BY <2>3 DEF FactorOf
  <1>6. ASSUME NEW r \in Request, NEW v \in User, NEW role \in Role, Create(r, v, role)
        PROVE  FALSE
    BY <1>0, <1>1, <1>6 DEF Create
  <1> QED
    BY <1>1, <1>2, <1>3, <1>4, <1>5, <1>6, Writers

\* Recovery codes are there exactly while the second factor is enabled, and it
\* comes on, or has another secret while on, only with the secret whose code
\* was presented, or by a request that another of the account overtook.
THEOREM AnEnrolmentIsProven == Spec => EnrolmentIsProven
  <1>1. Init => CodesFollow
    BY Apart DEF Init, CodesFollow, CodesOf
  <1>2. TypeOK /\ ReadTrail /\ [Next]_vars => [OnlyProven]_vars
    BY ProvenStep
  <1> QED
    BY <1>1, <1>2, EnrolmentStep, TypeCorrect, ReadTrailHolds, PTL
    DEF Spec, EnrolmentIsProven, CodesFollow, OnlyProven

-----------------------------------------------------------------------------
(* The last superadmin *)

\* A second factor does not make or unmake a superadmin.
LEMMA SecondFactorApart ==
  ASSUME TypeOK, NEW r \in Request, StoreSecret(r) \/ EnableTotp(r) \/ DisableTotp(r)
  PROVE  \A u \in User : IsSuperadmin(u)' <=> IsSuperadmin(u)
  <1>1. PICK w \in User : w = task[r].user /\ account[w] \in Account
    BY Whom DEF StoreSecret, EnableTotp, DisableTotp
  <1>2. \/ \E new \in Secret : account' = [account EXCEPT ![w].secret = new]
        \/ account' = [account EXCEPT ![w].enabled = TRUE]
        \/ account' = [account EXCEPT ![w].secret = NoSecret, ![w].enabled = FALSE]
    BY <1>1 DEF StoreSecret, EnableTotp, DisableTotp
  <1>3. /\ \A u \in User \ {w} : account'[u] = account[u]
        /\ account'[w] \in Account
        /\ account'[w].role = account[w].role /\ account'[w].active = account[w].active
    <2>1. account \in [User -> Account \cup {Unused}]
      BY Parts DEF AccountsOK
    <2>2. CASE \E new \in Secret : account' = [account EXCEPT ![w].secret = new]
      BY <1>1, <2>1, <2>2 DEF Account
    <2>3. CASE account' = [account EXCEPT ![w].enabled = TRUE]
      BY <1>1, <2>1, <2>3 DEF Account
    <2>4. CASE account' = [account EXCEPT ![w].secret = NoSecret, ![w].enabled = FALSE]
      BY <1>1, <2>1, <2>4 DEF Account
    <2> QED
      BY <1>2, <2>2, <2>3, <2>4
  <1> QED
    BY <1>1, <1>3, Apart DEF IsSuperadmin, IsActive

LEMMA TeamStep ==
  ASSUME TypeOK, ReadTrail, [Next]_vars, Superadmins # {}
  PROVE  Superadmins' # {} \/ \E r \in Request : Ends(r) /\ EditOvertaken(r)
  <1>1. CASE UNCHANGED account
    BY <1>1 DEF Superadmins, IsSuperadmin, IsActive
  <1>2. ASSUME NEW r \in Request, StoreSecret(r) \/ EnableTotp(r) \/ DisableTotp(r)
        PROVE  Superadmins' # {}
    BY <1>2, SecondFactorApart DEF Superadmins
  <1>3. ASSUME NEW r \in Request, NEW u \in User, NEW role \in Role, Create(r, u, role)
        PROVE  Superadmins' # {}
    <2>1. account[u] = Unused /\ \A v \in User \ {u} : account'[v] = account[v]
      BY <1>3, Parts DEF Create, AccountsOK
    <2>2. \A v \in User : IsSuperadmin(v) => IsSuperadmin(v)'
      BY <2>1 DEF IsSuperadmin, IsActive
    <2> QED
      BY <2>2 DEF Superadmins
  <1>4. ASSUME NEW r \in Request, Update(r), ~EditOvertaken(r)
        PROVE  Superadmins' # {}
    <2>1. PICK u \in User : u = task[r].user /\ account[u] \in Account
      BY <1>4, Whom DEF Update
    <2>2. PICK role \in Role, active \in BOOLEAN : role = task[r].role /\ active = task[r].active
      BY <1>4, Whom, Tasks DEF Update, Edit
    <2>3. account' = [account EXCEPT ![u].role = role, ![u].active = active]
      BY <1>4, <2>1, <2>2 DEF Update
    <2>4. /\ account'[u] \in Account /\ account'[u].role = role /\ account'[u].active = active
          /\ \A v \in User \ {u} : account'[v] = account[v]
      BY <2>1, <2>2, <2>3, Parts DEF AccountsOK, Account
    <2>5. \A v \in User \ {u} : IsSuperadmin(v) => IsSuperadmin(v)'
      BY <2>4 DEF IsSuperadmin, IsActive
    <2>6. task[r].pc = "write" /\ Superadmins = task[r].saw
      BY <1>4 DEF Update, EditOvertaken
    <2>7. CASE Loses(task[r])
      <3>1. u \notin Superadmins \/ Superadmins \ {u} # {}
        BY <2>1, <2>6, <2>7 DEF ReadTrail, Prudent
      <3>2. \E v \in User \ {u} : IsSuperadmin(v)
        BY <3>1 DEF Superadmins
      <3> QED
        BY <2>5, <3>2 DEF Superadmins
    <2>8. CASE ~Loses(task[r])
      <3>1. IsSuperadmin(u)'
        BY <2>2, <2>4, <2>8, Apart DEF Loses, IsSuperadmin, IsActive
      <3> QED
        BY <3>1 DEF Superadmins
    <2> QED
      BY <2>7, <2>8
  <1>5. ASSUME NEW r \in Request, Update(r)
        PROVE  Ends(r)
    BY <1>5, Through
  <1> QED
    BY <1>1, <1>2, <1>3, <1>4, <1>5, Writers

\* The last active superadmin is taken away by no edit but one that others
\* overtook between its count and its write.
THEOREM OnlyARaceTakesTheLastSuperadmin == Spec => TheLastSuperadminStays
  <1> DEFINE Stays == Superadmins # {} =>
                         \/ Superadmins' # {}
                         \/ \E r \in Request : Ends(r) /\ EditOvertaken(r)
  <1>1. TypeOK /\ ReadTrail /\ [Next]_vars => [Stays]_vars
    BY TeamStep
  <1> QED
    BY <1>1, TypeCorrect, ReadTrailHolds, PTL DEF Spec, TheLastSuperadminStays

\* So edits that do not overtake each other leave someone who can edit.
COROLLARY ASuperadminRemains ==
  Spec /\ [](\A r \in Request : ~EditOvertaken(r)) => [](Superadmins # {})
  <1> DEFINE Alone == \A r \in Request : ~EditOvertaken(r)
             Some == Superadmins # {}
  <1>1. Init => Some
    <2> SUFFICES ASSUME Init
                 PROVE  Founder \in Superadmins
      OBVIOUS
    <2>1. account[Founder] \in Account /\ account[Founder].role = "SUPERADMIN"
          /\ account[Founder].active = TRUE /\ Founder \in User
      BY Apart DEF Init, Account, Role
    <2> QED
      BY <2>1, Apart DEF Superadmins, IsSuperadmin, IsActive
  <1>2. TypeOK /\ ReadTrail /\ Alone /\ Some /\ [Next]_vars => Some'
    BY TeamStep
  <1> HIDE DEF Alone, Some
  <1>3. Spec /\ []Alone => []Some
    BY <1>1, <1>2, TypeCorrect, ReadTrailHolds, PTL DEF Spec
  <1> QED
    BY <1>3 DEF Alone, Some
=============================================================================

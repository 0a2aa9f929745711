----------------------------- MODULE Accounts -----------------------------
(***************************************************************************)
(* The staff: who may do what, their second factor and their sessions.     *)
(*                                                                         *)
(* A request runs its statements one at a time and others run in between;  *)
(* a statement may fail, and the request ends there.  Passwords, one-time  *)
(* codes and links are proven or not: only a proof that is accepted        *)
(* changes anything here, the counters of failed attempts being left out.  *)
(* Tokens do not expire.                                                   *)
(***************************************************************************)
EXTENDS Naturals, FiniteSets

CONSTANTS
    User,       \* the accounts there may be
    Founder,    \* the superadmin the seed creates
    Present,    \* those of them who sign in and mind their account
    Request,    \* the requests that may run at once
    Secret,     \* the authenticator secrets that may be drawn
    NoSecret,   \* the secret of who has set none up
    Code,       \* the recovery codes that may be printed
    PerPrint,   \* how many codes an enrolment hands over
    Token,      \* the refresh tokens that may be issued
    Unused,     \* a code or a token not made yet, an account not created
    Deleted     \* a code that was replaced or switched off

\* A manager stands for every role that is not a superadmin.
Role == {"SUPERADMIN", "MANAGER"}

Account == [role : Role, active : BOOLEAN,
            secret : Secret \cup {NoSecret}, enabled : BOOLEAN]

RecoveryCode == [user : User, used : BOOLEAN]

\* How a session was opened: a recovery code, or one of the other ways.
Way == {"password", "totp", "refresh"}

By == Code \cup Way

RefreshToken == [user : User, live : BOOLEAN, by : By]

ASSUME AccountsAssumption ==
    /\ Founder \in User /\ Present \subseteq User
    /\ NoSecret \notin Secret
    /\ IsFiniteSet(Code) /\ PerPrint \in Nat \ {0}
    /\ Code \cap Way = {}
    /\ Unused \notin Account \cup RecoveryCode \cup RefreshToken
    /\ Deleted \notin RecoveryCode /\ Unused # Deleted

VARIABLES
    account,    \* the User rows
    code,       \* the RecoveryCode rows
    token,      \* the RefreshToken rows
    challenged, \* who has proven a password and owes a second factor
    task        \* the statement each request runs next

vars == <<account, code, token, challenged, task>>

NoTask == [pc |-> "idle"]

SecondFactor == [secret : Secret \cup {NoSecret}, enabled : BOOLEAN]

\* A request acts on what it saw when it read: the second factor of the
\* account, or who is a superadmin.
Task ==
    {NoTask}
    \cup [pc : {"issue"}, user : User, by : By]
    \cup [pc : {"spend"}, user : User, code : Code]
    \cup [pc : {"rotate"}, user : User, token : Token]
    \cup [pc : {"secret", "enable"}, user : User, saw : SecondFactor]
    \cup [pc : {"disable"}, user : User]
    \cup [pc : {"revoke"}, user : User, reissue : BOOLEAN]
    \cup [pc : {"count", "write"}, user : User, role : Role, active : BOOLEAN,
          saw : SUBSET User]

Init ==
    /\ account = [u \in User |->
          IF u = Founder THEN [role |-> "SUPERADMIN", active |-> TRUE,
                               secret |-> NoSecret, enabled |-> FALSE]
                         ELSE Unused]
    /\ code = [c \in Code |-> Unused]
    /\ token = [t \in Token |-> Unused]
    /\ challenged = {}
    /\ task = [r \in Request |-> NoTask]

IsActive(u) == account[u] # Unused /\ account[u].active

\* The second factor is asked for when it was confirmed and has its secret.
Enrolled(u) == account[u].enabled /\ account[u].secret # NoSecret

FactorOf(u) == [secret |-> account[u].secret, enabled |-> account[u].enabled]

CodesOf(u) == {c \in Code : code[c] \notin {Unused, Deleted} /\ code[c].user = u}

Goto(r, t) == task' = [task EXCEPT ![r] = t]

Only(r, t) == Goto(r, t) /\ UNCHANGED <<account, code, token, challenged>>

-----------------------------------------------------------------------------
(* Signing in *)

\* login: no session yet for who has a second factor.
Login(r, u) ==
    /\ task[r] = NoTask /\ IsActive(u)
    /\ IF Enrolled(u)
       THEN challenged' = challenged \cup {u} /\ UNCHANGED <<account, code, token, task>>
       ELSE Only(r, [pc |-> "issue", user |-> u, by |-> "password"])

\* verifyTotpChallenge with a code from the authenticator.
VerifyTotpChallenge(r, u) ==
    /\ task[r] = NoTask /\ u \in challenged /\ IsActive(u) /\ Enrolled(u)
    /\ Only(r, [pc |-> "issue", user |-> u, by |-> "totp"])

\* verifyTotpChallenge with a recovery code.
PresentRecoveryCode(r, u, c) ==
    /\ task[r] = NoTask /\ u \in challenged /\ IsActive(u) /\ Enrolled(u)
    /\ code[c] # Unused
    /\ Only(r, [pc |-> "spend", user |-> u, code |-> c])

\* A slip: any code of the user's is accepted.
IsSpendablePrinted(c, u) == c \in CodesOf(u)

IsSpendable(c, u) == c \in CodesOf(u) /\ ~code[c].used

\* consumeRecoveryCode: one conditional update decides.
ConsumeRecoveryCode(r) ==
    LET t == task[r] IN
    /\ t.pc = "spend"
    /\ IF IsSpendable(t.code, t.user)
       THEN /\ code' = [code EXCEPT ![t.code].used = TRUE]
            /\ Goto(r, [pc |-> "issue", user |-> t.user, by |-> t.code])
       ELSE Goto(r, NoTask) /\ UNCHANGED code
    /\ UNCHANGED <<account, token, challenged>>

IssueTokens(r) ==
    LET t == task[r] IN
    /\ t.pc = "issue"
    /\ \E k \in Token :
          /\ token[k] = Unused
          /\ token' = [token EXCEPT ![k] = [user |-> t.user, live |-> TRUE, by |-> t.by]]
    /\ Goto(r, NoTask)
    /\ UNCHANGED <<account, code, challenged>>

-----------------------------------------------------------------------------
(* Sessions *)

\* refresh: a token already revoked, or of a closed account, ends every session.
Refresh(r, k) ==
    /\ task[r] = NoTask /\ token[k] # Unused
    /\ LET u == token[k].user IN
       Only(r, IF token[k].live /\ account[u].active
               THEN [pc |-> "rotate", user |-> u, token |-> k]
               ELSE [pc |-> "revoke", user |-> u, reissue |-> FALSE])

Rotate(r) ==
    LET t == task[r] IN
    /\ t.pc = "rotate"
    /\ token' = [token EXCEPT ![t.token].live = FALSE]
    /\ Goto(r, [pc |-> "issue", user |-> t.user, by |-> "refresh"])
    /\ UNCHANGED <<account, code, challenged>>

Logout(r, k) ==
    /\ task[r] = NoTask /\ token[k] # Unused
    /\ token' = [token EXCEPT ![k].live = FALSE]
    /\ UNCHANGED <<account, code, challenged, task>>

RevokeAllForUser(r) ==
    LET t == task[r] IN
    /\ t.pc = "revoke"
    /\ token' = [k \in Token |-> IF token[k] # Unused /\ token[k].user = t.user
                                 THEN [token[k] EXCEPT !.live = FALSE] ELSE token[k]]
    /\ Goto(r, IF t.reissue THEN [pc |-> "issue", user |-> t.user, by |-> "password"]
                            ELSE NoTask)
    /\ UNCHANGED <<account, code, challenged>>

\* changePassword goes on with a session of its own, resetPassword does not;
\* the password itself is written before.
ChangePassword(r, u, reissue) ==
    /\ task[r] = NoTask /\ IsActive(u)
    /\ Only(r, [pc |-> "revoke", user |-> u, reissue |-> reissue])

-----------------------------------------------------------------------------
(* The second factor *)

\* A slip: a setup begins over a second factor that is on.
BeginTotpSetupAnyTime(r, u) ==
    /\ task[r] = NoTask /\ IsActive(u)
    /\ Only(r, [pc |-> "secret", user |-> u, saw |-> FactorOf(u)])

BeginTotpSetup(r, u) ==
    /\ task[r] = NoTask /\ IsActive(u) /\ ~account[u].enabled
    /\ Only(r, [pc |-> "secret", user |-> u, saw |-> FactorOf(u)])

\* A secret drawn anew, over whatever the row holds by now.
StoreSecret(r) ==
    LET t == task[r] IN
    /\ t.pc = "secret"
    /\ \E new \in Secret \ {account[t.user].secret} :
          account' = [account EXCEPT ![t.user].secret = new]
    /\ Goto(r, NoTask)
    /\ UNCHANGED <<code, token, challenged>>

\* The code presented is of the secret it read.
ConfirmTotp(r, u) ==
    /\ task[r] = NoTask /\ IsActive(u) /\ ~account[u].enabled /\ account[u].secret # NoSecret
    /\ Only(r, [pc |-> "enable", user |-> u, saw |-> FactorOf(u)])

\* A user's codes are deleted, and those of a new print added.
Reprinted(u, print) ==
    [c \in Code |-> IF c \in CodesOf(u) THEN Deleted
                    ELSE IF c \in print THEN [user |-> u, used |-> FALSE] ELSE code[c]]

\* enableTotp: one transaction, and a new print of codes.
EnableTotp(r) ==
    LET t == task[r] IN
    /\ t.pc = "enable"
    /\ account' = [account EXCEPT ![t.user].enabled = TRUE]
    /\ \E print \in SUBSET {c \in Code : code[c] = Unused} :
          /\ Cardinality(print) = PerPrint
          /\ code' = Reprinted(t.user, print)
    /\ Goto(r, NoTask)
    /\ UNCHANGED <<token, challenged>>

StartDisable(r, u) ==
    /\ task[r] = NoTask /\ IsActive(u)
    /\ Only(r, [pc |-> "disable", user |-> u])

CodesAfterDisable(u) == Reprinted(u, {})

\* disableTotp: one transaction as well.
DisableTotp(r) ==
    LET t == task[r] IN
    /\ t.pc = "disable"
    /\ account' = [account EXCEPT ![t.user].secret = NoSecret, ![t.user].enabled = FALSE]
    /\ code' = CodesAfterDisable(t.user)
    /\ Goto(r, NoTask)
    /\ UNCHANGED <<token, challenged>>

-----------------------------------------------------------------------------
(* The team *)

Create(r, u, role) ==
    /\ task[r] = NoTask /\ account[u] = Unused
    /\ account' = [account EXCEPT ![u] = [role |-> role, active |-> TRUE,
                                          secret |-> NoSecret, enabled |-> FALSE]]
    /\ UNCHANGED <<code, token, challenged, task>>

IsSuperadmin(u) == IsActive(u) /\ account[u].role = "SUPERADMIN"

Superadmins == {u \in User : IsSuperadmin(u)}

\* A slip: does not look whether there is such an account.
StartUpdateUnfound(r, actor, u, role, active) ==
    /\ task[r] = NoTask /\ account[actor] # Unused
    /\ LET loses == ~active \/ role # "SUPERADMIN" IN
       /\ ~(actor = u /\ loses)
       /\ Only(r, [pc |-> IF IsSuperadmin(u) /\ loses THEN "count" ELSE "write",
                   user |-> u, role |-> role, active |-> active,
                   saw |-> Superadmins])

\* update, and deactivate, which is an update of `active`.  Nobody demotes or
\* closes their own account, and whom it takes from is counted first.
StartUpdate(r, actor, u, role, active) ==
    /\ task[r] = NoTask /\ account[actor] # Unused /\ account[u] # Unused
    /\ LET loses == ~active \/ role # "SUPERADMIN" IN
       /\ ~(actor = u /\ loses)
       /\ Only(r, [pc |-> IF IsSuperadmin(u) /\ loses THEN "count" ELSE "write",
                   user |-> u, role |-> role, active |-> active,
                   saw |-> Superadmins])

\* A slip: closed accounts count as superadmins.
OtherSuperadminsAnyState(u) ==
    {v \in User \ {u} : account[v] # Unused /\ account[v].role = "SUPERADMIN"}

OtherSuperadmins(u) == Superadmins \ {u}

\* assertNotLockingEveryoneOut.
CountOthers(r) ==
    LET t == task[r] IN
    /\ t.pc = "count"
    /\ Only(r, IF OtherSuperadmins(t.user) = {} THEN NoTask
               ELSE [t EXCEPT !.pc = "write", !.saw = Superadmins])

\* An edit that gives no role and does not close the account ends no session.
Update(r) ==
    LET t == task[r] IN
    /\ t.pc = "write"
    /\ account' = [account EXCEPT ![t.user].role = t.role, ![t.user].active = t.active]
    /\ \/ Goto(r, [pc |-> "revoke", user |-> t.user, reissue |-> FALSE])
       \/ t.active /\ t.role = account[t.user].role /\ Goto(r, NoTask)
    /\ UNCHANGED <<code, token, challenged>>

-----------------------------------------------------------------------------
\* A statement fails, or the process stops, and the request ends there.
Fail(r) == task[r] # NoTask /\ Only(r, NoTask)

Signing(r) ==
    \/ ConsumeRecoveryCode(r) \/ StoreSecret(r) \/ EnableTotp(r) \/ DisableTotp(r)
    \/ Rotate(r)
    \/ \E u \in Present :
          \/ Login(r, u) \/ VerifyTotpChallenge(r, u)
          \/ BeginTotpSetup(r, u) \/ ConfirmTotp(r, u) \/ StartDisable(r, u)
          \/ \E c \in Code : PresentRecoveryCode(r, u, c)
          \/ \E reissue \in BOOLEAN : ChangePassword(r, u, reissue)
    \/ \E k \in Token : Refresh(r, k) \/ Logout(r, k)

Editing(r) ==
    \/ CountOthers(r) \/ Update(r)
    \/ \E u \in User, role \in Role :
          \/ Create(r, u, role)
          \/ \E actor \in User, active \in BOOLEAN : StartUpdate(r, actor, u, role, active)

Next ==
    \E r \in Request :
        Signing(r) \/ Editing(r) \/ IssueTokens(r) \/ RevokeAllForUser(r) \/ Fail(r)

Spec == Init /\ [][Next]_vars

-----------------------------------------------------------------------------
(* Properties *)

\* Rows and tasks are well formed, and what a session, a code, a challenge or
\* a task refers to is an account that was created.
TypeOK ==
    /\ account \in [User -> Account \cup {Unused}]
    /\ code \in [Code -> RecoveryCode \cup {Unused, Deleted}]
    /\ token \in [Token -> RefreshToken \cup {Unused}]
    /\ challenged \subseteq User
    /\ task \in [Request -> Task]
    /\ \A c \in Code : code[c] \notin {Unused, Deleted} => account[code[c].user] # Unused
    /\ \A k \in Token : token[k] # Unused => account[token[k].user] # Unused
    /\ \A u \in challenged : account[u] # Unused
    /\ \A r \in Request : task[r] # NoTask => account[task[r].user] # Unused
    /\ \A r \in Request :
          task[r].pc = "rotate" => token[task[r].token] # Unused

\* What a request read is no longer so when it writes: another wrote first.
SetupOvertaken(r) ==
    task[r].pc \in {"secret", "enable"} /\ FactorOf(task[r].user) # task[r].saw

EditOvertaken(r) == task[r].pc = "write" /\ Superadmins # task[r].saw

Ends(r) == task[r] # NoTask /\ task'[r] # task[r]

\* The last active superadmin is not taken away, whoever edits whom, but by an
\* edit that others overtook between its count and its write: two that demote
\* each other's last colleague do (assertNotLockingEveryoneOut).
TheLastSuperadminStays ==
    [][Superadmins # {} =>
          \/ Superadmins' # {}
          \/ \E r \in Request : Ends(r) /\ EditOvertaken(r)]_vars

\* Recovery codes are there exactly while the second factor is enabled; and it
\* comes on, or has its secret replaced while it is on, only with the secret
\* whose code the account just presented.  The exception is a request that
\* another one of the account overtook between its read and its write: it can
\* leave the factor enabled with no secret, or with one nobody confirmed
\* (beginTotpSetup, enableTotp, disableTotp).
EnrolmentIsProven ==
    /\ [](\A u \in User :
             account[u] # Unused => (account[u].enabled <=> CodesOf(u) # {}))
    /\ [][\A u \in User :
             /\ account[u] # Unused /\ account'[u].enabled
             /\ FactorOf(u)' # FactorOf(u)
             => \E r \in Request :
                   /\ Ends(r) /\ task[r].user = u
                   /\ \/ task[r].pc = "enable" /\ account'[u].secret = task[r].saw.secret
                      \/ SetupOvertaken(r)]_vars

\* A recovery code opens at most one session, though it is presented twice at
\* once (consumeRecoveryCode, "Single-use by design").
CodeOpensOneSession ==
    \A c \in Code, k, l \in Token :
        /\ token[k] # Unused /\ token[k].by = c
        /\ token[l] # Unused /\ token[l].by = c
        => k = l

=============================================================================

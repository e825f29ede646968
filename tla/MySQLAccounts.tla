---------------------------- MODULE MySQLAccounts ----------------------------
(***************************************************************************)
(* The mysql driver's accounts (pkg/drivers/mysql): GrantAccess,           *)
(* ensureAccount, alignGrants, RevokeAccess and the memory of passed login *)
(* checks, driven by the BucketyAccess reconciler's pass over one access   *)
(* whose user name is fixed and whose host part is the backend's userHost. *)
(*                                                                         *)
(* The pass is cut at every statement and login.  Users edit the role and  *)
(* the Secret, operators change userHost, and somebody with the server's   *)
(* root account changes the user behind the controller's back.             *)
(*                                                                         *)
(* Abstractions.  The informer is up to date (AccessReconciler has the     *)
(* lag).  A role is its set of privileges; "write" stands for every        *)
(* managed privilege but SELECT, "other" for those the driver never        *)
(* grants.  A check expires at any time.  A generated password is one that *)
(* nothing holds.  Finalizer, start-up deferral and the ownership of the   *)
(* Secret are AccessReconciler's.                                          *)
(***************************************************************************)
EXTENDS Naturals, FiniteSets

CONSTANTS
    Host,         \* the values userHost takes; numbers, the most specific is the least
    Password,     \* passwords the driver accepts
    Roles,        \* roles users ask for
    Env,          \* the disturbances that may happen
    MaxFaults,    \* bound: failed calls and crashes
    MaxChanges,   \* bound: changes of the Secret, of userHost and of the accounts
    MaxGen        \* bound: metadata.generation

Disturbance == {"crash", "statement", "lostReply", "login", "write", "patch",
                "userHost", "secretDelete", "secretEdit", "delete"}

ASSUME ConstantsAssumption ==
    /\ Host \subseteq Nat \ {0} /\ Host # {} /\ IsFiniteSet(Host)
    /\ Roles \subseteq {"Reader", "ReadWrite", "Writer"} /\ Roles # {}
    /\ Env \subseteq Disturbance
    /\ {MaxFaults, MaxChanges} \subseteq Nat /\ MaxGen \in Nat \ {0}
    /\ {"none", "weak"} \cap Password = {}

VARIABLES
    obj,        \* the BucketyAccess
    secret,     \* the password its Secret carries, "none" without a Secret
    acct,       \* the user's account per host, on the server
    userHost,   \* the backend's userHost
    verified,   \* verifiedAccounts: the key of a check that still counts
    pc,         \* the pass in flight: next call
    snap,       \* ... the access it works on
    read,       \* ... the Secret's password as read, "none" without a Secret
    password,   \* ... the password it applies
    created,    \* ... whether it created the user
    have,       \* ... the grants as far as it knows them, and from what
    why,        \* ... the reason it is about to put on status
    tampered,   \* history: accounts changed by hand since a check passed, and
                \*          whether the check in flight has seen it
    changes, faults

pass == <<pc, snap, read, password, created, have, why>>
vars == <<obj, secret, acct, userHost, verified, pc, snap, read, password, created,
          have, why, tampered, changes, faults>>

Privilege == {"read", "write", "other"}
Managed == {"read", "write"}
RolePrivileges(role) == CASE role = "Reader" -> {"read"}
                          [] role = "ReadWrite" -> Managed
                          [] OTHER -> {}

NoHost == 0
NoAccount == [exists |-> FALSE, password |-> "none", privs |-> {}, option |-> FALSE]
NoCheck == [password |-> "none", want |-> {}]
NoGrants == [from |-> "none", privs |-> {}, option |-> FALSE]
Created == [NoGrants EXCEPT !.from = "created"]   \* a new user holds nothing
Unknown == [NoGrants EXCEPT !.from = "unknown"]   \* a re-keyed one, nobody has read what
NoObj == [phase |-> "none", role |-> "Reader", gen |-> 0, principal |-> NoHost,
          ready |-> "none", observed |-> 0]

Object == [phase : {"none", "live", "deleting", "gone"},
           role : {"Reader", "ReadWrite", "Writer"}, gen : 0..MaxGen,
           principal : Host \cup {NoHost},
           ready : {"none", "GrantFailed", "SecretWriteFailed", "RevokeFailed", "SecretMinted"},
           observed : 0..MaxGen]
Carried == Password \cup {"none", "weak"}

TypeOK ==
    /\ obj \in Object /\ snap \in Object
    /\ secret \in Carried /\ read \in Carried
    /\ acct \in [Host -> [exists : BOOLEAN, password : Password \cup {"none"},
                          privs : SUBSET Privilege, option : BOOLEAN]]
    /\ userHost \in Host
    /\ verified \in [Host -> [password : Password \cup {"none"}, want : SUBSET Managed]]
    /\ pc \in {"idle", "readSecret", "refuse", "login", "setPassword", "grant", "revoke",
               "revokeOption", "verify", "cleanup", "writeSecret", "unmint", "revokeOld",
               "commit", "report", "deleteRevoke", "release"}
    /\ password \in Password \cup {"none"}
    /\ created \in BOOLEAN
    /\ have \in [from : {"none", "created", "unknown", "login"}, privs : SUBSET Privilege, option : BOOLEAN]
    /\ why \in {"none", "GrantFailed", "SecretWriteFailed", "RevokeFailed"}
    /\ tampered \in [Host -> {"none", "unseen", "seen"}]
    /\ changes \in 0..MaxChanges
    /\ faults \in 0..MaxFaults

Want == RolePrivileges(snap.role)
FromSecret == read # "none"
Fault(kind) == kind \in Env /\ faults < MaxFaults /\ faults' = faults + 1

-----------------------------------------------------------------------------
(* The server. *)

\* A statement: applied and answered, refused, or applied without an answer.
\* ok is what the driver gets to know.
Statement(accounts, ok) ==
    \/ ok /\ acct' = accounts /\ UNCHANGED faults
    \/ ~ok /\ UNCHANGED acct /\ Fault("statement")
    \/ ~ok /\ acct' = accounts /\ Fault("lostReply")

Dropped(h) == [acct EXCEPT ![h] = NoAccount]

\* The server matches a login with the most specific host.
Matching == {h \in Host : acct[h].exists /\ \A g \in Host : acct[g].exists => h <= g}
LoginResult ==
    CASE \E h \in Matching : h = userHost /\ acct[h].password = password -> "ok"
      [] \E h \in Matching : h # userHost /\ acct[h].password = password -> "shadowed"
      [] OTHER -> "denied"
Held == [from |-> "login", privs |-> acct[userHost].privs, option |-> acct[userHost].option]

-----------------------------------------------------------------------------
(* Moving the pass along. *)

Goto(step) == pc' = step /\ UNCHANGED <<snap, read, password, created, have, why>>
Report(reason) ==
    pc' = "report" /\ why' = reason /\ UNCHANGED <<snap, read, password, created, have>>
Done ==
    /\ pc' = "idle" /\ snap' = NoObj /\ read' = "none" /\ password' = "none" /\ created' = FALSE
    /\ have' = NoGrants /\ why' = "none"

\* The end of GrantAccess: only a login followed by aligned grants is
\* remembered, anything else drops what was remembered.
Key == [password |-> password, want |-> Want]
Remember(key) == verified' = [verified EXCEPT ![userHost] = key]
Granted(byLogin) ==
    /\ Remember(IF byLogin THEN Key ELSE NoCheck)
    /\ tampered' = IF byLogin /\ tampered[userHost] = "seen"
                   THEN [tampered EXCEPT ![userHost] = "none"] ELSE tampered
    /\ Goto("writeSecret")
GrantFails(made) ==
    /\ Remember(NoCheck)
    /\ IF made THEN Goto("cleanup") ELSE Report("GrantFailed")
    /\ UNCHANGED tampered

-----------------------------------------------------------------------------
(* GrantAccess. *)

BeginPass ==
    /\ pc = "idle"
    /\ \/ obj.phase = "live" /\ pc' = "readSecret"
       \/ obj.phase = "deleting" /\ pc' = "deleteRevoke"
    /\ snap' = obj
    /\ UNCHANGED <<obj, secret, acct, userHost, verified, read, password, created, have,
                   why, tampered, changes, faults>>

InUse == {secret, read, password} \cup {acct[h].password : h \in Host}
            \cup {verified[h].password : h \in Host}
Unused == Password \ InUse
NewPassword == CHOOSE p \in Unused : TRUE   \* which one does not matter

\* Fresh: a check of this account, role and password that passed still counts.
\* (Mutant: the key leaves out the role.)
FreshWhateverRole(p) == verified[userHost].password = p
Fresh(p) == verified[userHost] = [password |-> p, want |-> Want]

\* The Secret's password, or a generated one.
ReadSecret ==
    /\ pc = "readSecret"
    /\ read' = secret
    /\ \/ /\ snap.role = "Writer" /\ pc' = "refuse" /\ UNCHANGED <<password, why>>
       \/ /\ snap.role # "Writer" /\ secret = "none" /\ pc' = "setPassword"
          /\ Unused # {} /\ password' = NewPassword /\ UNCHANGED why
       \/ /\ snap.role # "Writer" /\ secret = "weak" /\ pc' = "report"
          /\ why' = "GrantFailed" /\ UNCHANGED password
       \/ /\ snap.role # "Writer" /\ secret \in Password
          /\ password' = secret
          /\ pc' = IF Fresh(secret) THEN "writeSecret" ELSE "login"
          /\ UNCHANGED why
    /\ UNCHANGED <<obj, secret, acct, userHost, verified, snap, created, have, tampered,
                   changes, faults>>

\* A role without a grant set: the user goes.
\* (Mutant: the memory goes only once the user has.)
RefuseRoleForgetsLate ==
    /\ pc = "refuse"
    /\ \/ acct' = Dropped(userHost) /\ Remember(NoCheck) /\ UNCHANGED faults
       \/ acct' = Dropped(userHost) /\ Fault("lostReply") /\ UNCHANGED verified
    /\ Report("GrantFailed")
    /\ UNCHANGED <<obj, secret, userHost, tampered, changes>>
RefuseRole ==
    /\ pc = "refuse"
    /\ Remember(NoCheck)
    /\ \E ok \in BOOLEAN : Statement(Dropped(userHost), ok)
    /\ Report("GrantFailed")
    /\ UNCHANGED <<obj, secret, userHost, tampered, changes>>

-----------------------------------------------------------------------------
(* ensureAccount. *)

LoggedIn ==
    /\ have' = Held /\ pc' = "grant"
    /\ tampered' = IF tampered[userHost] = "unseen"
                   THEN [tampered EXCEPT ![userHost] = "seen"] ELSE tampered
    /\ UNCHANGED <<snap, read, password, created, why>>

\* Denied: the user is missing or has another password.  (Mutant: a denied
\* login is an error like any other.)
LoginNeverRepairs ==
    /\ pc = "login"
    /\ IF LoginResult = "ok" THEN LoggedIn /\ UNCHANGED verified ELSE GrantFails(FALSE)
    /\ UNCHANGED <<obj, secret, acct, userHost, changes, faults>>
Login ==
    /\ pc = "login"
    /\ \/ /\ LoginResult = "ok" /\ LoggedIn /\ UNCHANGED <<verified, faults>>
       \/ /\ LoginResult # "ok" /\ Goto("setPassword")
          /\ UNCHANGED <<verified, tampered, faults>>
       \/ Fault("login") /\ GrantFails(FALSE)
    /\ UNCHANGED <<obj, secret, acct, userHost, changes>>

\* CREATE USER, or ALTER USER when there is one.
SetPassword ==
    LET exists == acct[userHost].exists
        set == [acct EXCEPT ![userHost] =
                    IF exists THEN [@ EXCEPT !.password = password]
                    ELSE [NoAccount EXCEPT !.exists = TRUE, !.password = password]]
    IN  /\ pc = "setPassword"
        /\ \/ /\ Statement(set, TRUE)
              /\ pc' = "grant" /\ created' = ~exists
              /\ have' = IF exists THEN Unknown ELSE Created
              /\ UNCHANGED <<snap, read, password, why, verified, tampered>>
           \/ Statement(set, FALSE) /\ GrantFails(FALSE)
        /\ UNCHANGED <<obj, secret, userHost, changes>>

\* alignGrants, one statement per step; a step with nothing to do makes no
\* call.  A statement on an account that is gone is refused, with an error
\* that is ignored or not.
Align(step, idle, account, ignored, ok) ==
    /\ pc = step
    /\ \/ idle /\ ok /\ UNCHANGED <<acct, faults>>
       \/ ~idle /\ acct[userHost].exists /\ Statement([acct EXCEPT ![userHost] = account], ok)
       \/ /\ ~idle /\ ~acct[userHost].exists /\ UNCHANGED acct
          /\ \/ ok = ignored /\ UNCHANGED faults
             \/ ~ok /\ Fault("statement")
    /\ UNCHANGED <<obj, secret, userHost, changes>>

Then(ok, step) ==
    IF ok THEN Goto(step) /\ UNCHANGED <<verified, tampered>> ELSE GrantFails(created)

Grant ==
    LET missing == Want \ have.privs IN
    \E ok \in BOOLEAN :
        /\ Align("grant", missing = {}, [acct[userHost] EXCEPT !.privs = @ \cup missing], FALSE, ok)
        /\ Then(ok, "revoke")

\* (Mutant: the rest of the managed set stays when the grants are unknown.)
ExtraOnlyWhenKnown == have.privs \ Want
Extra == IF have.from = "unknown" THEN Managed \ Want ELSE have.privs \ Want
\* Of unknown grants, one that is not held (ER_NONEXISTING_GRANT) is no error.
Revoke ==
    \E ok \in BOOLEAN :
        /\ Align("revoke", Extra = {}, [acct[userHost] EXCEPT !.privs = @ \ Extra],
                 have.from = "unknown", ok)
        /\ Then(ok, "revokeOption")

\* What follows aligned grants: a password from the Secret is verified by a
\* login unless one has just read the grants.
Aligned ==
    IF have.from # "login" /\ FromSecret
    THEN Goto("verify") /\ UNCHANGED <<verified, tampered>>
    ELSE Granted(have.from = "login")
RevokeOption ==
    \E ok \in BOOLEAN :
        /\ Align("revokeOption", ~have.option, [acct[userHost] EXCEPT !.option = FALSE],
                 FALSE, ok)
        /\ IF ok THEN Aligned ELSE GrantFails(created)

\* The login after a password change.  A login refused verifyAttempts times
\* (Galera) is the fault "login".
Verify ==
    /\ pc = "verify"
    /\ \/ /\ LoginResult = "ok" /\ LoggedIn /\ UNCHANGED <<verified, faults>>
       \/ LoginResult = "shadowed" /\ Granted(FALSE) /\ UNCHANGED faults
       \/ LoginResult = "denied" /\ GrantFails(created) /\ UNCHANGED faults
       \/ Fault("login") /\ GrantFails(created)
    /\ UNCHANGED <<obj, secret, acct, userHost, changes>>

\* Nothing records a user created in a failed pass: it is dropped, with best
\* effort.
\* (Mutant: it stays.)
CleanupNothing ==
    /\ pc = "cleanup"
    /\ Report("GrantFailed")
    /\ UNCHANGED <<obj, secret, acct, userHost, verified, tampered, changes, faults>>
Cleanup ==
    /\ pc = "cleanup"
    /\ \E ok \in BOOLEAN : Statement(Dropped(userHost), ok)
    /\ Report("GrantFailed")
    /\ UNCHANGED <<obj, secret, userHost, verified, tampered, changes>>

-----------------------------------------------------------------------------
(* The rest of the pass (AccessReconciler has it in full). *)

\* RevokeAccess of the account an earlier status or this pass names.
RevokeAccess(h, ok) ==
    \/ h = NoHost /\ ok /\ UNCHANGED <<acct, verified, faults>>
    \/ /\ h # NoHost
       /\ verified' = [verified EXCEPT ![h] = NoCheck]
       /\ Statement(Dropped(h), ok)

\* Secret data that has not changed is not written; otherwise Create or
\* Update, refused when the Secret has changed since the read.
FailedWrite == IF created THEN Goto("unmint") ELSE Report("SecretWriteFailed")
WriteSecret ==
    LET unchanged == password = read
        next == Goto(IF snap.principal \in {NoHost, userHost} THEN "commit" ELSE "revokeOld")
    IN  /\ pc = "writeSecret"
        /\ \/ unchanged /\ next /\ UNCHANGED <<secret, faults>>
           \/ ~unchanged /\ secret = read /\ secret' = password /\ next /\ UNCHANGED faults
           \/ ~unchanged /\ secret # read /\ FailedWrite /\ UNCHANGED <<secret, faults>>
           \/ ~unchanged /\ Fault("write") /\ FailedWrite /\ UNCHANGED secret
        /\ UNCHANGED <<obj, acct, userHost, verified, tampered, changes>>

Unmint ==
    /\ pc = "unmint"
    /\ \E ok \in BOOLEAN : RevokeAccess(userHost, ok)
    /\ Report("SecretWriteFailed")
    /\ UNCHANGED <<obj, secret, userHost, tampered, changes>>

\* (Mutant: the account under the previous userHost is left to itself.)
RevokeOldSkipped ==
    /\ pc = "revokeOld"
    /\ Goto("commit")
    /\ UNCHANGED <<obj, secret, acct, userHost, verified, tampered, changes, faults>>
RevokeOld ==
    /\ pc = "revokeOld"
    /\ \/ RevokeAccess(snap.principal, TRUE) /\ Goto("commit")
       \/ RevokeAccess(snap.principal, FALSE) /\ Report("RevokeFailed")
    /\ UNCHANGED <<obj, secret, userHost, tampered, changes>>

\* patchStatus carries what differs from the pass's snapshot.
Patched(o, field, value) == IF snap[field] # value THEN value ELSE o[field]
Commit ==
    /\ pc = "commit"
    /\ \/ /\ obj' = [obj EXCEPT !.principal = Patched(obj, "principal", userHost),
                                !.ready = Patched(obj, "ready", "SecretMinted"),
                                !.observed = Patched(obj, "observed", snap.gen)]
          /\ UNCHANGED faults
       \/ Fault("patch") /\ UNCHANGED obj
    /\ Done
    /\ UNCHANGED <<secret, acct, userHost, verified, tampered, changes>>

ReportStatus ==
    /\ pc = "report"
    /\ \/ obj' = [obj EXCEPT !.ready = Patched(obj, "ready", why)] /\ UNCHANGED faults
       \/ Fault("patch") /\ UNCHANGED obj
    /\ Done
    /\ UNCHANGED <<secret, acct, userHost, verified, tampered, changes>>

DeleteRevoke ==
    /\ pc = "deleteRevoke"
    /\ \/ RevokeAccess(snap.principal, TRUE) /\ Goto("release")
       \/ RevokeAccess(snap.principal, FALSE) /\ Done
    /\ UNCHANGED <<obj, secret, userHost, tampered, changes>>

ReleaseFinalizer ==
    /\ pc = "release"
    /\ obj' = IF obj = snap THEN [obj EXCEPT !.phase = "gone"] ELSE obj
    /\ Done
    /\ UNCHANGED <<secret, acct, userHost, verified, tampered, changes, faults>>

-----------------------------------------------------------------------------
(* The environment. *)

UserCreates ==
    /\ obj.phase = "none"
    /\ \E r \in Roles : obj' = [NoObj EXCEPT !.phase = "live", !.gen = 1, !.role = r]
    /\ UNCHANGED <<secret, acct, userHost, verified, pass, tampered, changes, faults>>

UserEditsRole ==
    /\ obj.phase = "live" /\ obj.gen < MaxGen
    /\ \E r \in Roles \ {obj.role} : obj' = [obj EXCEPT !.role = r, !.gen = @ + 1]
    /\ UNCHANGED <<secret, acct, userHost, verified, pass, tampered, changes, faults>>

UserDeletes ==
    /\ "delete" \in Env /\ obj.phase = "live"
    /\ obj' = [obj EXCEPT !.phase = "deleting"]
    /\ UNCHANGED <<secret, acct, userHost, verified, pass, tampered, changes, faults>>

Changes == changes < MaxChanges /\ changes' = changes + 1

\* Deleted, edited, or put back from a backup with its controller reference.
SecretChanges ==
    /\ Changes
    /\ \/ "secretDelete" \in Env /\ secret # "none" /\ secret' = "none"
       \/ /\ "secretEdit" \in Env /\ (secret # "none" \/ obj.phase = "live")
          /\ secret' \in (IF Unused = {} THEN {} ELSE {NewPassword}) \cup {"weak"}
    /\ UNCHANGED <<obj, acct, userHost, verified, pass, tampered, faults>>

\* By hand, on the server: the user is dropped, re-keyed or granted more.
Tamper(h) ==
    /\ Changes /\ acct[h].exists
    /\ \/ acct' = Dropped(h)
       \/ Unused # {} /\ acct' = [acct EXCEPT ![h].password = NewPassword]
       \/ acct' = [acct EXCEPT ![h].privs = Privilege, ![h].option = TRUE]
    /\ tampered' = [tampered EXCEPT ![h] = "unseen"]
    /\ UNCHANGED <<obj, secret, userHost, verified, pass, faults>>

\* accountCheckInterval has passed since the check.
CheckExpires(h) ==
    /\ verified[h] # NoCheck
    /\ verified' = [verified EXCEPT ![h] = NoCheck]
    /\ UNCHANGED <<obj, secret, acct, userHost, pass, tampered, changes, faults>>

\* A new process: between passes with another userHost, or after a crash.
NewProcess ==
    /\ verified' = [h \in Host |-> NoCheck]
    /\ Done
    /\ UNCHANGED <<obj, secret, acct, tampered>>
Reconfigure ==
    /\ "userHost" \in Env /\ pc = "idle" /\ Changes
    /\ userHost' \in Host \ {userHost}
    /\ NewProcess /\ UNCHANGED faults
Crash == pc # "idle" /\ Fault("crash") /\ NewProcess /\ UNCHANGED <<userHost, changes>>

-----------------------------------------------------------------------------

Init ==
    /\ obj = NoObj /\ secret = "none"
    /\ acct = [h \in Host |-> NoAccount]
    /\ userHost \in Host
    /\ verified = [h \in Host |-> NoCheck]
    /\ pc = "idle" /\ snap = NoObj /\ read = "none" /\ password = "none" /\ created = FALSE
    /\ have = NoGrants /\ why = "none"
    /\ tampered = [h \in Host |-> "none"] /\ changes = 0 /\ faults = 0

PassStep ==
    \/ ReadSecret \/ RefuseRole \/ Login \/ SetPassword \/ Grant \/ Revoke \/ RevokeOption
    \/ Verify \/ Cleanup \/ WriteSecret \/ Unmint \/ RevokeOld \/ Commit \/ ReportStatus
    \/ DeleteRevoke \/ ReleaseFinalizer

Next ==
    \/ BeginPass \/ PassStep
    \/ UserCreates \/ UserEditsRole \/ UserDeletes \/ SecretChanges
    \/ \E h \in Host : Tamper(h) \/ CheckExpires(h)
    \/ Reconfigure \/ Crash

Spec == Init /\ [][Next]_vars

\* The manager keeps reconciling and time passes.
Fairness ==
    /\ WF_vars(BeginPass) /\ WF_vars(PassStep)
    /\ \A h \in Host : WF_vars(CheckExpires(h))

FairSpec == Spec /\ Fairness

-----------------------------------------------------------------------------
(* Properties. *)

\* The memory of passed checks is true: between passes, what it says of an
\* account nobody has changed by hand is what the server has (password and
\* exact privileges), so that skipping the login skips no repair.  Statements
\* that were applied although they failed are among the cases.
MemoryHonest ==
    pc = "idle" =>
        \A h \in Host : tampered[h] = "none" =>
            (verified[h] # NoCheck =>
                acct[h] = [exists |-> TRUE, password |-> verified[h].password,
                           privs |-> verified[h].want, option |-> FALSE])

\* A role that is Ready is enforced: the recorded account has no managed
\* privilege beyond the role of the generation the status was written for,
\* whatever the account held before a downgrade or a re-key.
RoleEnforced ==
    pc = "idle" /\ obj.ready = "SecretMinted" /\ obj.observed = obj.gen =>
        \A h \in Host : tampered[h] = "none" =>
            (obj.principal = h =>
                acct[h].privs \cap Managed \subseteq RolePrivileges(obj.role))

\* An access with the Writer role holds nothing: once a pass has refused the
\* role and dropped the user, no account is left that the Secret's password
\* opens.
WriterHoldsNothing ==
    pc = "report" /\ snap.role = "Writer" /\ faults = 0 =>
        \A h \in Host : tampered[h] = "none" => ~acct[h].exists

\* Between passes every account on the server is named by the status or is
\* the one the next pass works on; one that is not, or that outlives its
\* access, is the trace of a failed call or a crash, at most one each.
Stray ==
    {h \in Host : acct[h].exists /\
        IF obj.phase \in {"live", "deleting"} THEN h \notin {obj.principal, userHost}
        ELSE TRUE}
StraysBounded == pc = "idle" => Cardinality(Stray) <= faults

\* An access that can be served is, again and again: it is Ready and its
\* Secret's password opens an account with exactly the role's privileges,
\* also after changes by hand, which are repaired once the check expires.
\* Two cases are left out because the driver does not leave them by itself,
\* both of an account of a previous, more specific userHost: one with another
\* password than the Secret's denies every verification, so that no pass gets
\* to dropping it; one a failed pass left unrecorded is never dropped.
Served ==
    /\ obj.ready = "SecretMinted" /\ obj.observed = obj.gen
    /\ \E h \in Matching :
            acct[h] = [exists |-> TRUE, password |-> secret,
                       privs |-> RolePrivileges(obj.role), option |-> FALSE]
Overshadowed ==
    /\ secret # "none"
    /\ \E h \in Matching :
            h # userHost /\ (acct[h].password # secret \/ obj.principal # h)
ServedEventually ==
    []<>(obj.phase # "live" \/ obj.role = "Writer" \/ secret = "weak" \/ Overshadowed \/ Served)
=============================================================================

------------------------- MODULE MySQLAccountsProofs -------------------------
(***************************************************************************)
(* What the mysql driver's accounts promise, for any hosts, passwords and  *)
(* roles and any number of failed calls, crashes and changes by hand.      *)
(***************************************************************************)
EXTENDS MySQLAccounts, FiniteSetTheorems, TLAPS

-----------------------------------------------------------------------------
(* The invariant. *)

Here == acct[userHost]
Untouched(h) == tampered[h] = "none"
WithinRole(h, role) == acct[h].privs \cap Managed \subseteq RolePrivileges(role)

\* A pass works on the object's own status: nobody else writes it, and users
\* only raise the generation.
ObjInv ==
    /\ obj.phase = "none" => obj.principal = NoHost
    /\ obj.phase \in {"none", "gone"} => pc = "idle"
    /\ pc # "idle" =>
          /\ obj.principal = snap.principal /\ obj.ready = snap.ready /\ obj.observed = snap.observed
          /\ snap.gen <= obj.gen
          /\ obj.gen = snap.gen => obj.role = snap.role
    /\ obj.observed <= obj.gen
    /\ snap.observed <= snap.gen

\* While the pass changes the account it works on, the memory may lag behind.
Changing == {"grant", "revoke", "revokeOption", "verify"}
Remembered(h) ==
    acct[h] = [exists |-> TRUE, password |-> verified[h].password,
               privs |-> verified[h].want, option |-> FALSE]
MemInv ==
    /\ \A h \in Host : Untouched(h) /\ verified[h] # NoCheck =>
          ((h = userHost => pc \notin Changing) => Remembered(h))
    /\ pc = "cleanup" => verified[userHost] = NoCheck

\* After a login the pass knows the account, statement by statement, unless
\* somebody has changed it since.
LoginInv ==
    have.from = "login" /\ pc \in {"grant", "revoke", "revokeOption"}
      /\ tampered[userHost] # "unseen" =>
        /\ Here.exists /\ Here.password = password /\ Here.option = have.option
        /\ Here.privs = CASE pc = "grant" -> have.privs
                          [] pc = "revoke" -> have.privs \cup Want
                          [] OTHER -> Want

\* The account is within the role once its extra privileges are revoked, and
\* all along when the pass created it.  One that it re-keyed is there, unless
\* somebody has dropped it since.
Limited ==
    \/ pc \in {"grant", "revoke"} /\ have.from = "created"
    \/ pc \in {"revokeOption", "verify", "writeSecret", "revokeOld", "commit"}
AlignInv ==
    /\ pc \in {"grant", "revoke", "revokeOption"} => have.from # "none"
    /\ Limited /\ Untouched(userHost) => WithinRole(userHost, snap.role)
    /\ pc \in {"grant", "revoke"} /\ have.from = "unknown" /\ Untouched(userHost) => Here.exists

\* RoleEnforced in the middle of a pass too.
RoleInv ==
    obj.ready = "SecretMinted" /\ obj.observed = obj.gen =>
        \A h \in Host : obj.principal = h /\ Untouched(h) => WithinRole(h, obj.role)

\* The account of an earlier userHost is gone when the status stops naming
\* it, and the recorded one when the finalizer goes.
Absent(h) == h \in Host => ~acct[h].exists
GoneInv ==
    /\ pc = "commit" /\ snap.principal # userHost => Absent(snap.principal)
    /\ pc = "release" => Absent(snap.principal)
    /\ obj.phase = "gone" => Absent(obj.principal)

\* Accounts that no status names, but for the one that the pass created and
\* still answers for.
Answers ==
    created /\ pc \in {"grant", "revoke", "revokeOption", "verify", "cleanup", "writeSecret",
                       "unmint", "revokeOld", "commit"}
Unnamed ==
    {h \in Host : acct[h].exists /\ h # obj.principal /\ ~(Answers /\ h = userHost)}
CountInv == Cardinality(Unnamed) <= faults

Inv == TypeOK /\ ObjInv /\ MemInv /\ LoginInv /\ AlignInv /\ RoleInv /\ GoneInv /\ CountInv

-----------------------------------------------------------------------------
(* Types. *)

Account == [exists : BOOLEAN, password : Password \cup {"none"},
            privs : SUBSET Privilege, option : BOOLEAN]
Accounts == [Host -> Account]
Check == [password : Password \cup {"none"}, want : SUBSET Managed]
Checks == [Host -> Check]
Grants == [from : {"none", "created", "unknown", "login"}, privs : SUBSET Privilege, option : BOOLEAN]
Steps == {"idle", "readSecret", "refuse", "login", "setPassword", "grant", "revoke",
          "revokeOption", "verify", "cleanup", "writeSecret", "unmint", "revokeOld",
          "commit", "report", "deleteRevoke", "release"}
Reasons == {"none", "GrantFailed", "SecretWriteFailed", "RevokeFailed"}
PassOK ==
    /\ snap \in Object /\ read \in Carried /\ pc \in Steps
    /\ password \in Password \cup {"none"} /\ created \in BOOLEAN
    /\ have \in Grants /\ why \in Reasons
WorldOK ==
    /\ obj \in Object /\ secret \in Carried /\ acct \in Accounts /\ userHost \in Host
    /\ verified \in Checks /\ tampered \in [Host -> {"none", "unseen", "seen"}]
    /\ changes \in 0..MaxChanges /\ faults \in 0..MaxFaults

LEMMA TypeParts == TypeOK <=> PassOK /\ WorldOK
BY DEF TypeOK, PassOK, WorldOK, Account, Accounts, Check, Checks, Grants, Steps, Reasons

LEMMA TypePartsNext == TypeOK' <=> PassOK' /\ WorldOK'
BY DEF TypeOK, PassOK, WorldOK, Account, Accounts, Check, Checks, Grants, Steps, Reasons

LEMMA Bounds ==
    /\ MaxFaults \in Nat /\ MaxChanges \in Nat /\ MaxGen \in Nat /\ MaxGen >= 1
    /\ IsFiniteSet(Host) /\ \A h \in Host : h \in Nat /\ h # 0
    /\ "none" \notin Password /\ "weak" \notin Password
    /\ Roles \subseteq {"Reader", "ReadWrite", "Writer"}
BY ConstantsAssumption

LEMMA HostNotNone == NoHost \notin Host
BY Bounds DEF NoHost

LEMMA DefaultTypes ==
    /\ NoAccount \in Account /\ NoCheck \in Check /\ NoGrants \in Grants
    /\ Created \in Grants /\ Unknown \in Grants /\ NoObj \in Object
    /\ Created.from = "created" /\ Unknown.from = "unknown" /\ NoGrants.from = "none"
    /\ NoAccount.exists = FALSE /\ NoAccount.privs = {}
    /\ NoObj.phase = "none" /\ NoObj.principal = NoHost /\ NoObj.observed = 0 /\ NoObj.gen = 0
    /\ NoCheck.password = "none" /\ NoObj.ready = "none"
<1>1. NoAccount \in Account /\ NoAccount.exists = FALSE /\ NoAccount.privs = {}
  BY DEF NoAccount, Account
<1>2. NoCheck \in Check /\ NoCheck.password = "none"
  BY DEF NoCheck, Check
<1>3. NoGrants \in Grants /\ NoGrants.from = "none"
  BY DEF NoGrants, Grants
<1>4. Created \in Grants /\ Unknown \in Grants /\ Created.from = "created" /\ Unknown.from = "unknown"
  BY DEF Created, Unknown, NoGrants, Grants
<1>5. /\ NoObj.phase = "none" /\ NoObj.principal = NoHost /\ NoObj.observed = 0 /\ NoObj.gen = 0
      /\ NoObj.ready = "none"
  BY DEF NoObj
<1>6. 0 \in 0..MaxGen
  BY Bounds
<1>7. NoObj \in Object
  BY <1>6 DEF NoObj, Object
<1>. QED BY <1>1, <1>2, <1>3, <1>4, <1>5, <1>7

LEMMA RoleType ==
    ASSUME NEW role \in {"Reader", "ReadWrite", "Writer"}
    PROVE  RolePrivileges(role) \in SUBSET Managed
<1>1. role = "Reader" \/ role = "ReadWrite" \/ role = "Writer"
  OBVIOUS
<1>. QED BY <1>1 DEF RolePrivileges, Managed

LEMMA WantType ==
    ASSUME TypeOK
    PROVE  Want \in SUBSET Managed /\ Want \in SUBSET Privilege
<1>1. snap.role \in {"Reader", "ReadWrite", "Writer"}
  BY DEF TypeOK, Object
<1>. QED BY <1>1, RoleType DEF Want, Managed, Privilege

LEMMA DroppedType ==
    ASSUME acct \in Accounts, NEW h \in Host
    PROVE  /\ Dropped(h) \in Accounts
           /\ \A g \in Host : Dropped(h)[g] = IF g = h THEN NoAccount ELSE acct[g]
BY DefaultTypes DEF Dropped, Accounts

\* What a fault counts, and what a statement leaves behind.
LEMMA FaultCounts ==
    ASSUME faults \in 0..MaxFaults, NEW kind, Fault(kind)
    PROVE  faults' = faults + 1 /\ faults' \in 0..MaxFaults
BY Bounds DEF Fault

LEMMA StatementEffect ==
    ASSUME faults \in 0..MaxFaults, NEW accounts, NEW ok \in BOOLEAN, Statement(accounts, ok)
    PROVE  /\ faults' \in 0..MaxFaults
           /\ acct' = acct \/ acct' = accounts
           /\ ok => acct' = accounts /\ faults' = faults
           /\ ~ok => faults' = faults + 1
<1>1. CASE ok /\ acct' = accounts /\ UNCHANGED faults
  BY <1>1
<1>2. CASE ~ok /\ UNCHANGED acct /\ Fault("statement")
  BY <1>2, FaultCounts
<1>3. CASE ~ok /\ acct' = accounts /\ Fault("lostReply")
  BY <1>3, FaultCounts
<1>. QED BY <1>1, <1>2, <1>3 DEF Statement

LEMMA RememberType ==
    ASSUME verified \in Checks, NEW key \in Check, NEW h \in Host,
           verified' = [verified EXCEPT ![h] = key]
    PROVE  verified' \in Checks /\ \A g \in Host : verified'[g] = IF g = h THEN key ELSE verified[g]
BY DEF Checks

LEMMA KeyType ==
    ASSUME TypeOK
    PROVE  Key \in Check
<1>1. password \in Password \cup {"none"}
  BY DEF TypeOK
<1>. QED BY <1>1, WantType DEF Key, Check

LEMMA NewPasswordType ==
    ASSUME Unused # {}
    PROVE  NewPassword \in Password
<1>1. NewPassword \in Unused
  BY DEF NewPassword
<1>. QED BY <1>1 DEF Unused

-----------------------------------------------------------------------------
(* Moving the pass along. *)

LEMMA GotoEffect ==
    ASSUME PassOK, NEW step \in Steps, Goto(step)
    PROVE  /\ PassOK' /\ pc' = step
           /\ UNCHANGED <<snap, read, password, created, have, why>>
BY DEF PassOK, Goto

LEMMA ReportEffect ==
    ASSUME PassOK, NEW reason \in Reasons, Report(reason)
    PROVE  /\ PassOK' /\ pc' = "report" /\ why' = reason
           /\ UNCHANGED <<snap, read, password, created, have>>
BY DEF PassOK, Report, Steps

LEMMA DoneEffect ==
    ASSUME Done
    PROVE  PassOK' /\ pc' = "idle" /\ snap' = NoObj /\ created' = FALSE
BY DefaultTypes DEF PassOK, Done, Steps, Reasons, Carried

-----------------------------------------------------------------------------
(* What keeps each part of the invariant. *)

LEMMA CountSame ==
    ASSUME CountInv, faults \in Nat, Unnamed' \subseteq Unnamed, faults' = faults
    PROVE  CountInv'
<1>1. Unnamed \subseteq Host
  BY DEF Unnamed
<1>2. IsFiniteSet(Unnamed)
  BY <1>1, Bounds, FS_Subset
<1>3. Cardinality(Unnamed') <= Cardinality(Unnamed) /\ IsFiniteSet(Unnamed')
  BY <1>2, FS_Subset
<1>4. Cardinality(Unnamed) \in Nat /\ Cardinality(Unnamed') \in Nat
  BY <1>2, <1>3, FS_CardinalityType
<1>5. Cardinality(Unnamed) <= faults
  BY DEF CountInv
<1>6. Cardinality(Unnamed') <= faults'
  BY <1>3, <1>4, <1>5
<1>. QED BY <1>6 DEF CountInv

LEMMA CountMore ==
    ASSUME CountInv, faults \in Nat, NEW x, Unnamed' \subseteq Unnamed \cup {x}, faults' = faults + 1
    PROVE  CountInv'
<1>1. Unnamed \subseteq Host
  BY DEF Unnamed
<1>2. IsFiniteSet(Unnamed)
  BY <1>1, Bounds, FS_Subset
<1>3. IsFiniteSet(Unnamed \cup {x}) /\ Cardinality(Unnamed \cup {x}) <= Cardinality(Unnamed) + 1
  <2>1. Cardinality(Unnamed) \in Nat
    BY <1>2, FS_CardinalityType
  <2>2. /\ IsFiniteSet(Unnamed \cup {x})
        /\ Cardinality(Unnamed \cup {x}) = IF x \in Unnamed THEN Cardinality(Unnamed)
                                             ELSE Cardinality(Unnamed) + 1
    BY <1>2, FS_AddElement
  <2>. QED BY <2>1, <2>2
<1>4. Cardinality(Unnamed') <= Cardinality(Unnamed \cup {x}) /\ IsFiniteSet(Unnamed')
  BY <1>3, FS_Subset
<1>5. /\ Cardinality(Unnamed) \in Nat /\ Cardinality(Unnamed') \in Nat
      /\ Cardinality(Unnamed \cup {x}) \in Nat
  BY <1>2, <1>3, <1>4, FS_CardinalityType
<1>6. Cardinality(Unnamed) <= faults
  BY DEF CountInv
<1>7. Cardinality(Unnamed') <= faults'
  BY <1>3, <1>4, <1>5, <1>6
<1>. QED BY <1>7 DEF CountInv

\* A status that counts was written for the role the pass works with.
LEMMA SameRole ==
    ASSUME TypeOK, ObjInv, pc # "idle", obj.observed = obj.gen
    PROVE  RolePrivileges(obj.role) = Want
<1>1. obj.observed = snap.observed /\ snap.gen <= obj.gen /\ snap.observed <= snap.gen
      /\ (obj.gen = snap.gen => obj.role = snap.role)
  BY DEF ObjInv
<1>2. obj.gen \in Nat /\ snap.gen \in Nat
  BY Bounds DEF TypeOK, Object
<1>3. obj.gen = snap.gen
  BY <1>1, <1>2
<1>. QED BY <1>1, <1>3 DEF Want

\* A step of the pass short of its end: the privileges it adds are the
\* role's, and an account nobody answers for costs a fault.
Spends ==
    \/ Unnamed' \subseteq Unnamed /\ faults' = faults
    \/ Unnamed' \subseteq Unnamed \cup {userHost} /\ faults' = faults + 1
AddsOnlyWanted ==
    \A h \in Host : Untouched(h)' =>
        \/ Untouched(h) /\ acct'[h].privs \cap Managed \subseteq acct[h].privs \cup Want
        \/ acct'[h].privs \cap Managed \subseteq Want

LEMMA PassKeeps ==
    ASSUME TypeOK, ObjInv, RoleInv, CountInv, pc # "idle", obj' = obj,
           (pc' = "idle" /\ snap' = NoObj) \/ snap' = snap,
           AddsOnlyWanted, Spends
    PROVE  ObjInv' /\ RoleInv' /\ CountInv'
<1>1. ObjInv'
  <2>1. CASE pc' = "idle" /\ snap' = NoObj
    BY <2>1, DefaultTypes DEF ObjInv
  <2>2. CASE snap' = snap
    BY <2>2 DEF ObjInv
  <2>. QED BY <2>1, <2>2
<1>2. RoleInv'
  <2>. SUFFICES ASSUME obj.ready = "SecretMinted", obj.observed = obj.gen,
                       NEW h \in Host, obj.principal = h, Untouched(h)'
                PROVE  acct'[h].privs \cap Managed \subseteq RolePrivileges(obj.role)
    BY DEF RoleInv, WithinRole
  <2>1. RolePrivileges(obj.role) = Want
    BY SameRole
  <2>2. CASE acct'[h].privs \cap Managed \subseteq Want
    BY <2>1, <2>2
  <2>3. CASE Untouched(h) /\ acct'[h].privs \cap Managed \subseteq acct[h].privs \cup Want
    <3>1. acct[h].privs \cap Managed \subseteq Want
      BY <2>1, <2>3 DEF RoleInv, WithinRole
    <3>. QED BY <2>1, <2>3, <3>1
  <2>. QED BY <2>2, <2>3 DEF AddsOnlyWanted
<1>3. CountInv'
  <2>1. faults \in Nat
    BY Bounds DEF TypeOK
  <2>. QED BY <2>1, CountSame, CountMore DEF Spends
<1>. QED BY <1>1, <1>2, <1>3

\* A step that ends GrantAccess or the pass with a failure.
LEMMA Retreat ==
    ASSUME Inv, TypeOK', pc # "idle", obj' = obj, userHost' = userHost, tampered' = tampered,
           \/ pc' = "idle" /\ snap' = NoObj
           \/ pc' \in {"report", "cleanup", "unmint"} /\ snap' = snap,
           AddsOnlyWanted, Spends,
           \A h \in Host : verified'[h] = NoCheck \/ (verified'[h] = verified[h] /\ acct'[h] = acct[h]),
           pc \in Changing \/ pc' = "cleanup" => verified'[userHost] = NoCheck
    PROVE  Inv'
<1>1. TypeOK /\ ObjInv /\ MemInv /\ RoleInv /\ CountInv
  BY DEF Inv
<1>2. ObjInv' /\ RoleInv' /\ CountInv'
  BY <1>1, PassKeeps
<1>3. pc' \in {"idle", "report", "cleanup", "unmint"}
  OBVIOUS
<1>4. MemInv'
  <2>1. pc' = "cleanup" => verified'[userHost] = NoCheck
    OBVIOUS
  <2>2. ASSUME NEW h \in Host, Untouched(h)', verified'[h] # NoCheck PROVE Remembered(h)'
    <3>1. verified'[h] = verified[h] /\ acct'[h] = acct[h]
      BY <2>2
    <3>2. h = userHost => pc \notin Changing
      BY <2>2
    <3>3. Untouched(h)
      BY <2>2 DEF Untouched
    <3>4. Remembered(h)
      BY <1>1, <2>2, <3>1, <3>2, <3>3 DEF MemInv
    <3>. QED BY <3>1, <3>4 DEF Remembered
  <2>. QED BY <2>1, <2>2 DEF MemInv
<1>5. LoginInv' /\ AlignInv'
  BY <1>3 DEF LoginInv, AlignInv, Limited
<1>6. GoneInv'
  BY <1>1, <1>3 DEF GoneInv, ObjInv
<1>. QED BY <1>2, <1>4, <1>5, <1>6 DEF Inv

LEMMA GrantFailsEffect ==
    ASSUME TypeOK, NEW made \in BOOLEAN, GrantFails(made)
    PROVE  /\ PassOK' /\ snap' = snap /\ created' = created /\ tampered' = tampered
           /\ pc' = IF made THEN "cleanup" ELSE "report"
           /\ verified' \in Checks
           /\ \A g \in Host : verified'[g] = IF g = userHost THEN NoCheck ELSE verified[g]
<1>1. PassOK /\ WorldOK
  BY TypeParts
<1>2. verified' = [verified EXCEPT ![userHost] = NoCheck] /\ tampered' = tampered
  BY DEF GrantFails, Remember
<1>3. /\ verified' \in Checks
      /\ \A g \in Host : verified'[g] = IF g = userHost THEN NoCheck ELSE verified[g]
  BY <1>1, <1>2, DefaultTypes, RememberType DEF WorldOK
<1>4. CASE made
  <2>1. Goto("cleanup")
    BY <1>4 DEF GrantFails
  <2>2. "cleanup" \in Steps
    BY DEF Steps
  <2>. QED BY <1>1, <1>2, <1>3, <1>4, <2>1, <2>2, GotoEffect
<1>5. CASE ~made
  <2>1. Report("GrantFailed")
    BY <1>5 DEF GrantFails
  <2>2. "GrantFailed" \in Reasons
    BY DEF Reasons
  <2>. QED BY <1>1, <1>2, <1>3, <1>5, <2>1, <2>2, ReportEffect
<1>. QED BY <1>4, <1>5

\* Who is left unnamed after a step.
LEMMA NoneMore ==
    ASSUME obj'.principal = obj.principal, userHost' = userHost,
           \A h \in Host : acct'[h].exists => acct[h].exists \/ (h = userHost /\ Answers'),
           Answers => Answers' \/ ~acct'[userHost].exists
    PROVE  Unnamed' \subseteq Unnamed
BY DEF Unnamed

LEMMA OneMore ==
    ASSUME obj'.principal = obj.principal, userHost' = userHost,
           \A h \in Host : h # userHost /\ acct'[h].exists => acct[h].exists
    PROVE  Unnamed' \subseteq Unnamed \cup {userHost}
BY DEF Unnamed

LEMMA DropAddsNothing ==
    ASSUME acct \in Accounts, NEW x \in Host, acct' = acct \/ acct' = Dropped(x), tampered' = tampered
    PROVE  AddsOnlyWanted /\ \A h \in Host : acct'[h].exists => acct[h].exists
<1>1. \A h \in Host : acct'[h] = acct[h] \/ acct'[h] = NoAccount
  BY DroppedType
<1>. QED BY <1>1, DefaultTypes DEF AddsOnlyWanted, Untouched

LEMMA RefuseRoleKeeps ==
    ASSUME Inv, RefuseRole
    PROVE  Inv'
<1>1. TypeOK /\ PassOK /\ WorldOK
  BY TypeParts DEF Inv
<1>2. /\ verified' = [verified EXCEPT ![userHost] = NoCheck] /\ Report("GrantFailed")
      /\ UNCHANGED <<obj, secret, userHost, tampered, changes>> /\ pc = "refuse"
  BY DEF RefuseRole, Remember
<1>3. PICK ok \in BOOLEAN : Statement(Dropped(userHost), ok)
  BY DEF RefuseRole
<1>4. /\ faults' \in 0..MaxFaults /\ (acct' = acct \/ acct' = Dropped(userHost))
      /\ ok => acct' = Dropped(userHost) /\ faults' = faults
      /\ ~ok => faults' = faults + 1
  BY <1>1, <1>3, StatementEffect DEF WorldOK
<1>5. PassOK' /\ pc' = "report" /\ snap' = snap
  BY <1>1, <1>2, ReportEffect DEF Reasons
<1>6. /\ verified' \in Checks
      /\ \A g \in Host : verified'[g] = IF g = userHost THEN NoCheck ELSE verified[g]
  BY <1>1, <1>2, DefaultTypes, RememberType DEF WorldOK
<1>7. acct' \in Accounts /\ \A g \in Host : g # userHost => acct'[g] = acct[g]
  BY <1>1, <1>4, DroppedType DEF WorldOK
<1>8. TypeOK'
  BY <1>1, <1>2, <1>4, <1>5, <1>6, <1>7, TypePartsNext DEF WorldOK
<1>9. AddsOnlyWanted /\ \A h \in Host : acct'[h].exists => acct[h].exists
  BY <1>1, <1>2, <1>4, DropAddsNothing DEF WorldOK
<1>10. Spends
  <2>1. ~Answers
    BY <1>2 DEF Answers
  <2>2. Unnamed' \subseteq Unnamed
    BY <1>2, <1>9, <2>1, NoneMore
  <2>. QED BY <1>4, <2>2 DEF Spends
<1>. QED BY <1>2, <1>5, <1>6, <1>7, <1>8, <1>9, <1>10, Retreat DEF Changing

LEMMA CleanupKeeps ==
    ASSUME Inv, Cleanup
    PROVE  Inv'
<1>1. TypeOK /\ PassOK /\ WorldOK /\ MemInv
  BY TypeParts DEF Inv
<1>2. /\ Report("GrantFailed") /\ pc = "cleanup"
      /\ UNCHANGED <<obj, secret, userHost, verified, tampered, changes>>
  BY DEF Cleanup
<1>3. PICK ok \in BOOLEAN : Statement(Dropped(userHost), ok)
  BY DEF Cleanup
<1>4. /\ faults' \in 0..MaxFaults /\ (acct' = acct \/ acct' = Dropped(userHost))
      /\ ok => acct' = Dropped(userHost) /\ faults' = faults
      /\ ~ok => faults' = faults + 1
  BY <1>1, <1>3, StatementEffect DEF WorldOK
<1>5. PassOK' /\ pc' = "report" /\ snap' = snap
  BY <1>1, <1>2, ReportEffect DEF Reasons
<1>6. verified[userHost] = NoCheck
  BY <1>1, <1>2 DEF MemInv
<1>7. acct' \in Accounts /\ \A g \in Host : g # userHost => acct'[g] = acct[g]
  BY <1>1, <1>4, DroppedType DEF WorldOK
<1>8. TypeOK'
  BY <1>1, <1>2, <1>4, <1>5, <1>7, TypePartsNext DEF WorldOK
<1>9. AddsOnlyWanted /\ \A h \in Host : acct'[h].exists => acct[h].exists
  BY <1>1, <1>2, <1>4, DropAddsNothing DEF WorldOK
<1>10. Spends
  <2>1. CASE ok
    <3>1. ~acct'[userHost].exists
      BY <1>1, <1>4, <2>1, DroppedType, DefaultTypes DEF WorldOK
    <3>2. Unnamed' \subseteq Unnamed
      BY <1>2, <1>9, <3>1, NoneMore
    <3>. QED BY <1>4, <2>1, <3>2 DEF Spends
  <2>2. CASE ~ok
    <3>1. Unnamed' \subseteq Unnamed \cup {userHost}
      BY <1>2, <1>9, OneMore
    <3>. QED BY <1>4, <2>2, <3>1 DEF Spends
  <2>. QED BY <2>1, <2>2
<1>. QED BY <1>2, <1>5, <1>6, <1>7, <1>8, <1>9, <1>10, Retreat DEF Changing

LEMMA RevokeAccessEffect ==
    ASSUME TypeOK, NEW h \in Host \cup {NoHost}, NEW ok \in BOOLEAN, RevokeAccess(h, ok)
    PROVE  /\ acct' \in Accounts /\ verified' \in Checks /\ faults' \in 0..MaxFaults
           /\ \A g \in Host : acct'[g] = acct[g] \/ (g = h /\ acct'[g] = NoAccount)
           /\ \A g \in Host : verified'[g] = IF g = h THEN NoCheck ELSE verified[g]
           /\ ok => (h \in Host => acct'[h] = NoAccount) /\ faults' = faults
           /\ ~ok => faults' = faults + 1
<1>1. PassOK /\ WorldOK
  BY TypeParts
<1>2. CASE h = NoHost
  <2>1. ok /\ UNCHANGED <<acct, verified, faults>>
    BY <1>2 DEF RevokeAccess
  <2>. QED BY <1>1, <1>2, <2>1, HostNotNone DEF WorldOK
<1>3. CASE h # NoHost
  <2>1. verified' = [verified EXCEPT ![h] = NoCheck] /\ Statement(Dropped(h), ok) /\ h \in Host
    BY <1>3 DEF RevokeAccess
  <2>2. /\ verified' \in Checks
        /\ \A g \in Host : verified'[g] = IF g = h THEN NoCheck ELSE verified[g]
    BY <1>1, <2>1, DefaultTypes, RememberType DEF WorldOK
  <2>3. /\ faults' \in 0..MaxFaults /\ (acct' = acct \/ acct' = Dropped(h))
        /\ ok => acct' = Dropped(h) /\ faults' = faults
        /\ ~ok => faults' = faults + 1
    BY <1>1, <2>1, StatementEffect DEF WorldOK
  <2>4. /\ Dropped(h) \in Accounts
        /\ \A g \in Host : Dropped(h)[g] = IF g = h THEN NoAccount ELSE acct[g]
    BY <1>1, <2>1, DroppedType DEF WorldOK
  <2>5. acct' \in Accounts
    BY <1>1, <2>3, <2>4 DEF WorldOK
  <2>6. \A g \in Host : acct'[g] = acct[g] \/ (g = h /\ acct'[g] = NoAccount)
    BY <2>3, <2>4
  <2>7. ok => acct'[h] = NoAccount
    BY <2>1, <2>3, <2>4
  <2>. QED BY <2>2, <2>3, <2>5, <2>6, <2>7
<1>. QED BY <1>2, <1>3

LEMMA UnmintKeeps ==
    ASSUME Inv, Unmint
    PROVE  Inv'
<1>1. TypeOK /\ PassOK /\ WorldOK
  BY TypeParts DEF Inv
<1>2. /\ Report("SecretWriteFailed") /\ pc = "unmint"
      /\ UNCHANGED <<obj, secret, userHost, tampered, changes>>
  BY DEF Unmint
<1>3. PICK ok \in BOOLEAN : RevokeAccess(userHost, ok)
  BY DEF Unmint
<1>4. userHost \in Host
  BY <1>1 DEF WorldOK
<1>5. /\ acct' \in Accounts /\ verified' \in Checks /\ faults' \in 0..MaxFaults
      /\ \A g \in Host : acct'[g] = acct[g] \/ (g = userHost /\ acct'[g] = NoAccount)
      /\ \A g \in Host : verified'[g] = IF g = userHost THEN NoCheck ELSE verified[g]
      /\ ok => acct'[userHost] = NoAccount /\ faults' = faults
      /\ ~ok => faults' = faults + 1
  BY <1>1, <1>3, <1>4, RevokeAccessEffect
<1>6. PassOK' /\ pc' = "report" /\ snap' = snap
  BY <1>1, <1>2, ReportEffect DEF Reasons
<1>7. TypeOK'
  BY <1>1, <1>2, <1>5, <1>6, TypePartsNext DEF WorldOK
<1>8. AddsOnlyWanted /\ \A h \in Host : acct'[h].exists => acct[h].exists
  BY <1>2, <1>5, DefaultTypes DEF AddsOnlyWanted, Untouched
<1>9. Spends
  <2>1. CASE ok
    <3>1. ~acct'[userHost].exists
      BY <1>5, <2>1, DefaultTypes
    <3>2. Unnamed' \subseteq Unnamed
      BY <1>2, <1>8, <3>1, NoneMore
    <3>. QED BY <1>5, <2>1, <3>2 DEF Spends
  <2>2. CASE ~ok
    <3>1. Unnamed' \subseteq Unnamed \cup {userHost}
      BY <1>2, <1>8, OneMore
    <3>. QED BY <1>5, <2>2, <3>1 DEF Spends
  <2>. QED BY <2>1, <2>2
<1>10. \A h \in Host : verified'[h] = NoCheck \/ (verified'[h] = verified[h] /\ acct'[h] = acct[h])
  BY <1>5
<1>. QED BY <1>2, <1>6, <1>7, <1>8, <1>9, <1>10, Retreat DEF Changing

-----------------------------------------------------------------------------
(* The statements of alignGrants. *)

LEMMA AlignEffect ==
    ASSUME TypeOK, NEW step, NEW idle \in BOOLEAN, NEW account \in Account,
           NEW ignored \in BOOLEAN, NEW ok \in BOOLEAN, Align(step, idle, account, ignored, ok),
           account.exists = Here.exists
    PROVE  /\ acct' \in Accounts /\ faults' \in 0..MaxFaults /\ pc = step
           /\ UNCHANGED <<obj, secret, userHost, changes>>
           /\ \A g \in Host : g # userHost => acct'[g] = acct[g]
           /\ acct'[userHost] = Here \/ acct'[userHost] = account
           /\ ok => /\ ~ignored \/ Here.exists =>
                           acct'[userHost] = IF idle THEN Here ELSE account
                    /\ faults' = faults
           /\ ~ok => ~idle /\ (faults' = faults \/ faults' = faults + 1)
           /\ \A g \in Host : acct'[g].exists = acct[g].exists
<1>1. acct \in Accounts /\ userHost \in Host /\ faults \in 0..MaxFaults
  BY TypeParts DEF WorldOK
<1>2. pc = step /\ UNCHANGED <<obj, secret, userHost, changes>>
  BY DEF Align
<1>. DEFINE new == [acct EXCEPT ![userHost] = account]
<1>3. new \in Accounts /\ new[userHost] = account /\ \A g \in Host : g # userHost => new[g] = acct[g]
  BY <1>1 DEF Accounts
<1>. HIDE DEF new
<1>4. CASE idle /\ ok /\ UNCHANGED <<acct, faults>>
  BY <1>1, <1>2, <1>4 DEF Here
<1>5. CASE ~idle /\ Here.exists /\ Statement(new, ok)
  <2>1. /\ faults' \in 0..MaxFaults
        /\ acct' = acct \/ acct' = new
        /\ ok => acct' = new /\ faults' = faults
        /\ ~ok => faults' = faults + 1
    BY <1>1, <1>5, StatementEffect
  <2>2. acct' \in Accounts /\ (\A g \in Host : g # userHost => acct'[g] = acct[g])
    BY <1>1, <1>3, <2>1
  <2>3. acct'[userHost] = Here \/ acct'[userHost] = account
    BY <1>3, <2>1 DEF Here
  <2>4. ok => acct'[userHost] = account
    BY <1>3, <2>1
  <2>5. \A g \in Host : acct'[g].exists = acct[g].exists
    BY <2>2, <2>3 DEF Here
  <2>. QED BY <1>2, <1>5, <2>1, <2>2, <2>3, <2>4, <2>5
<1>6. CASE /\ ~idle /\ ~Here.exists /\ UNCHANGED acct
           /\ (ok = ignored /\ UNCHANGED faults) \/ (~ok /\ Fault("statement"))
  <2>1. faults' = faults \/ (~ok /\ faults' = faults + 1 /\ faults' \in 0..MaxFaults)
    BY <1>1, <1>6, FaultCounts DEF Fault
  <2>. QED BY <1>1, <1>2, <1>6, <2>1 DEF Here
<1>. QED BY <1>4, <1>5, <1>6 DEF Align, Here, new

\* A statement that fails ends GrantAccess: a user the pass created goes to
\* clean-up, and what was remembered is dropped.
LEMMA AlignFails ==
    ASSUME Inv, NEW step \in Changing, NEW idle \in BOOLEAN, NEW account \in Account,
           NEW ignored \in BOOLEAN, Align(step, idle, account, ignored, FALSE),
           account.exists = Here.exists,
           account.privs \cap Managed \subseteq Here.privs \cup Want,
           GrantFails(created)
    PROVE  Inv'
<1>1. TypeOK /\ PassOK /\ WorldOK
  BY TypeParts DEF Inv
<1>2. /\ acct' \in Accounts /\ faults' \in 0..MaxFaults /\ pc = step
      /\ UNCHANGED <<obj, secret, userHost, changes>>
      /\ \A g \in Host : g # userHost => acct'[g] = acct[g]
      /\ acct'[userHost] = Here \/ acct'[userHost] = account
      /\ faults' = faults \/ faults' = faults + 1
      /\ \A g \in Host : acct'[g].exists = acct[g].exists
  BY <1>1, AlignEffect
<1>3. /\ PassOK' /\ snap' = snap /\ created' = created /\ tampered' = tampered
      /\ pc' = IF created THEN "cleanup" ELSE "report"
      /\ verified' \in Checks
      /\ \A g \in Host : verified'[g] = IF g = userHost THEN NoCheck ELSE verified[g]
  BY <1>1, GrantFailsEffect DEF PassOK
<1>4. TypeOK'
  BY <1>1, <1>2, <1>3, TypePartsNext DEF WorldOK
<1>5. AddsOnlyWanted
  <2>. SUFFICES ASSUME NEW h \in Host, Untouched(h)'
                PROVE  Untouched(h) /\ acct'[h].privs \cap Managed \subseteq acct[h].privs \cup Want
    BY DEF AddsOnlyWanted
  <2>1. Untouched(h)
    BY <1>3 DEF Untouched
  <2>2. acct'[h].privs \cap Managed \subseteq acct[h].privs \cup Want
    BY <1>2 DEF Here
  <2>. QED BY <2>1, <2>2
<1>6. Spends
  <2>1. Answers => Answers'
    BY <1>3 DEF Answers
  <2>2. Unnamed' \subseteq Unnamed
    BY <1>2, <2>1, NoneMore
  <2>. QED BY <1>2, <2>2 DEF Spends
<1>7. pc # "idle"
  BY <1>2 DEF Changing
<1>8. pc' \in {"report", "cleanup", "unmint"}
  BY <1>3
<1>9. userHost \in Host
  BY <1>1 DEF WorldOK
<1>. QED BY <1>2, <1>3, <1>4, <1>5, <1>6, <1>7, <1>8, <1>9, Retreat

\* A step that goes on with GrantAccess or the pass.
LEMMA Advance ==
    ASSUME Inv, TypeOK', pc # "idle", obj' = obj, snap' = snap, AddsOnlyWanted, Spends,
           pc' \notin {"commit", "release"}, MemInv', LoginInv', AlignInv'
    PROVE  Inv'
<1>1. TypeOK /\ ObjInv /\ RoleInv /\ CountInv
  BY DEF Inv
<1>2. ObjInv' /\ RoleInv' /\ CountInv'
  BY <1>1, PassKeeps
<1>3. GoneInv'
  BY <1>1 DEF GoneInv, ObjInv
<1>. QED BY <1>2, <1>3 DEF Inv

LEMMA MemChanging ==
    ASSUME MemInv, userHost' = userHost, pc' \in Changing,
           \A h \in Host : h # userHost =>
               verified'[h] = verified[h] /\ tampered'[h] = tampered[h] /\ acct'[h] = acct[h]
    PROVE  MemInv'
<1>1. ASSUME NEW h \in Host, Untouched(h)', verified'[h] # NoCheck, h = userHost => pc' \notin Changing
      PROVE  Remembered(h)'
  <2>1. h # userHost
    BY <1>1
  <2>2. verified'[h] = verified[h] /\ tampered'[h] = tampered[h] /\ acct'[h] = acct[h]
    BY <2>1
  <2>3. Remembered(h)
    BY <1>1, <2>1, <2>2 DEF MemInv, Untouched
  <2>. QED BY <2>2, <2>3 DEF Remembered
<1>2. pc' # "cleanup"
  BY DEF Changing
<1>. QED BY <1>1, <1>2 DEF MemInv

\* One statement of alignGrants that succeeds, up to what it establishes.
LEMMA AlignAdvances ==
    ASSUME Inv, NEW step \in {"grant", "revoke"}, NEW idle \in BOOLEAN, NEW account \in Account,
           NEW ignored \in BOOLEAN, Align(step, idle, account, ignored, TRUE),
           account.exists = Here.exists,
           account.privs \cap Managed \subseteq Here.privs \cup Want,
           NEW nextStep \in {"revoke", "revokeOption"}, Goto(nextStep), UNCHANGED <<verified, tampered>>,
           LoginInv', AlignInv'
    PROVE  Inv'
<1>1. TypeOK /\ PassOK /\ WorldOK /\ MemInv
  BY TypeParts DEF Inv
<1>2. /\ acct' \in Accounts /\ faults' \in 0..MaxFaults /\ pc = step /\ faults' = faults
      /\ UNCHANGED <<obj, secret, userHost, changes>>
      /\ \A g \in Host : g # userHost => acct'[g] = acct[g]
      /\ acct'[userHost] = Here \/ acct'[userHost] = account
      /\ \A g \in Host : acct'[g].exists = acct[g].exists
  BY <1>1, AlignEffect
<1>3. PassOK' /\ pc' = nextStep /\ UNCHANGED <<snap, read, password, created, have, why>>
  BY <1>1, GotoEffect DEF Steps
<1>4. TypeOK'
  BY <1>1, <1>2, <1>3, TypePartsNext DEF WorldOK
<1>5. AddsOnlyWanted
  BY <1>2 DEF AddsOnlyWanted, Untouched, Here
<1>6. Spends
  <2>1. Answers => Answers'
    BY <1>3 DEF Answers
  <2>2. Unnamed' \subseteq Unnamed
    BY <1>2, <2>1, NoneMore
  <2>. QED BY <1>2, <2>2 DEF Spends
<1>7. MemInv'
  BY <1>1, <1>2, <1>3, MemChanging DEF Changing
<1>. QED BY <1>2, <1>3, <1>4, <1>5, <1>6, <1>7, Advance

LEMMA HereType ==
    ASSUME TypeOK
    PROVE  /\ Here \in Account /\ userHost \in Host /\ have \in Grants
           /\ \A S \in SUBSET Privilege :
                 /\ [Here EXCEPT !.privs = S] \in Account
                 /\ [Here EXCEPT !.privs = S] =
                       [exists |-> Here.exists, password |-> Here.password,
                        privs |-> S, option |-> Here.option]
           /\ [Here EXCEPT !.option = FALSE] \in Account
           /\ [Here EXCEPT !.option = FALSE] =
                       [exists |-> Here.exists, password |-> Here.password,
                        privs |-> Here.privs, option |-> FALSE]
<1>1. acct \in Accounts /\ userHost \in Host /\ have \in Grants
  BY TypeParts DEF WorldOK, PassOK
<1>2. Here \in Account
  BY <1>1 DEF Here, Accounts
<1>. HIDE DEF Here
<1>3. Here = [exists |-> Here.exists, password |-> Here.password,
              privs |-> Here.privs, option |-> Here.option]
  BY <1>2 DEF Account
<1>4. /\ Here.exists \in BOOLEAN /\ Here.password \in Password \cup {"none"}
      /\ Here.privs \in SUBSET Privilege /\ Here.option \in BOOLEAN
  BY <1>2 DEF Account
<1>5. ASSUME NEW S \in SUBSET Privilege
      PROVE  /\ [Here EXCEPT !.privs = S] \in Account
             /\ [Here EXCEPT !.privs = S] =
                   [exists |-> Here.exists, password |-> Here.password,
                    privs |-> S, option |-> Here.option]
  <2>1. [Here EXCEPT !.privs = S] =
                   [exists |-> Here.exists, password |-> Here.password,
                    privs |-> S, option |-> Here.option]
    BY <1>3
  <2>2. [exists |-> Here.exists, password |-> Here.password,
         privs |-> S, option |-> Here.option] \in Account
    BY <1>4 DEF Account
  <2>. QED BY <2>1, <2>2
<1>6. [Here EXCEPT !.option = FALSE] =
        [exists |-> Here.exists, password |-> Here.password, privs |-> Here.privs, option |-> FALSE]
  <2>1. ASSUME NEW b
        PROVE  [Here EXCEPT !.option = b] =
                 [exists |-> Here.exists, password |-> Here.password, privs |-> Here.privs, option |-> b]
    BY <1>3
  <2>. QED BY <2>1
<1>7. [exists |-> Here.exists, password |-> Here.password, privs |-> Here.privs, option |-> FALSE]
        \in Account
  BY <1>4 DEF Account
<1>. QED BY <1>1, <1>2, <1>5, <1>6, <1>7

LEMMA GrantKeeps ==
    ASSUME Inv, Grant
    PROVE  Inv'
<1>. DEFINE missing == Want \ have.privs
            idle == missing = {}
            account == [acct[userHost] EXCEPT !.privs = @ \cup missing]
<1>1. PICK ok \in BOOLEAN : Align("grant", idle, account, FALSE, ok) /\ Then(ok, "revoke")
  BY DEF Grant
<1>2. TypeOK /\ LoginInv /\ AlignInv
  BY DEF Inv
<1>3. Here \in Account /\ missing \in SUBSET Privilege
  BY <1>2, WantType, HereType
<1>4. Here.privs \cup missing \in SUBSET Privilege
  BY <1>3 DEF Account
<1>5. account = [Here EXCEPT !.privs = Here.privs \cup missing]
  BY DEF Here
<1>6. /\ account \in Account
      /\ account = [exists |-> Here.exists, password |-> Here.password,
                    privs |-> Here.privs \cup missing, option |-> Here.option]
  BY <1>2, <1>4, <1>5, HereType
<1>7. account.exists = Here.exists /\ account.privs \cap Managed \subseteq Here.privs \cup Want
  BY <1>6
<1>8. idle \in BOOLEAN
  OBVIOUS
<1>. HIDE DEF account, idle
<1>9. CASE ~ok
  <2>1. ok = FALSE /\ GrantFails(created)
    BY <1>1, <1>9 DEF Then
  <2>. QED BY <1>1, <1>6, <1>7, <1>8, <2>1, AlignFails DEF Changing
<1>10. CASE ok
  <2>1. ok = TRUE /\ Goto("revoke") /\ UNCHANGED <<verified, tampered>>
    BY <1>1, <1>10 DEF Then
  <2>2. /\ pc = "grant" /\ userHost' = userHost /\ pc' = "revoke" /\ UNCHANGED <<snap, password, have>>
        /\ acct'[userHost] = IF idle THEN Here ELSE account
    BY <1>1, <1>2, <1>6, <1>7, <1>8, <2>1, AlignEffect DEF Goto
  <2>3. /\ Here'.exists = Here.exists /\ Here'.password = Here.password
        /\ Here'.option = Here.option /\ Here'.privs = Here.privs \cup missing
    <3>1. Here' = acct'[userHost]
      BY <2>2 DEF Here
    <3>2. CASE idle
      <4>1. missing = {}
        BY <3>2 DEF idle
      <4>. QED BY <2>2, <3>1, <3>2, <4>1
    <3>3. CASE ~idle
      BY <1>6, <2>2, <3>1, <3>3
    <3>. QED BY <3>2, <3>3
  <2>4. Want' = Want /\ tampered' = tampered
    BY <2>1, <2>2 DEF Want
  <2>5. LoginInv'
    <3>. SUFFICES ASSUME have.from = "login", tampered[userHost] # "unseen"
                  PROVE  /\ Here'.exists /\ Here'.password = password /\ Here'.option = have.option
                         /\ Here'.privs = have.privs \cup Want
      BY <2>2, <2>4 DEF LoginInv
    <3>1. /\ Here.exists /\ Here.password = password /\ Here.option = have.option
          /\ Here.privs = have.privs
      BY <1>2, <2>2 DEF LoginInv
    <3>. QED BY <2>3, <3>1
  <2>6. AlignInv'
    <3>1. have.from # "none"
      BY <1>2, <2>2 DEF AlignInv
    <3>2. ASSUME have.from = "created", Untouched(userHost)
          PROVE  Here'.privs \cap Managed \subseteq Want
      <4>1. Here.privs \cap Managed \subseteq Want
        BY <1>2, <2>2, <3>2 DEF AlignInv, Limited, WithinRole, Want, Here
      <4>. QED BY <2>3, <4>1
    <3>3. Limited' => have.from = "created"
      BY <2>2 DEF Limited
    <3>4. have.from = "unknown" /\ Untouched(userHost) => Here'.exists
      BY <1>2, <2>2, <2>3 DEF AlignInv
    <3>. QED BY <2>2, <2>4, <3>1, <3>2, <3>3, <3>4 DEF AlignInv, Untouched, WithinRole, Want, Here
  <2>. QED BY <1>1, <1>6, <1>7, <1>8, <2>1, <2>5, <2>6, AlignAdvances
<1>. QED BY <1>9, <1>10

LEMMA RevokeKeeps ==
    ASSUME Inv, Revoke
    PROVE  Inv'
<1>. DEFINE idle == Extra = {}
            account == [acct[userHost] EXCEPT !.privs = @ \ Extra]
            ignored == have.from = "unknown"
<1>1. PICK ok \in BOOLEAN : Align("revoke", idle, account, ignored, ok) /\ Then(ok, "revokeOption")
  BY DEF Revoke
<1>2. TypeOK /\ LoginInv /\ AlignInv
  BY DEF Inv
<1>3. Here \in Account
  BY <1>2, HereType
<1>4. Here.privs \ Extra \in SUBSET Privilege
  BY <1>3 DEF Account
<1>5. account = [Here EXCEPT !.privs = Here.privs \ Extra]
  BY DEF Here
<1>6. /\ account \in Account
      /\ account = [exists |-> Here.exists, password |-> Here.password,
                    privs |-> Here.privs \ Extra, option |-> Here.option]
  BY <1>2, <1>4, <1>5, HereType
<1>7. account.exists = Here.exists /\ account.privs \cap Managed \subseteq Here.privs \cup Want
  BY <1>6
<1>8. idle \in BOOLEAN /\ ignored \in BOOLEAN
  OBVIOUS
<1>. HIDE DEF account, idle, ignored
<1>9. CASE ~ok
  <2>1. ok = FALSE /\ GrantFails(created)
    BY <1>1, <1>9 DEF Then
  <2>. QED BY <1>1, <1>6, <1>7, <1>8, <2>1, AlignFails DEF Changing
<1>10. CASE ok
  <2>1. ok = TRUE /\ Goto("revokeOption") /\ UNCHANGED <<verified, tampered>>
    BY <1>1, <1>10 DEF Then
  <2>2. /\ pc = "revoke" /\ userHost' = userHost /\ pc' = "revokeOption"
        /\ UNCHANGED <<snap, password, have>>
        /\ ~ignored \/ Here.exists => acct'[userHost] = IF idle THEN Here ELSE account
    <3>1. Align("revoke", idle, account, ignored, ok)
      BY <1>1
    <3>2. /\ pc = "revoke" /\ userHost' = userHost
          /\ ~ignored \/ Here.exists => acct'[userHost] = IF idle THEN Here ELSE account
      <4>1. TypeOK /\ idle \in BOOLEAN /\ account \in Account /\ account.exists = Here.exists
        BY <1>2, <1>6, <1>7, <1>8
      <4>2. ignored \in BOOLEAN /\ ok \in BOOLEAN /\ ok
        BY <1>8, <1>10
      <4>. HIDE DEF Here
      <4>. QED BY <3>1, <4>1, <4>2, AlignEffect
    <3>. QED BY <2>1, <3>2 DEF Goto
  <2>3. ASSUME ~ignored \/ Here.exists
        PROVE  /\ Here'.exists = Here.exists /\ Here'.password = Here.password
               /\ Here'.option = Here.option /\ Here'.privs = Here.privs \ Extra
    <3>1. Here' = acct'[userHost] /\ acct'[userHost] = IF idle THEN Here ELSE account
      BY <2>2, <2>3 DEF Here
    <3>2. CASE idle
      <4>1. Extra = {}
        BY <3>2 DEF idle
      <4>. QED BY <3>1, <3>2, <4>1
    <3>3. CASE ~idle
      BY <1>6, <3>1, <3>3
    <3>. QED BY <3>2, <3>3
  <2>4. Want' = Want /\ tampered' = tampered
    BY <2>1, <2>2 DEF Want
  <2>5. ASSUME have.from = "login", tampered[userHost] # "unseen"
        PROVE  /\ Here'.exists /\ Here'.password = password /\ Here'.option = have.option
               /\ Here'.privs = Want
    <3>1. /\ Here.exists /\ Here.password = password /\ Here.option = have.option
          /\ Here.privs = have.privs \cup Want
      BY <1>2, <2>2, <2>5 DEF LoginInv
    <3>2. Extra = have.privs \ Want
      BY <2>5 DEF Extra
    <3>0. ~ignored
      BY <2>5 DEF ignored
    <3>3. Here'.privs = (have.privs \cup Want) \ (have.privs \ Want)
      BY <2>3, <3>0, <3>1, <3>2
    <3>. QED BY <2>3, <3>0, <3>1, <3>3
  <2>6. LoginInv'
    BY <2>2, <2>4, <2>5 DEF LoginInv
  <2>7. AlignInv'
    <3>1. have.from # "none"
      BY <1>2, <2>2 DEF AlignInv
    <3>2. ASSUME Untouched(userHost) PROVE Here'.privs \cap Managed \subseteq Want
      <4>0. ~ignored \/ Here.exists
        BY <1>2, <2>2, <3>2 DEF AlignInv, ignored
      <4>1. have.from \in {"created", "unknown", "login"}
        BY <1>2, <3>1, HereType DEF Grants
      <4>2. CASE have.from = "created"
        <5>1. Here.privs \cap Managed \subseteq Want
          BY <1>2, <2>2, <3>2, <4>2 DEF AlignInv, Limited, WithinRole, Want, Here
        <5>. QED BY <2>3, <4>0, <5>1
      <4>3. CASE have.from = "unknown"
        <5>1. Extra = Managed \ Want
          BY <4>3 DEF Extra
        <5>. QED BY <2>3, <4>0, <5>1
      <4>4. CASE have.from = "login"
        <5>1. Here'.privs = Want
          BY <2>5, <3>2, <4>4 DEF Untouched
        <5>. QED BY <5>1
      <4>. QED BY <4>1, <4>2, <4>3, <4>4
    <3>. QED BY <2>2, <2>4, <3>1, <3>2 DEF AlignInv, Untouched, WithinRole, Want, Here
  <2>. QED BY <1>1, <1>6, <1>7, <1>8, <2>1, <2>6, <2>7, AlignAdvances
<1>. QED BY <1>9, <1>10

-----------------------------------------------------------------------------
(* How GrantAccess ends, and the logins. *)

\* The end of a GrantAccess that has aligned the grants.
LEMMA GrantedKeeps ==
    ASSUME Inv, pc \in {"revokeOption", "verify"}, NEW byLogin \in BOOLEAN, Granted(byLogin),
           UNCHANGED <<obj, secret, userHost, changes, faults>>, acct' \in Accounts,
           \A g \in Host : g # userHost => acct'[g] = acct[g],
           acct'[userHost].exists = Here.exists, acct'[userHost].privs = Here.privs,
           byLogin /\ tampered[userHost] # "unseen" =>
               acct'[userHost] = [exists |-> TRUE, password |-> password,
                                  privs |-> Want, option |-> FALSE]
    PROVE  Inv'
<1>1. TypeOK /\ PassOK /\ WorldOK /\ MemInv /\ AlignInv
  BY TypeParts DEF Inv
<1>2. userHost \in Host /\ tampered \in [Host -> {"none", "unseen", "seen"}]
  BY <1>1 DEF WorldOK
<1>. DEFINE key == IF byLogin THEN Key ELSE NoCheck
<1>3. /\ verified' = [verified EXCEPT ![userHost] = key] /\ Goto("writeSecret")
      /\ tampered' = IF byLogin /\ tampered[userHost] = "seen"
                     THEN [tampered EXCEPT ![userHost] = "none"] ELSE tampered
  BY DEF Granted, Remember
<1>4. key \in Check
  BY <1>1, KeyType, DefaultTypes
<1>5. /\ verified' \in Checks
      /\ \A g \in Host : verified'[g] = IF g = userHost THEN key ELSE verified[g]
  <2>. HIDE DEF key
  <2>. QED BY <1>1, <1>2, <1>3, <1>4, RememberType DEF WorldOK
<1>6. PassOK' /\ pc' = "writeSecret" /\ UNCHANGED <<snap, read, password, created, have, why>>
  BY <1>1, <1>3, GotoEffect DEF Steps
<1>7. tampered' \in [Host -> {"none", "unseen", "seen"}]
      /\ \A g \in Host : g # userHost => tampered'[g] = tampered[g]
  BY <1>2, <1>3
<1>8. Untouched(userHost)' => Untouched(userHost) \/ (byLogin /\ tampered[userHost] = "seen")
  BY <1>2, <1>3 DEF Untouched
<1>9. TypeOK'
  BY <1>1, <1>5, <1>6, <1>7, TypePartsNext DEF WorldOK
<1>10. AddsOnlyWanted
  <2>1. ASSUME NEW h \in Host, h # userHost, Untouched(h)'
        PROVE  Untouched(h) /\ acct'[h].privs \cap Managed \subseteq acct[h].privs \cup Want
    BY <1>7, <2>1 DEF Untouched
  <2>2. ASSUME Untouched(userHost)'
        PROVE  \/ Untouched(userHost) /\ acct'[userHost].privs \cap Managed \subseteq acct[userHost].privs \cup Want
               \/ acct'[userHost].privs \cap Managed \subseteq Want
    <3>1. CASE Untouched(userHost)
      BY <3>1 DEF Here
    <3>2. CASE byLogin /\ tampered[userHost] = "seen"
      <4>1. acct'[userHost].privs = Want
        BY <3>2
      <4>. QED BY <4>1
    <3>. QED BY <1>8, <2>2, <3>1, <3>2
  <2>. QED BY <2>1, <2>2 DEF AddsOnlyWanted
<1>11. Spends
  <2>1. Answers => Answers'
    BY <1>6 DEF Answers
  <2>2. \A h \in Host : acct'[h].exists => acct[h].exists
    BY DEF Here
  <2>3. Unnamed' \subseteq Unnamed
    BY <2>1, <2>2, NoneMore
  <2>. QED BY <2>3 DEF Spends
<1>12. MemInv'
  <2>1. ASSUME NEW h \in Host, h # userHost, Untouched(h)', verified'[h] # NoCheck
        PROVE  Remembered(h)'
    <3>1. verified'[h] = verified[h] /\ tampered'[h] = tampered[h] /\ acct'[h] = acct[h]
      BY <1>5, <1>7, <2>1
    <3>2. Remembered(h)
      BY <1>1, <2>1, <3>1 DEF MemInv, Untouched
    <3>. QED BY <3>1, <3>2 DEF Remembered
  <2>2. ASSUME Untouched(userHost)', verified'[userHost] # NoCheck
        PROVE  Remembered(userHost)'
    <3>1. byLogin /\ verified'[userHost] = Key
      BY <1>2, <1>5, <2>2
    <3>2. tampered[userHost] # "unseen"
      BY <1>8, <2>2 DEF Untouched
    <3>3. acct'[userHost] = [exists |-> TRUE, password |-> password, privs |-> Want, option |-> FALSE]
      BY <3>1, <3>2
    <3>4. verified'[userHost].password = password /\ verified'[userHost].want = Want
      BY <3>1 DEF Key
    <3>. QED BY <3>3, <3>4 DEF Remembered
  <2>. QED BY <1>6, <2>1, <2>2 DEF MemInv
<1>13. LoginInv'
  BY <1>6 DEF LoginInv
<1>14. AlignInv'
  <2>1. ASSUME Untouched(userHost)' PROVE acct'[userHost].privs \cap Managed \subseteq Want
    <3>1. CASE Untouched(userHost)
      <4>1. Here.privs \cap Managed \subseteq Want
        BY <1>1, <3>1 DEF AlignInv, Limited, WithinRole, Want, Here
      <4>. QED BY <4>1
    <3>2. CASE byLogin /\ tampered[userHost] = "seen"
      <4>1. acct'[userHost].privs = Want
        BY <3>2
      <4>. QED BY <4>1
    <3>. QED BY <1>8, <2>1, <3>1, <3>2
  <2>. QED BY <1>6, <2>1 DEF AlignInv, WithinRole, Want, Untouched
<1>. QED BY <1>6, <1>9, <1>10, <1>11, <1>12, <1>13, <1>14, Advance

\* GrantAccess gives up without a statement.
LEMMA GrantFailsKeeps ==
    ASSUME Inv, pc # "idle", NEW made \in BOOLEAN, GrantFails(made), Answers => made,
           UNCHANGED <<obj, secret, acct, userHost, changes>>,
           faults' \in 0..MaxFaults, faults' = faults \/ faults' = faults + 1
    PROVE  Inv'
<1>1. TypeOK /\ PassOK /\ WorldOK
  BY TypeParts DEF Inv
<1>2. /\ PassOK' /\ snap' = snap /\ created' = created /\ tampered' = tampered
      /\ pc' = IF made THEN "cleanup" ELSE "report"
      /\ verified' \in Checks
      /\ \A g \in Host : verified'[g] = IF g = userHost THEN NoCheck ELSE verified[g]
  BY <1>1, GrantFailsEffect
<1>3. TypeOK'
  BY <1>1, <1>2, TypePartsNext DEF WorldOK
<1>4. AddsOnlyWanted
  BY <1>2 DEF AddsOnlyWanted, Untouched
<1>5. Spends
  <2>1. Answers => Answers'
    BY <1>2 DEF Answers
  <2>2. Unnamed' \subseteq Unnamed
    BY <2>1, NoneMore
  <2>. QED BY <2>2 DEF Spends
<1>6. userHost \in Host
  BY <1>1 DEF WorldOK
<1>7. pc' \in {"report", "cleanup", "unmint"}
  BY <1>2
<1>. QED BY <1>2, <1>3, <1>4, <1>5, <1>6, <1>7, Retreat

LEMMA RevokeOptionKeeps ==
    ASSUME Inv, RevokeOption
    PROVE  Inv'
<1>. DEFINE idle == ~have.option
            account == [acct[userHost] EXCEPT !.option = FALSE]
<1>1. PICK ok \in BOOLEAN : /\ Align("revokeOption", idle, account, FALSE, ok)
                            /\ IF ok THEN Aligned ELSE GrantFails(created)
  BY DEF RevokeOption
<1>2. TypeOK /\ PassOK /\ WorldOK /\ MemInv /\ LoginInv /\ AlignInv
  BY TypeParts DEF Inv
<1>3. account = [Here EXCEPT !.option = FALSE]
  BY DEF Here
<1>4. /\ account \in Account
      /\ account = [exists |-> Here.exists, password |-> Here.password,
                    privs |-> Here.privs, option |-> FALSE]
      /\ Here \in Account /\ have \in Grants /\ userHost \in Host
  BY <1>2, <1>3, HereType
<1>5. account.exists = Here.exists /\ account.privs = Here.privs
      /\ account.privs \cap Managed \subseteq Here.privs \cup Want
  BY <1>4
<1>6. idle \in BOOLEAN
  BY <1>4 DEF Grants
<1>. HIDE DEF account
<1>7. CASE ~ok
  <2>1. ok = FALSE /\ GrantFails(created)
    BY <1>1, <1>7
  <2>. QED BY <1>1, <1>4, <1>5, <1>6, <2>1, AlignFails DEF Changing
<1>8. CASE ok
  <2>1. ok = TRUE /\ Aligned
    BY <1>1, <1>8
  <2>2. /\ pc = "revokeOption" /\ UNCHANGED <<obj, secret, userHost, changes>> /\ faults' = faults
        /\ acct' \in Accounts /\ \A g \in Host : g # userHost => acct'[g] = acct[g]
        /\ acct'[userHost] = IF idle THEN Here ELSE account
    BY <1>1, <1>2, <1>4, <1>5, <1>6, <2>1, AlignEffect
  <2>3. acct'[userHost].exists = Here.exists /\ acct'[userHost].privs = Here.privs
    BY <1>5, <2>2
  <2>4. CASE have.from # "login" /\ FromSecret
    <3>1. Goto("verify") /\ UNCHANGED <<verified, tampered>>
      BY <2>1, <2>4 DEF Aligned
    <3>2. PassOK' /\ pc' = "verify" /\ UNCHANGED <<snap, read, password, created, have, why>>
      BY <1>2, <3>1, GotoEffect DEF Steps
    <3>3. TypeOK'
      BY <1>2, <2>2, <3>1, <3>2, TypePartsNext DEF WorldOK
    <3>4. AddsOnlyWanted
      BY <2>2, <2>3, <3>1 DEF AddsOnlyWanted, Untouched, Here
    <3>5. Spends
      <4>1. Answers => Answers'
        BY <3>2 DEF Answers
      <4>2. \A h \in Host : acct'[h].exists => acct[h].exists
        BY <2>2, <2>3 DEF Here
      <4>3. Unnamed' \subseteq Unnamed
        BY <2>2, <4>1, <4>2, NoneMore
      <4>. QED BY <2>2, <4>3 DEF Spends
    <3>6. MemInv'
      BY <1>2, <2>2, <3>1, <3>2, MemChanging DEF Changing
    <3>7. LoginInv'
      BY <3>2 DEF LoginInv
    <3>8. AlignInv'
      BY <1>2, <2>2, <2>3, <3>1, <3>2 DEF AlignInv, Limited, WithinRole, Untouched, Here
    <3>. QED BY <2>2, <3>2, <3>3, <3>4, <3>5, <3>6, <3>7, <3>8, Advance
  <2>5. CASE ~(have.from # "login" /\ FromSecret)
    <3>. DEFINE byLogin == have.from = "login"
    <3>1. Granted(byLogin) /\ byLogin \in BOOLEAN
      BY <2>1, <2>5 DEF Aligned
    <3>2. ASSUME byLogin, tampered[userHost] # "unseen"
          PROVE  acct'[userHost] = [exists |-> TRUE, password |-> password,
                                    privs |-> Want, option |-> FALSE]
      <4>1. Here.exists /\ Here.password = password /\ Here.option = have.option /\ Here.privs = Want
        BY <1>2, <2>2, <3>2 DEF LoginInv
      <4>2. Here = [exists |-> Here.exists, password |-> Here.password,
                    privs |-> Here.privs, option |-> Here.option]
            /\ Here.exists \in BOOLEAN /\ Here.option \in BOOLEAN
        BY <1>4 DEF Account
      <4>3. Here.exists = TRUE
        BY <4>1, <4>2
      <4>4. CASE idle
        <5>1. Here.option = FALSE
          BY <4>1, <4>2, <4>4
        <5>2. acct'[userHost] = Here
          BY <2>2, <4>4
        <5>. QED BY <4>1, <4>2, <4>3, <5>1, <5>2
      <4>5. CASE ~idle
        <5>1. acct'[userHost] = account
          BY <2>2, <4>5
        <5>. QED BY <1>4, <4>1, <4>3, <5>1
      <4>. QED BY <4>4, <4>5
    <3>. HIDE DEF byLogin
    <3>. QED BY <2>2, <2>3, <3>1, <3>2, GrantedKeeps
  <2>. QED BY <2>4, <2>5
<1>. QED BY <1>7, <1>8

\* The server lets the user in under the backend's own host.
LEMMA LoginOk ==
    ASSUME LoginResult = "ok"
    PROVE  Here.exists /\ Here.password = password
<1>1. \E h \in Matching : h = userHost /\ acct[h].password = password
  BY DEF LoginResult
<1>. QED BY <1>1 DEF Matching, Here

LEMMA LoggedInKeeps ==
    ASSUME Inv, pc \in {"login", "verify"}, LoginResult = "ok", LoggedIn,
           UNCHANGED <<obj, secret, acct, userHost, verified, changes, faults>>
    PROVE  Inv'
<1>1. TypeOK /\ PassOK /\ WorldOK /\ MemInv
  BY TypeParts DEF Inv
<1>2. /\ have' = Held /\ pc' = "grant" /\ UNCHANGED <<snap, read, password, created, why>>
      /\ tampered' = IF tampered[userHost] = "unseen"
                     THEN [tampered EXCEPT ![userHost] = "seen"] ELSE tampered
  BY DEF LoggedIn
<1>3. userHost \in Host /\ tampered \in [Host -> {"none", "unseen", "seen"}]
  BY <1>1 DEF WorldOK
<1>4. /\ tampered' \in [Host -> {"none", "unseen", "seen"}]
      /\ \A g \in Host : g # userHost => tampered'[g] = tampered[g]
      /\ \A g \in Host : Untouched(g)' => Untouched(g)
  BY <1>2, <1>3 DEF Untouched
<1>5. Held \in Grants /\ Held.from = "login" /\ Held.privs = Here.privs /\ Held.option = Here.option
  <2>1. Here \in Account
    BY <1>1, HereType
  <2>2. Here.privs \in SUBSET Privilege /\ Here.option \in BOOLEAN
    BY <2>1 DEF Account
  <2>3. Held = [from |-> "login", privs |-> Here.privs, option |-> Here.option]
    BY DEF Held, Here
  <2>. QED BY <2>2, <2>3 DEF Grants
<1>6. PassOK'
  BY <1>1, <1>2, <1>5 DEF PassOK, Steps
<1>7. TypeOK'
  BY <1>1, <1>4, <1>6, TypePartsNext DEF WorldOK
<1>8. AddsOnlyWanted
  BY <1>4 DEF AddsOnlyWanted
<1>9. Spends
  <2>1. Answers => Answers'
    BY <1>2 DEF Answers
  <2>2. Unnamed' \subseteq Unnamed
    BY <2>1, NoneMore
  <2>. QED BY <2>2 DEF Spends
<1>10. MemInv'
  BY <1>1, <1>2, <1>4, MemChanging DEF Changing
<1>11. LoginInv'
  <2>1. Here.exists /\ Here.password = password
    BY LoginOk
  <2>2. Here' = Here
    BY DEF Here
  <2>. QED BY <1>2, <1>5, <2>1, <2>2 DEF LoginInv
<1>12. AlignInv'
  BY <1>2, <1>5 DEF AlignInv, Limited
<1>. QED BY <1>2, <1>7, <1>8, <1>9, <1>10, <1>11, <1>12, Advance

LEMMA VerifyKeeps ==
    ASSUME Inv, Verify
    PROVE  Inv'
<1>1. pc = "verify" /\ UNCHANGED <<obj, secret, acct, userHost, changes>>
  BY DEF Verify
<1>2. TypeOK /\ PassOK /\ WorldOK
  BY TypeParts DEF Inv
<1>3. created \in BOOLEAN /\ faults \in 0..MaxFaults /\ acct \in Accounts
  BY <1>2 DEF PassOK, WorldOK
<1>4. Answers => created
  BY DEF Answers
<1>5. CASE LoginResult = "ok" /\ LoggedIn /\ UNCHANGED <<verified, faults>>
  BY <1>1, <1>5, LoggedInKeeps
<1>6. CASE LoginResult = "shadowed" /\ Granted(FALSE) /\ UNCHANGED faults
  <2>1. acct'[userHost].exists = Here.exists /\ acct'[userHost].privs = Here.privs
    BY <1>1 DEF Here
  <2>. QED BY <1>1, <1>3, <1>6, <2>1, GrantedKeeps
<1>7. CASE LoginResult = "denied" /\ GrantFails(created) /\ UNCHANGED faults
  BY <1>1, <1>3, <1>4, <1>7, GrantFailsKeeps
<1>8. CASE Fault("login") /\ GrantFails(created)
  <2>1. faults' = faults + 1 /\ faults' \in 0..MaxFaults
    BY <1>3, <1>8, FaultCounts
  <2>. QED BY <1>1, <1>3, <1>4, <1>8, <2>1, GrantFailsKeeps
<1>. QED BY <1>5, <1>6, <1>7, <1>8 DEF Verify

\* A step of the pass that only moves on, before GrantAccess has begun to
\* change the account.
LEMMA OnlyMoves ==
    ASSUME Inv, PassOK', pc \in {"readSecret", "login"},
           pc' \in {"refuse", "login", "setPassword", "report"}, snap' = snap,
           UNCHANGED <<obj, secret, acct, userHost, verified, tampered, changes, faults>>
    PROVE  Inv'
<1>1. TypeOK /\ PassOK /\ WorldOK /\ MemInv
  BY TypeParts DEF Inv
<1>2. TypeOK'
  BY <1>1, TypePartsNext DEF WorldOK
<1>3. AddsOnlyWanted
  BY DEF AddsOnlyWanted, Untouched
<1>4. Spends
  <2>1. ~Answers
    BY DEF Answers
  <2>2. Unnamed' \subseteq Unnamed
    BY <2>1, NoneMore
  <2>. QED BY <2>2 DEF Spends
<1>5. MemInv'
  BY <1>1 DEF MemInv, Untouched, Remembered, Changing
<1>6. LoginInv' /\ AlignInv'
  BY DEF LoginInv, AlignInv, Limited
<1>. QED BY <1>2, <1>3, <1>4, <1>5, <1>6, Advance

LEMMA LoginKeeps ==
    ASSUME Inv, Login
    PROVE  Inv'
<1>1. pc = "login" /\ UNCHANGED <<obj, secret, acct, userHost, changes>>
  BY DEF Login
<1>2. TypeOK /\ PassOK /\ WorldOK
  BY TypeParts DEF Inv
<1>3. CASE LoginResult = "ok" /\ LoggedIn /\ UNCHANGED <<verified, faults>>
  BY <1>1, <1>3, LoggedInKeeps
<1>4. CASE LoginResult # "ok" /\ Goto("setPassword") /\ UNCHANGED <<verified, tampered, faults>>
  <2>1. PassOK' /\ pc' = "setPassword" /\ snap' = snap
    BY <1>2, <1>4, GotoEffect DEF Steps
  <2>. QED BY <1>1, <1>4, <2>1, OnlyMoves
<1>5. CASE Fault("login") /\ GrantFails(FALSE)
  <2>1. faults' = faults + 1 /\ faults' \in 0..MaxFaults
    BY <1>2, <1>5, FaultCounts DEF WorldOK
  <2>2. ~Answers
    BY <1>1 DEF Answers
  <2>. QED BY <1>1, <1>5, <2>1, <2>2, GrantFailsKeeps
<1>. QED BY <1>3, <1>4, <1>5 DEF Login

LEMMA ReadSecretKeeps ==
    ASSUME Inv, ReadSecret
    PROVE  Inv'
<1>1. /\ pc = "readSecret" /\ read' = secret
      /\ UNCHANGED <<obj, secret, acct, userHost, verified, snap, created, have, tampered,
                     changes, faults>>
  BY DEF ReadSecret
<1>2. TypeOK /\ PassOK /\ WorldOK /\ MemInv
  BY TypeParts DEF Inv
<1>3. secret \in Carried /\ userHost \in Host
  BY <1>2 DEF WorldOK
<1>4. CASE snap.role = "Writer" /\ pc' = "refuse" /\ UNCHANGED <<password, why>>
  <2>1. PassOK'
    BY <1>1, <1>2, <1>3, <1>4 DEF PassOK, Steps
  <2>. QED BY <1>1, <1>4, <2>1, OnlyMoves
<1>5. CASE /\ snap.role # "Writer" /\ secret = "none" /\ pc' = "setPassword"
           /\ Unused # {} /\ password' = NewPassword /\ UNCHANGED why
  <2>1. password' \in Password \cup {"none"}
    BY <1>5, NewPasswordType
  <2>2. PassOK'
    BY <1>1, <1>2, <1>3, <1>5, <2>1 DEF PassOK, Steps
  <2>. QED BY <1>1, <1>5, <2>2, OnlyMoves
<1>6. CASE /\ snap.role # "Writer" /\ secret = "weak" /\ pc' = "report"
           /\ why' = "GrantFailed" /\ UNCHANGED password
  <2>1. PassOK'
    BY <1>1, <1>2, <1>3, <1>6 DEF PassOK, Steps, Reasons
  <2>. QED BY <1>1, <1>6, <2>1, OnlyMoves
<1>7. CASE /\ snap.role # "Writer" /\ secret \in Password /\ password' = secret
           /\ pc' = IF Fresh(secret) THEN "writeSecret" ELSE "login"
           /\ UNCHANGED why
  <2>1. PassOK'
    BY <1>1, <1>2, <1>3, <1>7 DEF PassOK, Steps
  <2>2. CASE ~Fresh(secret)
    BY <1>1, <1>7, <2>1, <2>2, OnlyMoves
  \* The skipped check: what it found is still so.
  <2>3. CASE Fresh(secret)
    <3>1. pc' = "writeSecret"
      BY <1>7, <2>3
    <3>2. TypeOK'
      BY <1>1, <1>2, <2>1, TypePartsNext DEF WorldOK
    <3>3. AddsOnlyWanted
      BY <1>1 DEF AddsOnlyWanted, Untouched
    <3>4. Spends
      <4>1. ~Answers
        BY <1>1 DEF Answers
      <4>2. Unnamed' \subseteq Unnamed
        BY <1>1, <4>1, NoneMore
      <4>. QED BY <1>1, <4>2 DEF Spends
    <3>5. MemInv'
      BY <1>1, <1>2, <3>1 DEF MemInv, Untouched, Remembered, Changing
    <3>6. LoginInv'
      BY <3>1 DEF LoginInv
    <3>7. AlignInv'
      <4>1. ASSUME Untouched(userHost) PROVE WithinRole(userHost, snap.role)
        <5>1. verified[userHost] = [password |-> secret, want |-> Want]
          BY <2>3 DEF Fresh
        <5>2. verified[userHost] # NoCheck
          <6>1. secret # "none"
            BY <1>7, Bounds
          <6>. QED BY <5>1, <6>1, DefaultTypes
        <5>3. Remembered(userHost)
          BY <1>1, <1>2, <1>3, <4>1, <5>2 DEF MemInv, Changing
        <5>4. acct[userHost].privs = Want
          BY <5>1, <5>3 DEF Remembered
        <5>. QED BY <5>4 DEF WithinRole, Want
      <4>. QED BY <1>1, <3>1, <4>1 DEF AlignInv, Untouched, WithinRole
    <3>. QED BY <1>1, <3>1, <3>2, <3>3, <3>4, <3>5, <3>6, <3>7, Advance
  <2>. QED BY <2>2, <2>3
<1>. QED BY <1>4, <1>5, <1>6, <1>7 DEF ReadSecret

LEMMA SetPasswordKeeps ==
    ASSUME Inv, SetPassword
    PROVE  Inv'
<1>. DEFINE exists == acct[userHost].exists
            account == IF exists THEN [acct[userHost] EXCEPT !.password = password]
                       ELSE [NoAccount EXCEPT !.exists = TRUE, !.password = password]
            set == [acct EXCEPT ![userHost] = account]
<1>1. TypeOK /\ PassOK /\ WorldOK /\ MemInv
  BY TypeParts DEF Inv
<1>2. /\ acct \in Accounts /\ userHost \in Host /\ faults \in 0..MaxFaults
      /\ password \in Password \cup {"none"} /\ Here \in Account
  BY <1>1, HereType DEF PassOK, WorldOK
<1>3. /\ pc = "setPassword" /\ UNCHANGED <<obj, secret, userHost, changes>>
      /\ \/ /\ Statement(set, TRUE)
            /\ pc' = "grant" /\ created' = ~exists
            /\ have' = IF exists THEN Unknown ELSE Created
            /\ UNCHANGED <<snap, read, password, why, verified, tampered>>
         \/ Statement(set, FALSE) /\ GrantFails(FALSE)
  BY DEF SetPassword
<1>4. account \in Account /\ account.exists /\ account.privs = (IF exists THEN Here.privs ELSE {})
  <2>1. CASE exists
    <3>1. account = [Here EXCEPT !.password = password]
      BY <2>1 DEF Here
    <3>2. [Here EXCEPT !.password = password] \in Account
      BY <1>2 DEF Account
    <3>3. [Here EXCEPT !.password = password].exists = Here.exists
          /\ [Here EXCEPT !.password = password].privs = Here.privs
      BY <1>2 DEF Account
    <3>. QED BY <2>1, <3>1, <3>2, <3>3 DEF Here
  <2>2. CASE ~exists
    <3>1. account = [exists |-> TRUE, password |-> password, privs |-> {}, option |-> FALSE]
      BY <2>2 DEF NoAccount
    <3>. QED BY <1>2, <2>2, <3>1 DEF Account
  <2>. QED BY <2>1, <2>2
<1>5. exists \in BOOLEAN
  BY <1>2 DEF Account, Here
<1>. HIDE DEF account
<1>6. set \in Accounts /\ set[userHost] = account /\ \A g \in Host : g # userHost => set[g] = acct[g]
  BY <1>2, <1>4 DEF Accounts
<1>. HIDE DEF set
<1>7. ASSUME acct' = acct \/ acct' = set, tampered' = tampered PROVE AddsOnlyWanted
  <2>1. ASSUME NEW h \in Host PROVE acct'[h].privs \subseteq acct[h].privs
    BY <1>4, <1>6, <1>7 DEF Here
  <2>. QED BY <1>7, <2>1 DEF AddsOnlyWanted, Untouched
<1>8. CASE Statement(set, FALSE) /\ GrantFails(FALSE)
  <2>1. /\ faults' \in 0..MaxFaults /\ (acct' = acct \/ acct' = set) /\ faults' = faults + 1
    BY <1>2, <1>8, StatementEffect
  <2>2. /\ PassOK' /\ snap' = snap /\ tampered' = tampered /\ pc' = "report"
        /\ verified' \in Checks
        /\ \A g \in Host : verified'[g] = IF g = userHost THEN NoCheck ELSE verified[g]
    BY <1>1, <1>8, GrantFailsEffect
  <2>3. acct' \in Accounts /\ \A g \in Host : g # userHost => acct'[g] = acct[g]
    BY <1>2, <1>6, <2>1
  <2>4. TypeOK'
    BY <1>1, <1>3, <2>1, <2>2, <2>3, TypePartsNext DEF WorldOK
  <2>5. AddsOnlyWanted
    BY <1>7, <2>1, <2>2
  <2>6. Spends
    <3>1. Unnamed' \subseteq Unnamed \cup {userHost}
      BY <1>3, <2>3, OneMore
    <3>. QED BY <2>1, <3>1 DEF Spends
  <2>. QED BY <1>3, <2>2, <2>3, <2>4, <2>5, <2>6, Retreat DEF Changing
<1>9. CASE /\ Statement(set, TRUE)
           /\ pc' = "grant" /\ created' = ~exists
           /\ have' = IF exists THEN Unknown ELSE Created
           /\ UNCHANGED <<snap, read, password, why, verified, tampered>>
  <2>1. faults' = faults /\ acct' = set
    BY <1>2, <1>9, StatementEffect
  <2>2. have' \in Grants /\ have'.from = (IF exists THEN "unknown" ELSE "created")
    BY <1>9, DefaultTypes
  <2>3. PassOK'
    BY <1>1, <1>5, <1>9, <2>2 DEF PassOK, Steps
  <2>4. TypeOK'
    BY <1>1, <1>3, <1>6, <1>9, <2>1, <2>3, TypePartsNext DEF WorldOK
  <2>5. AddsOnlyWanted
    BY <1>7, <1>9, <2>1
  <2>6. Spends
    <3>1. ~Answers /\ (~exists => Answers')
      BY <1>3, <1>9 DEF Answers
    <3>2. \A h \in Host : acct'[h].exists => acct[h].exists \/ (h = userHost /\ Answers')
      BY <1>6, <2>1, <3>1
    <3>3. Unnamed' \subseteq Unnamed
      BY <1>3, <3>1, <3>2, NoneMore
    <3>. QED BY <2>1, <3>3 DEF Spends
  <2>7. MemInv'
    BY <1>1, <1>3, <1>6, <1>9, <2>1, MemChanging DEF Changing
  <2>8. LoginInv'
    BY <2>2 DEF LoginInv
  <2>9. AlignInv'
    <3>1. have'.from # "none"
      BY <2>2
    <3>2. have'.from = "created" => acct'[userHost].privs = {}
      BY <1>4, <1>6, <2>1, <2>2
    <3>3. Here'.exists
      BY <1>3, <1>4, <1>6, <2>1 DEF Here
    <3>. QED BY <1>3, <1>9, <3>1, <3>2, <3>3 DEF AlignInv, Limited, WithinRole
  <2>. QED BY <1>3, <1>9, <2>4, <2>5, <2>6, <2>7, <2>8, <2>9, Advance
<1>. QED BY <1>3, <1>8, <1>9

-----------------------------------------------------------------------------
(* The rest of the pass. *)

LEMMA AdvanceTo ==
    ASSUME Inv, TypeOK', pc # "idle", obj' = obj, snap' = snap, AddsOnlyWanted, Spends,
           MemInv', LoginInv', AlignInv', GoneInv'
    PROVE  Inv'
<1>1. TypeOK /\ ObjInv /\ RoleInv /\ CountInv
  BY DEF Inv
<1>2. ObjInv' /\ RoleInv' /\ CountInv'
  BY <1>1, PassKeeps
<1>. QED BY <1>2 DEF Inv

\* The memory of an account that a step does not touch, or forgets.
LEMMA MemKept ==
    ASSUME MemInv, userHost' = userHost, pc \notin Changing, pc' # "cleanup",
           \A h \in Host : \/ verified'[h] = NoCheck
                           \/ /\ verified'[h] = verified[h]
                              /\ Untouched(h)' => Untouched(h) /\ acct'[h] = acct[h]
    PROVE  MemInv'
<1>1. ASSUME NEW h \in Host, Untouched(h)', verified'[h] # NoCheck PROVE Remembered(h)'
  <2>1. verified'[h] = verified[h] /\ Untouched(h) /\ acct'[h] = acct[h]
    BY <1>1
  <2>2. Remembered(h)
    BY <1>1, <2>1 DEF MemInv
  <2>. QED BY <2>1, <2>2 DEF Remembered
<1>. QED BY <1>1 DEF MemInv

LEMMA SnapPrincipal ==
    ASSUME TypeOK
    PROVE  snap.principal \in Host \cup {NoHost}
BY DEF TypeOK, Object

LEMMA WriteSecretKeeps ==
    ASSUME Inv, WriteSecret
    PROVE  Inv'
<1>. DEFINE unchanged == password = read
            after == IF snap.principal \in {NoHost, userHost} THEN "commit" ELSE "revokeOld"
<1>1. /\ pc = "writeSecret" /\ UNCHANGED <<obj, acct, userHost, verified, tampered, changes>>
      /\ \/ unchanged /\ Goto(after) /\ UNCHANGED <<secret, faults>>
         \/ ~unchanged /\ secret = read /\ secret' = password /\ Goto(after) /\ UNCHANGED faults
         \/ ~unchanged /\ secret # read /\ FailedWrite /\ UNCHANGED <<secret, faults>>
         \/ ~unchanged /\ Fault("write") /\ FailedWrite /\ UNCHANGED secret
  BY DEF WriteSecret
<1>2. TypeOK /\ PassOK /\ WorldOK /\ MemInv /\ AlignInv
  BY TypeParts DEF Inv
<1>3. AddsOnlyWanted
  BY <1>1 DEF AddsOnlyWanted, Untouched
<1>4. CASE Goto(after) /\ secret' \in Carried /\ UNCHANGED faults
  <2>1. PassOK' /\ pc' = after /\ snap' = snap /\ created' = created
    BY <1>2, <1>4, GotoEffect DEF Steps
  <2>2. TypeOK'
    BY <1>1, <1>2, <1>4, <2>1, TypePartsNext DEF WorldOK
  <2>3. Spends
    <3>1. Answers => Answers'
      BY <2>1 DEF Answers
    <3>2. Unnamed' \subseteq Unnamed
      BY <1>1, <3>1, NoneMore
    <3>. QED BY <1>4, <3>2 DEF Spends
  <2>4. pc' \in {"commit", "revokeOld"}
    BY <2>1
  <2>5. MemInv'
    BY <1>1, <1>2, <2>4, MemKept DEF Changing, Untouched
  <2>6. LoginInv'
    BY <2>4 DEF LoginInv
  <2>7. AlignInv'
    BY <1>1, <1>2, <2>1, <2>4 DEF AlignInv, Limited, WithinRole, Untouched
  <2>8. GoneInv'
    <3>1. obj.phase # "gone"
      BY <1>1 DEF Inv, ObjInv
    <3>2. pc' = "commit" => snap.principal \in {NoHost, userHost}
      BY <2>1
    <3>. QED BY <1>1, <2>1, <2>4, <3>1, <3>2, HostNotNone DEF GoneInv, Absent
  <2>. QED BY <1>1, <1>3, <2>1, <2>2, <2>3, <2>5, <2>6, <2>7, <2>8, AdvanceTo
<1>5. CASE /\ FailedWrite /\ secret' = secret /\ faults' \in 0..MaxFaults
           /\ (faults' = faults \/ faults' = faults + 1)
  <2>1. /\ PassOK' /\ snap' = snap /\ created' = created
        /\ pc' = IF created THEN "unmint" ELSE "report"
    <3>1. CASE created
      <4>1. Goto("unmint")
        BY <1>5, <3>1 DEF FailedWrite
      <4>. QED BY <1>2, <3>1, <4>1, GotoEffect DEF Steps
    <3>2. CASE ~created
      <4>1. Report("SecretWriteFailed")
        BY <1>5, <3>2 DEF FailedWrite
      <4>. QED BY <1>2, <3>2, <4>1, ReportEffect DEF Reasons
    <3>. QED BY <3>1, <3>2
  <2>2. TypeOK'
    BY <1>1, <1>2, <1>5, <2>1, TypePartsNext DEF WorldOK
  <2>3. Spends
    <3>1. Answers => Answers'
      BY <2>1 DEF Answers
    <3>2. Unnamed' \subseteq Unnamed
      BY <1>1, <3>1, NoneMore
    <3>. QED BY <1>5, <3>2 DEF Spends
  <2>4. pc' \in {"report", "cleanup", "unmint"} /\ pc' # "cleanup"
    BY <2>1
  <2>. QED BY <1>1, <1>3, <2>1, <2>2, <2>3, <2>4, Retreat DEF Changing
<1>6. secret \in Carried /\ password \in Carried /\ faults \in 0..MaxFaults
  BY <1>2 DEF WorldOK, PassOK, Carried
<1>7. Fault("write") => faults' = faults + 1 /\ faults' \in 0..MaxFaults
  BY <1>6, FaultCounts
<1>. QED BY <1>1, <1>4, <1>5, <1>6, <1>7

LEMMA RevokeOldKeeps ==
    ASSUME Inv, RevokeOld
    PROVE  Inv'
<1>1. pc = "revokeOld" /\ UNCHANGED <<obj, secret, userHost, tampered, changes>>
  BY DEF RevokeOld
<1>2. TypeOK /\ PassOK /\ WorldOK /\ MemInv /\ AlignInv
  BY TypeParts DEF Inv
<1>. DEFINE h == snap.principal
<1>3. h \in Host \cup {NoHost}
  BY <1>2, SnapPrincipal
<1>4. PICK ok \in BOOLEAN :
         /\ RevokeAccess(h, ok)
         /\ IF ok THEN Goto("commit") ELSE Report("RevokeFailed")
  BY DEF RevokeOld
<1>5. /\ acct' \in Accounts /\ verified' \in Checks /\ faults' \in 0..MaxFaults
      /\ \A g \in Host : acct'[g] = acct[g] \/ (g = h /\ acct'[g] = NoAccount)
      /\ \A g \in Host : verified'[g] = IF g = h THEN NoCheck ELSE verified[g]
      /\ ok => (h \in Host => acct'[h] = NoAccount) /\ faults' = faults
      /\ ~ok => faults' = faults + 1
  BY <1>2, <1>3, <1>4, RevokeAccessEffect
<1>6. AddsOnlyWanted /\ \A g \in Host : acct'[g].exists => acct[g].exists
  BY <1>1, <1>5, DefaultTypes DEF AddsOnlyWanted, Untouched
<1>7. \A g \in Host : verified'[g] = NoCheck \/ (verified'[g] = verified[g] /\ acct'[g] = acct[g])
  BY <1>5
<1>8. CASE ok
  <2>1. PassOK' /\ pc' = "commit" /\ snap' = snap /\ created' = created
    BY <1>2, <1>4, <1>8, GotoEffect DEF Steps
  <2>2. TypeOK'
    BY <1>1, <1>2, <1>5, <2>1, TypePartsNext DEF WorldOK
  <2>3. Spends
    <3>1. Answers => Answers'
      BY <2>1 DEF Answers
    <3>2. Unnamed' \subseteq Unnamed
      BY <1>1, <1>6, <3>1, NoneMore
    <3>. QED BY <1>5, <1>8, <3>2 DEF Spends
  <2>4. MemInv'
    BY <1>1, <1>2, <1>7, <2>1, MemKept DEF Changing, Untouched
  <2>5. LoginInv'
    BY <2>1 DEF LoginInv
  <2>6. AlignInv'
    <3>1. userHost \in Host
      BY <1>2 DEF WorldOK
    <3>2. acct'[userHost].privs \subseteq acct[userHost].privs
      BY <1>5, <3>1, DefaultTypes
    <3>3. Untouched(userHost) => acct[userHost].privs \cap Managed \subseteq RolePrivileges(snap.role)
      BY <1>1, <1>2 DEF AlignInv, Limited, WithinRole
    <3>. QED BY <1>1, <2>1, <3>2, <3>3 DEF AlignInv, WithinRole, Untouched
  <2>7. GoneInv'
    <3>1. obj.phase # "gone"
      BY <1>1 DEF Inv, ObjInv
    <3>2. h \in Host => ~acct'[h].exists
      BY <1>5, <1>8, DefaultTypes
    <3>. QED BY <1>1, <2>1, <3>1, <3>2 DEF GoneInv, Absent
  <2>. QED BY <1>1, <1>6, <2>1, <2>2, <2>3, <2>4, <2>5, <2>6, <2>7, AdvanceTo
<1>9. CASE ~ok
  <2>1. PassOK' /\ pc' = "report" /\ snap' = snap
    BY <1>2, <1>4, <1>9, ReportEffect DEF Reasons
  <2>2. TypeOK'
    BY <1>1, <1>2, <1>5, <2>1, TypePartsNext DEF WorldOK
  <2>3. Spends
    <3>1. Unnamed' \subseteq Unnamed \cup {userHost}
      BY <1>1, <1>6, OneMore
    <3>. QED BY <1>5, <1>9, <3>1 DEF Spends
  <2>. QED BY <1>1, <1>6, <1>7, <2>1, <2>2, <2>3, Retreat DEF Changing
<1>. QED BY <1>8, <1>9

LEMMA DeleteRevokeKeeps ==
    ASSUME Inv, DeleteRevoke
    PROVE  Inv'
<1>1. pc = "deleteRevoke" /\ UNCHANGED <<obj, secret, userHost, tampered, changes>>
  BY DEF DeleteRevoke
<1>2. TypeOK /\ PassOK /\ WorldOK /\ MemInv /\ ~Answers
  BY <1>1, TypeParts DEF Inv, Answers
<1>. DEFINE h == snap.principal
<1>3. h \in Host \cup {NoHost}
  BY <1>2, SnapPrincipal
<1>4. PICK ok \in BOOLEAN :
         /\ RevokeAccess(h, ok)
         /\ IF ok THEN Goto("release") ELSE Done
  BY DEF DeleteRevoke
<1>5. /\ acct' \in Accounts /\ verified' \in Checks /\ faults' \in 0..MaxFaults
      /\ \A g \in Host : acct'[g] = acct[g] \/ (g = h /\ acct'[g] = NoAccount)
      /\ \A g \in Host : verified'[g] = IF g = h THEN NoCheck ELSE verified[g]
      /\ ok => (h \in Host => acct'[h] = NoAccount) /\ faults' = faults
      /\ ~ok => faults' = faults + 1
  BY <1>2, <1>3, <1>4, RevokeAccessEffect
<1>6. AddsOnlyWanted /\ \A g \in Host : acct'[g].exists => acct[g].exists
  BY <1>1, <1>5, DefaultTypes DEF AddsOnlyWanted, Untouched
<1>7. \A g \in Host : verified'[g] = NoCheck \/ (verified'[g] = verified[g] /\ acct'[g] = acct[g])
  BY <1>5
<1>8. Spends
  <2>1. Unnamed' \subseteq Unnamed
    BY <1>1, <1>2, <1>6, NoneMore
  <2>. QED BY <1>5, <2>1 DEF Spends
<1>9. CASE ok
  <2>1. PassOK' /\ pc' = "release" /\ snap' = snap
    BY <1>2, <1>4, <1>9, GotoEffect DEF Steps
  <2>2. TypeOK'
    BY <1>1, <1>2, <1>5, <2>1, TypePartsNext DEF WorldOK
  <2>3. MemInv'
    BY <1>1, <1>2, <1>7, <2>1, MemKept DEF Changing, Untouched
  <2>4. LoginInv' /\ AlignInv'
    BY <2>1 DEF LoginInv, AlignInv, Limited
  <2>5. GoneInv'
    <3>1. obj.phase # "gone"
      BY <1>1 DEF Inv, ObjInv
    <3>2. h \in Host => ~acct'[h].exists
      BY <1>5, <1>9, DefaultTypes
    <3>. QED BY <1>1, <2>1, <3>1, <3>2 DEF GoneInv, Absent
  <2>. QED BY <1>1, <1>6, <1>8, <2>1, <2>2, <2>3, <2>4, <2>5, AdvanceTo
<1>10. CASE ~ok
  <2>1. PassOK' /\ pc' = "idle" /\ snap' = NoObj
    BY <1>4, <1>10, DoneEffect
  <2>2. TypeOK'
    BY <1>1, <1>2, <1>5, <2>1, TypePartsNext DEF WorldOK
  <2>. QED BY <1>1, <1>6, <1>7, <1>8, <2>1, <2>2, Retreat DEF Changing
<1>. QED BY <1>9, <1>10

\* A pass that ends without a status change.
LEMMA EndWithFault ==
    ASSUME Inv, pc \in {"commit", "report"}, Done, UNCHANGED <<obj, secret, acct, userHost, verified, tampered, changes>>,
           faults' = faults + 1, faults' \in 0..MaxFaults
    PROVE  Inv'
<1>1. TypeOK /\ PassOK /\ WorldOK
  BY TypeParts DEF Inv
<1>2. PassOK' /\ pc' = "idle" /\ snap' = NoObj
  BY DoneEffect
<1>3. TypeOK'
  BY <1>1, <1>2, TypePartsNext DEF WorldOK
<1>4. AddsOnlyWanted
  BY DEF AddsOnlyWanted, Untouched
<1>5. Spends
  <2>1. Unnamed' \subseteq Unnamed \cup {userHost}
    BY OneMore
  <2>. QED BY <2>1 DEF Spends
<1>. QED BY <1>2, <1>3, <1>4, <1>5, Retreat DEF Changing

\* A pass that ends with a status change or a release: the accounts stay.
LEMMA EndWithObject ==
    ASSUME Inv, pc \in {"commit", "report", "release"}, Done, obj' \in Object,
           UNCHANGED <<secret, acct, userHost, verified, tampered, changes, faults>>,
           obj'.phase # "none", obj'.observed <= obj'.gen, RoleInv',
           obj'.phase = "gone" => Absent(obj'.principal), Unnamed' \subseteq Unnamed
    PROVE  Inv'
<1>1. TypeOK /\ PassOK /\ WorldOK /\ MemInv /\ CountInv
  BY TypeParts DEF Inv
<1>2. PassOK' /\ pc' = "idle" /\ snap' = NoObj
  BY DoneEffect
<1>3. TypeOK'
  BY <1>1, <1>2, TypePartsNext DEF WorldOK
<1>4. ObjInv'
  BY <1>2, DefaultTypes DEF ObjInv
<1>5. MemInv'
  BY <1>1, <1>2, MemKept DEF Changing, Untouched
<1>6. LoginInv' /\ AlignInv'
  BY <1>2 DEF LoginInv, AlignInv, Limited
<1>7. GoneInv'
  BY <1>2 DEF GoneInv, Absent
<1>8. CountInv'
  <2>1. faults \in Nat
    BY <1>1, Bounds DEF WorldOK
  <2>. QED BY <1>1, <2>1, CountSame
<1>. QED BY <1>3, <1>4, <1>5, <1>6, <1>7, <1>8 DEF Inv

LEMMA ObjFields ==
    ASSUME TypeOK
    PROVE  /\ obj.phase \in {"none", "live", "deleting", "gone"}
           /\ obj.role \in {"Reader", "ReadWrite", "Writer"}
           /\ obj.gen \in 0..MaxGen /\ obj.gen \in Nat
           /\ obj.principal \in Host \cup {NoHost}
           /\ obj.ready \in Reasons \cup {"SecretMinted"}
           /\ obj.observed \in 0..MaxGen /\ obj.observed \in Nat
           /\ obj = [phase |-> obj.phase, role |-> obj.role, gen |-> obj.gen,
                     principal |-> obj.principal, ready |-> obj.ready, observed |-> obj.observed]
           /\ snap.gen \in 0..MaxGen /\ snap.gen \in Nat
<1>1. obj \in Object /\ snap \in Object
  BY DEF TypeOK
<1>2. obj.gen \in 0..MaxGen /\ obj.observed \in 0..MaxGen /\ snap.gen \in 0..MaxGen
  BY <1>1 DEF Object
<1>3. obj.gen \in Nat /\ obj.observed \in Nat /\ snap.gen \in Nat
  BY <1>2, Bounds
<1>4. /\ obj.phase \in {"none", "live", "deleting", "gone"}
      /\ obj.role \in {"Reader", "ReadWrite", "Writer"}
      /\ obj.principal \in Host \cup {NoHost}
      /\ obj.ready \in Reasons \cup {"SecretMinted"}
  BY <1>1 DEF Object, Reasons
<1>5. obj = [phase |-> obj.phase, role |-> obj.role, gen |-> obj.gen,
             principal |-> obj.principal, ready |-> obj.ready, observed |-> obj.observed]
  BY <1>1 DEF Object
<1>. QED BY <1>2, <1>3, <1>4, <1>5

LEMMA CommitKeeps ==
    ASSUME Inv, Commit
    PROVE  Inv'
<1>1. pc = "commit" /\ Done /\ UNCHANGED <<secret, acct, userHost, verified, tampered, changes>>
  BY DEF Commit
<1>2. TypeOK /\ PassOK /\ WorldOK /\ ObjInv /\ AlignInv /\ GoneInv
  BY TypeParts DEF Inv
<1>3. CASE Fault("patch") /\ UNCHANGED obj
  <2>1. faults' = faults + 1 /\ faults' \in 0..MaxFaults
    BY <1>2, <1>3, FaultCounts DEF WorldOK
  <2>. QED BY <1>1, <1>3, <2>1, EndWithFault
<1>. DEFINE new == [obj EXCEPT !.principal = Patched(obj, "principal", userHost),
                               !.ready = Patched(obj, "ready", "SecretMinted"),
                               !.observed = Patched(obj, "observed", snap.gen)]
<1>4. CASE obj' = new /\ UNCHANGED faults
  <2>1. /\ obj.principal = snap.principal /\ obj.ready = snap.ready /\ obj.observed = snap.observed
        /\ snap.gen <= obj.gen /\ (obj.gen = snap.gen => obj.role = snap.role)
        /\ obj.phase \notin {"none", "gone"}
    BY <1>1, <1>2 DEF ObjInv
  <2>2. /\ Patched(obj, "principal", userHost) = userHost
        /\ Patched(obj, "ready", "SecretMinted") = "SecretMinted"
        /\ Patched(obj, "observed", snap.gen) = snap.gen
    BY <2>1 DEF Patched
  <2>3. obj' = [obj EXCEPT !.principal = userHost, !.ready = "SecretMinted", !.observed = snap.gen]
    BY <1>4, <2>2
  <2>4. obj' = [phase |-> obj.phase, role |-> obj.role, gen |-> obj.gen,
                principal |-> userHost, ready |-> "SecretMinted", observed |-> snap.gen]
    BY <1>2, <2>3, ObjFields
  <2>5. userHost \in Host
    BY <1>2 DEF WorldOK
  <2>. HIDE DEF new
  <2>6. obj' \in Object
    BY <1>2, <2>4, <2>5, ObjFields DEF Object, Reasons
  <2>7. RoleInv'
    <3>. SUFFICES ASSUME snap.gen = obj.gen, Untouched(userHost)
                  PROVE  WithinRole(userHost, obj.role)
      BY <1>1, <2>4 DEF RoleInv, WithinRole, Untouched
    <3>1. WithinRole(userHost, snap.role)
      BY <1>1, <1>2 DEF AlignInv, Limited
    <3>. QED BY <2>1, <3>1
  <2>8. Unnamed' \subseteq Unnamed
    <3>1. snap.principal # userHost => Absent(snap.principal)
      BY <1>1, <1>2 DEF GoneInv
    <3>2. ASSUME NEW h \in Unnamed' PROVE h \in Unnamed
      <4>1. h \in Host /\ acct[h].exists /\ h # userHost
        BY <1>1, <2>4, <3>2 DEF Unnamed
      <4>2. h # snap.principal
        BY <3>1, <4>1 DEF Absent
      <4>. QED BY <2>1, <4>1, <4>2 DEF Unnamed
    <3>. QED BY <3>2
  <2>9. obj'.phase = obj.phase /\ obj'.observed <= obj'.gen
    BY <2>1, <2>4
  <2>. QED BY <1>1, <1>4, <2>1, <2>6, <2>7, <2>8, <2>9, EndWithObject
<1>. QED BY <1>3, <1>4 DEF Commit

LEMMA ReportStatusKeeps ==
    ASSUME Inv, ReportStatus
    PROVE  Inv'
<1>1. pc = "report" /\ Done /\ UNCHANGED <<secret, acct, userHost, verified, tampered, changes>>
  BY DEF ReportStatus
<1>2. TypeOK /\ PassOK /\ WorldOK /\ ObjInv /\ RoleInv
  BY TypeParts DEF Inv
<1>3. CASE Fault("patch") /\ UNCHANGED obj
  <2>1. faults' = faults + 1 /\ faults' \in 0..MaxFaults
    BY <1>2, <1>3, FaultCounts DEF WorldOK
  <2>. QED BY <1>1, <1>3, <2>1, EndWithFault
<1>4. CASE obj' = [obj EXCEPT !.ready = Patched(obj, "ready", why)] /\ UNCHANGED faults
  <2>1. obj.ready = snap.ready /\ obj.phase \notin {"none", "gone"} /\ obj.observed <= obj.gen
    BY <1>1, <1>2 DEF ObjInv
  <2>2. Patched(obj, "ready", why) = why
    BY <2>1 DEF Patched
  <2>3. obj' = [phase |-> obj.phase, role |-> obj.role, gen |-> obj.gen,
                principal |-> obj.principal, ready |-> why, observed |-> obj.observed]
    BY <1>2, <1>4, <2>2, ObjFields
  <2>4. why \in Reasons
    BY <1>2 DEF PassOK
  <2>5. obj' \in Object
    BY <1>2, <2>3, <2>4, ObjFields DEF Object, Reasons
  <2>6. RoleInv'
    BY <2>3, <2>4 DEF RoleInv, Reasons
  <2>7. Unnamed' \subseteq Unnamed
    <3>1. ~Answers /\ obj'.principal = obj.principal
      BY <1>1, <2>3 DEF Answers
    <3>. QED BY <1>1, <3>1, NoneMore
  <2>8. obj'.phase = obj.phase /\ obj'.observed <= obj'.gen
    BY <2>1, <2>3
  <2>. QED BY <1>1, <1>4, <2>1, <2>5, <2>6, <2>7, <2>8, EndWithObject
<1>. QED BY <1>3, <1>4 DEF ReportStatus

LEMMA ReleaseFinalizerKeeps ==
    ASSUME Inv, ReleaseFinalizer
    PROVE  Inv'
<1>1. /\ pc = "release" /\ Done
      /\ UNCHANGED <<secret, acct, userHost, verified, tampered, changes, faults>>
      /\ obj' = IF obj = snap THEN [obj EXCEPT !.phase = "gone"] ELSE obj
  BY DEF ReleaseFinalizer
<1>2. TypeOK /\ PassOK /\ WorldOK /\ ObjInv /\ RoleInv /\ GoneInv
  BY TypeParts DEF Inv
<1>3. obj.principal = snap.principal /\ obj.phase \notin {"none", "gone"} /\ obj.observed <= obj.gen
  BY <1>1, <1>2 DEF ObjInv
<1>4. /\ obj' \in Object /\ obj'.phase \in {obj.phase, "gone"}
      /\ obj'.role = obj.role /\ obj'.gen = obj.gen /\ obj'.principal = obj.principal
      /\ obj'.ready = obj.ready /\ obj'.observed = obj.observed
  <2>1. CASE obj' = obj
    BY <1>2, <2>1 DEF WorldOK
  <2>2. CASE obj' = [obj EXCEPT !.phase = "gone"]
    <3>1. obj' = [phase |-> "gone", role |-> obj.role, gen |-> obj.gen,
                  principal |-> obj.principal, ready |-> obj.ready, observed |-> obj.observed]
      BY <1>2, <2>2, ObjFields
    <3>. QED BY <1>2, <3>1, ObjFields DEF Object, Reasons
  <2>. QED BY <1>1, <2>1, <2>2
<1>5. RoleInv'
  BY <1>1, <1>2, <1>4 DEF RoleInv, Untouched, WithinRole
<1>6. Absent(obj'.principal)
  BY <1>1, <1>2, <1>3, <1>4 DEF GoneInv
<1>7. Unnamed' \subseteq Unnamed
  <2>1. ~Answers
    BY <1>1 DEF Answers
  <2>. QED BY <1>1, <1>4, <2>1, NoneMore
<1>. QED BY <1>1, <1>3, <1>4, <1>5, <1>6, <1>7, EndWithObject

-----------------------------------------------------------------------------
(* The start of a pass and the environment. *)

LEMMA BeginPassKeeps ==
    ASSUME Inv, BeginPass
    PROVE  Inv'
<1>1. /\ pc = "idle" /\ snap' = obj /\ pc' \in {"readSecret", "deleteRevoke"}
      /\ obj.phase \in {"live", "deleting"}
      /\ UNCHANGED <<obj, secret, acct, userHost, verified, read, password, created, have,
                     why, tampered, changes, faults>>
  BY DEF BeginPass
<1>2. TypeOK /\ PassOK /\ WorldOK /\ ObjInv /\ MemInv /\ RoleInv /\ CountInv
  BY TypeParts DEF Inv
<1>3. PassOK'
  BY <1>1, <1>2 DEF PassOK, WorldOK, Steps
<1>4. TypeOK'
  BY <1>1, <1>2, <1>3, TypePartsNext DEF WorldOK
<1>5. ObjInv'
  BY <1>1, <1>2, ObjFields DEF ObjInv
<1>6. MemInv'
  BY <1>1, <1>2, MemKept DEF Changing, Untouched
<1>7. LoginInv' /\ AlignInv'
  BY <1>1 DEF LoginInv, AlignInv, Limited
<1>8. RoleInv'
  BY <1>1, <1>2 DEF RoleInv, Untouched, WithinRole
<1>9. GoneInv'
  BY <1>1 DEF GoneInv
<1>10. CountInv'
  <2>1. ~Answers
    BY <1>1 DEF Answers
  <2>2. Unnamed' \subseteq Unnamed
    BY <1>1, <2>1, NoneMore
  <2>3. faults \in Nat
    BY <1>2, Bounds DEF WorldOK
  <2>. QED BY <1>1, <1>2, <2>2, <2>3, CountSame
<1>. QED BY <1>4, <1>5, <1>6, <1>7, <1>8, <1>9, <1>10 DEF Inv

\* Changes of the object leave the accounts and the pass alone.
LEMMA ObjectChangeKeeps ==
    ASSUME Inv, obj' \in Object, ObjInv', RoleInv',
           UNCHANGED <<secret, acct, userHost, verified, pass, tampered, changes, faults>>,
           obj'.principal = obj.principal, obj'.phase # "gone"
    PROVE  Inv'
<1>1. TypeOK /\ PassOK /\ WorldOK /\ MemInv /\ LoginInv /\ AlignInv /\ GoneInv /\ CountInv
  BY TypeParts DEF Inv
<1>2. UNCHANGED <<pc, snap, read, password, created, have, why>>
  BY DEF pass
<1>3. PassOK'
  BY <1>1, <1>2 DEF PassOK
<1>4. TypeOK'
  BY <1>1, <1>3, TypePartsNext DEF WorldOK
<1>5. MemInv'
  BY <1>1, <1>2 DEF MemInv, Untouched, Remembered
<1>6. LoginInv'
  BY <1>1, <1>2 DEF LoginInv, Here, Want
<1>7. AlignInv'
  BY <1>1, <1>2 DEF AlignInv, Limited, Untouched, WithinRole, Here
<1>8. GoneInv'
  BY <1>1, <1>2 DEF GoneInv, Absent
<1>9. CountInv'
  <2>1. Unnamed' \subseteq Unnamed
    BY <1>2 DEF Unnamed, Answers
  <2>2. faults \in Nat
    BY <1>1, Bounds DEF WorldOK
  <2>. QED BY <1>1, <2>1, <2>2, CountSame
<1>. QED BY <1>4, <1>5, <1>6, <1>7, <1>8, <1>9 DEF Inv

LEMMA UserCreatesKeeps ==
    ASSUME Inv, UserCreates
    PROVE  Inv'
<1>1. obj.phase = "none" /\ UNCHANGED <<secret, acct, userHost, verified, pass, tampered, changes, faults>>
  BY DEF UserCreates
<1>2. PICK r \in Roles : obj' = [NoObj EXCEPT !.phase = "live", !.gen = 1, !.role = r]
  BY DEF UserCreates
<1>3. TypeOK /\ ObjInv
  BY DEF Inv
<1>4. obj' = [phase |-> "live", role |-> r, gen |-> 1, principal |-> NoHost,
              ready |-> "none", observed |-> 0]
  BY <1>2 DEF NoObj
<1>5. 0 \in 0..MaxGen /\ 1 \in 0..MaxGen /\ r \in {"Reader", "ReadWrite", "Writer"}
  BY Bounds
<1>6. obj' \in Object
  BY <1>4, <1>5 DEF Object
<1>7. obj.principal = NoHost /\ pc = "idle" /\ snap.observed <= snap.gen
  BY <1>1, <1>3 DEF ObjInv
<1>8. ObjInv'
  BY <1>1, <1>4, <1>7 DEF ObjInv, pass
<1>9. RoleInv'
  BY <1>4 DEF RoleInv
<1>. QED BY <1>1, <1>4, <1>6, <1>7, <1>8, <1>9, ObjectChangeKeeps

LEMMA UserEditsRoleKeeps ==
    ASSUME Inv, UserEditsRole
    PROVE  Inv'
<1>1. /\ obj.phase = "live" /\ obj.gen < MaxGen
      /\ UNCHANGED <<secret, acct, userHost, verified, pass, tampered, changes, faults>>
  BY DEF UserEditsRole
<1>2. PICK r \in Roles : obj' = [obj EXCEPT !.role = r, !.gen = @ + 1]
  BY DEF UserEditsRole
<1>3. TypeOK /\ ObjInv
  BY DEF Inv
<1>4. obj' = [phase |-> obj.phase, role |-> r, gen |-> obj.gen + 1,
              principal |-> obj.principal, ready |-> obj.ready, observed |-> obj.observed]
  <2>1. obj' = [obj EXCEPT !.role = r, !.gen = obj.gen + 1]
    BY <1>2
  <2>. QED BY <1>3, <2>1, ObjFields
<1>5. obj.gen + 1 \in 0..MaxGen /\ r \in {"Reader", "ReadWrite", "Writer"}
  BY <1>1, <1>3, Bounds, ObjFields
<1>6. obj' \in Object
  BY <1>3, <1>4, <1>5, ObjFields DEF Object, Reasons
<1>7. ObjInv'
  <2>1. UNCHANGED <<pc, snap>>
    BY <1>1 DEF pass
  <2>. QED BY <1>1, <1>3, <1>4, <2>1, ObjFields DEF ObjInv
<1>8. RoleInv'
  <2>1. obj.observed <= obj.gen /\ obj.gen \in Nat /\ obj.observed \in Nat
    BY <1>3, ObjFields DEF ObjInv
  <2>2. obj'.observed # obj'.gen
    BY <1>4, <2>1
  <2>. QED BY <2>2 DEF RoleInv
<1>. QED BY <1>1, <1>4, <1>6, <1>7, <1>8, ObjectChangeKeeps

LEMMA UserDeletesKeeps ==
    ASSUME Inv, UserDeletes
    PROVE  Inv'
<1>1. /\ obj.phase = "live" /\ obj' = [obj EXCEPT !.phase = "deleting"]
      /\ UNCHANGED <<secret, acct, userHost, verified, pass, tampered, changes, faults>>
  BY DEF UserDeletes
<1>2. TypeOK /\ ObjInv /\ RoleInv
  BY DEF Inv
<1>3. obj' = [phase |-> "deleting", role |-> obj.role, gen |-> obj.gen,
              principal |-> obj.principal, ready |-> obj.ready, observed |-> obj.observed]
  BY <1>1, <1>2, ObjFields
<1>4. obj' \in Object
  BY <1>2, <1>3, ObjFields DEF Object, Reasons
<1>5. ObjInv'
  <2>1. UNCHANGED <<pc, snap>>
    BY <1>1 DEF pass
  <2>. QED BY <1>2, <1>3, <2>1 DEF ObjInv
<1>6. RoleInv'
  BY <1>1, <1>2, <1>3 DEF RoleInv, Untouched, WithinRole
<1>. QED BY <1>1, <1>3, <1>4, <1>5, <1>6, ObjectChangeKeeps

LEMMA ChangesType ==
    ASSUME WorldOK, Changes
    PROVE  changes' \in 0..MaxChanges
BY Bounds DEF WorldOK, Changes

\* Steps of others that leave the object and the pass alone.
LEMMA OthersKeep ==
    ASSUME Inv, TypeOK', UNCHANGED <<obj, userHost, pass, faults>>,
           MemInv', LoginInv',
           \A h \in Host : acct'[h].exists => acct[h].exists,
           \A h \in Host : Untouched(h)' => Untouched(h) /\ acct'[h] = acct[h]
    PROVE  Inv'
<1>1. TypeOK /\ WorldOK /\ ObjInv /\ AlignInv /\ RoleInv /\ GoneInv /\ CountInv
  BY TypeParts DEF Inv
<1>2. UNCHANGED <<pc, snap, read, password, created, have, why>> /\ userHost \in Host
  BY <1>1 DEF pass, WorldOK
<1>3. ObjInv'
  BY <1>1, <1>2 DEF ObjInv
<1>4. AlignInv'
  <2>1. Untouched(userHost)' => Untouched(userHost) /\ acct'[userHost] = acct[userHost]
    BY <1>2
  <2>2. (Limited' <=> Limited) /\ (Untouched(userHost)' <=> tampered'[userHost] = "none")
    BY <1>2 DEF Limited, Untouched
  <2>3. Limited' /\ Untouched(userHost)' => WithinRole(userHost, snap.role)'
    BY <1>1, <1>2, <2>1, <2>2 DEF AlignInv, WithinRole
  <2>. QED BY <1>1, <1>2, <2>1, <2>3 DEF AlignInv, Here
<1>5. RoleInv'
  BY <1>1 DEF RoleInv, WithinRole
<1>6. GoneInv'
  BY <1>1, <1>2 DEF GoneInv, Absent
<1>7. CountInv'
  <2>1. Unnamed' \subseteq Unnamed
    BY <1>2 DEF Unnamed, Answers
  <2>2. faults \in Nat
    BY <1>1, Bounds DEF WorldOK
  <2>. QED BY <1>1, <2>1, <2>2, CountSame
<1>. QED BY <1>3, <1>4, <1>5, <1>6, <1>7 DEF Inv

LEMMA SecretChangesKeeps ==
    ASSUME Inv, SecretChanges
    PROVE  Inv'
<1>1. Changes /\ UNCHANGED <<obj, acct, userHost, verified, pass, tampered, faults>>
  BY DEF SecretChanges
<1>2. TypeOK /\ PassOK /\ WorldOK /\ MemInv /\ LoginInv
  BY TypeParts DEF Inv
<1>3. secret' \in Carried
  <2>1. secret' \in {"none", "weak"} \/ (Unused # {} /\ secret' = NewPassword)
    BY DEF SecretChanges
  <2>. QED BY <2>1, NewPasswordType DEF Carried
<1>4. changes' \in 0..MaxChanges
  BY <1>1, <1>2, ChangesType
<1>5. UNCHANGED <<pc, snap, read, password, created, have, why>>
  BY <1>1 DEF pass
<1>6. PassOK'
  BY <1>2, <1>5 DEF PassOK
<1>7. TypeOK'
  BY <1>1, <1>2, <1>3, <1>4, <1>6, TypePartsNext DEF WorldOK
<1>8. MemInv'
  BY <1>1, <1>2, <1>5 DEF MemInv, Untouched, Remembered
<1>9. LoginInv'
  BY <1>1, <1>2, <1>5 DEF LoginInv, Here, Want
<1>. QED BY <1>1, <1>7, <1>8, <1>9, OthersKeep DEF Untouched

LEMMA TamperKeeps ==
    ASSUME Inv, NEW h \in Host, Tamper(h)
    PROVE  Inv'
<1>1. /\ Changes /\ UNCHANGED <<obj, secret, userHost, verified, pass, faults>> /\ acct[h].exists
      /\ tampered' = [tampered EXCEPT ![h] = "unseen"]
  BY DEF Tamper
<1>2. TypeOK /\ PassOK /\ WorldOK /\ MemInv /\ LoginInv
  BY TypeParts DEF Inv
<1>3. acct \in Accounts /\ tampered \in [Host -> {"none", "unseen", "seen"}] /\ userHost \in Host
  BY <1>2 DEF WorldOK
<1>4. acct' \in Accounts /\ \A g \in Host : g # h => acct'[g] = acct[g]
  <2>1. CASE acct' = Dropped(h)
    BY <1>3, <2>1, DroppedType
  <2>2. CASE Unused # {} /\ acct' = [acct EXCEPT ![h].password = NewPassword]
    <3>1. NewPassword \in Password
      BY <2>2, NewPasswordType
    <3>. HIDE DEF NewPassword
    <3>2. [acct[h] EXCEPT !.password = NewPassword] \in Account
      BY <1>3, <3>1 DEF Accounts, Account
    <3>3. acct' = [acct EXCEPT ![h] = [acct[h] EXCEPT !.password = NewPassword]]
      BY <2>2
    <3>. QED BY <1>3, <3>2, <3>3 DEF Accounts
  <2>3. CASE acct' = [acct EXCEPT ![h].privs = Privilege, ![h].option = TRUE]
    <3>. DEFINE account == [acct[h] EXCEPT !.privs = Privilege, !.option = TRUE]
    <3>1. acct' = [acct EXCEPT ![h] = account]
      BY <1>3, <2>3 DEF Accounts
    <3>2. account \in Account
      BY <1>3 DEF Accounts, Account
    <3>. HIDE DEF account
    <3>. QED BY <1>3, <3>1, <3>2 DEF Accounts
  <2>. QED BY <2>1, <2>2, <2>3 DEF Tamper
<1>5. tampered' \in [Host -> {"none", "unseen", "seen"}] /\ tampered'[h] = "unseen"
      /\ \A g \in Host : g # h => tampered'[g] = tampered[g]
  BY <1>1, <1>3
<1>6. changes' \in 0..MaxChanges
  BY <1>1, <1>2, ChangesType
<1>7. UNCHANGED <<pc, snap, read, password, created, have, why>>
  BY <1>1 DEF pass
<1>8. PassOK'
  BY <1>2, <1>7 DEF PassOK
<1>9. TypeOK'
  BY <1>1, <1>2, <1>4, <1>5, <1>6, <1>8, TypePartsNext DEF WorldOK
<1>10. \A g \in Host : Untouched(g)' => g # h /\ Untouched(g) /\ acct'[g] = acct[g]
  BY <1>4, <1>5 DEF Untouched
<1>11. MemInv'
  BY <1>1, <1>2, <1>7, <1>10 DEF MemInv, Remembered
<1>12. LoginInv'
  <2>1. CASE h = userHost
    BY <1>1, <1>5, <2>1 DEF LoginInv
  <2>2. CASE h # userHost
    <3>1. Here' = Here /\ tampered'[userHost] = tampered[userHost]
      BY <1>1, <1>3, <1>4, <1>5, <2>2 DEF Here
    <3>. QED BY <1>1, <1>2, <1>7, <3>1 DEF LoginInv, Want
  <2>. QED BY <2>1, <2>2
<1>13. \A g \in Host : acct'[g].exists => acct[g].exists
  BY <1>1, <1>4
<1>. QED BY <1>1, <1>9, <1>10, <1>11, <1>12, <1>13, OthersKeep

LEMMA CheckExpiresKeeps ==
    ASSUME Inv, NEW h \in Host, CheckExpires(h)
    PROVE  Inv'
<1>1. /\ verified' = [verified EXCEPT ![h] = NoCheck]
      /\ UNCHANGED <<obj, secret, acct, userHost, pass, tampered, changes, faults>>
  BY DEF CheckExpires
<1>2. TypeOK /\ PassOK /\ WorldOK /\ MemInv /\ LoginInv
  BY TypeParts DEF Inv
<1>3. /\ verified' \in Checks
      /\ \A g \in Host : verified'[g] = IF g = h THEN NoCheck ELSE verified[g]
  BY <1>1, <1>2, DefaultTypes, RememberType DEF WorldOK
<1>4. UNCHANGED <<pc, snap, read, password, created, have, why>>
  BY <1>1 DEF pass
<1>5. PassOK'
  BY <1>2, <1>4 DEF PassOK
<1>6. TypeOK'
  BY <1>1, <1>2, <1>3, <1>5, TypePartsNext DEF WorldOK
<1>7. MemInv'
  <2>1. userHost \in Host
    BY <1>2 DEF WorldOK
  <2>2. pc' = "cleanup" => verified'[userHost] = NoCheck
    BY <1>2, <1>3, <1>4, <2>1 DEF MemInv
  <2>3. ASSUME NEW g \in Host, Untouched(g)', verified'[g] # NoCheck,
               g = userHost => pc' \notin Changing
        PROVE  Remembered(g)'
    <3>1. verified'[g] = verified[g]
      BY <1>3, <2>3
    <3>2. Remembered(g)
      BY <1>1, <1>2, <1>4, <2>3, <3>1 DEF MemInv, Untouched
    <3>. QED BY <1>1, <3>1, <3>2 DEF Remembered
  <2>. QED BY <1>1, <2>2, <2>3 DEF MemInv
<1>8. LoginInv'
  BY <1>1, <1>2, <1>4 DEF LoginInv, Here, Want
<1>. QED BY <1>1, <1>6, <1>7, <1>8, OthersKeep DEF Untouched

\* A new process remembers nothing and has no pass in flight.
LEMMA NewProcessKeeps ==
    ASSUME Inv, NewProcess, userHost' \in Host, changes' \in 0..MaxChanges, faults' \in 0..MaxFaults,
           \/ pc = "idle" /\ faults' = faults
           \/ userHost' = userHost /\ faults' = faults + 1
    PROVE  Inv'
<1>1. /\ verified' = [g \in Host |-> NoCheck] /\ Done /\ UNCHANGED <<obj, secret, acct, tampered>>
  BY DEF NewProcess
<1>2. TypeOK /\ PassOK /\ WorldOK /\ ObjInv /\ RoleInv /\ GoneInv /\ CountInv
  BY TypeParts DEF Inv
<1>3. PassOK' /\ pc' = "idle" /\ snap' = NoObj /\ created' = FALSE
  BY <1>1, DoneEffect
<1>4. verified' \in Checks /\ \A g \in Host : verified'[g] = NoCheck
  BY <1>1, DefaultTypes DEF Checks
<1>5. TypeOK'
  BY <1>1, <1>2, <1>3, <1>4, TypePartsNext DEF WorldOK
<1>6. ObjInv'
  BY <1>1, <1>2, <1>3, DefaultTypes DEF ObjInv
<1>7. MemInv'
  BY <1>3, <1>4 DEF MemInv
<1>8. LoginInv' /\ AlignInv'
  BY <1>3 DEF LoginInv, AlignInv, Limited
<1>9. RoleInv'
  BY <1>1, <1>2 DEF RoleInv, Untouched, WithinRole
<1>10. GoneInv'
  BY <1>1, <1>2, <1>3 DEF GoneInv, Absent
<1>11. CountInv'
  <2>1. faults \in Nat
    BY <1>2, Bounds DEF WorldOK
  <2>2. CASE pc = "idle" /\ faults' = faults
    <3>1. Unnamed' \subseteq Unnamed
      BY <1>1, <2>2 DEF Unnamed, Answers
    <3>. QED BY <1>2, <2>1, <2>2, <3>1, CountSame
  <2>3. CASE userHost' = userHost /\ faults' = faults + 1
    <3>1. Unnamed' \subseteq Unnamed \cup {userHost}
      BY <1>1, <2>3, OneMore
    <3>. QED BY <1>2, <2>1, <2>3, <3>1, CountMore
  <2>. QED BY <2>2, <2>3
<1>. QED BY <1>5, <1>6, <1>7, <1>8, <1>9, <1>10, <1>11 DEF Inv

LEMMA ReconfigureKeeps ==
    ASSUME Inv, Reconfigure
    PROVE  Inv'
<1>1. NewProcess /\ userHost' \in Host /\ pc = "idle" /\ faults' = faults /\ Changes
  BY DEF Reconfigure
<1>2. WorldOK
  BY TypeParts DEF Inv
<1>3. changes' \in 0..MaxChanges /\ faults' \in 0..MaxFaults
  BY <1>1, <1>2, ChangesType DEF WorldOK
<1>. QED BY <1>1, <1>3, NewProcessKeeps

LEMMA CrashKeeps ==
    ASSUME Inv, Crash
    PROVE  Inv'
<1>1. NewProcess /\ userHost' = userHost /\ changes' = changes /\ Fault("crash")
  BY DEF Crash
<1>2. WorldOK
  BY TypeParts DEF Inv
<1>3. faults' = faults + 1 /\ faults' \in 0..MaxFaults
  BY <1>1, <1>2, FaultCounts DEF WorldOK
<1>4. userHost' \in Host /\ changes' \in 0..MaxChanges
  BY <1>1, <1>2 DEF WorldOK
<1>. QED BY <1>1, <1>3, <1>4, NewProcessKeeps

-----------------------------------------------------------------------------
(* The invariant holds initially and every step keeps it. *)

LEMMA InitInv == Init => Inv
<1>. SUFFICES ASSUME Init PROVE Inv
  OBVIOUS
<1>1. /\ obj = NoObj /\ secret = "none" /\ userHost \in Host
      /\ acct = [h \in Host |-> NoAccount] /\ verified = [h \in Host |-> NoCheck]
      /\ pc = "idle" /\ snap = NoObj /\ read = "none" /\ password = "none" /\ created = FALSE
      /\ have = NoGrants /\ why = "none"
      /\ tampered = [h \in Host |-> "none"] /\ changes = 0 /\ faults = 0
  BY DEF Init
<1>2. PassOK
  BY <1>1, DefaultTypes DEF PassOK, Carried, Steps, Reasons
<1>3. acct \in Accounts /\ verified \in Checks
  BY <1>1, DefaultTypes DEF Accounts, Checks
<1>4. changes \in 0..MaxChanges /\ faults \in 0..MaxFaults
  BY <1>1, Bounds
<1>5. WorldOK
  BY <1>1, <1>3, <1>4, DefaultTypes DEF WorldOK, Carried
<1>6. TypeOK
  BY <1>2, <1>5, TypeParts
<1>7. ObjInv
  BY <1>1, DefaultTypes DEF ObjInv
<1>8. MemInv
  BY <1>1 DEF MemInv
<1>9. LoginInv /\ AlignInv
  BY <1>1 DEF LoginInv, AlignInv, Limited
<1>10. RoleInv
  BY <1>1, DefaultTypes DEF RoleInv
<1>11. GoneInv
  BY <1>1, DefaultTypes DEF GoneInv
<1>12. CountInv
  <2>1. Unnamed = {}
    BY <1>1, DefaultTypes DEF Unnamed
  <2>. QED BY <1>1, <2>1, FS_EmptySet DEF CountInv
<1>. QED BY <1>6, <1>7, <1>8, <1>9, <1>10, <1>11, <1>12 DEF Inv

LEMMA StutterKeeps ==
    ASSUME Inv, UNCHANGED vars
    PROVE  Inv'
<1>1. UNCHANGED <<obj, secret, acct, userHost, verified, pc, snap, read, password, created,
                  have, why, tampered, changes, faults>>
  BY DEF vars
<1>2. TypeOK /\ PassOK /\ WorldOK /\ MemInv /\ LoginInv
  BY TypeParts DEF Inv
<1>3. TypeOK'
  BY <1>1, <1>2, TypePartsNext DEF PassOK, WorldOK
<1>4. MemInv'
  BY <1>1, <1>2 DEF MemInv, Untouched, Remembered
<1>5. LoginInv'
  BY <1>1, <1>2 DEF LoginInv, Here, Want
<1>6. UNCHANGED pass
  BY <1>1 DEF pass
<1>. QED BY <1>1, <1>3, <1>4, <1>5, <1>6, OthersKeep DEF Untouched

\* Every step of the pass, of users and operators, of somebody with the
\* server's root account, and of the process keeps the invariant.
THEOREM Invariance == Spec => []Inv
<1>1. Inv /\ [Next]_vars => Inv'
  <2>. SUFFICES ASSUME Inv, [Next]_vars PROVE Inv'
    OBVIOUS
  <2>1. CASE BeginPass
    BY <2>1, BeginPassKeeps
  <2>2. CASE PassStep
    <3>1. CASE ReadSecret \/ RefuseRole \/ Login \/ SetPassword \/ Grant \/ Revoke \/ RevokeOption
      BY <3>1, ReadSecretKeeps, RefuseRoleKeeps, LoginKeeps, SetPasswordKeeps, GrantKeeps,
         RevokeKeeps, RevokeOptionKeeps
    <3>2. CASE Verify \/ Cleanup \/ WriteSecret \/ Unmint \/ RevokeOld \/ Commit \/ ReportStatus
      BY <3>2, VerifyKeeps, CleanupKeeps, WriteSecretKeeps, UnmintKeeps, RevokeOldKeeps,
         CommitKeeps, ReportStatusKeeps
    <3>3. CASE DeleteRevoke \/ ReleaseFinalizer
      BY <3>3, DeleteRevokeKeeps, ReleaseFinalizerKeeps
    <3>. QED BY <2>2, <3>1, <3>2, <3>3 DEF PassStep
  <2>3. CASE UserCreates \/ UserEditsRole \/ UserDeletes \/ SecretChanges
    BY <2>3, UserCreatesKeeps, UserEditsRoleKeeps, UserDeletesKeeps, SecretChangesKeeps
  <2>4. CASE \E h \in Host : Tamper(h) \/ CheckExpires(h)
    BY <2>4, TamperKeeps, CheckExpiresKeeps
  <2>5. CASE Reconfigure \/ Crash
    BY <2>5, ReconfigureKeeps, CrashKeeps
  <2>6. CASE UNCHANGED vars
    BY <2>6, StutterKeeps
  <2>. QED BY <2>1, <2>2, <2>3, <2>4, <2>5, <2>6 DEF Next
<1>. QED BY <1>1, InitInv, PTL DEF Spec

-----------------------------------------------------------------------------
(* The theorems. *)

\* The accounts, the memory, the pass and the status keep their types through
\* every statement, edit, restart and change by hand.
THEOREM TypeCorrect == Spec => []TypeOK
<1>1. Inv => TypeOK
  BY DEF Inv
<1>. QED BY <1>1, Invariance, PTL

\* Between passes verifiedAccounts is true of every account nobody has
\* changed by hand, however many statements failed, or were applied although
\* they failed, since it was written.
THEOREM MemoryIsTrue == Spec => []MemoryHonest
<1>1. Inv => MemoryHonest
  BY DEF Inv, MemInv, MemoryHonest, Untouched, Remembered, Changing
<1>. QED BY <1>1, Invariance, PTL

\* A Ready status means that the recorded account holds no managed privilege
\* beyond the role of the generation it was written for.
THEOREM ReadyRoleIsEnforced == Spec => []RoleEnforced
<1>1. Inv => RoleEnforced
  BY DEF Inv, RoleInv, RoleEnforced, Untouched, WithinRole
<1>. QED BY <1>1, Invariance, PTL

\* Accounts that neither the status nor the backend's userHost names are at
\* most as many as the calls that failed and the crashes.
THEOREM StraysAreBounded == Spec => []StraysBounded
<1>1. Inv => StraysBounded
  <2>. SUFFICES ASSUME Inv, pc = "idle" PROVE Cardinality(Stray) <= faults
    BY DEF StraysBounded
  <2>1. TypeOK /\ ObjInv /\ GoneInv /\ CountInv
    BY DEF Inv
  <2>2. Stray \subseteq Unnamed
    <3>1. obj.phase \in {"none", "gone"} => \A h \in Host : acct[h].exists => h # obj.principal
      BY <2>1, HostNotNone DEF ObjInv, GoneInv, Absent
    <3>2. obj.phase \notin {"live", "deleting"} => obj.phase \in {"none", "gone"}
      BY <2>1, ObjFields
    <3>3. ~Answers
      BY DEF Answers
    <3>. QED BY <3>1, <3>2, <3>3 DEF Stray, Unnamed
  <2>3. Unnamed \subseteq Host
    BY DEF Unnamed
  <2>4. IsFiniteSet(Unnamed)
    BY <2>3, Bounds, FS_Subset
  <2>5. Cardinality(Stray) <= Cardinality(Unnamed) /\ IsFiniteSet(Stray)
    BY <2>2, <2>4, FS_Subset
  <2>6. Cardinality(Stray) \in Nat /\ Cardinality(Unnamed) \in Nat /\ faults \in Nat
    BY <2>1, <2>4, <2>5, FS_CardinalityType, Bounds DEF TypeOK
  <2>. QED BY <2>1, <2>5, <2>6 DEF CountInv
<1>. QED BY <1>1, Invariance, PTL
==============================================================================

--------------------------- MODULE ServiceAccounts ---------------------------
(***************************************************************************)
(* The per-bucket service account of the gcs driver                        *)
(* (pkg/drivers/gcs/serviceaccount.go), with the two controllers that use  *)
(* it at the same time: passes of the Buckety reconciler create, bind and  *)
(* delete the account, passes of the BucketyAccess reconciler mint and     *)
(* revoke keys of it on the strength of a cached copy of the Buckety.      *)
(*                                                                         *)
(* One Buckety, one explicit access, several account names.  Every pass is *)
(* cut at its IAM and storage calls.  The bucket is there or not           *)
(* (ObjectStore has its contents), the Secret carries the key that         *)
(* status.principal names (AccessReconciler has the steps between them).   *)
(* An account name that was deleted stays reserved for longer than a pass  *)
(* takes.  A bucket's IAM policy is the set of account identities bound to *)
(* it; a recreated account is a new identity.                              *)
(***************************************************************************)
EXTENDS Naturals, FiniteSets

CONSTANTS
    Email,        \* names for parameters.serviceAccount
    Webhook,      \* whether admission refuses a changed parameter
    MaxIdentity,  \* bound: identities created
    MaxKey,       \* bound: keys minted
    MaxEdits,     \* bound: out-of-band steps
    MaxFaults     \* bound: failed calls and lost answers

ASSUME ConstantsAssumption ==
    /\ Email # {} /\ Webhook \in BOOLEAN
    /\ {MaxIdentity, MaxKey, MaxEdits, MaxFaults} \subseteq Nat

VARIABLES
    bky,       \* the Buckety
    cached,    \* the access controller's informer copy of it
    bucket,    \* its bucket and the identities bound on it
    acct,      \* the service accounts by name
    keys,      \* the keys that are live
    access,    \* the BucketyAccess and the key it was given
    bpc, bsa, policy,    \* Buckety pass: next call, account name, IAM policy it read
    apc, asa,            \* access pass: next call, account name
    identities, minted,  \* created so far
    late,      \* history: the access was created after the Buckety's deletion was requested
    renamed,   \* history: parameters.serviceAccount was changed
    edits, faults

bpass == <<bpc, bsa, policy>>
apass == <<apc, asa>>
history == <<late, renamed>>
counts == <<identities, minted>>
vars == <<bky, cached, bucket, acct, keys, access, bpc, bsa, policy, apc, asa,
          identities, minted, late, renamed, edits, faults>>

Identity == 1..MaxIdentity
Key == [id : 1..MaxKey, of : Identity, email : Email]
NoEmail == ""
NoKey == [id |-> 0, of |-> 0, email |-> NoEmail]
NoAccount == [state |-> "none", of |-> 0, ours |-> FALSE, bindable |-> FALSE]

Account == [state : {"none", "live", "reserved"}, of : Identity \cup {0}, ours : BOOLEAN,
            bindable : BOOLEAN]
Buckety == [phase : {"live", "deleting", "gone"}, sa : Email, ready : BOOLEAN,
            policy : {"Delete", "Retain"}]
TypeOK ==
    /\ bky \in Buckety /\ cached \in Buckety
    /\ bucket \in [exists : BOOLEAN, bound : SUBSET Identity]
    /\ acct \in [Email -> Account]
    /\ keys \subseteq Key
    /\ access \in [phase : {"none", "live", "deleting", "gone"}, key : Key \cup {NoKey}]
    /\ bpc \in {"idle", "bucket", "getSA", "createSA", "regetSA", "readPolicy", "setPolicy",
                "list", "rmBucket", "getForDelete", "rmSA", "release"}
    /\ bsa \in Email \cup {NoEmail} /\ asa \in Email \cup {NoEmail}
    /\ policy \subseteq Identity
    /\ apc \in {"idle", "getForMint", "mint", "revoke"}
    /\ identities \in 0..MaxIdentity /\ minted \in 0..MaxKey
    /\ late \in BOOLEAN /\ renamed \in BOOLEAN
    /\ edits \in 0..MaxEdits /\ faults \in 0..MaxFaults

Fault == faults < MaxFaults /\ faults' = faults + 1
NoFault == UNCHANGED faults
LiveAccount(e) == acct[e].state = "live"

\* verifySAMarker: the description names buckety and exactly this bucket.
Marked(e) == acct[e].ours

-----------------------------------------------------------------------------
(* The Buckety pass: EnsureBuckety. *)

BGoto(step) == bpc' = step /\ UNCHANGED <<bky, bsa, policy>>
BEnd == bpc' = "idle" /\ bsa' = NoEmail /\ policy' = {}
BFinish(ready) == BEnd /\ bky' = [bky EXCEPT !.ready = ready]
BFrame == UNCHANGED <<cached, access, apc, asa, late, renamed, minted, edits>>

StartBuckety ==
    /\ bpc = "idle" /\ bky.phase # "gone" /\ BFrame
    /\ bpc' = IF bky.phase = "live" THEN "bucket" ELSE "list"
    /\ bsa' = bky.sa
    /\ UNCHANGED <<bky, policy, bucket, acct, keys, identities, faults>>

EnsureBucket ==
    /\ bpc = "bucket" /\ BFrame /\ UNCHANGED <<acct, keys, identities>>
    /\ \/ NoFault /\ bucket' = [bucket EXCEPT !.exists = TRUE] /\ BGoto("getSA")
       \/ Fault /\ BFinish(FALSE) /\ UNCHANGED bucket

\* Where a fetched account leads: ensureServiceAccount past the marker check.
\* (Mutant: an account that was there already is taken as bound.)
TrustBinding == BFinish(TRUE)
CheckBinding == BGoto("readPolicy")

Fetched == IF Marked(bsa) THEN CheckBinding ELSE BFinish(FALSE)

GetAccount ==
    /\ bpc = "getSA" /\ BFrame /\ UNCHANGED <<bucket, acct, keys, identities>>
    /\ \/ NoFault /\ LiveAccount(bsa) /\ Fetched
       \/ NoFault /\ ~LiveAccount(bsa) /\ BGoto("createSA")
       \/ Fault /\ BFinish(FALSE)

Created(e) ==
    /\ identities < MaxIdentity /\ identities' = identities + 1
    /\ acct' = [acct EXCEPT ![e] = [state |-> "live", of |-> identities', ours |-> TRUE,
                                    bindable |-> FALSE]]

\* Create; the answer may be lost.  A taken or reserved name is a conflict.
CreateAccount ==
    /\ bpc = "createSA" /\ BFrame /\ UNCHANGED <<bucket, keys>>
    /\ \/ NoFault /\ acct[bsa].state = "none" /\ Created(bsa) /\ BGoto("readPolicy")
       \/ Fault /\ acct[bsa].state = "none" /\ Created(bsa) /\ BFinish(FALSE)
       \/ NoFault /\ acct[bsa].state # "none" /\ BGoto("regetSA") /\ UNCHANGED <<acct, identities>>
       \/ /\ (Fault \/ (NoFault /\ identities = MaxIdentity))
          /\ BFinish(FALSE) /\ UNCHANGED <<acct, identities>>

\* After the conflict: raced, or reserved by a deleted account.
RefetchAccount ==
    /\ bpc = "regetSA" /\ BFrame /\ UNCHANGED <<bucket, acct, keys, identities>>
    /\ \/ NoFault /\ LiveAccount(bsa) /\ Fetched
       \/ (Fault \/ (NoFault /\ ~LiveAccount(bsa))) /\ BFinish(FALSE)

\* ensureBucketBinding reads the policy.  The role is found by the name of a
\* member, which a bound identity keeps only while its account lives.
ReadPolicy ==
    /\ bpc = "readPolicy" /\ BFrame /\ UNCHANGED <<bucket, acct, keys, identities>>
    /\ \/ /\ NoFault /\ bucket.exists
          /\ IF LiveAccount(bsa) /\ acct[bsa].of \in bucket.bound THEN BFinish(TRUE)
             ELSE bpc' = "setPolicy" /\ policy' = bucket.bound /\ UNCHANGED <<bky, bsa>>
       \/ (Fault \/ (NoFault /\ ~bucket.exists)) /\ BFinish(FALSE)

\* SetPolicy: refused when the policy changed since it was read, and while
\* the member is not known yet (the pass is retried promptly).
SetPolicy ==
    /\ bpc = "setPolicy" /\ BFrame /\ UNCHANGED <<acct, keys, identities>>
    /\ LET accepted == bucket.exists /\ policy = bucket.bound /\ LiveAccount(bsa)
                       /\ acct[bsa].bindable IN
       \/ /\ NoFault /\ accepted /\ BFinish(TRUE)
          /\ bucket' = [bucket EXCEPT !.bound = policy \cup {acct[bsa].of}]
       \/ (Fault \/ (NoFault /\ ~accepted)) /\ BFinish(FALSE) /\ UNCHANGED bucket

-----------------------------------------------------------------------------
(* The Buckety pass: teardown. *)

\* The live list of accesses blocks the teardown while one exists.
ListAccesses ==
    /\ bpc = "list" /\ BFrame /\ UNCHANGED <<bucket, acct, keys, identities>>
    /\ \/ NoFault /\ access.phase \in {"live", "deleting"} /\ BEnd /\ UNCHANGED bky
       \/ /\ NoFault /\ access.phase \notin {"live", "deleting"}
          /\ BGoto(IF bky.policy = "Delete" THEN "rmBucket" ELSE "release")
       \/ Fault /\ BEnd /\ UNCHANGED bky

\* What follows a bucket that is gone, whether this pass deleted it or not.
\* (Mutant: a bucket that is already gone ends the teardown.)
AccountOnlyWithBucket == IF bucket.exists THEN "getForDelete" ELSE "release"
AccountAfterBucket == "getForDelete"

\* deleteBucket; more slices, or an error, end the pass.
RemoveBucket ==
    /\ bpc = "rmBucket" /\ BFrame /\ UNCHANGED <<acct, keys, identities>>
    /\ \/ NoFault /\ bucket' = [exists |-> FALSE, bound |-> {}] /\ BGoto(AccountAfterBucket)
       \/ Fault /\ BEnd /\ UNCHANGED bky
          /\ bucket' \in {bucket, [exists |-> FALSE, bound |-> {}]}

\* deleteServiceAccount's answer to an account that is not ours.
\* (Mutant: it blocks the deletion.)
ForeignBlocks == BEnd /\ UNCHANGED bky
ForeignLeftAlone == BGoto("release")

GetForDelete ==
    /\ bpc = "getForDelete" /\ BFrame /\ UNCHANGED <<bucket, acct, keys, identities>>
    /\ \/ NoFault /\ ~LiveAccount(bsa) /\ BGoto("release")
       \/ NoFault /\ LiveAccount(bsa) /\ ~Marked(bsa) /\ ForeignLeftAlone
       \/ NoFault /\ LiveAccount(bsa) /\ Marked(bsa) /\ BGoto("rmSA")
       \/ Fault /\ BEnd /\ UNCHANGED bky

\* The name stays reserved; the keys go with the account.
Deleted(e) ==
    /\ acct' = IF LiveAccount(e) THEN [acct EXCEPT ![e] = [NoAccount EXCEPT !.state = "reserved"]]
               ELSE acct
    /\ keys' = {k \in keys : ~(LiveAccount(e) /\ k.of = acct[e].of)}

RemoveAccount ==
    /\ bpc = "rmSA" /\ BFrame /\ UNCHANGED <<bucket, identities>>
    /\ \/ NoFault /\ Deleted(bsa) /\ BGoto("release")
       \/ Fault /\ BEnd /\ UNCHANGED bky /\ (Deleted(bsa) \/ UNCHANGED <<acct, keys>>)

Release ==
    /\ bpc = "release" /\ BFrame /\ UNCHANGED <<bucket, acct, keys, identities>>
    /\ \/ NoFault /\ bky' = [bky EXCEPT !.phase = "gone"] /\ BEnd
       \/ Fault /\ BEnd /\ UNCHANGED bky

BucketyPass ==
    \/ StartBuckety \/ EnsureBucket \/ GetAccount \/ CreateAccount \/ RefetchAccount
    \/ ReadPolicy \/ SetPolicy
    \/ ListAccesses \/ RemoveBucket \/ GetForDelete \/ RemoveAccount \/ Release

-----------------------------------------------------------------------------
(* The access pass. *)

AEnd == apc' = "idle" /\ asa' = NoEmail
AFrame == UNCHANGED <<bky, cached, bucket, acct, bpc, bsa, policy, identities, late, renamed>>
Edit == edits < MaxEdits /\ edits' = edits + 1

\* A key of the account the Buckety names is kept, whether or not the key
\* listing shows it, unless the listing shows it as expired.
Unusable(e) ==
    \/ access.key.email # e /\ UNCHANGED edits
    \/ access.key.email = e /\ LiveAccount(e) /\ Edit

\* The cached Buckety decides: not Ready or gone, nothing to do.
StartAccess ==
    /\ apc = "idle" /\ AFrame /\ UNCHANGED <<keys, minted, faults>>
    /\ \/ /\ access.phase = "live" /\ cached.phase # "gone" /\ cached.ready
          /\ Unusable(cached.sa)
          /\ apc' = "getForMint" /\ asa' = cached.sa /\ UNCHANGED access
       \/ /\ access.phase = "deleting" /\ cached.phase # "gone"
          /\ apc' = "revoke" /\ UNCHANGED <<asa, access, edits>>
       \/ /\ access.phase = "deleting" /\ cached.phase = "gone"
          /\ access' = [access EXCEPT !.phase = "gone"] /\ UNCHANGED <<apass, edits>>

\* ensureAccessKey: the marker is checked before a key is minted.
\* (Mutant: the Buckety being Ready is check enough.)
MintFor(e) == LiveAccount(e)
MayMint(e) == LiveAccount(e) /\ Marked(e)

GetForMint ==
    /\ apc = "getForMint" /\ AFrame /\ UNCHANGED <<keys, minted, access, edits>>
    /\ \/ NoFault /\ MayMint(asa) /\ apc' = "mint" /\ UNCHANGED asa
       \/ (Fault \/ (NoFault /\ ~MayMint(asa))) /\ AEnd

\* Keys.Create, the Secret, and the revocation of the key it replaces.  A
\* crash after the first leaves a key nobody recorded.
Mint ==
    /\ apc = "mint" /\ AFrame /\ AEnd /\ UNCHANGED edits
    /\ \/ /\ LiveAccount(asa) /\ minted < MaxKey /\ minted' = minted + 1
          /\ LET k == [id |-> minted', of |-> acct[asa].of, email |-> asa] IN
             \/ /\ NoFault /\ keys' = (keys \cup {k}) \ {access.key}
                /\ access' = [access EXCEPT !.key = k]
             \/ Fault /\ keys' = keys \cup {k} /\ UNCHANGED access
       \/ /\ (Fault \/ (NoFault /\ (~LiveAccount(asa) \/ minted = MaxKey)))
          /\ UNCHANGED <<keys, minted, access>>

\* RevokeAccess, then the finalizer: an error keeps the finalizer.
\* (Mutant: the finalizer is released although the revocation failed.)
RevokeAnyway ==
    /\ apc = "revoke" /\ AFrame /\ AEnd /\ UNCHANGED <<minted, edits>>
    /\ access' = [access EXCEPT !.phase = "gone"]
    /\ (NoFault /\ keys' = keys \ {access.key}) \/ (Fault /\ UNCHANGED keys)
Revoke ==
    /\ apc = "revoke" /\ AFrame /\ AEnd /\ UNCHANGED <<minted, edits>>
    /\ \/ /\ NoFault /\ keys' = keys \ {access.key}
          /\ access' = [access EXCEPT !.phase = "gone"]
       \/ Fault /\ UNCHANGED access /\ keys' \in {keys, keys \ {access.key}}

AccessPass == StartAccess \/ GetForMint \/ Mint \/ Revoke

-----------------------------------------------------------------------------
(* Users, IAM, and other tenants of the identity project. *)

Env(x) == UNCHANGED <<bpass, apass, minted, faults>> /\ UNCHANGED x

UserDeletesBuckety ==
    /\ bky.phase = "live" /\ bky' = [bky EXCEPT !.phase = "deleting"]
    /\ Env(<<cached, bucket, acct, keys, access, identities, history, edits>>)
\* Without the webhook the immutable parameter can change (once, a bound).
UserRenames(e) ==
    /\ Edit /\ ~Webhook /\ ~renamed /\ bky.phase = "live" /\ e # bky.sa
    /\ bky' = [bky EXCEPT !.sa = e] /\ renamed' = TRUE
    /\ Env(<<cached, bucket, acct, keys, access, identities, late>>)
UserCreatesAccess ==
    /\ access.phase = "none" /\ access' = [access EXCEPT !.phase = "live"]
    /\ late' = (bky.phase # "live")
    /\ Env(<<bky, cached, bucket, acct, keys, identities, renamed, edits>>)
UserDeletesAccess ==
    /\ access.phase = "live" /\ access' = [access EXCEPT !.phase = "deleting"]
    /\ Env(<<bky, cached, bucket, acct, keys, identities, history, edits>>)

RefreshCache ==
    /\ cached # bky /\ cached' = bky
    /\ Env(<<bky, bucket, acct, keys, access, identities, history, edits>>)
Propagate(e) ==
    /\ LiveAccount(e) /\ ~acct[e].bindable /\ acct' = [acct EXCEPT ![e].bindable = TRUE]
    /\ Env(<<bky, cached, bucket, keys, access, identities, history, edits>>)

OutsiderCreates(e) ==
    /\ Edit /\ acct[e].state = "none" /\ identities < MaxIdentity
    /\ identities' = identities + 1
    /\ acct' = [acct EXCEPT ![e] = [state |-> "live", of |-> identities', ours |-> FALSE,
                                    bindable |-> TRUE]]
    /\ Env(<<bky, cached, bucket, keys, access, history>>)
OutsiderDeletes(e) ==
    /\ Edit /\ LiveAccount(e) /\ Deleted(e)
    /\ Env(<<bky, cached, bucket, access, identities, history>>)
\* The reservation ends, long after any pass that saw the account.
NameFreed(e) ==
    /\ acct[e].state = "reserved" /\ bpc = "idle" /\ apc = "idle"
    /\ acct' = [acct EXCEPT ![e] = NoAccount]
    /\ Env(<<bky, cached, bucket, keys, access, identities, history, edits>>)
OutsiderUnbinds ==
    /\ Edit /\ bucket.bound # {} /\ bucket' = [bucket EXCEPT !.bound = {}]
    /\ Env(<<bky, cached, acct, keys, access, identities, history>>)

Environment ==
    \/ UserDeletesBuckety \/ UserCreatesAccess \/ UserDeletesAccess
    \/ OutsiderUnbinds
    \/ \E e \in Email : UserRenames(e) \/ OutsiderCreates(e) \/ OutsiderDeletes(e)

Init ==
    /\ \E p \in {"Delete", "Retain"} :
          bky = [phase |-> "live", sa |-> CHOOSE e \in Email : TRUE, ready |-> FALSE, policy |-> p]
    /\ cached = bky
    /\ bucket = [exists |-> FALSE, bound |-> {}]
    /\ acct = [e \in Email |-> NoAccount]
    /\ keys = {} /\ access = [phase |-> "none", key |-> NoKey]
    /\ bpc = "idle" /\ bsa = NoEmail /\ policy = {} /\ apc = "idle" /\ asa = NoEmail
    /\ identities = 0 /\ minted = 0 /\ late = FALSE /\ renamed = FALSE
    /\ edits = 0 /\ faults = 0

Next ==
    \/ BucketyPass \/ AccessPass \/ Environment
    \/ RefreshCache
    \/ \E e \in Email : Propagate(e) \/ NameFreed(e)

Spec == Init /\ [][Next]_vars
FairSpec ==
    /\ Spec /\ WF_vars(BucketyPass) /\ WF_vars(AccessPass) /\ WF_vars(RefreshCache)
    /\ \A e \in Email : WF_vars(Propagate(e)) /\ SF_vars(NameFreed(e))

-----------------------------------------------------------------------------
(* Properties. *)

\* The controllers never delete, bind or mint a key for an account that
\* somebody else made under a name a Buckety asks for, even when the access
\* controller still believes an older Buckety.
ForeignUntouched ==
    [][(BucketyPass \/ AccessPass) =>
        \A e \in Email : (LiveAccount(e) /\ ~acct[e].ours) =>
            /\ acct'[e] = acct[e]
            /\ acct[e].of \in bucket'.bound => acct[e].of \in bucket.bound
            /\ \A k \in keys' \ keys : k.of # acct[e].of]_vars

\* A Buckety that left with its bucket left no account of its own and no
\* live key behind, keys nobody recorded included.
NothingLeft ==
    (bky.phase = "gone" /\ bky.policy = "Delete" /\ ~renamed) =>
        /\ LiveAccount(bky.sa) => ~acct[bky.sa].ours
        /\ keys = {}

\* Of the live keys, the access has recorded one in status.principal; each
\* other one was paid for by a failed call (Keys.Create, the Secret or the
\* revocation of the key it replaces).  The recorded one goes with the access,
\* although its finalizer is released unrevoked once the Buckety is gone:
\* except after a change of parameters.serviceAccount, and for an access that
\* was created after a retained Buckety was told to go.
KeyGoesWithAccess ==
    /\ Cardinality(keys \ {access.key}) <= faults
    /\ (access.phase = "gone" /\ ~renamed /\ (bky.policy = "Delete" \/ ~late)) =>
            access.key \notin keys

\* Once nobody interferes, a Buckety is Ready with its account bound on its
\* bucket, or its account name is somebody else's.
AccountBound ==
    <>[](bky.phase = "live" =>
            \/ /\ bky.ready /\ bucket.exists /\ LiveAccount(bky.sa) /\ Marked(bky.sa)
               /\ acct[bky.sa].of \in bucket.bound
            \/ ~bky.ready /\ LiveAccount(bky.sa) /\ ~Marked(bky.sa)
            \/ ~bky.ready /\ ~LiveAccount(bky.sa) /\ identities = MaxIdentity)

\* A deletion completes: a Buckety's unless an access blocks it, and an
\* access's always, also when the account is foreign, reserved or gone.
DeletionCompletes ==
    /\ <>[](bky.phase = "deleting" => access.phase = "live")
    /\ <>[](access.phase # "deleting")
=============================================================================

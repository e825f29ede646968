------------------------ MODULE ServiceAccountsProofs ------------------------
(***************************************************************************)
(* What the two controllers guarantee about per-bucket service accounts    *)
(* and their keys, for every number of names, identities, keys and faults. *)
(***************************************************************************)
EXTENDS ServiceAccounts, FiniteSetTheorems, TLAPS

Teardown == {"list", "rmBucket", "getForDelete", "rmSA", "release"}

TypeInv == /\ TypeOK
           /\ bpc # "idle" => bsa \in Email
           /\ apc \in {"getForMint", "mint"} => asa \in Email

\* Two live accounts are two identities, and identities are not reused.
IdentityInv ==
    /\ \A e \in Email : LiveAccount(e) => acct[e].of \in 1..identities
    /\ \A e, f \in Email : LiveAccount(e) /\ LiveAccount(f) /\ acct[e].of = acct[f].of => e = f

\* An account whose marker a pass has checked stays the one it checked: it
\* may be deleted by somebody else, but its name is then reserved.
Ours(e) == LiveAccount(e) /\ acct[e].ours
Checked(e) == acct[e].state = "reserved" \/ Ours(e)
CheckedInv ==
    /\ bpc \in {"readPolicy", "setPolicy", "rmSA"} => Checked(bsa)
    /\ apc = "mint" => Checked(asa)

\* Every live key is a key of an account of ours.
KeyInv == \A k \in keys : \E e \in Email : Ours(e) /\ acct[e].of = k.of

\* A teardown is of a deleted Buckety, and its release ends it.
PhaseInv ==
    /\ bpc \in Teardown => bky.phase = "deleting"
    /\ bky.phase = "gone" => bpc = "idle"
    /\ cached.phase = "gone" => bky.phase = "gone"

\* While the parameter is not changed there is one name for everybody.
NameInv ==
    ~renamed => /\ cached.sa = bky.sa
                /\ bpc # "idle" => bsa = bky.sa
                /\ apc \in {"getForMint", "mint"} => asa = bky.sa
                /\ \A e \in Email : Ours(e) => e = bky.sa

\* The account is gone before the finalizer.
LeftInv ==
    (bpc = "release" \/ bky.phase = "gone") /\ bky.policy = "Delete" /\ ~renamed => ~Ours(bky.sa)

\* An access that the list could have seen holds the teardown up.
BlockInv ==
    /\ access.phase = "gone" => apc = "idle"
    /\ apc = "revoke" => access.phase = "deleting"
    /\ access.phase \in {"live", "deleting"} /\ ~late =>
          bpc \notin Teardown \ {"list"} /\ bky.phase # "gone"

Inv == /\ TypeInv /\ IdentityInv /\ CheckedInv /\ KeyInv /\ PhaseInv /\ NameInv /\ LeftInv
       /\ BlockInv /\ IsFiniteSet(keys) /\ KeyGoesWithAccess

-----------------------------------------------------------------------------
(* Types. *)

LEMMA Bounds == MaxIdentity \in Nat /\ MaxKey \in Nat /\ MaxEdits \in Nat /\ MaxFaults \in Nat
BY ConstantsAssumption

LEMMA Records ==
    ASSUME TypeOK
    PROVE  /\ NoAccount \in Account /\ [NoAccount EXCEPT !.state = "reserved"] \in Account
           /\ [exists |-> FALSE, bound |-> {}] \in [exists : BOOLEAN, bound : SUBSET Identity]
           /\ [bucket EXCEPT !.exists = TRUE] \in [exists : BOOLEAN, bound : SUBSET Identity]
           /\ [bucket EXCEPT !.bound = {}] \in [exists : BOOLEAN, bound : SUBSET Identity]
           /\ \A b \in BOOLEAN : [bky EXCEPT !.ready = b] \in Buckety
           /\ [bky EXCEPT !.phase = "deleting"] \in Buckety
           /\ [bky EXCEPT !.phase = "gone"] \in Buckety
           /\ \A e \in Email : [bky EXCEPT !.sa = e] \in Buckety
<1>1. NoAccount \in Account /\ [NoAccount EXCEPT !.state = "reserved"] \in Account
  BY DEF NoAccount, Account
<1>2. bky \in [phase : {"live", "deleting", "gone"}, sa : Email, ready : BOOLEAN,
               policy : {"Delete", "Retain"}]
  BY DEF TypeOK, Buckety
<1>3. bucket \in [exists : BOOLEAN, bound : SUBSET Identity]
  BY DEF TypeOK
<1>4. /\ \A b \in BOOLEAN : [bky EXCEPT !.ready = b] \in Buckety
      /\ [bky EXCEPT !.phase = "deleting"] \in Buckety
      /\ [bky EXCEPT !.phase = "gone"] \in Buckety
      /\ \A e \in Email : [bky EXCEPT !.sa = e] \in Buckety
  BY <1>2 DEF Buckety
<1>. QED BY <1>1, <1>3, <1>4

LEMMA FaultsStep ==
    ASSUME TypeOK
    PROVE  /\ Fault \/ NoFault => faults' \in 0..MaxFaults
           /\ Edit => edits' \in 0..MaxEdits
BY Bounds DEF TypeOK, Fault, NoFault, Edit

\* How a Buckety pass moves the Buckety and itself.
BMoves ==
    /\ bky' \in Buckety /\ bky'.sa = bky.sa /\ bky'.policy = bky.policy
    /\ \/ bky'.phase = bky.phase
       \/ bpc = "release" /\ bky'.phase = "gone" /\ bpc' = "idle"
    /\ \/ bpc' = "idle" /\ bsa' = NoEmail
       \/ /\ bpc = "idle" /\ bsa' = bky.sa /\ bky.phase # "gone" /\ bky'.phase = bky.phase
          /\ bpc' = IF bky.phase = "live" THEN "bucket" ELSE "list"
       \/ bpc # "idle" /\ UNCHANGED bsa /\ bpc' # "idle" /\ bky'.phase = bky.phase

LEMMA BEndMoves ==
    ASSUME TypeOK, bpc # "idle"
    PROVE  /\ BEnd /\ UNCHANGED bky => BMoves
           /\ \A b \in BOOLEAN : BFinish(b) => BMoves
           /\ bpc = "release" /\ BEnd /\ bky' = [bky EXCEPT !.phase = "gone"] => BMoves
           /\ UNCHANGED <<bky, bsa>> /\ bpc' # "idle" => BMoves
<1>1. bky \in [phase : {"live", "deleting", "gone"}, sa : Email, ready : BOOLEAN,
               policy : {"Delete", "Retain"}]
  BY DEF TypeOK, Buckety
<1>2. ASSUME NEW b \in BOOLEAN, BFinish(b) PROVE BMoves
  BY <1>1, <1>2, Records DEF BFinish, BEnd, BMoves
<1>3. bpc = "release" /\ BEnd /\ bky' = [bky EXCEPT !.phase = "gone"] => BMoves
  BY <1>1, Records DEF BEnd, BMoves
<1>4. BEnd /\ UNCHANGED bky => BMoves
  BY <1>1 DEF BEnd, BMoves, Buckety
<1>5. UNCHANGED <<bky, bsa>> /\ bpc' # "idle" => BMoves
  BY <1>1 DEF BMoves, Buckety
<1>. QED BY <1>2, <1>3, <1>4, <1>5

LEMMA BucketyPassMoves ==
    ASSUME TypeInv, BucketyPass
    PROVE  BMoves /\ UNCHANGED <<cached, access, apc, asa, late, renamed, minted, edits>>
<1>. SUFFICES BMoves /\ BFrame
  BY DEF BFrame
<1>t. TypeOK
  BY DEF TypeInv
<1>f. BFrame
  BY DEF BucketyPass, StartBuckety, EnsureBucket, GetAccount, CreateAccount, RefetchAccount,
     ReadPolicy, SetPolicy, ListAccesses, RemoveBucket, GetForDelete, RemoveAccount, Release
<1>1. CASE StartBuckety
  <2>1. bky \in Buckety /\ bky.phase \in {"live", "deleting", "gone"}
    BY <1>t DEF TypeOK, Buckety
  <2>. QED BY <1>f, <1>1, <2>1 DEF StartBuckety, BMoves
<1>2. CASE EnsureBucket \/ GetAccount \/ CreateAccount
  BY <1>t, <1>f, <1>2, BEndMoves DEF EnsureBucket, GetAccount, CreateAccount, BGoto, Fetched, CheckBinding
<1>3. CASE RefetchAccount \/ ReadPolicy \/ SetPolicy
  BY <1>t, <1>f, <1>3, BEndMoves DEF RefetchAccount, ReadPolicy, SetPolicy, BGoto, Fetched, CheckBinding
<1>4. CASE ListAccesses \/ RemoveBucket
  BY <1>t, <1>f, <1>4, BEndMoves DEF ListAccesses, RemoveBucket, BGoto, AccountAfterBucket
<1>5. CASE GetForDelete \/ RemoveAccount \/ Release
  BY <1>t, <1>f, <1>5, BEndMoves DEF GetForDelete, RemoveAccount, Release, BGoto, ForeignLeftAlone
<1>. QED BY <1>1, <1>2, <1>3, <1>4, <1>5 DEF BucketyPass

\* What a step does to the account with name e.
AccountMoves(e) ==
    \/ acct'[e] = acct[e]
    \/ acct'[e] = [acct[e] EXCEPT !.bindable = TRUE]
    \/ /\ acct[e].state = "none" /\ acct'[e].state = "live" /\ identities' = identities + 1
       /\ acct'[e].of = identities' /\ UNCHANGED <<keys, apc, asa>>
       /\ \A f \in Email \ {e} : acct'[f] = acct[f]
       /\ \/ acct'[e].ours = TRUE /\ bpc = "createSA" /\ e = bsa
          \/ acct'[e].ours = FALSE /\ UNCHANGED <<bpc, bsa>>
    \/ /\ LiveAccount(e) /\ acct'[e].state = "reserved"
       /\ keys' = {k \in keys : k.of # acct[e].of}
       /\ UNCHANGED <<apc, asa>>
       /\ (bpc = "rmSA" /\ e = bsa) \/ UNCHANGED <<bpc, bsa>>
    \/ /\ acct[e].state = "reserved" /\ acct'[e].state = "none"
       /\ bpc = "idle" /\ apc = "idle" /\ UNCHANGED <<bpc, apc, keys>>

LEMMA CreatedMoves ==
    ASSUME TypeOK, NEW f \in Email, acct[f].state = "none", identities < MaxIdentity,
           NEW b \in BOOLEAN, NEW c \in BOOLEAN,
           identities' = identities + 1,
           acct' = [acct EXCEPT ![f] = [state |-> "live", of |-> identities', ours |-> b,
                                        bindable |-> c]]
    PROVE  /\ acct' \in [Email -> Account] /\ identities' \in 0..MaxIdentity
           /\ acct'[f].state = "live" /\ acct'[f].of = identities' /\ acct'[f].ours = b
           /\ \A e \in Email \ {f} : acct'[e] = acct[e]
<1>1. identities' \in 0..MaxIdentity /\ identities' \in Identity
  BY Bounds DEF TypeOK, Identity
<1>2. acct \in [Email -> Account]
  BY DEF TypeOK
<1>3. [state |-> "live", of |-> identities', ours |-> b, bindable |-> c] \in Account
  BY <1>1 DEF Account
<1>. QED BY <1>1, <1>2, <1>3

LEMMA DeletedMoves ==
    ASSUME TypeOK, NEW f \in Email, Deleted(f)
    PROVE  /\ acct' \in [Email -> Account] /\ keys' \subseteq keys
           /\ \A e \in Email : acct'[e] = acct[e] \/ e = f
           /\ LiveAccount(f) => /\ acct'[f].state = "reserved"
                                /\ keys' = {k \in keys : k.of # acct[f].of}
           /\ ~LiveAccount(f) => UNCHANGED <<acct, keys>>
<1>1. acct \in [Email -> Account]
  BY DEF TypeOK
<1>2. [NoAccount EXCEPT !.state = "reserved"] \in Account
  BY Records
<1>3. [NoAccount EXCEPT !.state = "reserved"].state = "reserved"
  BY DEF NoAccount
<1>4. CASE LiveAccount(f)
  BY <1>1, <1>2, <1>3, <1>4 DEF Deleted
<1>5. CASE ~LiveAccount(f)
  BY <1>1, <1>5 DEF Deleted
<1>. QED BY <1>4, <1>5

LEMMA AccountsMove ==
    ASSUME TypeInv, [Next]_vars
    PROVE  /\ acct' \in [Email -> Account] /\ identities' \in 0..MaxIdentity
           /\ identities <= identities'
           /\ \A e \in Email : AccountMoves(e)
<1>t. TypeOK /\ acct \in [Email -> Account] /\ identities \in 0..MaxIdentity
  BY DEF TypeInv, TypeOK
<1>i. identities \in Nat
  BY <1>t, Bounds
<1>u. ASSUME UNCHANGED <<acct, identities>>
      PROVE  /\ acct' \in [Email -> Account] /\ identities' \in 0..MaxIdentity
             /\ identities <= identities'
             /\ \A e \in Email : AccountMoves(e)
  BY <1>t, <1>i, <1>u DEF AccountMoves
<1>1. CASE CreateAccount
  <2>1. bsa \in Email /\ bpc = "createSA" /\ UNCHANGED <<keys, apc, asa>>
    BY <1>1 DEF TypeInv, CreateAccount, BFrame
  <2>2. CASE acct[bsa].state = "none" /\ Created(bsa)
    <3>1. /\ acct' \in [Email -> Account] /\ identities' \in 0..MaxIdentity
          /\ acct'[bsa].state = "live" /\ acct'[bsa].of = identities' /\ acct'[bsa].ours = TRUE
          /\ identities' = identities + 1
          /\ \A e \in Email \ {bsa} : acct'[e] = acct[e]
      BY <1>t, <2>1, <2>2, CreatedMoves DEF Created
    <3>. QED BY <1>i, <2>1, <2>2, <3>1 DEF AccountMoves
  <2>. QED BY <1>1, <1>u, <2>2 DEF CreateAccount
<1>2. CASE RemoveAccount
  <2>1. bsa \in Email /\ bpc = "rmSA" /\ UNCHANGED <<identities, apc, asa>>
    BY <1>2 DEF TypeInv, RemoveAccount, BFrame
  <2>2. CASE Deleted(bsa)
    <3>1. /\ acct' \in [Email -> Account]
          /\ \A e \in Email : acct'[e] = acct[e] \/ e = bsa
          /\ LiveAccount(bsa) => /\ acct'[bsa].state = "reserved"
                                 /\ keys' = {k \in keys : k.of # acct[bsa].of}
          /\ ~LiveAccount(bsa) => UNCHANGED <<acct, keys>>
      BY <1>t, <2>1, <2>2, DeletedMoves
    <3>2. CASE LiveAccount(bsa)
      BY <1>t, <1>i, <2>1, <3>1, <3>2 DEF AccountMoves
    <3>. QED BY <1>u, <2>1, <3>1, <3>2
  <2>. QED BY <1>2, <1>u, <2>1, <2>2 DEF RemoveAccount
<1>3. CASE BucketyPass /\ ~CreateAccount /\ ~RemoveAccount
  BY <1>3, <1>u DEF BucketyPass, StartBuckety, EnsureBucket, GetAccount, RefetchAccount,
     ReadPolicy, SetPolicy, ListAccesses, RemoveBucket, GetForDelete, Release
<1>4. CASE AccessPass
  BY <1>4, <1>u DEF AccessPass, StartAccess, GetForMint, Mint, Revoke, AFrame
<1>5. CASE UserDeletesBuckety \/ UserCreatesAccess \/ UserDeletesAccess \/ OutsiderUnbinds
           \/ RefreshCache \/ UNCHANGED vars
  BY <1>5, <1>u DEF UserDeletesBuckety, UserCreatesAccess, UserDeletesAccess, OutsiderUnbinds,
     RefreshCache, Env, vars
<1>6. ASSUME NEW f \in Email, UserRenames(f) PROVE UNCHANGED <<acct, identities>>
  BY <1>6 DEF UserRenames, Env
<1>7. ASSUME NEW f \in Email, OutsiderCreates(f)
      PROVE  /\ acct' \in [Email -> Account] /\ identities' \in 0..MaxIdentity
             /\ identities <= identities'
             /\ \A e \in Email : AccountMoves(e)
  <2>1. /\ acct' \in [Email -> Account] /\ identities' \in 0..MaxIdentity
        /\ acct'[f].state = "live" /\ acct'[f].of = identities' /\ acct'[f].ours = FALSE
        /\ \A e \in Email \ {f} : acct'[e] = acct[e]
    BY <1>t, <1>7, CreatedMoves DEF OutsiderCreates
  <2>2. /\ identities' = identities + 1 /\ acct[f].state = "none"
        /\ UNCHANGED <<keys, bpc, bsa, apc, asa>>
    BY <1>7 DEF OutsiderCreates, Env, bpass, apass
  <2>. QED BY <1>i, <2>1, <2>2 DEF AccountMoves
<1>8. ASSUME NEW f \in Email, OutsiderDeletes(f)
      PROVE  /\ acct' \in [Email -> Account] /\ identities' \in 0..MaxIdentity
             /\ identities <= identities'
             /\ \A e \in Email : AccountMoves(e)
  <2>1. LiveAccount(f) /\ Deleted(f) /\ UNCHANGED <<identities, bpc, bsa, apc, asa>>
    BY <1>8 DEF OutsiderDeletes, Env, bpass, apass
  <2>2. /\ acct' \in [Email -> Account]
        /\ \A e \in Email : acct'[e] = acct[e] \/ e = f
        /\ acct'[f].state = "reserved" /\ keys' = {k \in keys : k.of # acct[f].of}
    BY <1>t, <2>1, DeletedMoves
  <2>. QED BY <1>t, <1>i, <2>1, <2>2 DEF AccountMoves
<1>9. ASSUME NEW f \in Email, Propagate(f)
      PROVE  /\ acct' \in [Email -> Account] /\ identities' \in 0..MaxIdentity
             /\ identities <= identities'
             /\ \A e \in Email : AccountMoves(e)
  <2>1. acct' = [acct EXCEPT ![f].bindable = TRUE] /\ UNCHANGED identities
    BY <1>9 DEF Propagate, Env
  <2>2. acct[f] \in Account
    BY <1>t
  <2>3. [acct[f] EXCEPT !.bindable = TRUE] \in Account
    BY <2>2 DEF Account
  <2>4. /\ acct' \in [Email -> Account]
        /\ acct'[f] = [acct[f] EXCEPT !.bindable = TRUE]
        /\ \A e \in Email \ {f} : acct'[e] = acct[e]
    <3>. DEFINE new == [acct[f] EXCEPT !.bindable = TRUE]
    <3>1. acct' = [acct EXCEPT ![f] = new]
      BY <2>1
    <3>2. new \in Account
      BY <2>3
    <3>. HIDE DEF new
    <3>3. acct' \in [Email -> Account] /\ acct'[f] = new /\ \A e \in Email \ {f} : acct'[e] = acct[e]
      BY <1>t, <3>1, <3>2
    <3>. QED BY <3>3 DEF new
  <2>5. ASSUME NEW e \in Email PROVE AccountMoves(e)
    <3>1. CASE e = f
      BY <2>4, <3>1 DEF AccountMoves
    <3>2. CASE e # f
      BY <2>4, <3>2 DEF AccountMoves
    <3>. QED BY <3>1, <3>2
  <2>. QED BY <1>t, <1>i, <2>1, <2>4, <2>5
<1>10. ASSUME NEW f \in Email, NameFreed(f)
      PROVE  /\ acct' \in [Email -> Account] /\ identities' \in 0..MaxIdentity
             /\ identities <= identities'
             /\ \A e \in Email : AccountMoves(e)
  <2>1. /\ acct[f].state = "reserved" /\ bpc = "idle" /\ apc = "idle"
        /\ acct' = [acct EXCEPT ![f] = NoAccount] /\ UNCHANGED <<identities, bpc, apc, keys>>
    BY <1>10 DEF NameFreed, Env, bpass, apass
  <2>2. NoAccount \in Account /\ NoAccount.state = "none"
    BY <1>t, Records DEF NoAccount
  <2>. QED BY <1>t, <1>i, <2>1, <2>2 DEF AccountMoves
<1>. QED
  BY <1>1, <1>2, <1>3, <1>4, <1>5, <1>6, <1>7, <1>8, <1>9, <1>10, <1>u DEF Next, Environment

\* Keys only go, except the one a pass mints for the account it checked.
KeyMinted == [id |-> minted + 1, of |-> acct[asa].of, email |-> asa]

LEMMA KeysMove ==
    ASSUME TypeInv, [Next]_vars
    PROVE  \/ keys' \subseteq keys
           \/ /\ Mint /\ apc = "mint" /\ LiveAccount(asa) /\ minted < MaxKey /\ UNCHANGED acct
              /\ keys' \subseteq keys \cup {KeyMinted}
<1>1. CASE Mint
  BY <1>1 DEF Mint, AFrame, KeyMinted
<1>2. CASE AccessPass /\ ~Mint
  BY <1>2 DEF AccessPass, StartAccess, GetForMint, Revoke
<1>3. CASE BucketyPass
  BY <1>3 DEF BucketyPass, StartBuckety, EnsureBucket, GetAccount, CreateAccount, RefetchAccount,
     ReadPolicy, SetPolicy, ListAccesses, RemoveBucket, GetForDelete, RemoveAccount, Release, Deleted
<1>4. CASE UserDeletesBuckety \/ UserCreatesAccess \/ UserDeletesAccess \/ OutsiderUnbinds
           \/ RefreshCache \/ UNCHANGED vars
  BY <1>4 DEF UserDeletesBuckety, UserCreatesAccess, UserDeletesAccess, OutsiderUnbinds,
     RefreshCache, Env, vars
<1>5. ASSUME NEW f \in Email, UserRenames(f) \/ OutsiderCreates(f) \/ OutsiderDeletes(f)
                                \/ Propagate(f) \/ NameFreed(f)
      PROVE  keys' \subseteq keys
  BY <1>5 DEF UserRenames, OutsiderCreates, OutsiderDeletes, Propagate, NameFreed, Deleted, Env
<1>. QED BY <1>1, <1>2, <1>3, <1>4, <1>5 DEF Next, Environment, AccessPass

-----------------------------------------------------------------------------
(* Users, IAM and other tenants. *)

Outside ==
    \/ Environment \/ RefreshCache
    \/ \E e \in Email : Propagate(e) \/ NameFreed(e)
    \/ UNCHANGED vars

AccessType == [phase : {"none", "live", "deleting", "gone"}, key : Key \cup {NoKey}]
BucketType == [exists : BOOLEAN, bound : SUBSET Identity]

OutsideMoves ==
    /\ UNCHANGED <<bpc, bsa, policy, apc, asa, minted, faults>>
    /\ bky' \in Buckety /\ bky'.policy = bky.policy
    /\ \/ bky'.sa = bky.sa /\ UNCHANGED renamed
       \/ bky.phase = "live" /\ renamed' = TRUE
    /\ bky'.phase = bky.phase \/ (bky.phase = "live" /\ bky'.phase = "deleting")
    /\ cached' = cached \/ (cached' = bky /\ UNCHANGED bky)
    /\ access' \in AccessType /\ access'.key = access.key
    /\ \/ access'.phase = access.phase /\ UNCHANGED late
       \/ /\ access.phase = "none" /\ access'.phase = "live" /\ UNCHANGED bky
          /\ late' = (bky.phase # "live")
       \/ access.phase = "live" /\ access'.phase = "deleting" /\ UNCHANGED late
    /\ bucket' \in BucketType
    /\ edits' \in 0..MaxEdits

LEMMA OutsideStep ==
    ASSUME TypeInv, Outside
    PROVE  OutsideMoves
<1>t. /\ TypeOK /\ bky \in Buckety /\ access \in AccessType /\ bucket \in BucketType
      /\ edits \in 0..MaxEdits
  BY DEF TypeInv, TypeOK, AccessType, BucketType
<1>u. UNCHANGED <<bky, cached, access, bucket, late, renamed, bpc, bsa, policy, apc, asa, minted,
                  faults>> /\ edits' \in 0..MaxEdits => OutsideMoves
  BY <1>t DEF OutsideMoves
<1>r. /\ [bky EXCEPT !.phase = "deleting"] \in Buckety
      /\ \A e \in Email : [bky EXCEPT !.sa = e] \in Buckety
      /\ [bucket EXCEPT !.bound = {}] \in BucketType
  BY <1>t, Records DEF BucketType
<1>1. CASE UserDeletesBuckety
  <2>1. /\ bky.phase = "live" /\ bky' = [bky EXCEPT !.phase = "deleting"]
        /\ UNCHANGED <<cached, access, bucket, late, renamed, bpc, bsa, policy, apc, asa, minted,
                       faults, edits>>
    BY <1>1 DEF UserDeletesBuckety, Env, bpass, apass, history
  <2>2. bky' \in Buckety /\ bky'.phase = "deleting" /\ bky'.policy = bky.policy /\ bky'.sa = bky.sa
    BY <1>t, <1>r, <2>1 DEF Buckety
  <2>. QED BY <1>t, <2>1, <2>2 DEF OutsideMoves
<1>2. ASSUME NEW e \in Email, UserRenames(e) PROVE OutsideMoves
  <2>1. /\ bky.phase = "live" /\ bky' = [bky EXCEPT !.sa = e] /\ renamed' = TRUE
        /\ UNCHANGED <<cached, access, bucket, late, bpc, bsa, policy, apc, asa, minted, faults>>
    BY <1>2 DEF UserRenames, Env, bpass, apass
  <2>2. bky' \in Buckety /\ bky'.phase = bky.phase /\ bky'.policy = bky.policy
    BY <1>t, <1>r, <2>1 DEF Buckety
  <2>3. edits' \in 0..MaxEdits
    BY <1>2, <1>t, FaultsStep DEF UserRenames
  <2>. QED BY <1>t, <2>1, <2>2, <2>3 DEF OutsideMoves
<1>3. CASE UserCreatesAccess
  <2>1. /\ access.phase = "none" /\ access' = [access EXCEPT !.phase = "live"]
        /\ late' = (bky.phase # "live")
        /\ UNCHANGED <<bky, cached, bucket, renamed, bpc, bsa, policy, apc, asa, minted,
                       faults, edits>>
    BY <1>3 DEF UserCreatesAccess, Env, bpass, apass
  <2>2. access' \in AccessType /\ access'.phase = "live" /\ access'.key = access.key
    BY <1>t, <2>1 DEF AccessType
  <2>. QED BY <1>t, <2>1, <2>2 DEF OutsideMoves
<1>4. CASE UserDeletesAccess
  <2>1. /\ access.phase = "live" /\ access' = [access EXCEPT !.phase = "deleting"]
        /\ UNCHANGED <<bky, cached, bucket, late, renamed, bpc, bsa, policy, apc, asa, minted,
                       faults, edits>>
    BY <1>4 DEF UserDeletesAccess, Env, bpass, apass, history
  <2>2. access' \in AccessType /\ access'.phase = "deleting" /\ access'.key = access.key
    BY <1>t, <2>1 DEF AccessType
  <2>. QED BY <1>t, <2>1, <2>2 DEF OutsideMoves
<1>5. CASE OutsiderUnbinds
  <2>1. edits' \in 0..MaxEdits
    BY <1>5, <1>t, FaultsStep DEF OutsiderUnbinds
  <2>. QED
    BY <1>5, <1>t, <1>r, <2>1 DEF OutsiderUnbinds, OutsideMoves, Env, bpass, apass, history
<1>6. CASE RefreshCache
  BY <1>6, <1>t DEF RefreshCache, OutsideMoves, Env, bpass, apass, history
<1>7. ASSUME NEW e \in Email,
             OutsiderCreates(e) \/ OutsiderDeletes(e) \/ Propagate(e) \/ NameFreed(e)
      PROVE  OutsideMoves
  <2>1. edits' \in 0..MaxEdits
    BY <1>7, <1>t, FaultsStep DEF OutsiderCreates, OutsiderDeletes, Propagate, NameFreed, Env
  <2>. QED
    BY <1>7, <1>u, <2>1 DEF OutsiderCreates, OutsiderDeletes, Propagate, NameFreed, Env, bpass,
       apass, history
<1>8. CASE UNCHANGED vars
  BY <1>8, <1>t, <1>u DEF vars
<1>. QED BY <1>1, <1>2, <1>3, <1>4, <1>5, <1>6, <1>7, <1>8 DEF Outside, Environment

LEMMA NextCases ==
    [Next]_vars => BucketyPass \/ AccessPass \/ Outside
BY DEF Next, Outside

-----------------------------------------------------------------------------
(* The access pass. *)

AMoves ==
    /\ UNCHANGED <<bky, cached, bucket, acct, bpc, bsa, policy, identities, late, renamed>>
    /\ access' \in AccessType /\ minted' \in 0..MaxKey
    /\ edits' \in 0..MaxEdits /\ faults' \in 0..MaxFaults
    /\ \/ apc = "idle" /\ apc' = "getForMint" /\ asa' = cached.sa /\ UNCHANGED <<keys, access>>
          /\ access.phase = "live"
       \/ apc = "idle" /\ apc' = "revoke" /\ UNCHANGED <<asa, keys, access>>
          /\ access.phase = "deleting"
       \/ /\ apc = "idle" /\ UNCHANGED <<apc, asa, keys>>
          /\ access.phase = "deleting" /\ cached.phase = "gone"
          /\ access'.phase = "gone" /\ access'.key = access.key
       \/ apc = "getForMint" /\ apc' = "mint" /\ UNCHANGED <<asa, keys, access>>
          /\ LiveAccount(asa) /\ Marked(asa)
       \/ apc # "idle" /\ apc' = "idle" /\ asa' = NoEmail /\ UNCHANGED <<keys, access>>
       \/ /\ apc = "mint" /\ apc' = "idle" /\ asa' = NoEmail /\ access'.phase = access.phase
          /\ LiveAccount(asa) /\ minted < MaxKey /\ minted' = minted + 1
          /\ keys' \subseteq keys \cup {KeyMinted}
       \/ /\ apc = "revoke" /\ apc' = "idle" /\ asa' = NoEmail
          /\ keys' \subseteq keys /\ access'.key = access.key
          /\ \/ access'.phase = access.phase
             \/ access'.phase = "gone" /\ access.key \notin keys'

LEMMA AccessPassMoves ==
    ASSUME TypeInv, IdentityInv, AccessPass
    PROVE  AMoves
<1>t. /\ TypeOK /\ access \in AccessType /\ minted \in 0..MaxKey /\ edits \in 0..MaxEdits
      /\ faults \in 0..MaxFaults /\ cached \in Buckety
  BY DEF TypeInv, TypeOK, AccessType
<1>f. AFrame
  BY DEF AccessPass, StartAccess, GetForMint, Mint, Revoke
<1>g. [access EXCEPT !.phase = "gone"] \in AccessType
  BY <1>t DEF AccessType
<1>h. [access EXCEPT !.phase = "gone"].phase = "gone" /\ [access EXCEPT !.phase = "gone"].key = access.key
  BY <1>t DEF AccessType
<1>n. Fault \/ NoFault => faults' \in 0..MaxFaults
  BY <1>t, FaultsStep
<1>1. CASE StartAccess
  <2>1. edits' \in 0..MaxEdits
    BY <1>1, <1>t, FaultsStep DEF StartAccess, Unusable
  <2>. QED BY <1>1, <1>t, <1>f, <1>g, <1>h, <2>1 DEF StartAccess, AFrame, AMoves, apass
<1>2. CASE GetForMint
  BY <1>2, <1>t, <1>f, <1>n DEF GetForMint, AFrame, AMoves, MayMint, AEnd
<1>3. CASE Mint
  <2>1. CASE LiveAccount(asa) /\ minted < MaxKey /\ minted' = minted + 1
    <3>0. asa \in Email /\ apc = "mint"
      BY <1>3 DEF Mint, TypeInv
    <3>1. minted' \in 1..MaxKey
      BY <1>t, <2>1, Bounds
    <3>2. acct[asa].of \in Identity
      <4>1. acct[asa].of \in 1..identities /\ identities \in 0..MaxIdentity
        BY <2>1, <3>0, <1>t DEF IdentityInv, TypeOK
      <4>. QED BY <4>1, Bounds DEF Identity
    <3>3. KeyMinted \in Key
      BY <2>1, <3>0, <3>1, <3>2 DEF KeyMinted, Key
    <3>4. KeyMinted = [id |-> minted', of |-> acct[asa].of, email |-> asa]
      BY <2>1 DEF KeyMinted
    <3>5. [access EXCEPT !.key = KeyMinted] \in AccessType
      BY <1>t, <3>3 DEF AccessType
    <3>6. [access EXCEPT !.key = KeyMinted].phase = access.phase
      BY <1>t DEF AccessType
    <3>7. \/ keys' = (keys \cup {KeyMinted}) \ {access.key} /\ access' = [access EXCEPT !.key = KeyMinted]
          \/ keys' = keys \cup {KeyMinted} /\ UNCHANGED access
          \/ UNCHANGED <<keys, minted, access>>
      BY <1>3, <3>4 DEF Mint
    <3>8. keys' \subseteq keys \cup {KeyMinted} /\ access' \in AccessType /\ access'.phase = access.phase
      BY <1>t, <3>5, <3>6, <3>7
    <3>9. minted' \in 0..MaxKey /\ edits' \in 0..MaxEdits /\ faults' \in 0..MaxFaults
      BY <1>3, <1>t, <1>n, <3>1 DEF Mint
    <3>. QED BY <1>3, <1>f, <2>1, <3>8, <3>9 DEF Mint, AEnd, AFrame, AMoves
  <2>2. CASE UNCHANGED <<keys, minted, access>>
    <3>1. edits' \in 0..MaxEdits /\ faults' \in 0..MaxFaults
      BY <1>3, <1>t, <1>n DEF Mint
    <3>. QED BY <1>3, <1>t, <1>f, <2>2, <3>1 DEF Mint, AEnd, AFrame, AMoves
  <2>. QED BY <1>3, <2>1, <2>2 DEF Mint
<1>4. CASE Revoke
  BY <1>4, <1>t, <1>f, <1>g, <1>h, <1>n DEF Revoke, AEnd, AFrame, AMoves
<1>. QED BY <1>1, <1>2, <1>3, <1>4 DEF AccessPass

-----------------------------------------------------------------------------
(* The parts of the invariant, one lemma each. *)

LEMMA TypeNext ==
    ASSUME TypeInv, IdentityInv, [Next]_vars
    PROVE  TypeInv'
<1>t. /\ TypeOK /\ cached \in Buckety /\ bky \in Buckety /\ keys \subseteq Key
      /\ access \in AccessType /\ bucket \in BucketType
  BY DEF TypeInv, TypeOK, AccessType, BucketType
<1>a. acct' \in [Email -> Account] /\ identities' \in 0..MaxIdentity
  BY AccountsMove
<1>k. keys' \subseteq Key
  <2>1. ASSUME Mint, apc = "mint", LiveAccount(asa), minted < MaxKey PROVE KeyMinted \in Key
    <3>0. asa \in Email
      BY <2>1 DEF TypeInv
    <3>1. minted + 1 \in 1..MaxKey
      BY <1>t, <2>1, Bounds DEF TypeOK
    <3>2. acct[asa].of \in 1..identities /\ identities \in 0..MaxIdentity
      BY <2>1, <3>0, <1>t DEF IdentityInv, TypeOK
    <3>3. acct[asa].of \in Identity
      BY <3>2, Bounds DEF Identity
    <3>. QED BY <3>0, <3>1, <3>3 DEF KeyMinted, Key
  <2>. QED BY <1>t, <2>1, KeysMove
<1>1. CASE Outside
  <2>1. OutsideMoves
    BY <1>1, OutsideStep
  <2>2. cached' \in Buckety /\ late' \in BOOLEAN /\ renamed' \in BOOLEAN
    BY <1>t, <2>1 DEF OutsideMoves, TypeOK
  <2>3. /\ bky' \in Buckety /\ access' \in AccessType /\ bucket' \in BucketType
        /\ edits' \in 0..MaxEdits /\ UNCHANGED <<bpc, bsa, policy, apc, asa, minted, faults>>
    BY <2>1 DEF OutsideMoves
  <2>. QED BY <1>a, <1>k, <2>2, <2>3 DEF TypeInv, TypeOK, AccessType, BucketType
<1>2. CASE AccessPass
  <2>1. AMoves
    BY <1>2, AccessPassMoves
  <2>2. /\ UNCHANGED <<bky, cached, bucket, bpc, bsa, policy, late, renamed>>
        /\ access' \in AccessType /\ minted' \in 0..MaxKey
        /\ edits' \in 0..MaxEdits /\ faults' \in 0..MaxFaults
    BY <2>1 DEF AMoves
  <2>3. cached.sa \in Email
    BY <1>t DEF Buckety
  <2>4. /\ apc' \in {"idle", "getForMint", "mint", "revoke"} /\ asa' \in Email \cup {NoEmail}
        /\ apc' \in {"getForMint", "mint"} => asa' \in Email
    BY <2>1, <2>3, <1>t DEF AMoves, TypeInv, TypeOK
  <2>. QED BY <1>a, <1>k, <2>2, <2>4 DEF TypeInv, TypeOK, AccessType, BucketType
<1>3. CASE BucketyPass
  <2>1. BMoves /\ UNCHANGED <<cached, access, apc, asa, late, renamed, minted, edits>>
    BY <1>3, BucketyPassMoves
  <2>2. bky.sa \in Email
    BY <1>t DEF Buckety
  <2>3. /\ bky' \in Buckety /\ bsa' \in Email \cup {NoEmail}
        /\ bpc' # "idle" => bsa' \in Email
    BY <2>1, <2>2, <1>t DEF BMoves, TypeInv, TypeOK
  <2>4. faults' \in 0..MaxFaults
    <3>1. Fault \/ NoFault \/ StartBuckety
      BY <1>3 DEF BucketyPass, EnsureBucket, GetAccount, CreateAccount, RefetchAccount,
         ReadPolicy, SetPolicy, ListAccesses, RemoveBucket, GetForDelete, RemoveAccount, Release
    <3>2. StartBuckety => NoFault
      BY DEF StartBuckety, NoFault
    <3>. QED BY <1>t, <3>1, <3>2, FaultsStep
  <2>5. policy' \subseteq Identity
    <3>1. bucket.bound \subseteq Identity /\ policy \subseteq Identity
      BY <1>t DEF BucketType, TypeOK
    <3>2. policy' \in {policy, {}, bucket.bound}
      BY <1>3 DEF BucketyPass, StartBuckety, EnsureBucket, GetAccount, CreateAccount,
         RefetchAccount, ReadPolicy, SetPolicy, ListAccesses, RemoveBucket, GetForDelete,
         RemoveAccount, Release, BEnd, BFinish, BGoto, Fetched, CheckBinding, ForeignLeftAlone
    <3>. QED BY <3>1, <3>2
  <2>6. bucket' \in BucketType
    <3>1. /\ [exists |-> FALSE, bound |-> {}] \in BucketType
          /\ [bucket EXCEPT !.exists = TRUE] \in BucketType
      BY <1>t, Records DEF BucketType
    <3>2. CASE SetPolicy /\ bucket' # bucket
      <4>1. /\ bsa \in Email /\ LiveAccount(bsa) /\ policy = bucket.bound
            /\ bucket' = [bucket EXCEPT !.bound = policy \cup {acct[bsa].of}]
        BY <3>2 DEF SetPolicy, TypeInv
      <4>2. acct[bsa].of \in 1..identities /\ identities \in 0..MaxIdentity
        BY <4>1, <1>t DEF IdentityInv, TypeOK
      <4>3. policy \cup {acct[bsa].of} \in SUBSET Identity
        BY <1>t, <4>1, <4>2, Bounds DEF Identity, TypeOK
      <4>. QED BY <1>t, <4>1, <4>3 DEF BucketType
    <3>3. CASE EnsureBucket \/ RemoveBucket
      BY <1>t, <3>1, <3>3 DEF EnsureBucket, RemoveBucket
    <3>4. CASE BucketyPass /\ ~EnsureBucket /\ ~RemoveBucket /\ ~SetPolicy
      BY <1>t, <3>4 DEF BucketyPass, StartBuckety, GetAccount, CreateAccount, RefetchAccount,
         ReadPolicy, ListAccesses, GetForDelete, RemoveAccount, Release
    <3>. QED BY <1>3, <1>t, <3>2, <3>3, <3>4
  <2>7. bpc' \in {"idle", "bucket", "getSA", "createSA", "regetSA", "readPolicy", "setPolicy",
                  "list", "rmBucket", "getForDelete", "rmSA", "release"}
    BY <1>3 DEF BucketyPass, StartBuckety, EnsureBucket, GetAccount, CreateAccount, RefetchAccount,
       ReadPolicy, SetPolicy, ListAccesses, RemoveBucket, GetForDelete, RemoveAccount, Release,
       BEnd, BFinish, BGoto, Fetched, CheckBinding, ForeignLeftAlone, AccountAfterBucket
  <2>. QED BY <1>t, <1>a, <1>k, <2>1, <2>3, <2>4, <2>5, <2>6, <2>7
    DEF TypeInv, TypeOK, AccessType, BucketType
<1>. QED BY <1>1, <1>2, <1>3, NextCases

LEMMA BindableKeeps ==
    ASSUME NEW r \in Account, NEW n, n = [r EXCEPT !.bindable = TRUE]
    PROVE  n.state = r.state /\ n.of = r.of /\ n.ours = r.ours
BY DEF Account

LEMMA IdentityNext ==
    ASSUME TypeInv, IdentityInv, [Next]_vars
    PROVE  IdentityInv'
<1>t. /\ acct \in [Email -> Account] /\ identities \in Nat /\ identities' \in Nat
      /\ identities <= identities' /\ \A e \in Email : AccountMoves(e)
  BY AccountsMove, Bounds DEF TypeInv, TypeOK
<1>1. ASSUME NEW e \in Email, acct'[e].state = "live"
      PROVE  \/ LiveAccount(e) /\ acct'[e].of = acct[e].of
             \/ /\ acct'[e].of = identities' /\ identities' = identities + 1
                /\ \A f \in Email \ {e} : acct'[f] = acct[f]
  BY <1>t, <1>1, BindableKeeps DEF AccountMoves, LiveAccount
<1>2. ASSUME NEW e \in Email, acct'[e].state = "live"
      PROVE  acct'[e].of \in 1..identities'
  BY <1>t, <1>1, <1>2 DEF IdentityInv
<1>3. ASSUME NEW e \in Email, NEW f \in Email, acct'[e].state = "live", acct'[f].state = "live",
             acct'[e].of = acct'[f].of
      PROVE  e = f
  <2>1. CASE LiveAccount(e) /\ acct'[e].of = acct[e].of /\ LiveAccount(f) /\ acct'[f].of = acct[f].of
    BY <1>3, <2>1 DEF IdentityInv
  <2>2. CASE /\ e # f /\ acct'[e].of = identities + 1 /\ acct'[f] = acct[f]
    <3>1. acct[f].of \in 1..identities
      BY <1>3, <2>2 DEF IdentityInv, LiveAccount
    <3>2. acct[f].of = identities + 1
      BY <1>3, <2>2
    <3>3. identities \in Nat
      BY <1>t
    <3>. QED BY <3>1, <3>2, <3>3
  <2>3. CASE /\ e # f /\ acct'[f].of = identities + 1 /\ acct'[e] = acct[e]
    BY <1>t, <1>3, <2>3 DEF IdentityInv, LiveAccount
  <2>. QED BY <1>1, <1>3, <2>1, <2>2, <2>3
<1>. QED BY <1>2, <1>3 DEF IdentityInv, LiveAccount

CheckedAfter(e) == acct'[e].state = "reserved" \/ (acct'[e].state = "live" /\ acct'[e].ours)

\* A name a pass has checked cannot come to name somebody else's account
\* before that pass has ended.
LEMMA CheckedStays ==
    ASSUME TypeInv, [Next]_vars, NEW e \in Email, Checked(e), bpc # "idle" \/ apc # "idle"
    PROVE  CheckedAfter(e)
<1>1. AccountMoves(e) /\ acct[e] \in Account
  BY AccountsMove DEF TypeInv, TypeOK
<1>. QED BY <1>1, BindableKeeps DEF AccountMoves, Checked, CheckedAfter, Ours, LiveAccount

LEMMA CheckedNext ==
    ASSUME TypeInv, CheckedInv, IdentityInv, [Next]_vars
    PROVE  CheckedInv'
<1>1. ASSUME bpc' \in {"readPolicy", "setPolicy", "rmSA"} PROVE CheckedAfter(bsa')
  <2>1. CASE UNCHANGED <<bpc, bsa>>
    BY <1>1, <2>1, CheckedStays DEF CheckedInv, TypeInv
  <2>2. CASE BucketyPass
    <3>1. bpc # "idle" /\ UNCHANGED bsa /\ bsa \in Email
      BY <1>1, <2>2, BucketyPassMoves DEF BMoves, TypeInv
    <3>2. \/ bpc \in {"readPolicy", "setPolicy", "rmSA"} \/ Ours(bsa)
          \/ acct[bsa].state = "none" /\ Created(bsa)
      BY <1>1, <2>2 DEF BucketyPass, StartBuckety, EnsureBucket, GetAccount, CreateAccount,
         RefetchAccount, ReadPolicy, SetPolicy, ListAccesses, RemoveBucket, GetForDelete,
         RemoveAccount, Release, BEnd, BFinish, BGoto, Fetched, CheckBinding, ForeignLeftAlone,
         AccountAfterBucket, Ours, Marked
    <3>3. CASE acct[bsa].state = "none" /\ Created(bsa)
      BY <3>1, <3>3, CreatedMoves DEF Created, CheckedAfter, TypeInv
    <3>4. CASE bpc \in {"readPolicy", "setPolicy", "rmSA"} \/ Ours(bsa)
      BY <3>1, <3>4, CheckedStays DEF CheckedInv, Checked
    <3>. QED BY <3>2, <3>3, <3>4
  <2>. QED BY <2>1, <2>2, NextCases, OutsideStep, AccessPassMoves DEF OutsideMoves, AMoves
<1>2. ASSUME apc' = "mint" PROVE CheckedAfter(asa')
  <2>1. CASE apc = "mint" /\ UNCHANGED asa
    BY <2>1, CheckedStays DEF CheckedInv, TypeInv
  <2>2. CASE apc = "getForMint" /\ UNCHANGED asa /\ LiveAccount(asa) /\ Marked(asa)
    BY <2>2, CheckedStays DEF Checked, Ours, Marked, TypeInv
  <2>. QED BY <1>2, <2>1, <2>2, NextCases, OutsideStep, AccessPassMoves, BucketyPassMoves
           DEF OutsideMoves, AMoves
<1>. QED BY <1>1, <1>2 DEF CheckedInv, CheckedAfter, Checked, Ours, LiveAccount

LEMMA KeyNext ==
    ASSUME TypeInv, CheckedInv, IdentityInv, KeyInv, [Next]_vars
    PROVE  KeyInv'
<1>. SUFFICES ASSUME NEW k \in keys'
              PROVE  \E e \in Email : acct'[e].state = "live" /\ acct'[e].ours /\ acct'[e].of = k.of
  BY DEF KeyInv, Ours, LiveAccount
<1>1. CASE k \in keys
  <2>1. PICK e \in Email : Ours(e) /\ acct[e].of = k.of
    BY <1>1 DEF KeyInv
  <2>2. AccountMoves(e) /\ acct[e] \in Account
    BY AccountsMove DEF TypeInv, TypeOK
  <2>3. acct'[e].state = "live" /\ acct'[e].ours /\ acct'[e].of = k.of
    BY <1>1, <2>1, <2>2, BindableKeeps DEF AccountMoves, Ours, LiveAccount
  <2>. QED BY <2>3
<1>2. CASE k \notin keys
  <2>1. /\ apc = "mint" /\ LiveAccount(asa) /\ UNCHANGED acct /\ k = KeyMinted
    BY <1>2, KeysMove
  <2>2. asa \in Email /\ Ours(asa) /\ k.of = acct[asa].of
    BY <2>1 DEF CheckedInv, Checked, TypeInv, KeyMinted, LiveAccount, Ours
  <2>. QED BY <2>1, <2>2 DEF Ours, LiveAccount
<1>. QED BY <1>1, <1>2

\* How a pass comes to each step of the teardown.
LEMMA TeardownFrom ==
    ASSUME BucketyPass
    PROVE  /\ bpc' \in Teardown /\ bpc # "idle" => bpc \in Teardown
           /\ bpc' \in Teardown \ {"list"} =>
                \/ bpc \in Teardown \ {"list"}
                \/ bpc = "list" /\ access.phase \notin {"live", "deleting"}
           /\ bpc = "createSA" => bpc' # "release"
           /\ bpc' = "release" =>
                \/ bpc = "list" /\ bky.policy # "Delete"
                \/ bpc = "getForDelete" /\ ~Ours(bsa) /\ UNCHANGED acct
                \/ bpc = "rmSA" /\ Deleted(bsa)
<1>1. CASE StartBuckety \/ EnsureBucket \/ GetAccount
  BY <1>1 DEF StartBuckety, EnsureBucket, GetAccount, BGoto, BFinish, BEnd, Fetched, CheckBinding,
     Teardown
<1>2. CASE CreateAccount \/ RefetchAccount
  BY <1>2 DEF CreateAccount, RefetchAccount, BGoto, BFinish, BEnd, Fetched, CheckBinding, Teardown
<1>3. CASE ReadPolicy \/ SetPolicy
  BY <1>3 DEF ReadPolicy, SetPolicy, BGoto, BFinish, BEnd, Teardown
<1>4. CASE ListAccesses \/ RemoveBucket
  BY <1>4 DEF ListAccesses, RemoveBucket, BGoto, BEnd, AccountAfterBucket, Teardown
<1>5. CASE GetForDelete
  BY <1>5 DEF GetForDelete, BGoto, BEnd, ForeignLeftAlone, Teardown, Ours, Marked
<1>6. CASE RemoveAccount \/ Release
  BY <1>6 DEF RemoveAccount, Release, BGoto, BEnd, Teardown
<1>. QED BY <1>1, <1>2, <1>3, <1>4, <1>5, <1>6 DEF BucketyPass

LEMMA PhaseNext ==
    ASSUME TypeInv, IdentityInv, PhaseInv, [Next]_vars
    PROVE  PhaseInv'
<1>t. bky.phase \in {"live", "deleting", "gone"}
  BY DEF TypeInv, TypeOK, Buckety
<1>1. CASE BucketyPass
  <2>1. BMoves /\ UNCHANGED cached
    BY <1>1, BucketyPassMoves
  <2>2. bpc' \in Teardown /\ bpc # "idle" => bpc \in Teardown
    BY <1>1, TeardownFrom
  <2>3. bpc' \in Teardown => bky'.phase = "deleting"
    BY <1>t, <2>1, <2>2 DEF BMoves, PhaseInv, Teardown
  <2>4. bky'.phase = "gone" => bpc' = "idle"
    BY <2>1 DEF BMoves, PhaseInv
  <2>5. cached'.phase = "gone" => bky'.phase = "gone"
    BY <2>1 DEF BMoves, PhaseInv, Teardown
  <2>. QED BY <2>3, <2>4, <2>5 DEF PhaseInv
<1>2. CASE AccessPass
  BY <1>2, AccessPassMoves DEF AMoves, PhaseInv
<1>3. CASE Outside
  BY <1>3, OutsideStep DEF OutsideMoves, PhaseInv, Teardown
<1>. QED BY <1>1, <1>2, <1>3, NextCases

LEMMA OursFrom ==
    ASSUME TypeInv, [Next]_vars, NEW e \in Email, acct'[e].state = "live", acct'[e].ours
    PROVE  Ours(e) \/ (bpc = "createSA" /\ e = bsa)
<1>1. AccountMoves(e) /\ acct[e] \in Account
  BY AccountsMove DEF TypeInv, TypeOK
<1>. QED BY <1>1, BindableKeeps DEF AccountMoves, Ours, LiveAccount

LEMMA NameNext ==
    ASSUME TypeInv, IdentityInv, NameInv, [Next]_vars
    PROVE  NameInv'
<1>. SUFFICES ASSUME ~renamed' PROVE /\ cached'.sa = bky'.sa
                                     /\ bpc' # "idle" => bsa' = bky'.sa
                                     /\ apc' \in {"getForMint", "mint"} => asa' = bky'.sa
                                     /\ \A e \in Email : acct'[e].state = "live" /\ acct'[e].ours
                                            => e = bky'.sa
  BY DEF NameInv, Ours, LiveAccount
<1>1. ~renamed /\ bky'.sa = bky.sa
  BY NextCases, BucketyPassMoves, AccessPassMoves, OutsideStep
     DEF BMoves, AMoves, OutsideMoves, TypeInv, TypeOK
<1>2. cached'.sa = bky'.sa
  BY <1>1, NextCases, BucketyPassMoves, AccessPassMoves, OutsideStep
     DEF AMoves, OutsideMoves, NameInv
<1>3. bpc' # "idle" => bsa' = bky'.sa
  BY <1>1, NextCases, BucketyPassMoves, AccessPassMoves, OutsideStep
     DEF BMoves, AMoves, OutsideMoves, NameInv
<1>4. apc' \in {"getForMint", "mint"} => asa' = bky'.sa
  BY <1>1, NextCases, BucketyPassMoves, AccessPassMoves, OutsideStep
     DEF AMoves, OutsideMoves, NameInv
<1>5. ASSUME NEW e \in Email, acct'[e].state = "live", acct'[e].ours PROVE e = bky'.sa
  BY <1>1, <1>5, OursFrom DEF NameInv
<1>. QED BY <1>2, <1>3, <1>4, <1>5

LEMMA LeftNext ==
    ASSUME TypeInv, IdentityInv, PhaseInv, NameInv, LeftInv, [Next]_vars
    PROVE  LeftInv'
<1>. SUFFICES ASSUME bpc' = "release" \/ bky'.phase = "gone", bky'.policy = "Delete", ~renamed',
                     acct'[bky'.sa].state = "live", acct'[bky'.sa].ours
              PROVE  FALSE
  BY DEF LeftInv, Ours, LiveAccount
<1>1. ~renamed /\ bky'.sa = bky.sa /\ bky.policy = "Delete" /\ bky.sa \in Email
  BY NextCases, BucketyPassMoves, AccessPassMoves, OutsideStep
     DEF BMoves, AMoves, OutsideMoves, TypeInv, TypeOK, Buckety
<1>2. Ours(bky.sa) \/ bpc = "createSA"
  BY <1>1, OursFrom
<1>3. Ours(bky.sa) => bpc # "release" /\ bky.phase # "gone"
  BY <1>1 DEF LeftInv
<1>4. CASE BucketyPass
  <2>1. BMoves
    BY <1>4, BucketyPassMoves
  <2>2. bpc' = "release"
    BY <1>2, <1>3, <2>1 DEF BMoves, PhaseInv
  <2>3. bpc # "idle" /\ bsa = bky.sa
    BY <1>1, <2>1, <2>2 DEF BMoves, NameInv
  <2>4. \/ bpc = "getForDelete" /\ ~Ours(bsa) /\ UNCHANGED acct
        \/ bpc = "rmSA" /\ Deleted(bsa)
    BY <1>1, <1>4, <2>2, TeardownFrom
  <2>5. bpc = "rmSA" /\ Deleted(bsa)
    BY <1>2, <2>3, <2>4
  <2>6. ~LiveAccount(bsa) \/ acct'[bsa].state = "reserved"
    BY <1>1, <2>3, <2>5, DeletedMoves DEF TypeInv
  <2>. QED BY <1>1, <1>2, <2>3, <2>5, <2>6 DEF Ours
<1>5. CASE AccessPass
  BY <1>2, <1>3, <1>5, AccessPassMoves DEF AMoves, PhaseInv
<1>6. CASE Outside
  BY <1>2, <1>3, <1>6, OutsideStep DEF OutsideMoves, PhaseInv
<1>. QED BY <1>4, <1>5, <1>6, NextCases

LEMMA BlockNext ==
    ASSUME TypeInv, IdentityInv, PhaseInv, BlockInv, [Next]_vars
    PROVE  BlockInv'
<1>1. CASE BucketyPass
  <2>1. BMoves /\ UNCHANGED <<access, apc, late>>
    BY <1>1, BucketyPassMoves
  <2>2. bpc' \in Teardown \ {"list"} =>
            \/ bpc \in Teardown \ {"list"}
            \/ bpc = "list" /\ access.phase \notin {"live", "deleting"}
    BY <1>1, TeardownFrom
  <2>3. bky'.phase = "gone" => bky.phase = "gone" \/ bpc \in Teardown \ {"list"}
    BY <2>1 DEF BMoves, Teardown
  <2>. QED BY <2>1, <2>2, <2>3 DEF BlockInv
<1>2. CASE AccessPass
  <2>1. AMoves
    BY <1>2, AccessPassMoves
  <2>2. access'.phase = "gone" => apc' = "idle"
    BY <2>1 DEF AMoves, BlockInv
  <2>3. apc' = "revoke" => access'.phase = "deleting"
    BY <2>1 DEF AMoves, BlockInv
  <2>4. access'.phase \in {"live", "deleting"} => access.phase = access'.phase
    BY <2>1 DEF AMoves
  <2>. QED BY <2>1, <2>2, <2>3, <2>4 DEF AMoves, BlockInv
<1>3. CASE Outside
  BY <1>3, OutsideStep DEF OutsideMoves, BlockInv, PhaseInv, Teardown
<1>. QED BY <1>1, <1>2, <1>3, NextCases

LEMMA LeftIsNothing ==
    ASSUME KeyInv, NameInv, LeftInv
    PROVE  NothingLeft
<1>. SUFFICES ASSUME bky.phase = "gone", bky.policy = "Delete", ~renamed
              PROVE  (LiveAccount(bky.sa) => ~acct[bky.sa].ours) /\ keys = {}
  BY DEF NothingLeft
<1>1. ~Ours(bky.sa)
  BY DEF LeftInv
<1>2. \A e \in Email : ~Ours(e)
  BY <1>1 DEF NameInv
<1>. QED BY <1>1, <1>2 DEF KeyInv, Ours

\* The live keys that status.principal does not name.
Unrecorded == keys \ {access.key}

\* A step adds one at most, and only when a call of it fails.
LEMMA FewerUnrecorded ==
    ASSUME TypeInv, IsFiniteSet(keys), Cardinality(Unrecorded) <= faults,
           Unrecorded' \subseteq Unrecorded, faults' \in Nat, faults <= faults'
    PROVE  Cardinality(Unrecorded') <= faults'
<1>1. IsFiniteSet(Unrecorded)
  BY FS_Subset DEF Unrecorded
<1>2. IsFiniteSet(Unrecorded') /\ Cardinality(Unrecorded') <= Cardinality(Unrecorded)
  BY <1>1, FS_Subset
<1>3. Cardinality(Unrecorded) \in Nat /\ Cardinality(Unrecorded') \in Nat
  BY <1>1, <1>2, FS_CardinalityType
<1>4. faults \in Nat
  BY Bounds DEF TypeInv, TypeOK
<1>. QED BY <1>2, <1>3, <1>4

LEMMA OneMoreUnrecorded ==
    ASSUME TypeInv, IsFiniteSet(keys), Cardinality(Unrecorded) <= faults,
           NEW k, Unrecorded' \subseteq Unrecorded \cup {k}, faults' = faults + 1
    PROVE  Cardinality(Unrecorded') <= faults'
<1>1. IsFiniteSet(Unrecorded)
  BY FS_Subset DEF Unrecorded
<1>2. /\ IsFiniteSet(Unrecorded \cup {k})
      /\ Cardinality(Unrecorded \cup {k}) = Cardinality(Unrecorded)
         \/ Cardinality(Unrecorded \cup {k}) = Cardinality(Unrecorded) + 1
  BY <1>1, FS_AddElement
<1>3. IsFiniteSet(Unrecorded') /\ Cardinality(Unrecorded') <= Cardinality(Unrecorded \cup {k})
  BY <1>2, FS_Subset
<1>4. Cardinality(Unrecorded) \in Nat /\ Cardinality(Unrecorded') \in Nat
  BY <1>1, <1>3, FS_CardinalityType
<1>5. faults \in Nat
  BY Bounds DEF TypeInv, TypeOK
<1>. QED BY <1>2, <1>3, <1>4, <1>5

LEMMA PaidNext ==
    ASSUME TypeInv, IsFiniteSet(keys), Cardinality(Unrecorded) <= faults, [Next]_vars
    PROVE  IsFiniteSet(keys') /\ Cardinality(Unrecorded') <= faults'
<1>1. IsFiniteSet(keys')
  <2>1. IsFiniteSet(keys \cup {KeyMinted})
    BY FS_AddElement
  <2>. QED BY <2>1, KeysMove, FS_Subset
<1>t. TypeOK /\ faults \in Nat
  BY Bounds DEF TypeInv, TypeOK
<1>f. (Fault \/ NoFault) => (faults' \in Nat /\ faults <= faults')
  BY <1>t DEF Fault, NoFault
<1>2. CASE Mint
  <2>1. PICK k \in {KeyMinted, [id |-> minted', of |-> acct[asa].of, email |-> asa]} :
            \/ /\ NoFault /\ keys' = (keys \cup {k}) \ {access.key}
               /\ access' = [access EXCEPT !.key = k]
            \/ Fault /\ keys' = keys \cup {k} /\ UNCHANGED access
            \/ (Fault \/ NoFault) /\ UNCHANGED <<keys, access>>
    BY <1>2 DEF Mint
  <2>2. CASE NoFault /\ keys' = (keys \cup {k}) \ {access.key} /\ access' = [access EXCEPT !.key = k]
    <3>1. access'.key = k
      BY <1>t, <2>2 DEF TypeOK
    <3>2. Unrecorded' \subseteq Unrecorded
      BY <2>2, <3>1 DEF Unrecorded
    <3>. QED BY <1>1, <1>f, <2>2, <3>2, FewerUnrecorded
  <2>3. CASE Fault /\ keys' = keys \cup {k} /\ UNCHANGED access
    <3>1. Unrecorded' \subseteq Unrecorded \cup {k} /\ faults' = faults + 1
      BY <2>3 DEF Unrecorded, Fault
    <3>. QED BY <1>1, <3>1, OneMoreUnrecorded
  <2>4. CASE (Fault \/ NoFault) /\ UNCHANGED <<keys, access>>
    <3>1. Unrecorded' \subseteq Unrecorded
      BY <2>4 DEF Unrecorded
    <3>. QED BY <1>1, <1>f, <2>4, <3>1, FewerUnrecorded
  <2>. QED BY <2>1, <2>2, <2>3, <2>4
<1>3. CASE ~Mint
  <2>1. keys' \subseteq keys
    BY <1>3, KeysMove
  <2>2. access'.key = access.key /\ faults' \in Nat /\ faults <= faults'
    <3>1. CASE BucketyPass
      <4>1. UNCHANGED access
        BY <3>1, BucketyPassMoves
      <4>2. (Fault \/ NoFault)
        BY <3>1 DEF BucketyPass, StartBuckety, EnsureBucket, GetAccount, CreateAccount,
           RefetchAccount, ReadPolicy, SetPolicy, ListAccesses, RemoveBucket, GetForDelete,
           RemoveAccount, Release, NoFault
      <4>. QED BY <1>f, <4>1, <4>2
    <3>2. CASE AccessPass
      <4>1. UNCHANGED access \/ access' = [access EXCEPT !.phase = "gone"]
        BY <1>3, <3>2 DEF AccessPass, StartAccess, GetForMint, Revoke
      <4>2. access'.key = access.key
        BY <1>t, <4>1 DEF TypeOK
      <4>3. (Fault \/ NoFault)
        BY <1>3, <3>2 DEF AccessPass, StartAccess, GetForMint, Revoke, NoFault
      <4>. QED BY <1>f, <4>2, <4>3
    <3>3. CASE Outside
      BY <1>t, <3>3, OutsideStep DEF OutsideMoves
    <3>. QED BY <3>1, <3>2, <3>3, NextCases
  <2>3. Unrecorded' \subseteq Unrecorded
    BY <2>1, <2>2 DEF Unrecorded
  <2>. QED BY <1>1, <2>2, <2>3, FewerUnrecorded
<1>. QED BY <1>2, <1>3

LEMMA KeyGoesNext ==
    ASSUME Inv, [Next]_vars
    PROVE  KeyGoesWithAccess'
<1>p. Cardinality(Unrecorded') <= faults'
  BY PaidNext DEF Inv, KeyGoesWithAccess, Unrecorded
<1>. SUFFICES ASSUME access'.phase = "gone", ~renamed', bky'.policy = "Delete" \/ ~late'
              PROVE  access'.key \notin keys'
  BY <1>p DEF KeyGoesWithAccess, Unrecorded
<1>t. TypeInv /\ IdentityInv /\ PhaseInv /\ BlockInv /\ KeyGoesWithAccess /\ NothingLeft
  BY LeftIsNothing DEF Inv
<1>k. apc # "mint" => keys' \subseteq keys
  BY <1>t, KeysMove
<1>1. CASE BucketyPass
  <2>1. BMoves /\ UNCHANGED <<access, late, renamed>>
    BY <1>t, <1>1, BucketyPassMoves
  <2>2. access.key \notin keys /\ apc = "idle"
    BY <1>t, <2>1 DEF BMoves, KeyGoesWithAccess, BlockInv
  <2>. QED BY <1>k, <2>1, <2>2
<1>2. CASE AccessPass
  <2>1. AMoves
    BY <1>t, <1>2, AccessPassMoves
  <2>2. UNCHANGED <<bky, late, renamed>>
    BY <2>1 DEF AMoves
  <2>3. access.phase = "gone" => apc = "idle"
    BY <1>t DEF BlockInv
  <2>4. apc = "revoke" => access.phase = "deleting"
    BY <1>t DEF BlockInv
  <2>5. \/ /\ apc = "idle" /\ UNCHANGED keys /\ cached.phase = "gone"
           /\ access.phase = "deleting" /\ access'.key = access.key
        \/ access.key \notin keys' /\ access'.key = access.key
    BY <2>1, <2>3, <2>4 DEF AMoves
  <2>6. CASE cached.phase = "gone" /\ access.phase = "deleting"
    <3>1. bky.phase = "gone"
      BY <1>t, <2>6 DEF PhaseInv
    <3>2. late
      BY <1>t, <2>6, <3>1 DEF BlockInv
    <3>3. keys = {}
      BY <1>t, <2>2, <3>1, <3>2 DEF NothingLeft
    <3>. QED BY <2>5, <3>3
  <2>. QED BY <2>5, <2>6
<1>3. CASE Outside
  <2>1. OutsideMoves
    BY <1>t, <1>3, OutsideStep
  <2>2. /\ access.phase = "gone" /\ ~renamed /\ bky.policy = bky'.policy /\ UNCHANGED late
        /\ access'.key = access.key
    BY <2>1 DEF OutsideMoves
  <2>3. access.key \notin keys /\ apc = "idle"
    BY <1>t, <2>2 DEF KeyGoesWithAccess, BlockInv
  <2>. QED BY <1>k, <2>2, <2>3
<1>. QED BY <1>1, <1>2, <1>3, NextCases

-----------------------------------------------------------------------------
(* The theorems. *)

LEMMA InvInit == Init => Inv
<1>. SUFFICES ASSUME Init PROVE Inv
  OBVIOUS
<1>e. (CHOOSE e \in Email : TRUE) \in Email
  BY ConstantsAssumption
<1>b. bky \in Buckety /\ bky.phase = "live" /\ cached = bky
  BY <1>e DEF Init, Buckety
<1>a. /\ acct \in [Email -> Account] /\ \A e \in Email : acct[e].state = "none"
  BY DEF Init, NoAccount, Account
<1>c. /\ bucket \in [exists : BOOLEAN, bound : SUBSET Identity]
      /\ access \in [phase : {"none", "live", "deleting", "gone"}, key : Key \cup {NoKey}]
      /\ access.phase = "none"
  BY DEF Init
<1>d. /\ identities \in 0..MaxIdentity /\ minted \in 0..MaxKey
      /\ edits \in 0..MaxEdits /\ faults \in 0..MaxFaults
  BY Bounds DEF Init
<1>1. TypeInv
  BY <1>a, <1>b, <1>c, <1>d DEF Init, TypeInv, TypeOK
<1>2. IdentityInv /\ \A e \in Email : ~Ours(e)
  BY <1>a DEF IdentityInv, LiveAccount, Ours
<1>3. CheckedInv /\ KeyInv
  BY DEF Init, CheckedInv, KeyInv
<1>4. PhaseInv
  BY <1>b DEF Init, PhaseInv, Teardown
<1>5. NameInv
  BY <1>b, <1>2 DEF Init, NameInv
<1>6. LeftInv
  BY <1>b DEF Init, LeftInv
<1>7. IsFiniteSet(keys) /\ Cardinality(keys \ {access.key}) <= faults
  <2>1. keys = {} /\ keys \ {access.key} = {} /\ faults = 0
    BY DEF Init
  <2>. QED BY <2>1, FS_EmptySet
<1>8. BlockInv /\ KeyGoesWithAccess
  BY <1>c, <1>7 DEF Init, BlockInv, KeyGoesWithAccess
<1>. QED BY <1>1, <1>2, <1>3, <1>4, <1>5, <1>6, <1>7, <1>8 DEF Inv

LEMMA InvNext == Inv /\ [Next]_vars => Inv'
<1>. SUFFICES ASSUME Inv, [Next]_vars PROVE Inv'
  OBVIOUS
<1>1. /\ TypeInv /\ IdentityInv /\ CheckedInv /\ KeyInv /\ PhaseInv /\ NameInv /\ LeftInv /\ BlockInv
  BY DEF Inv
<1>2. TypeInv' /\ IdentityInv' /\ CheckedInv' /\ KeyInv'
  BY <1>1, TypeNext, IdentityNext, CheckedNext, KeyNext
<1>3. PhaseInv' /\ NameInv' /\ LeftInv' /\ BlockInv'
  BY <1>1, PhaseNext, NameNext, LeftNext, BlockNext
<1>4. KeyGoesWithAccess' /\ IsFiniteSet(keys)'
  BY <1>1, KeyGoesNext, PaidNext DEF Inv, KeyGoesWithAccess, Unrecorded
<1>. QED BY <1>2, <1>3, <1>4 DEF Inv

\* The state the two controllers, IAM and the bucket share stays well typed
\* through every interleaving of their calls.
THEOREM TypeCorrect == Spec => []TypeOK
<1>1. Inv => TypeOK
  BY DEF Inv, TypeInv
<1>. QED BY InvInit, InvNext, <1>1, PTL DEF Spec

\* The teardown deletes the account after its bucket and before its
\* finalizer: a Buckety that left with its bucket left no account of its own,
\* and no live key of one, not even a key a crash kept from being recorded.
THEOREM TeardownLeavesNothing == Spec => []NothingLeft
<1>1. Inv => NothingLeft
  BY LeftIsNothing DEF Inv
<1>. QED BY InvInit, InvNext, <1>1, PTL DEF Spec

\* The key that status.principal records goes with its access: RevokeAccess
\* runs before the finalizer goes, and where it is skipped because the Buckety
\* is gone, the account has taken the key with it or the live list of accesses
\* kept the Buckety.  (Not so after a change of parameters.serviceAccount, nor
\* for an access created after a retained Buckety was told to go.)  The theorem
\* does not say that no other key survives the access: a failed call leaves one
\* that status.principal never names; it says that there are no more of those
\* than calls that failed.
THEOREM AccessTakesItsKey == Spec => []KeyGoesWithAccess
<1>1. Inv => KeyGoesWithAccess
  BY DEF Inv
<1>. QED BY InvInit, InvNext, <1>1, PTL DEF Spec

LEMMA ForeignStep ==
    ASSUME Inv, BucketyPass \/ AccessPass, [Next]_vars, NEW e \in Email, LiveAccount(e), ~acct[e].ours
    PROVE  /\ acct'[e] = acct[e]
           /\ acct[e].of \in bucket'.bound => acct[e].of \in bucket.bound
           /\ \A k \in keys' \ keys : k.of # acct[e].of
<1>t. /\ TypeInv /\ TypeOK /\ IdentityInv /\ CheckedInv
  BY DEF Inv, TypeInv
<1>1. acct'[e] = acct[e]
  <2>1. CASE AccessPass
    BY <2>1 DEF AccessPass, StartAccess, GetForMint, Mint, Revoke, AFrame
  <2>2. CASE CreateAccount
    <3>1. UNCHANGED acct \/ (acct[bsa].state = "none" /\ Created(bsa))
      BY <2>2 DEF CreateAccount
    <3>2. bsa # e \/ UNCHANGED acct
      BY <3>1 DEF LiveAccount
    <3>. QED BY <1>t, <3>1, <3>2 DEF Created, TypeOK
  <2>3. CASE RemoveAccount
    <3>1. bsa \in Email /\ Checked(bsa) /\ (UNCHANGED acct \/ Deleted(bsa))
      BY <1>t, <2>3 DEF RemoveAccount, CheckedInv, TypeInv
    <3>2. e # bsa
      BY <3>1 DEF Checked, Ours, LiveAccount
    <3>. QED BY <1>t, <3>1, <3>2, DeletedMoves
  <2>4. CASE BucketyPass /\ ~CreateAccount /\ ~RemoveAccount
    BY <2>4 DEF BucketyPass, StartBuckety, EnsureBucket, GetAccount, RefetchAccount,
       ReadPolicy, SetPolicy, ListAccesses, RemoveBucket, GetForDelete, Release
  <2>. QED BY <2>1, <2>2, <2>3, <2>4
<1>2. acct[e].of \in bucket'.bound => acct[e].of \in bucket.bound
  <2>0. bucket \in BucketType
    BY <1>t DEF TypeOK, BucketType
  <2>1. CASE AccessPass
    BY <2>1 DEF AccessPass, StartAccess, GetForMint, Mint, Revoke, AFrame
  <2>2. CASE EnsureBucket \/ RemoveBucket
    <3>1. /\ [bucket EXCEPT !.exists = TRUE].bound = bucket.bound
          /\ [exists |-> FALSE, bound |-> {}].bound = {}
      BY <2>0 DEF BucketType
    <3>2. bucket' \in {bucket, [bucket EXCEPT !.exists = TRUE], [exists |-> FALSE, bound |-> {}]}
      BY <2>2 DEF EnsureBucket, RemoveBucket
    <3>. QED BY <3>1, <3>2
  <2>3. CASE SetPolicy
    <3>1. CASE UNCHANGED bucket
      BY <3>1
    <3>2. CASE /\ policy = bucket.bound /\ LiveAccount(bsa)
               /\ bucket' = [bucket EXCEPT !.bound = policy \cup {acct[bsa].of}]
      <4>1. bsa \in Email /\ Checked(bsa)
        BY <1>t, <2>3 DEF SetPolicy, CheckedInv, TypeInv
      <4>2. bsa # e
        BY <3>2, <4>1 DEF Checked, Ours, LiveAccount
      <4>3. acct[bsa].of # acct[e].of
        BY <1>t, <3>2, <4>1, <4>2 DEF IdentityInv
      <4>4. bucket'.bound = bucket.bound \cup {acct[bsa].of}
        BY <2>0, <3>2 DEF BucketType
      <4>. QED BY <4>3, <4>4
    <3>. QED BY <2>3, <3>1, <3>2 DEF SetPolicy
  <2>4. CASE BucketyPass /\ ~EnsureBucket /\ ~RemoveBucket /\ ~SetPolicy
    BY <2>4 DEF BucketyPass, StartBuckety, GetAccount, CreateAccount, RefetchAccount,
       ReadPolicy, ListAccesses, GetForDelete, RemoveAccount, Release
  <2>. QED BY <2>1, <2>2, <2>3, <2>4
<1>3. ASSUME NEW k \in keys' \ keys PROVE k.of # acct[e].of
  <2>1. apc = "mint" /\ LiveAccount(asa) /\ k = KeyMinted
    BY <1>t, <1>3, KeysMove
  <2>2. asa \in Email /\ Ours(asa) /\ k.of = acct[asa].of
    BY <1>t, <2>1 DEF CheckedInv, Checked, TypeInv, KeyMinted, LiveAccount, Ours
  <2>3. asa # e
    BY <2>2 DEF Ours
  <2>. QED BY <1>t, <2>1, <2>2, <2>3 DEF IdentityInv
<1>. QED BY <1>1, <1>2, <1>3

\* verifySAMarker is checked before every call that deletes an account, binds
\* it or mints a key of it, and the reservation of a deleted name keeps the
\* check good until the call: no pass of either controller touches an account
\* that somebody else made.
THEOREM ForeignAccountsUntouched == Spec => ForeignUntouched
<1>. DEFINE A == (BucketyPass \/ AccessPass) =>
        \A e \in Email : (LiveAccount(e) /\ ~acct[e].ours) =>
            /\ acct'[e] = acct[e]
            /\ acct[e].of \in bucket'.bound => acct[e].of \in bucket.bound
            /\ \A k \in keys' \ keys : k.of # acct[e].of
<1>1. Inv /\ [Next]_vars => A
  BY ForeignStep
<1>2. Inv /\ [Next]_vars => [A]_vars
  BY <1>1
<1>. QED BY InvInit, InvNext, <1>2, PTL DEF Spec, ForeignUntouched
==============================================================================

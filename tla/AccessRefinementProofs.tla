------------------------ MODULE AccessRefinementProofs ------------------------
(***************************************************************************)
(* AccessReconciler implements Credential, for every set of accesses,      *)
(* Secrets and keys: each step is a step of Credential or changes nothing  *)
(* it speaks of.                                                           *)
(***************************************************************************)
EXTENDS AccessReconcilerProofs

Handed == [a \in Access |-> Delivered(a)]

-----------------------------------------------------------------------------
(* Steps of Credential in terms of the reconciler's variables. *)

LEMMA Stutters ==
    ASSUME UNCHANGED <<holder, live>>, \A a \in Access : Delivered(a)' = Delivered(a)
    PROVE  UNCHANGED Credentials!vars
BY DEF Credentials!vars

\* Where at most one access loses its key, that is Withdraw or nothing.
LEMMA Withdraws ==
    ASSUME UNCHANGED <<holder, live>>, NEW b \in Access,
           \A a \in Access \ {b} : Delivered(a)' = Delivered(a),
           Delivered(b)' \in {Delivered(b), ""}
    PROVE  [Credentials!Next]_(Credentials!vars)
<1>1. CASE Delivered(b)' = Delivered(b)
  BY <1>1, Stutters
<1>2. CASE Delivered(b)' = ""
  <2>1. Handed' = [Handed EXCEPT ![b] = ""]
    BY <1>2 DEF Handed
  <2>2. Credentials!Withdraw(b)
    BY <2>1 DEF Credentials!Withdraw, Handed
  <2>. QED BY <2>2 DEF Credentials!Next
<1>. QED BY <1>1, <1>2

LEMMA Revokes ==
    ASSUME UNCHANGED holder, TypeInv, NEW k, UNCHANGED live \/ live' = live \ {k},
           \A a \in Access : Delivered(a)' = Delivered(a),
           k \in Key => \A a \in Access : Delivered(a) # k
    PROVE  [Credentials!Next]_(Credentials!vars)
<1>1. CASE UNCHANGED live
  BY <1>1, Stutters
<1>2. CASE k \in Key /\ live' = live \ {k}
  <2>1. Credentials!Revoke(k)
    BY <1>2 DEF Credentials!Revoke
  <2>. QED BY <1>2, <2>1 DEF Credentials!Next
<1>3. CASE k \notin Key /\ live' = live \ {k}
  <2>1. live' = live
    BY <1>3 DEF TypeInv, TypeOK
  <2>. QED BY <1>1, <2>1
<1>. QED BY <1>1, <1>2, <1>3

-----------------------------------------------------------------------------
(* What a step does to the key a consumer can read. *)

\* One Secret or one object changes in a step, never two.
LEMMA OneObject ==
    TypeInv /\ [Next]_vars =>
        \/ UNCHANGED obj
        \/ /\ UNCHANGED <<secret, live, holder>>
           /\ \E b \in Access : \A a \in Access \ {b} : obj'[a] = obj[a]
<1>. SUFFICES ASSUME TypeInv, [Next]_vars, obj' # obj
              PROVE  /\ UNCHANGED <<secret, live, holder>>
                     /\ \E b \in Access : \A a \in Access \ {b} : obj'[a] = obj[a]
  OBVIOUS
<1>0. obj \in [Access -> Object] /\ (pc # "idle" => cur \in Access)
  BY DEF TypeInv, TypeOK
<1>1. CASE ReportStatus \/ AddFinalizer \/ ReleaseFinalizer \/ Commit
  <2>1. UNCHANGED <<secret, live, holder>> /\ cur \in Access
    BY <1>0, <1>1 DEF ReportStatus, AddFinalizer, ReleaseFinalizer, Commit, backend
  <2>2. \A a \in Access \ {cur} : obj'[a] = obj[a]
    BY <1>0, <1>1, <2>1 DEF ReportStatus, AddFinalizer, ReleaseFinalizer, Commit, PatchStatus
  <2>. QED BY <2>1, <2>2
<1>2. ASSUME NEW b \in Access, UserCreates(b) \/ UserEdits(b) \/ UserDeletes(b)
      PROVE  /\ UNCHANGED <<secret, live, holder>>
             /\ \A a \in Access \ {b} : obj'[a] = obj[a]
  BY <1>0, <1>2 DEF UserCreates, UserEdits, UserDeletes, backend
<1>3. UNCHANGED vars => UNCHANGED obj
  BY DEF vars
<1>4. (DeleteRevoke \/ ReadSecret \/ GrantAccess \/ WriteSecret \/ Unmint \/ RevokeOld)
        => UNCHANGED obj
  BY DEF DeleteRevoke, ReadSecret, GrantAccess, WriteSecret, Unmint, RevokeOld
<1>5. ASSUME NEW a \in Access, BeginPass(a) \/ ForgetPass(a) \/ Sync(a) PROVE UNCHANGED obj
  BY <1>5 DEF BeginPass, ForgetPass, Sync
<1>6. ASSUME NEW s \in Secret, SecretChanges(s) \/ CollectSecret(s) PROVE UNCHANGED obj
  BY <1>6 DEF SecretChanges, CollectSecret
<1>7. ASSUME NEW k \in Key, KeyExpires(k) PROVE UNCHANGED obj
  BY <1>7 DEF KeyExpires
<1>8. BucketyChanges \/ Restart => UNCHANGED obj
  BY DEF BucketyChanges, Restart
<1>. QED
  BY <1>1, <1>2, <1>3, <1>4, <1>5, <1>6, <1>7, <1>8 DEF Next, PassStep, UserStep

LEMMA SameDelivery ==
    ASSUME NEW a \in Access, obj'[a] = obj[a], secret'[SecretOf[a]] = secret[SecretOf[a]]
    PROVE  Delivered(a)' = Delivered(a)
BY DEF Delivered

\* An access that comes into being or leaves is handed nothing new.
LEMMA ObjectSteps ==
    ASSUME Inv, ObjectsMove, UNCHANGED <<secret, live, holder>>,
           NEW b \in Access, \A a \in Access \ {b} : obj'[a] = obj[a]
    PROVE  [Credentials!Next]_(Credentials!vars)
<1>1. \A a \in Access \ {b} : Delivered(a)' = Delivered(a)
  BY SameDelivery
<1>2. SecretOf[b] \in Secret
  BY ConstantsAssumption
<1>3. secret[SecretOf[b]].owner = b /\ obj'[b].phase = "live" => obj[b].phase = "live"
  BY <1>2 DEF Inv, PhaseInv, ObjectsMove
<1>4. Delivered(b)' \in {Delivered(b), ""}
  BY <1>3 DEF Delivered
<1>. QED BY <1>1, <1>4, Withdraws

\* Changes to a Secret by others take a key away from its owner at most.
LEMMA SecretSteps ==
    ASSUME Inv, NEW s \in Secret, SecretChanges(s) \/ CollectSecret(s)
    PROVE  [Credentials!Next]_(Credentials!vars)
<1>1. UNCHANGED <<obj, live, holder>>
  BY DEF SecretChanges, CollectSecret, backend
<1>2. secret \in [Secret -> SecretObject] /\ \A a \in Access : SecretOf[a] \in Secret
  BY ConstantsAssumption DEF Inv, TypeInv, TypeOK
<1>3. Environment
  BY DEF Environment, UserStep
<1>4. /\ \A x \in Secret \ {s} : secret'[x] = secret[x]
      /\ secret'[s] = secret[s] \/ secret'[s].key \notin Key
  <2>1. \A x \in Secret \ {s} : secret'[x] = secret[x]
    BY <1>2 DEF SecretChanges, CollectSecret
  <2>2. EnvironmentMoves
    BY <1>3, EnvironmentStep DEF Inv
  <2>. QED BY <2>1, <2>2 DEF EnvironmentMoves
<1>5. ASSUME NEW a \in Access, a # secret[s].owner PROVE Delivered(a)' = Delivered(a)
  <2>1. CASE SecretOf[a] # s
    BY <1>1, <1>2, <1>4, <2>1, SameDelivery
  <2>2. CASE SecretOf[a] = s
    <3>1. Delivered(a) = ""
      BY <1>5, <2>2 DEF Delivered
    <3>2. Delivered(a)' = ""
      BY <1>4, <1>5, <2>2 DEF Delivered
    <3>. QED BY <3>1, <3>2
  <2>. QED BY <2>1, <2>2
<1>6. CASE secret[s].owner \in Access
  <2>0. PICK b \in Access : b = secret[s].owner
    BY <1>6
  <2>1. Delivered(b)' \in {Delivered(b), ""}
    <3>1. CASE secret'[SecretOf[b]] = secret[SecretOf[b]]
      BY <1>1, <3>1, SameDelivery
    <3>2. CASE secret'[SecretOf[b]].key \notin Key
      BY <3>2 DEF Delivered
    <3>. QED BY <1>2, <1>4, <3>1, <3>2
  <2>. QED BY <1>1, <1>5, <2>0, <2>1, Withdraws
<1>7. CASE secret[s].owner \notin Access
  BY <1>1, <1>5, <1>7, Stutters
<1>. QED BY <1>6, <1>7

\* The one step that hands a key over: it is the one in the GrantResult.
LEMMA WriteSteps ==
    ASSUME "lostReply" \notin Env, Inv, WriteSecret
    PROVE  [Credentials!Next]_(Credentials!vars)
<1>1. /\ UNCHANGED <<obj, live, holder>> /\ pc = "writeSecret" /\ cur \in Access
      /\ secret \in [Secret -> SecretObject] /\ \A a \in Access : SecretOf[a] \in Secret
  BY ConstantsAssumption DEF WriteSecret, backend, Inv, TypeInv, TypeOK
<1>2. CASE UNCHANGED secret
  BY <1>1, <1>2, SameDelivery, Stutters
<1>3. CASE WriteSucceeds /\ ~SkipsWrite /\ secret' = [secret EXCEPT ![SecretOf[cur]] = Desired]
  <2>1. secret[SecretOf[cur]].owner \in {"", cur}
    BY <1>1, <1>3 DEF WriteSucceeds, SkipsWrite, Inv, PassInv, NoSecret
  <2>0. PICK c \in Access : c = cur
    BY <1>1
  <2>2. secret'[SecretOf[cur]] = Desired /\ Desired.owner = cur /\ Desired.key = res.principal
    BY <1>1, <1>3 DEF Desired
  <2>3. ASSUME NEW a \in Access \ {c} PROVE Delivered(a)' = Delivered(a)
    <3>1. CASE SecretOf[a] # SecretOf[cur]
      <4>1. secret'[SecretOf[a]] = secret[SecretOf[a]]
        BY <1>1, <1>3, <2>0, <3>1
      <4>. QED BY <1>1, <4>1, SameDelivery
    <3>2. CASE SecretOf[a] = SecretOf[cur]
      <4>1. Delivered(a) = ""
        BY <2>0, <2>1, <3>2, ConstantsAssumption DEF Delivered
      <4>2. Delivered(a)' = ""
        BY <2>0, <2>2, <3>2 DEF Delivered
      <4>. QED BY <4>1, <4>2
    <3>. QED BY <3>1, <3>2
  <2>4. CASE obj[cur].phase = "live" /\ res.principal \in Key
    <3>1. res.principal \in live /\ holder[res.principal] = cur
      BY <1>1, <2>4 DEF Inv, GrantInv, HolderInv
    <3>2. Delivered(c)' = res.principal
      BY <1>1, <2>0, <2>2, <2>4 DEF Delivered
    <3>0. PICK k \in Key : k = res.principal
      BY <2>4
    <3>3. Handed' = [Handed EXCEPT ![c] = k]
      BY <2>3, <3>0, <3>2 DEF Handed
    <3>4. Credentials!Deliver(k, c)
      BY <1>1, <2>0, <3>0, <3>1, <3>3 DEF Credentials!Deliver, Handed
    <3>. QED BY <3>4 DEF Credentials!Next
  <2>5. CASE ~(obj[cur].phase = "live" /\ res.principal \in Key)
    <3>1. Delivered(c)' = ""
      BY <1>1, <2>0, <2>2, <2>5 DEF Delivered
    <3>. QED BY <1>1, <2>3, <3>1, Withdraws
  <2>. QED BY <2>4, <2>5
<1>. QED BY <1>2, <1>3 DEF WriteSecret, WriteApplied, Fault

LEMMA GrantSteps ==
    ASSUME Inv, GrantAccess
    PROVE  [Credentials!Next]_(Credentials!vars)
<1>1. UNCHANGED <<obj, secret>> /\ cur \in Access
  BY DEF GrantAccess, Inv, TypeInv
<1>2. \A a \in Access : Delivered(a)' = Delivered(a)
  BY <1>1, SameDelivery
<1>3. CASE UNCHANGED backend
  BY <1>2, <1>3, Stutters DEF backend
<1>4. CASE \E k \in Fresh : Mint(k)
  <2>1. PICK k \in Fresh : Mint(k)
    BY <1>4
  <2>2. k \in Key /\ holder[k] = ""
    BY DEF Fresh
  <2>3. Credentials!Issue(k, cur)
    BY <1>2, <2>1, <2>2 DEF Credentials!Issue, Mint
  <2>. QED BY <1>1, <2>2, <2>3 DEF Credentials!Next
<1>. QED BY <1>3, <1>4 DEF GrantAccess, backend

\* No call of RevokeAccess names a key that a consumer reads.
LEMMA RevokeSteps ==
    ASSUME Inv, DeleteRevoke \/ Unmint \/ RevokeOld
    PROVE  [Credentials!Next]_(Credentials!vars)
<1>1. /\ UNCHANGED <<obj, secret, holder>> /\ TypeInv /\ cur \in Access
      /\ \A a \in Access : SecretOf[a] \in Secret
  BY ConstantsAssumption DEF DeleteRevoke, Unmint, RevokeOld, Inv, TypeInv
<1>2. \A a \in Access : Delivered(a)' = Delivered(a)
  BY <1>1, SameDelivery
<1>3. CASE DeleteRevoke
  <2>1. pc = "deleteRevoke" /\ (UNCHANGED live \/ live' = live \ {snap.principal})
    BY <1>3 DEF DeleteRevoke, RevokeAccess
  <2>2. obj[cur].phase # "live"
    BY <2>1 DEF Inv, PhaseInv
  <2>3. snap.principal \in Key => \A a \in Access : Delivered(a) # snap.principal
    BY <1>1, <2>1, <2>2, ConstantsAssumption DEF Inv, HolderInv, Delivered
  <2>. QED BY <1>1, <1>2, <2>1, <2>3, Revokes
<1>4. CASE Unmint
  <2>1. pc = "unmint" /\ (UNCHANGED live \/ live' = live \ {res.principal})
    BY <1>4 DEF Unmint, RevokeAccess
  <2>2. res.principal \in Key => \A a \in Access : Delivered(a) # res.principal
    BY <1>1, <2>1, ConstantsAssumption DEF Inv, HolderInv, GrantInv, Delivered
  <2>. QED BY <1>1, <1>2, <2>1, <2>2, Revokes
<1>5. CASE RevokeOld
  <2>1. pc = "revokeOld" /\ (UNCHANGED live \/ live' = live \ {snap.principal})
    BY <1>5 DEF RevokeOld, RevokeAccess
  <2>2. snap.principal \in Key => \A a \in Access : Delivered(a) # snap.principal
    BY <1>1, <2>1, ConstantsAssumption DEF Inv, HolderInv, GrantInv, CarriesAtMost, Delivered
  <2>. QED BY <1>1, <1>2, <2>1, <2>2, Revokes
<1>. QED BY <1>3, <1>4, <1>5

-----------------------------------------------------------------------------
(* The refinement. *)

LEMMA RefinementInit == Init => Credentials!Init
<1>. SUFFICES ASSUME Init PROVE Credentials!Init
  OBVIOUS
<1>1. \A a \in Access : Delivered(a) = ""
  BY DEF Init, Delivered, NoObj
<1>. QED BY <1>1 DEF Init, Credentials!Init

LEMMA RefinementNext ==
    ASSUME "lostReply" \notin Env, Inv, [Next]_vars
    PROVE  [Credentials!Next]_(Credentials!vars)
<1>0. TypeInv /\ ObjectsMove
  BY ObjectsStep DEF Inv
<1>1. CASE obj' # obj
  <2>1. UNCHANGED <<secret, live, holder>>
    BY <1>0, <1>1, OneObject
  <2>2. PICK b \in Access : \A a \in Access \ {b} : obj'[a] = obj[a]
    BY <1>0, <1>1, OneObject
  <2>. QED BY <1>0, <2>1, <2>2, ObjectSteps
<1>2. CASE UNCHANGED <<obj, secret, live, holder>>
  BY <1>2, SameDelivery, Stutters
<1>3. ASSUME UNCHANGED obj,
             \/ ReportStatus \/ AddFinalizer \/ ReleaseFinalizer \/ Commit \/ ReadSecret
             \/ BucketyChanges \/ Restart \/ UNCHANGED vars
             \/ \E a \in Access : UserCreates(a) \/ UserEdits(a) \/ UserDeletes(a)
             \/ \E a \in Access : BeginPass(a) \/ ForgetPass(a) \/ Sync(a)
             \/ \E k \in Key : KeyExpires(k)
      PROVE  UNCHANGED <<secret, live, holder>>
  BY <1>3 DEF ReportStatus, AddFinalizer, ReleaseFinalizer, Commit, ReadSecret, BucketyChanges,
     Restart, vars, UserCreates, UserEdits, UserDeletes, BeginPass, ForgetPass, Sync,
     KeyExpires, backend
<1>. QED
  BY <1>1, <1>2, <1>3, WriteSteps, GrantSteps, RevokeSteps, SecretSteps
  DEF Next, PassStep, UserStep

\* Unless a Secret write is applied whose reply is lost, every behaviour of
\* the access controller is one of Credential, for any number of accesses,
\* Secrets, keys, restarts and other faults: consumers are handed only
\* working keys of their own, and none is revoked while it is read.
THEOREM AccessImplementsCredential ==
    "lostReply" \notin Env => (Spec => ImplementsCredential)
<1>. SUFFICES ASSUME "lostReply" \notin Env PROVE Spec => ImplementsCredential
  OBVIOUS
<1>1. Inv /\ [Next]_vars => Inv'
  BY InvNext
<1>2. Inv /\ [Next]_vars => [Credentials!Next]_(Credentials!vars)
  BY RefinementNext
<1>. QED
  BY <1>1, <1>2, InvInit, RefinementInit, PTL DEF Spec, ImplementsCredential, Credentials!Spec
===============================================================================

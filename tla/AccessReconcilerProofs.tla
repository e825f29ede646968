------------------------ MODULE AccessReconcilerProofs ------------------------
(***************************************************************************)
(* Proofs about AccessReconciler, for every set of accesses, Secrets and   *)
(* keys and every bound.                                                   *)
(***************************************************************************)
EXTENDS AccessReconciler, FiniteSetTheorems, TLAPS

\* TypeOK is not inductive alone: every call of a pass is about some access.
TypeInv == TypeOK /\ (pc # "idle" => cur \in Access)

-----------------------------------------------------------------------------
(* The operators the actions are built from. *)

LEMMA ConstantObjects ==
    /\ NoObj \in Object /\ NewObj \in Object
    /\ NoSecret \in SecretObject /\ NoGrant \in Grant
<1>1. MaxGen \in Nat /\ 0 \in 0..MaxGen /\ 1 \in 0..MaxGen
  BY BoundsAssumption
<1>2. NoObj \in Object
  BY <1>1 DEF NoObj, Object, Phase, Principal, Reason
<1>3. NewObj \in Object
  BY <1>1, <1>2 DEF NewObj, Object, Phase
<1>4. NoSecret \in SecretObject
  BY DEF NoSecret, SecretObject, Payload, Principal
<1>5. NoGrant \in Grant
  BY DEF NoGrant, Grant, Principal
<1>. QED BY <1>2, <1>3, <1>4, <1>5

\* A merge patch of objects is an object, and touches nothing but the status.
LEMMA MergePatchType ==
    ASSUME NEW current \in Object, NEW base \in Object, NEW new \in Object
    PROVE  /\ MergePatch(current, base, new) \in Object
           /\ MergePatch(current, base, new).phase = current.phase
           /\ MergePatch(current, base, new).fin = current.fin
           /\ MergePatch(current, base, new).gen = current.gen
           /\ MergePatch(current, base, new).principal =
                IF new.principal # base.principal THEN new.principal ELSE current.principal
BY DEF MergePatch, Object

\* patchStatus keeps the store well typed.
LEMMA PatchStatusType ==
    ASSUME TypeInv, pc # "idle", NEW new \in Object, PatchStatus(new)
    PROVE  obj' \in [Access -> Object]
<1>1. obj \in [Access -> Object] /\ cur \in Access /\ snap \in Object
  BY DEF TypeInv, TypeOK
<1>2. MergePatch(obj[cur], snap, new) \in Object
  BY <1>1, MergePatchType
<1>. QED BY <1>1, <1>2 DEF PatchStatus

LEMMA DoneType ==
    ASSUME Done
    PROVE  /\ pc' \in PC /\ pc' = "idle" /\ cur' = "" /\ snap' \in Object
           /\ read' \in SecretObject /\ res' \in Grant /\ why' \in Reason
BY ConstantObjects DEF Done, PC, Reason

LEMMA ObjectUpdates ==
    ASSUME NEW o \in Object, NEW p \in Phase, NEW b \in BOOLEAN
    PROVE  /\ [o EXCEPT !.phase = p] \in Object
           /\ [o EXCEPT !.phase = p, !.fin = b] \in Object
           /\ o.gen < MaxGen => [o EXCEPT !.gen = @ + 1] \in Object
<1>1. /\ [o EXCEPT !.phase = p] \in Object
      /\ [o EXCEPT !.phase = p, !.fin = b] \in Object
  BY DEF Object
<1>2. o.gen \in 0..MaxGen
  BY DEF Object
<1>3. o.gen < MaxGen => o.gen + 1 \in 0..MaxGen
  BY <1>2, BoundsAssumption
<1>4. o.gen < MaxGen => [o EXCEPT !.gen = @ + 1] \in Object
  BY <1>3 DEF Object
<1>. QED BY <1>1, <1>4

\* A step counts at most one fault.
LEMMA FaultsStep ==
    [Next]_vars => UNCHANGED faults \/ (faults < MaxFaults /\ faults' = faults + 1)
<1>1. PassStep => UNCHANGED faults \/ (faults < MaxFaults /\ faults' = faults + 1)
  BY DEF PassStep, ReportStatus, AddFinalizer, DeleteRevoke, ReleaseFinalizer, ReadSecret,
     GrantAccess, WriteSecret, Unmint, RevokeOld, Commit, Fault
<1>2. ASSUME NEW a \in Access, BeginPass(a)
      PROVE  UNCHANGED faults \/ (faults < MaxFaults /\ faults' = faults + 1)
  BY <1>2 DEF BeginPass, Fault
<1>3. Restart => UNCHANGED faults \/ (faults < MaxFaults /\ faults' = faults + 1)
  BY DEF Restart, Fault
<1>4. UserStep => UNCHANGED faults
  BY DEF UserStep, UserCreates, UserEdits, UserDeletes, SecretChanges
<1>5. ASSUME NEW a \in Access, ForgetPass(a) \/ Sync(a) PROVE UNCHANGED faults
  BY <1>5 DEF ForgetPass, Sync
<1>6. ASSUME NEW s \in Secret, CollectSecret(s) PROVE UNCHANGED faults
  BY <1>6 DEF CollectSecret
<1>7. ASSUME NEW k \in Key, KeyExpires(k) PROVE UNCHANGED faults
  BY <1>7 DEF KeyExpires
<1>8. BucketyChanges => UNCHANGED faults
  BY DEF BucketyChanges
<1>9. UNCHANGED vars => UNCHANGED faults
  BY DEF vars
<1>. QED BY <1>1, <1>2, <1>3, <1>4, <1>5, <1>6, <1>7, <1>8, <1>9 DEF Next

-----------------------------------------------------------------------------
(* Type correctness. *)

LEMMA TypeInit == Init => TypeInv
<1>. SUFFICES ASSUME Init PROVE TypeInv
  OBVIOUS
<1>1. faults \in 0..MaxFaults
  <2>1. faults = 0
    BY DEF Init
  <2>. QED BY <2>1, BoundsAssumption
<1>2. driver \in Driver
  BY ConstantsAssumption DEF Init
<1>. QED BY <1>1, <1>2, ConstantObjects DEF Init, TypeInv, TypeOK, PC, Reason

LEMMA TypeNext == TypeInv /\ [Next]_vars => TypeInv'
<1>. SUFFICES ASSUME TypeInv, [Next]_vars PROVE TypeInv'
  OBVIOUS
<1>0. faults' \in 0..MaxFaults
  <2>1. faults \in 0..MaxFaults
    BY DEF TypeInv, TypeOK
  <2>2. UNCHANGED faults \/ (faults < MaxFaults /\ faults' = faults + 1)
    BY FaultsStep
  <2>. QED BY <2>1, <2>2, BoundsAssumption
<1>. USE DEF TypeInv, TypeOK
<1>1. CASE UNCHANGED vars
  BY <1>1 DEF vars
<1>2. CASE ReportStatus
  <2>1. [snap EXCEPT !.cond = why] \in Object
    BY DEF Object
  <2>2. obj' \in [Access -> Object]
    BY <1>2, <2>1, PatchStatusType DEF ReportStatus
  <2>. QED BY <1>0, <1>2, <2>2, DoneType DEF ReportStatus, backend
<1>3. CASE AddFinalizer
  <2>0. cur \in Access /\ [obj[cur] EXCEPT !.fin = TRUE] \in Object
    BY <1>3 DEF AddFinalizer, Object
  <2>1. obj' \in [Access -> Object]
    BY <1>3, <2>0 DEF AddFinalizer
  <2>. QED BY <1>0, <1>3, <2>1, DoneType DEF AddFinalizer, backend
<1>4. CASE DeleteRevoke
  BY <1>0, <1>4, DoneType DEF DeleteRevoke, Fault, RevokeAccess, Goto, PC
<1>5. CASE ReleaseFinalizer
  <2>1. obj' \in [Access -> Object]
    BY <1>5, ObjectUpdates DEF ReleaseFinalizer, Phase
  <2>. QED BY <1>0, <1>5, <2>1, DoneType DEF ReleaseFinalizer, backend
<1>6. CASE ReadSecret
  <2>1. secret[SecretOf[cur]] \in SecretObject
    BY <1>6, ConstantsAssumption DEF ReadSecret
  <2>. QED BY <1>0, <1>6, <2>1, DoneType DEF ReadSecret, Report, backend, PC, Reason
<1>7. CASE GrantAccess
  <2>1. ASSUME NEW p \in Principal, NEW r \in BOOLEAN, NEW m \in BOOLEAN, Granted(p, r, m)
        PROVE  /\ pc' \in PC /\ res' \in Grant /\ UNCHANGED <<cur, snap, read, why>>
               /\ pc # "idle" => (pc' # "idle" => cur' \in Access)
    BY <2>1 DEF Granted, PC, Grant
  <2>2. CASE driver = "static" /\ Granted("static", FALSE, FALSE) /\ UNCHANGED <<backend, faults>>
    BY <1>7, <2>1, <2>2 DEF GrantAccess, backend, Principal
  <2>3. CASE /\ driver = "minting" /\ Reusable(read) /\ Granted(read.key, TRUE, FALSE)
             /\ UNCHANGED <<backend, faults>>
    <3>1. read.key \in Principal
      BY <2>3 DEF Reusable, Principal
    <3>. QED BY <1>7, <2>1, <2>3, <3>1 DEF GrantAccess, backend
  <2>4. CASE /\ \E k \in Fresh : Mint(k) /\ Granted(k, TRUE, TRUE)
             /\ UNCHANGED <<expired, faults>>
    <3>1. PICK k \in Fresh : Mint(k) /\ Granted(k, TRUE, TRUE)
      BY <2>4
    <3>2. k \in Key /\ k \in Principal
      BY DEF Fresh, Principal
    <3>3. cur \in Access
      BY <1>7 DEF GrantAccess
    <3>. QED BY <1>7, <2>1, <2>4, <3>1, <3>2, <3>3 DEF GrantAccess, Mint
  <2>5. CASE Report("GrantFailed") /\ UNCHANGED backend /\ (UNCHANGED faults \/ Fault("grant"))
    BY <1>0, <1>7, <2>5 DEF GrantAccess, Report, backend, PC, Reason
  <2>6. CASE Report("GrantFailed") /\ UNCHANGED expired /\ \E k \in Fresh : Mint(k)
    <3>1. PICK k \in Fresh : Mint(k)
      BY <2>6
    <3>2. k \in Key /\ cur \in Access
      BY <1>7 DEF Fresh, GrantAccess
    <3>3. live' \subseteq Key /\ holder' \in [Key -> Access \cup {""}]
      BY <3>1, <3>2 DEF Mint
    <3>. QED BY <1>0, <1>7, <2>6, <3>3 DEF GrantAccess, Report, PC, Reason
  <2>. QED BY <1>7, <2>2, <2>3, <2>4, <2>5, <2>6 DEF GrantAccess
<1>8. CASE WriteSecret
  <2>1. cur \in Access /\ SecretOf[cur] \in Secret
    BY <1>8, ConstantsAssumption DEF WriteSecret
  <2>2. Desired \in SecretObject
    BY <2>1 DEF Desired, SecretObject, Grant, Payload
  <2>3. secret' \in [Secret -> SecretObject]
    BY <1>0, <1>8, <2>1, <2>2 DEF WriteSecret, Fault, WriteApplied
  <2>4. /\ pc' \in PC /\ cur' \in Access \cup {""} /\ (pc' # "idle" => cur' \in Access)
        /\ snap' \in Object /\ read' \in SecretObject /\ res' \in Grant /\ why' \in Reason
    BY <1>0, <1>8, <2>1, DoneType DEF WriteSecret, Fault, AfterWrite, FailedWrite, Goto, Report, PC, Reason
  <2>. QED BY <1>0, <1>8, <2>3, <2>4 DEF WriteSecret, backend
<1>9. CASE Unmint
  BY <1>0, <1>9, DoneType DEF Unmint, Fault, RevokeAccess, Report, PC, Reason
<1>10. CASE RevokeOld
  BY <1>0, <1>10 DEF RevokeOld, RevokeAccess, Report, Goto, PC, Reason
<1>11. CASE Commit
  <2>1. [snap EXCEPT !.principal = res.principal, !.revocable = res.revocable,
                     !.cond = "SecretMinted", !.observed = snap.gen] \in Object
    BY DEF Object, Grant, Reason
  <2>2. obj' \in [Access -> Object]
    BY <1>11, <2>1, PatchStatusType DEF Commit
  <2>. QED BY <1>0, <1>11, <2>2, DoneType DEF Commit, backend
<1>12. ASSUME NEW a \in Access, BeginPass(a) PROVE TypeInv'
  <2>1. /\ NextOnDelete(cache[a]) \in PC /\ NextOnLive(cache[a]) \in PC
        /\ ReasonToReport(cache[a]) \in Reason /\ "" \in Reason
    BY DEF NextOnDelete, NextOnLive, ReasonToReport, PC, Reason
  <2>. QED BY <1>0, <1>12, <2>1 DEF BeginPass, backend
<1>13. ASSUME NEW a \in Access, ForgetPass(a) PROVE TypeInv'
  BY <1>13 DEF ForgetPass, backend, pass
<1>14. ASSUME NEW a \in Access, Sync(a) PROVE TypeInv'
  BY <1>14 DEF Sync, backend, pass
<1>15. ASSUME NEW a \in Access, UserCreates(a) PROVE TypeInv'
  BY <1>15, ConstantObjects DEF UserCreates, backend, pass
<1>16. ASSUME NEW a \in Access, UserEdits(a) PROVE TypeInv'
  <2>1. obj' \in [Access -> Object]
    BY <1>16, ObjectUpdates DEF UserEdits, Phase
  <2>. QED BY <1>16, <2>1 DEF UserEdits, backend, pass
<1>17. ASSUME NEW a \in Access, UserDeletes(a) PROVE TypeInv'
  <2>1. obj' \in [Access -> Object]
    BY <1>17, ObjectUpdates DEF UserDeletes, Phase
  <2>. QED BY <1>17, <2>1 DEF UserDeletes, backend, pass
<1>18. ASSUME NEW s \in Secret, SecretChanges(s) PROVE TypeInv'
  <2>1. /\ [owner |-> Foreign, key |-> "edited"] \in SecretObject
        /\ [secret[s] EXCEPT !.key = "edited"] \in SecretObject
    BY DEF SecretObject, Payload
  <2>2. secret' \in [Secret -> SecretObject]
    BY <1>18, <2>1, ConstantObjects DEF SecretChanges
  <2>. QED BY <1>18, <2>2 DEF SecretChanges, backend, pass
<1>19. ASSUME NEW s \in Secret, CollectSecret(s) PROVE TypeInv'
  BY <1>19, ConstantObjects DEF CollectSecret, backend, pass
<1>20. ASSUME NEW k \in Key, KeyExpires(k) PROVE TypeInv'
  BY <1>20 DEF KeyExpires, pass
<1>21. CASE BucketyChanges
  BY <1>21 DEF BucketyChanges, backend, pass
<1>22. CASE Restart
  <2>1. driver' \in Driver
    BY <1>22, ConstantsAssumption DEF Restart
  <2>. QED BY <1>0, <1>22, <2>1, DoneType DEF Restart, backend
<1>. QED
  BY <1>1, <1>2, <1>3, <1>4, <1>5, <1>6, <1>7, <1>8, <1>9, <1>10, <1>11, <1>12, <1>13,
     <1>14, <1>15, <1>16, <1>17, <1>18, <1>19, <1>20, <1>21, <1>22
  DEF Next, PassStep, UserStep

\* Every variable of the access controller's model keeps its type.
THEOREM TypeCorrect == Spec => []TypeOK
<1>1. TypeInv => TypeOK
  BY DEF TypeInv
<1>. QED BY <1>1, TypeInit, TypeNext, PTL DEF Spec

-----------------------------------------------------------------------------
(* The inductive invariant behind SecretKeyNotRevoked. *)

\* What a pass has not read or been granted yet is empty, and it reads no
\* Secret of another access.
PassInv ==
    /\ pc = "idle" => read = NoSecret /\ res = NoGrant
    /\ pc # "idle" => read.owner \in {"", cur}

\* A recorded key was minted for the access that records it, so revoking it
\* cannot hurt another access.
HolderInv ==
    /\ \A a \in Access : obj[a].principal \in Key => holder[obj[a].principal] = a
    /\ \A a \in Access : cache[a].principal \in Key => holder[cache[a].principal] = a
    /\ \A s \in Secret : secret[s].key \in Key =>
            secret[s].owner \in Access /\ holder[secret[s].key] = secret[s].owner
    /\ pc # "idle" =>
            /\ snap.principal \in Key => holder[snap.principal] = cur
            /\ res.principal \in Key => holder[res.principal] = cur
            /\ read.key \in Key => read.owner = cur /\ holder[read.key] = cur

\* Deletion is final, so a cached deletion timestamp is never out of date.
PhaseInv ==
    /\ \A s \in Secret : secret[s].owner \in Access => obj[secret[s].owner].phase # "none"
    /\ \A a \in Access : cache[a].phase # "none" => obj[a].phase # "none"
    /\ \A a \in Access : cache[a].phase = "deleting" => obj[a].phase \in {"deleting", "gone"}
    /\ pc # "idle" =>
            /\ obj[cur].phase # "none"
            /\ snap.phase = "deleting" => obj[cur].phase \in {"deleting", "gone"}
    /\ pc \in {"deleteRevoke", "release"} => snap.phase = "deleting"

\* Nobody but the pass puts a key into the Secret it works on: the key there,
\* if any, is the one it read, then the one it wrote.
CarriesAtMost(a, k) ==
    secret[SecretOf[a]].owner = a /\ secret[SecretOf[a]].key \in Key
        => secret[SecretOf[a]].key = k
GrantInv ==
    /\ pc \in {"grant", "writeSecret"} =>
            /\ CarriesAtMost(cur, read.key)
            /\ obj[cur].phase = "live" /\ read.key \in Key => read.key \in live
    /\ pc = "writeSecret" =>
            /\ obj[cur].phase = "live" /\ res.principal \in Key => res.principal \in live
            /\ res.minted => res.principal # read.key
    /\ pc = "unmint" =>
            ~(/\ secret[SecretOf[cur]].owner = cur /\ secret[SecretOf[cur]].key \in Key
              /\ secret[SecretOf[cur]].key = res.principal)
    /\ pc = "revokeOld" =>
            CarriesAtMost(cur, res.principal) /\ snap.principal # res.principal

Inv == TypeInv /\ PassInv /\ HolderInv /\ PhaseInv /\ GrantInv /\ SecretKeyNotRevoked

-----------------------------------------------------------------------------
(* What the steps do to the objects, the Secrets and the keys. *)

\* Objects only move forward, and only a commit changes a principal.
ObjectsMove ==
    \A a \in Access :
        /\ obj[a].phase # "none" => obj'[a].phase # "none"
        /\ obj[a].phase \in {"deleting", "gone"} => obj'[a].phase \in {"deleting", "gone"}
        /\ obj'[a].phase = "live" => obj[a].phase \in {"none", "live"}
        /\ \/ obj'[a].principal = obj[a].principal
           \/ pc = "commit" /\ a = cur /\ obj'[a].principal = res.principal
           \/ obj'[a].principal \notin Key

LEMMA PatchStatusMoves ==
    ASSUME TypeInv, pc # "idle", NEW new \in Object, PatchStatus(new),
           new.principal = snap.principal \/ (pc = "commit" /\ new.principal = res.principal)
    PROVE  ObjectsMove
<1>1. obj \in [Access -> Object] /\ cur \in Access /\ snap \in Object
  BY DEF TypeInv, TypeOK
<1>2. ASSUME NEW a \in Access
      PROVE  /\ obj'[a].phase = obj[a].phase
             /\ \/ obj'[a].principal = obj[a].principal
                \/ pc = "commit" /\ a = cur /\ obj'[a].principal = res.principal
  <2>1. obj'[a] = obj[a] \/ (a = cur /\ obj'[a] = MergePatch(obj[a], snap, new))
    BY <1>1 DEF PatchStatus
  <2>. QED BY <1>1, <2>1, MergePatchType
<1>. QED BY <1>2 DEF ObjectsMove

LEMMA ObjectsStep == TypeInv /\ [Next]_vars => ObjectsMove
<1>. SUFFICES ASSUME TypeInv, [Next]_vars PROVE ObjectsMove
  OBVIOUS
<1>0. /\ obj \in [Access -> Object] /\ snap \in Object /\ res \in Grant /\ why \in Reason
      /\ pc # "idle" => cur \in Access
      /\ "live" \in Phase /\ "deleting" \in Phase /\ "gone" \in Phase
  BY DEF TypeInv, TypeOK, Phase
<1>1. ASSUME UNCHANGED obj PROVE ObjectsMove
  BY <1>1 DEF ObjectsMove
<1>2. CASE ReportStatus
  <2>1. [snap EXCEPT !.cond = why] \in Object
    BY <1>0 DEF Object
  <2>2. [snap EXCEPT !.cond = why].principal = snap.principal
    BY <1>0 DEF Object
  <2>. QED BY <1>1, <1>2, <2>1, <2>2, PatchStatusMoves DEF ReportStatus
<1>3. CASE Commit
  <2>1. LET new == [snap EXCEPT !.principal = res.principal, !.revocable = res.revocable,
                                !.cond = "SecretMinted", !.observed = snap.gen]
        IN  new \in Object /\ new.principal = res.principal
    BY <1>0 DEF Object, Grant, Reason
  <2>. QED BY <1>1, <1>3, <2>1, PatchStatusMoves DEF Commit
<1>4. CASE AddFinalizer
  <2>1. ASSUME NEW a \in Access
        PROVE  obj'[a] = obj[a] \/ obj'[a] = [obj[a] EXCEPT !.fin = TRUE]
    BY <1>0, <1>4 DEF AddFinalizer
  <2>2. ASSUME NEW a \in Access
        PROVE  obj'[a].phase = obj[a].phase /\ obj'[a].principal = obj[a].principal
    BY <1>0, <2>1 DEF Object
  <2>. QED BY <2>2 DEF ObjectsMove
<1>5. CASE ReleaseFinalizer
  <2>1. ASSUME NEW a \in Access
        PROVE  obj'[a] = obj[a] \/ obj'[a] = [obj[a] EXCEPT !.phase = "gone", !.fin = FALSE]
    BY <1>0, <1>5 DEF ReleaseFinalizer
  <2>2. ASSUME NEW a \in Access
        PROVE  /\ obj'[a].phase \in {obj[a].phase, "gone"}
               /\ obj'[a].principal = obj[a].principal
    BY <1>0, <2>1 DEF Object
  <2>. QED BY <2>2 DEF ObjectsMove
<1>6. ASSUME NEW a \in Access, UserCreates(a) PROVE ObjectsMove
  <2>1. NewObj.phase = "live" /\ NewObj.principal \notin Key
    BY ConstantsAssumption DEF NewObj, NoObj
  <2>. QED BY <1>0, <1>6, <2>1 DEF UserCreates, ObjectsMove
<1>7. ASSUME NEW a \in Access, UserEdits(a) PROVE ObjectsMove
  <2>1. ASSUME NEW b \in Access
        PROVE  obj'[b] = obj[b] \/ obj'[b] = [obj[b] EXCEPT !.gen = @ + 1]
    BY <1>0, <1>7 DEF UserEdits
  <2>2. ASSUME NEW b \in Access
        PROVE  obj'[b].phase = obj[b].phase /\ obj'[b].principal = obj[b].principal
    BY <1>0, <2>1 DEF Object
  <2>. QED BY <2>2 DEF ObjectsMove
<1>8. ASSUME NEW a \in Access, UserDeletes(a) PROVE ObjectsMove
  <2>1. ASSUME NEW b \in Access
        PROVE  \/ obj'[b] = obj[b]
               \/ /\ obj[b].phase = "live"
                  /\ \/ obj'[b] = [obj[b] EXCEPT !.phase = "deleting"]
                     \/ obj'[b] = [obj[b] EXCEPT !.phase = "gone"]
    BY <1>0, <1>8 DEF UserDeletes
  <2>2. ASSUME NEW b \in Access
        PROVE  /\ \/ obj'[b].phase = obj[b].phase
                  \/ obj[b].phase = "live" /\ obj'[b].phase \in {"deleting", "gone"}
               /\ obj'[b].principal = obj[b].principal
    BY <1>0, <2>1 DEF Object
  <2>. QED BY <2>2 DEF ObjectsMove
<1>9. CASE DeleteRevoke \/ ReadSecret \/ GrantAccess \/ WriteSecret \/ Unmint \/ RevokeOld
  BY <1>1, <1>9 DEF DeleteRevoke, ReadSecret, GrantAccess, WriteSecret, Unmint, RevokeOld
<1>10. ASSUME NEW a \in Access, BeginPass(a) \/ ForgetPass(a) \/ Sync(a) PROVE ObjectsMove
  BY <1>1, <1>10 DEF BeginPass, ForgetPass, Sync
<1>11. ASSUME NEW s \in Secret, SecretChanges(s) \/ CollectSecret(s) PROVE ObjectsMove
  BY <1>1, <1>11 DEF SecretChanges, CollectSecret
<1>12. ASSUME NEW k \in Key, KeyExpires(k) PROVE ObjectsMove
  BY <1>1, <1>12 DEF KeyExpires
<1>13. CASE BucketyChanges \/ Restart \/ UNCHANGED vars
  BY <1>1, <1>13 DEF BucketyChanges, Restart, vars
<1>. QED
  BY <1>2, <1>3, <1>4, <1>5, <1>6, <1>7, <1>8, <1>9, <1>10, <1>11, <1>12, <1>13
  DEF Next, PassStep, UserStep

Environment ==
    \/ \E a \in Access : ForgetPass(a) \/ Sync(a)
    \/ UserStep
    \/ \E s \in Secret : CollectSecret(s)
    \/ \E k \in Key : KeyExpires(k)
    \/ BucketyChanges
    \/ UNCHANGED vars

\* The environment neither mints nor revokes, moves no pass, and puts no key
\* into a Secret.
EnvironmentMoves ==
    /\ UNCHANGED <<pc, cur, snap, read, res, live, holder>>
    /\ \A s \in Secret :
            \/ secret'[s] = secret[s]
            \/ /\ secret'[s].key \notin Key
               /\ secret'[s].owner \in Access => secret'[s].owner = secret[s].owner
    /\ \A a \in Access : cache'[a] = cache[a] \/ (cache'[a] = obj[a] /\ UNCHANGED obj)

LEMMA EnvironmentStep == TypeInv /\ Environment => EnvironmentMoves
<1>. SUFFICES ASSUME TypeInv, Environment PROVE EnvironmentMoves
  OBVIOUS
<1>0. /\ secret \in [Secret -> SecretObject]
      /\ cache \in [Access -> Object]
  BY DEF TypeInv, TypeOK
<1>1. ASSUME UNCHANGED <<secret, cache, backend, pass>> PROVE EnvironmentMoves
  BY <1>1 DEF EnvironmentMoves, backend, pass
<1>2. ASSUME NEW a \in Access, ForgetPass(a) PROVE EnvironmentMoves
  BY <1>1, <1>2 DEF ForgetPass
<1>3. ASSUME NEW a \in Access, Sync(a) PROVE EnvironmentMoves
  BY <1>0, <1>3 DEF Sync, EnvironmentMoves, backend, pass
<1>4. ASSUME NEW a \in Access, UserCreates(a) \/ UserEdits(a) \/ UserDeletes(a)
      PROVE  EnvironmentMoves
  BY <1>1, <1>4 DEF UserCreates, UserEdits, UserDeletes
<1>5. ASSUME NEW s \in Secret, SecretChanges(s) \/ CollectSecret(s) PROVE EnvironmentMoves
  <2>1. /\ UNCHANGED <<cache, backend, pass>>
        /\ \/ secret' = [secret EXCEPT ![s] = NoSecret]
           \/ secret' = [secret EXCEPT ![s].key = "edited"]
           \/ secret' = [secret EXCEPT ![s] = [owner |-> Foreign, key |-> "edited"]]
    BY <1>5 DEF SecretChanges, CollectSecret
  <2>2. ASSUME NEW x \in Secret
        PROVE  \/ secret'[x] = secret[x]
               \/ secret'[x] = NoSecret
               \/ secret'[x] = [secret[x] EXCEPT !.key = "edited"]
               \/ secret'[x] = [owner |-> Foreign, key |-> "edited"]
    BY <1>0, <2>1
  <2>3. ASSUME NEW x \in Secret
        PROVE  \/ secret'[x] = secret[x]
               \/ /\ secret'[x].key \notin Key
                  /\ secret'[x].owner \in Access => secret'[x].owner = secret[x].owner
    <3>1. /\ NoSecret.key \notin Key /\ NoSecret.owner \notin Access
          /\ [owner |-> Foreign, key |-> "edited"].key \notin Key
          /\ [owner |-> Foreign, key |-> "edited"].owner \notin Access
      BY ConstantsAssumption DEF NoSecret
    <3>2. CASE secret'[x] = [secret[x] EXCEPT !.key = "edited"]
      <4>1. secret'[x].key = "edited" /\ secret'[x].owner = secret[x].owner
        BY <1>0, <3>2 DEF SecretObject
      <4>. QED BY <4>1, ConstantsAssumption
    <3>. QED BY <2>2, <3>1, <3>2
  <2>. QED BY <2>1, <2>3 DEF EnvironmentMoves, backend, pass
<1>6. ASSUME NEW k \in Key, KeyExpires(k) PROVE EnvironmentMoves
  BY <1>6 DEF KeyExpires, EnvironmentMoves, pass
<1>7. CASE BucketyChanges \/ UNCHANGED vars
  BY <1>1, <1>7 DEF BucketyChanges, vars, backend, pass
<1>. QED BY <1>2, <1>3, <1>4, <1>5, <1>6, <1>7 DEF Environment, UserStep

LEMMA EnvironmentKeepsInv == Inv /\ Environment => Inv'
<1>. SUFFICES ASSUME Inv, Environment PROVE Inv'
  OBVIOUS
<1>1. [Next]_vars
  BY DEF Environment, Next, UserStep
<1>2. TypeInv' /\ ObjectsMove /\ EnvironmentMoves
  BY <1>1, TypeNext, ObjectsStep, EnvironmentStep DEF Inv
<1>3. /\ \A a \in Access : SecretOf[a] \in Secret
      /\ pc # "idle" => cur \in Access
      /\ \A s \in Secret : secret[s].owner \in Access \cup {"", Foreign}
  BY ConstantsAssumption DEF Inv, TypeInv, TypeOK, SecretObject
<1>4. PassInv'
  BY <1>2 DEF Inv, PassInv, EnvironmentMoves
<1>5. HolderInv'
  <2>1. ASSUME NEW a \in Access, obj'[a].principal \in Key
        PROVE  holder'[obj'[a].principal] = a
    BY <1>2, <1>3, <2>1 DEF Inv, HolderInv, ObjectsMove, EnvironmentMoves
  <2>2. ASSUME NEW a \in Access, cache'[a].principal \in Key
        PROVE  holder'[cache'[a].principal] = a
    BY <1>2, <2>2 DEF Inv, HolderInv, EnvironmentMoves
  <2>3. ASSUME NEW s \in Secret, secret'[s].key \in Key
        PROVE  secret'[s].owner \in Access /\ holder'[secret'[s].key] = secret'[s].owner
    BY <1>2, <2>3 DEF Inv, HolderInv, EnvironmentMoves
  <2>4. pc' # "idle" =>
            /\ snap'.principal \in Key => holder'[snap'.principal] = cur'
            /\ res'.principal \in Key => holder'[res'.principal] = cur'
            /\ read'.key \in Key => read'.owner = cur' /\ holder'[read'.key] = cur'
    BY <1>2 DEF Inv, HolderInv, EnvironmentMoves
  <2>. QED BY <2>1, <2>2, <2>3, <2>4 DEF HolderInv
<1>6. PhaseInv'
  <2>1. ASSUME NEW s \in Secret, secret'[s].owner \in Access
        PROVE  obj'[secret'[s].owner].phase # "none"
    <3>1. secret'[s].owner = secret[s].owner
      BY <1>2, <2>1 DEF EnvironmentMoves
    <3>. QED BY <1>2, <2>1, <3>1 DEF Inv, PhaseInv, ObjectsMove
  <2>2. ASSUME NEW a \in Access
        PROVE  /\ cache'[a].phase # "none" => obj'[a].phase # "none"
               /\ cache'[a].phase = "deleting" => obj'[a].phase \in {"deleting", "gone"}
    BY <1>2 DEF Inv, PhaseInv, ObjectsMove, EnvironmentMoves
  <2>3. /\ pc' # "idle" =>
            /\ obj'[cur'].phase # "none"
            /\ snap'.phase = "deleting" => obj'[cur'].phase \in {"deleting", "gone"}
        /\ pc' \in {"deleteRevoke", "release"} => snap'.phase = "deleting"
    BY <1>2, <1>3 DEF Inv, PhaseInv, ObjectsMove, EnvironmentMoves
  <2>. QED BY <2>1, <2>2, <2>3 DEF PhaseInv
<1>7. GrantInv'
  <2>1. ASSUME pc # "idle"
        PROVE  /\ \A k : CarriesAtMost(cur, k) => CarriesAtMost(cur, k)'
               /\ secret'[SecretOf[cur]].key \in Key =>
                    secret'[SecretOf[cur]] = secret[SecretOf[cur]]
               /\ obj'[cur].phase = "live" => obj[cur].phase = "live"
    <3>1. cur \in Access /\ SecretOf[cur] \in Secret /\ cur' = cur
      BY <1>2, <1>3, <2>1 DEF EnvironmentMoves
    <3>2. \/ secret'[SecretOf[cur]] = secret[SecretOf[cur]]
          \/ secret'[SecretOf[cur]].key \notin Key
      BY <1>2, <3>1 DEF EnvironmentMoves
    <3>3. obj'[cur].phase = "live" => obj[cur].phase = "live"
      BY <1>2, <2>1, <3>1 DEF Inv, PhaseInv, ObjectsMove
    <3>. QED BY <3>1, <3>2, <3>3 DEF CarriesAtMost
  <2>. QED BY <1>2, <2>1 DEF Inv, GrantInv, EnvironmentMoves
<1>8. SecretKeyNotRevoked'
  <2>. SUFFICES ASSUME NEW a \in Access, obj'[a].phase = "live",
                       secret'[SecretOf[a]].owner = a, secret'[SecretOf[a]].key \in Key
                PROVE  secret'[SecretOf[a]].key \in live'
    BY DEF SecretKeyNotRevoked
  <2>1. UNCHANGED live /\ secret'[SecretOf[a]] = secret[SecretOf[a]]
    BY <1>2, <1>3 DEF EnvironmentMoves
  <2>2. obj[a].phase = "live"
    BY <1>2, <1>3, <2>1 DEF Inv, PhaseInv, ObjectsMove
  <2>. QED BY <2>1, <2>2 DEF Inv, SecretKeyNotRevoked
<1>. QED BY <1>2, <1>4, <1>5, <1>6, <1>7, <1>8 DEF Inv

-----------------------------------------------------------------------------
(* The steps of a pass, by what they leave alone. *)

\* Where no key is revoked and no Secret written, nothing carried is lost.
LEMMA NothingRevoked ==
    ASSUME Inv, ObjectsMove, UNCHANGED secret, live \subseteq live'
    PROVE  SecretKeyNotRevoked'
<1>. SUFFICES ASSUME NEW a \in Access, obj'[a].phase = "live",
                     secret[SecretOf[a]].owner = a, secret[SecretOf[a]].key \in Key
              PROVE  secret[SecretOf[a]].key \in live'
  BY DEF SecretKeyNotRevoked
<1>1. SecretOf[a] \in Secret
  BY ConstantsAssumption
<1>2. obj[a].phase = "live"
  BY <1>1 DEF Inv, PhaseInv, ObjectsMove
<1>. QED BY <1>2 DEF Inv, SecretKeyNotRevoked

\* Where one key is revoked, it suffices that no live access carries it.
LEMMA OneRevoked ==
    ASSUME Inv, UNCHANGED <<obj, secret>>, NEW k, live' = live \ {k},
           \A a \in Access : ~(/\ obj[a].phase = "live" /\ secret[SecretOf[a]].owner = a
                               /\ secret[SecretOf[a]].key \in Key
                               /\ secret[SecretOf[a]].key = k)
    PROVE  SecretKeyNotRevoked'
BY DEF Inv, SecretKeyNotRevoked

\* The end of a pass.
LEMMA DoneKeepsInv ==
    ASSUME Inv, TypeInv', ObjectsMove, Done, UNCHANGED <<secret, holder>>,
           UNCHANGED cache \/ (cache' = obj /\ UNCHANGED obj),
           SecretKeyNotRevoked'
    PROVE  Inv'
<1>1. pc' = "idle" /\ read' = NoSecret /\ res' = NoGrant
  BY DEF Done
<1>2. PassInv'
  BY <1>1 DEF PassInv
<1>3. HolderInv'
  <2>1. ASSUME NEW a \in Access, obj'[a].principal \in Key
        PROVE  holder'[obj'[a].principal] = a
    BY <2>1 DEF Inv, HolderInv, ObjectsMove
  <2>2. ASSUME NEW a \in Access, cache'[a].principal \in Key
        PROVE  holder'[cache'[a].principal] = a
    BY <2>2 DEF Inv, HolderInv
  <2>. QED BY <1>1, <2>1, <2>2 DEF Inv, HolderInv
<1>4. PhaseInv'
  <2>1. ASSUME NEW s \in Secret, secret'[s].owner \in Access
        PROVE  obj'[secret'[s].owner].phase # "none"
    BY <2>1 DEF Inv, PhaseInv, ObjectsMove
  <2>2. ASSUME NEW a \in Access
        PROVE  /\ cache'[a].phase # "none" => obj'[a].phase # "none"
               /\ cache'[a].phase = "deleting" => obj'[a].phase \in {"deleting", "gone"}
    BY DEF Inv, PhaseInv, ObjectsMove
  <2>. QED BY <1>1, <2>1, <2>2 DEF PhaseInv
<1>5. GrantInv'
  BY <1>1 DEF GrantInv
<1>. QED BY <1>2, <1>3, <1>4, <1>5 DEF Inv

\* A pass that goes on to its last call.
LEMMA AdvanceKeepsInv ==
    ASSUME Inv, TypeInv', UNCHANGED <<obj, cache, secret, holder, cur, snap, read, res>>,
           pc # "idle",
           pc' \in {"report", "commit"} \/ (pc = "deleteRevoke" /\ pc' = "release"),
           SecretKeyNotRevoked'
    PROVE  Inv'
<1>1. PassInv'
  BY DEF Inv, PassInv
<1>2. HolderInv'
  BY DEF Inv, HolderInv
<1>3. PhaseInv'
  BY DEF Inv, PhaseInv
<1>4. GrantInv'
  BY DEF GrantInv
<1>. QED BY <1>1, <1>2, <1>3, <1>4 DEF Inv

LEMMA BeginPassKeepsInv ==
    ASSUME Inv, TypeInv', NEW a \in Access, BeginPass(a)
    PROVE  Inv'
<1>1. /\ pc = "idle" /\ cur' = a /\ snap' = cache[a] /\ cache[a].phase \in {"live", "deleting"}
      /\ UNCHANGED <<obj, cache, secret, live, holder, read, res>>
  BY DEF BeginPass, backend
<1>2. pc' \in PC /\ pc' \notin {"idle", "grant", "writeSecret", "unmint", "revokeOld", "commit"}
  BY DEF BeginPass, NextOnDelete, NextOnLive, PC
<1>3. pc' \in {"deleteRevoke", "release"} => snap'.phase = "deleting"
  BY DEF BeginPass, NextOnLive
<1>4. read = NoSecret /\ res = NoGrant
  BY <1>1 DEF Inv, PassInv
<1>5. read.owner = "" /\ read.key \notin Key /\ res.principal \notin Key
  BY <1>4, ConstantsAssumption DEF NoSecret, NoGrant
<1>6. PassInv'
  BY <1>1, <1>2, <1>5 DEF PassInv
<1>7. HolderInv'
  BY <1>1, <1>2, <1>5 DEF Inv, HolderInv
<1>8. PhaseInv'
  BY <1>1, <1>2, <1>3 DEF Inv, PhaseInv
<1>9. GrantInv'
  BY <1>2 DEF GrantInv
<1>10. SecretKeyNotRevoked'
  BY <1>1 DEF Inv, SecretKeyNotRevoked
<1>. QED BY <1>6, <1>7, <1>8, <1>9, <1>10 DEF Inv

\* The pass starts from the Secret its live read returned.
LEMMA ReadKeepsInv ==
    ASSUME Inv, TypeInv', pc = "readSecret", pc' = "grant",
           secret[SecretOf[cur]].owner \in {"", cur}, read' = secret[SecretOf[cur]],
           UNCHANGED <<obj, cache, secret, live, holder, cur, snap, res>>
    PROVE  Inv'
<1>1. cur \in Access /\ SecretOf[cur] \in Secret /\ "" \notin Access
  BY ConstantsAssumption DEF Inv, TypeInv
<1>2. PassInv'
  BY DEF PassInv
<1>3. HolderInv'
  BY <1>1 DEF Inv, HolderInv
<1>4. PhaseInv'
  BY DEF Inv, PhaseInv
<1>5. obj[cur].phase = "live" /\ read'.key \in Key => read'.key \in live
  BY <1>1 DEF Inv, HolderInv, SecretKeyNotRevoked
<1>6. GrantInv'
  BY <1>5 DEF GrantInv, CarriesAtMost
<1>7. SecretKeyNotRevoked'
  BY DEF Inv, SecretKeyNotRevoked
<1>. QED BY <1>2, <1>3, <1>4, <1>6, <1>7 DEF Inv

\* The driver hands out the shared principal, the key read, or a fresh key.
LEMMA GrantKeepsInv ==
    ASSUME Inv, TypeInv', pc = "grant", pc' = "writeSecret",
           UNCHANGED <<obj, cache, secret, cur, snap, read>>,
           \/ /\ res'.principal \notin Key \/ res'.principal = read.key
              /\ ~res'.minted /\ UNCHANGED <<live, holder>>
           \/ \E k \in Fresh : Mint(k) /\ res'.principal = k
    PROVE  Inv'
<1>1. cur \in Access /\ SecretOf[cur] \in Secret /\ "" \notin Access
  BY ConstantsAssumption DEF Inv, TypeInv
<1>2. ASSUME NEW k \in Key, holder[k] \in Access
      PROVE  holder'[k] = holder[k] /\ (k \in live => k \in live')
  BY <1>1, <1>2 DEF Inv, TypeInv, TypeOK, Mint, Fresh
<1>3. res'.principal \in Key => holder'[res'.principal] = cur
  <2>1. CASE \E k \in Fresh : Mint(k) /\ res'.principal = k
    BY <2>1 DEF Inv, TypeInv, TypeOK, Mint, Fresh
  <2>. QED BY <2>1 DEF Inv, HolderInv
<1>4. live \subseteq live'
  BY DEF Mint
<1>5. PassInv'
  BY DEF Inv, PassInv
<1>6. HolderInv'
  <2>1. ASSUME NEW a \in Access
        PROVE  /\ obj[a].principal \in Key => holder'[obj[a].principal] = a
               /\ cache[a].principal \in Key => holder'[cache[a].principal] = a
    BY <1>2 DEF Inv, HolderInv
  <2>2. ASSUME NEW s \in Secret, secret[s].key \in Key
        PROVE  secret[s].owner \in Access /\ holder'[secret[s].key] = secret[s].owner
    BY <1>2, <2>2 DEF Inv, HolderInv
  <2>3. /\ snap.principal \in Key => holder'[snap.principal] = cur
        /\ read.key \in Key => read.owner = cur /\ holder'[read.key] = cur
    BY <1>1, <1>2 DEF Inv, HolderInv
  <2>. QED BY <1>3, <2>1, <2>2, <2>3 DEF HolderInv
<1>7. PhaseInv'
  BY DEF Inv, PhaseInv
<1>8. obj[cur].phase = "live" /\ res'.principal \in Key => res'.principal \in live'
  BY DEF Inv, GrantInv, Mint
<1>9. res'.minted => res'.principal # read.key
  BY <1>1 DEF Inv, HolderInv, Fresh
<1>10. GrantInv'
  BY <1>4, <1>8, <1>9 DEF Inv, GrantInv, CarriesAtMost
<1>11. SecretKeyNotRevoked'
  BY <1>4 DEF Inv, SecretKeyNotRevoked
<1>. QED BY <1>5, <1>6, <1>7, <1>10, <1>11 DEF Inv

\* A key that nobody learns of disturbs nothing that others hold.
LEMMA LostGrantKeepsInv ==
    ASSUME Inv, TypeInv', pc = "grant", pc' = "report",
           UNCHANGED <<obj, cache, secret, cur, snap, read, res>>, \E k \in Fresh : Mint(k)
    PROVE  Inv'
<1>1. cur \in Access /\ SecretOf[cur] \in Secret /\ "" \notin Access
  BY ConstantsAssumption DEF Inv, TypeInv
<1>2. ASSUME NEW k \in Key, holder[k] \in Access PROVE holder'[k] = holder[k]
  BY <1>1, <1>2 DEF Inv, TypeInv, TypeOK, Mint, Fresh
<1>3. live \subseteq live'
  BY DEF Mint
<1>4. PassInv'
  BY DEF Inv, PassInv
<1>5. HolderInv'
  <2>1. ASSUME NEW a \in Access
        PROVE  /\ obj[a].principal \in Key => holder'[obj[a].principal] = a
               /\ cache[a].principal \in Key => holder'[cache[a].principal] = a
    BY <1>2 DEF Inv, HolderInv
  <2>2. ASSUME NEW s \in Secret, secret[s].key \in Key
        PROVE  secret[s].owner \in Access /\ holder'[secret[s].key] = secret[s].owner
    BY <1>2, <2>2 DEF Inv, HolderInv
  <2>3. /\ snap.principal \in Key => holder'[snap.principal] = cur
        /\ res.principal \in Key => holder'[res.principal] = cur
        /\ read.key \in Key => read.owner = cur /\ holder'[read.key] = cur
    BY <1>1, <1>2 DEF Inv, HolderInv
  <2>. QED BY <2>1, <2>2, <2>3 DEF HolderInv
<1>6. PhaseInv'
  BY DEF Inv, PhaseInv
<1>7. GrantInv'
  BY DEF GrantInv
<1>8. SecretKeyNotRevoked'
  BY <1>3 DEF Inv, SecretKeyNotRevoked
<1>. QED BY <1>4, <1>5, <1>6, <1>7, <1>8 DEF Inv

\* The Secret now carries what was granted.
LEMMA WriteKeepsInv ==
    ASSUME Inv, TypeInv', pc = "writeSecret", WriteSucceeds, WriteApplied, AfterWrite,
           UNCHANGED <<obj, cache, live, holder>>
    PROVE  Inv'
<1>1. /\ cur \in Access /\ SecretOf[cur] \in Secret
      /\ secret \in [Secret -> SecretObject]
  BY ConstantsAssumption DEF Inv, TypeInv, TypeOK
<1>2. /\ UNCHANGED <<cur, snap, read, res>> /\ pc' \in {"revokeOld", "commit"}
      /\ pc' = "revokeOld" => snap.principal # res.principal
  BY DEF AfterWrite, Goto
<1>3. \A s \in Secret \ {SecretOf[cur]} : secret'[s] = secret[s]
  BY <1>1 DEF WriteApplied
<1>4. \/ read = Desired /\ secret' = secret
      \/ secret'[SecretOf[cur]] = Desired
  BY <1>1 DEF WriteApplied, SkipsWrite
<1>5. Desired.owner = cur /\ Desired.key = res.principal
  BY DEF Desired
<1>6. CarriesAtMost(cur, res.principal)'
  BY <1>2, <1>4, <1>5 DEF Inv, GrantInv, CarriesAtMost
<1>7. PassInv'
  BY <1>2 DEF Inv, PassInv
<1>8. HolderInv'
  <2>1. ASSUME NEW s \in Secret, secret'[s].key \in Key
        PROVE  secret'[s].owner \in Access /\ holder'[secret'[s].key] = secret'[s].owner
    BY <1>1, <1>3, <1>4, <1>5, <2>1 DEF Inv, HolderInv
  <2>. QED BY <1>2, <2>1 DEF Inv, HolderInv
<1>9. PhaseInv'
  <2>1. ASSUME NEW s \in Secret, secret'[s].owner \in Access
        PROVE  obj'[secret'[s].owner].phase # "none"
    BY <1>1, <1>3, <1>4, <1>5, <2>1 DEF Inv, PhaseInv
  <2>. QED BY <1>2, <2>1 DEF Inv, PhaseInv
<1>10. GrantInv'
  BY <1>2, <1>6 DEF GrantInv
<1>11. SecretKeyNotRevoked'
  <2>. SUFFICES ASSUME NEW a \in Access, obj[a].phase = "live",
                       secret'[SecretOf[a]].owner = a, secret'[SecretOf[a]].key \in Key
                PROVE  secret'[SecretOf[a]].key \in live
    BY DEF SecretKeyNotRevoked
  <2>1. SecretOf[a] \in Secret
    BY ConstantsAssumption
  <2>2. CASE secret'[SecretOf[a]] = secret[SecretOf[a]]
    BY <2>2 DEF Inv, SecretKeyNotRevoked
  <2>3. CASE SecretOf[a] = SecretOf[cur] /\ secret'[SecretOf[cur]] = Desired
    BY <1>5, <2>3 DEF Inv, GrantInv
  <2>. QED BY <1>3, <1>4, <2>1, <2>2, <2>3
<1>. QED BY <1>7, <1>8, <1>9, <1>10, <1>11 DEF Inv

\* A write that failed leaves the minted key outside every Secret.
LEMMA FailedWriteKeepsInv ==
    ASSUME Inv, TypeInv', pc = "writeSecret", res.minted, Goto("unmint"),
           UNCHANGED <<obj, cache, secret, live, holder>>
    PROVE  Inv'
<1>1. pc' = "unmint" /\ UNCHANGED <<cur, snap, read, res>>
  BY DEF Goto
<1>2. PassInv'
  BY <1>1 DEF Inv, PassInv
<1>3. HolderInv'
  BY <1>1 DEF Inv, HolderInv
<1>4. PhaseInv'
  BY <1>1 DEF Inv, PhaseInv
<1>5. GrantInv'
  BY <1>1 DEF Inv, GrantInv, CarriesAtMost
<1>6. SecretKeyNotRevoked'
  BY DEF Inv, SecretKeyNotRevoked
<1>. QED BY <1>2, <1>3, <1>4, <1>5, <1>6 DEF Inv

-----------------------------------------------------------------------------
(* Consumers never lose the credential they read. *)

LEMMA InvInit == Init => Inv
<1>. SUFFICES ASSUME Init PROVE Inv
  OBVIOUS
<1>1. TypeInv
  BY TypeInit
<1>2. /\ \A a \in Access : obj[a] = NoObj /\ cache[a] = NoObj
      /\ \A s \in Secret : secret[s] = NoSecret
      /\ pc = "idle" /\ read = NoSecret /\ res = NoGrant
  BY DEF Init
<1>3. /\ NoObj.phase = "none" /\ NoObj.principal \notin Key
      /\ NoSecret.owner \notin Access /\ NoSecret.key \notin Key
  BY ConstantsAssumption DEF NoObj, NoSecret
<1>4. PassInv /\ HolderInv
  BY <1>2, <1>3 DEF PassInv, HolderInv
<1>5. PhaseInv /\ GrantInv
  BY <1>2, <1>3 DEF PhaseInv, GrantInv
<1>6. SecretKeyNotRevoked
  BY <1>2, <1>3 DEF SecretKeyNotRevoked
<1>. QED BY <1>1, <1>4, <1>5, <1>6 DEF Inv

LEMMA InvNext ==
    ASSUME "lostReply" \notin Env, Inv, [Next]_vars
    PROVE  Inv'
<1>0. /\ TypeInv' /\ ObjectsMove
      /\ pc # "idle" => cur \in Access
      /\ \A a \in Access : SecretOf[a] \in Secret
  BY TypeNext, ObjectsStep, ConstantsAssumption DEF Inv, TypeInv
<1>1. CASE ReportStatus \/ AddFinalizer \/ ReleaseFinalizer \/ Commit
  <2>1. Done /\ UNCHANGED <<cache, secret, live, holder>>
    BY <1>1 DEF ReportStatus, AddFinalizer, ReleaseFinalizer, Commit, backend
  <2>. QED BY <1>0, <2>1, NothingRevoked, DoneKeepsInv
<1>2. CASE Restart
  <2>1. Done /\ cache' = obj /\ UNCHANGED <<obj, secret, live, holder>>
    BY <1>2 DEF Restart, backend
  <2>. QED BY <1>0, <2>1, NothingRevoked, DoneKeepsInv
<1>3. CASE DeleteRevoke
  <2>1. /\ pc = "deleteRevoke" /\ UNCHANGED <<obj, cache, secret, holder>>
        /\ \/ Goto("release") /\ (UNCHANGED live \/ live' = live \ {snap.principal})
           \/ Done /\ UNCHANGED live
    BY <1>3 DEF DeleteRevoke, RevokeAccess
  <2>2. obj[cur].phase # "live"
    BY <2>1 DEF Inv, PhaseInv
  <2>3. ASSUME NEW a \in Access
        PROVE  ~(/\ obj[a].phase = "live" /\ secret[SecretOf[a]].owner = a
                 /\ secret[SecretOf[a]].key \in Key
                 /\ secret[SecretOf[a]].key = snap.principal)
    BY <1>0, <2>1, <2>2 DEF Inv, HolderInv
  <2>4. SecretKeyNotRevoked'
    BY <1>0, <2>1, <2>3, NothingRevoked, OneRevoked
  <2>5. CASE Goto("release")
    <3>1. pc' = "release" /\ UNCHANGED <<cur, snap, read, res>>
      BY <2>5 DEF Goto
    <3>. QED BY <1>0, <2>1, <2>4, <3>1, AdvanceKeepsInv
  <2>6. CASE Done
    BY <1>0, <2>1, <2>4, <2>6, DoneKeepsInv
  <2>. QED BY <2>1, <2>5, <2>6
<1>4. CASE ReadSecret
  <2>1. /\ pc = "readSecret" /\ UNCHANGED <<obj, cache, secret, live, holder>>
        /\ \/ Report("SecretConflict")
           \/ Done
           \/ /\ pc' = "grant" /\ read' = secret[SecretOf[cur]]
              /\ secret[SecretOf[cur]].owner \in {"", cur}
              /\ UNCHANGED <<cur, snap, res>>
    BY <1>4 DEF ReadSecret, backend
  <2>2. SecretKeyNotRevoked'
    BY <1>0, <2>1, NothingRevoked
  <2>3. CASE Report("SecretConflict")
    <3>1. pc' = "report" /\ UNCHANGED <<cur, snap, read, res>>
      BY <2>3 DEF Report
    <3>. QED BY <1>0, <2>1, <2>2, <3>1, AdvanceKeepsInv
  <2>4. CASE Done
    BY <1>0, <2>1, <2>2, <2>4, DoneKeepsInv
  <2>. QED BY <1>0, <2>1, <2>3, <2>4, ReadKeepsInv
<1>5. CASE GrantAccess
  <2>1. pc = "grant" /\ UNCHANGED <<obj, cache, secret>>
    BY <1>5 DEF GrantAccess
  <2>2. CASE Report("GrantFailed") /\ UNCHANGED backend
    <3>1. pc' = "report" /\ UNCHANGED <<cur, snap, read, res, live, holder>>
      BY <2>2 DEF Report, backend
    <3>. QED BY <1>0, <2>1, <3>1, NothingRevoked, AdvanceKeepsInv
  <2>3. CASE /\ Granted("static", FALSE, FALSE) \/ Granted(read.key, TRUE, FALSE)
             /\ UNCHANGED backend
    <3>1. /\ pc' = "writeSecret" /\ UNCHANGED <<cur, snap, read, live, holder>>
          /\ ~res'.minted /\ res'.principal \in {"static", read.key}
      BY <2>3 DEF Granted, backend
    <3>2. "static" \notin Key
      BY ConstantsAssumption
    <3>. QED BY <1>0, <2>1, <3>1, <3>2, GrantKeepsInv
  <2>4. CASE \E k \in Fresh : Mint(k) /\ Granted(k, TRUE, TRUE)
    <3>1. PICK k \in Fresh : Mint(k) /\ Granted(k, TRUE, TRUE)
      BY <2>4
    <3>2. /\ pc' = "writeSecret" /\ UNCHANGED <<cur, snap, read>>
          /\ res'.principal = k
      BY <3>1 DEF Granted
    <3>. QED BY <1>0, <2>1, <3>1, <3>2, GrantKeepsInv
  <2>5. CASE Report("GrantFailed") /\ \E k \in Fresh : Mint(k)
    <3>1. pc' = "report" /\ UNCHANGED <<cur, snap, read, res>>
      BY <2>5 DEF Report
    <3>. QED BY <1>0, <2>1, <2>5, <3>1, LostGrantKeepsInv
  <2>. QED BY <1>5, <2>2, <2>3, <2>4, <2>5 DEF GrantAccess, backend
<1>6. CASE WriteSecret
  <2>1. pc = "writeSecret" /\ UNCHANGED <<obj, cache, live, holder>>
    BY <1>6 DEF WriteSecret, backend
  <2>2. CASE WriteSucceeds /\ WriteApplied /\ AfterWrite
    BY <1>0, <2>1, <2>2, WriteKeepsInv
  <2>3. CASE FailedWrite /\ UNCHANGED secret
    <3>1. SecretKeyNotRevoked'
      BY <1>0, <2>1, <2>3, NothingRevoked
    <3>2. CASE res.minted /\ Goto("unmint")
      BY <1>0, <2>1, <2>3, <3>2, FailedWriteKeepsInv
    <3>3. CASE Report("SecretWriteFailed")
      <4>1. pc' = "report" /\ UNCHANGED <<cur, snap, read, res>>
        BY <3>3 DEF Report
      <4>. QED BY <1>0, <2>1, <2>3, <3>1, <4>1, AdvanceKeepsInv
    <3>4. CASE Done
      BY <1>0, <2>1, <2>3, <3>1, <3>4, DoneKeepsInv
    <3>. QED BY <2>3, <3>2, <3>3, <3>4 DEF FailedWrite
  <2>. QED BY <1>6, <2>2, <2>3 DEF WriteSecret, Fault
<1>7. CASE Unmint
  <2>1. /\ pc = "unmint" /\ UNCHANGED <<obj, cache, secret, holder>>
        /\ UNCHANGED live \/ live' = live \ {res.principal}
        /\ Report("SecretWriteFailed") \/ Done
    BY <1>7 DEF Unmint, RevokeAccess
  <2>2. ASSUME NEW a \in Access
        PROVE  ~(/\ obj[a].phase = "live" /\ secret[SecretOf[a]].owner = a
                 /\ secret[SecretOf[a]].key \in Key
                 /\ secret[SecretOf[a]].key = res.principal)
    BY <1>0, <2>1 DEF Inv, HolderInv, GrantInv
  <2>3. SecretKeyNotRevoked'
    BY <1>0, <2>1, <2>2, NothingRevoked, OneRevoked
  <2>4. CASE Report("SecretWriteFailed")
    <3>1. pc' = "report" /\ UNCHANGED <<cur, snap, read, res>>
      BY <2>4 DEF Report
    <3>. QED BY <1>0, <2>1, <2>3, <3>1, AdvanceKeepsInv
  <2>5. CASE Done
    BY <1>0, <2>1, <2>3, <2>5, DoneKeepsInv
  <2>. QED BY <2>1, <2>4, <2>5
<1>8. CASE RevokeOld
  <2>1. /\ pc = "revokeOld" /\ UNCHANGED <<obj, cache, secret, holder>>
        /\ UNCHANGED live \/ live' = live \ {snap.principal}
        /\ Goto("commit") \/ Report("RevokeFailed")
    BY <1>8 DEF RevokeOld, RevokeAccess
  <2>2. ASSUME NEW a \in Access
        PROVE  ~(/\ obj[a].phase = "live" /\ secret[SecretOf[a]].owner = a
                 /\ secret[SecretOf[a]].key \in Key
                 /\ secret[SecretOf[a]].key = snap.principal)
    BY <1>0, <2>1 DEF Inv, HolderInv, GrantInv, CarriesAtMost
  <2>3. SecretKeyNotRevoked'
    BY <1>0, <2>1, <2>2, NothingRevoked, OneRevoked
  <2>4. pc' \in {"report", "commit"} /\ UNCHANGED <<cur, snap, read, res>>
    BY <2>1 DEF Goto, Report
  <2>. QED BY <1>0, <2>1, <2>3, <2>4, AdvanceKeepsInv
<1>9. ASSUME NEW a \in Access, BeginPass(a) PROVE Inv'
  BY <1>0, <1>9, BeginPassKeepsInv
<1>10. CASE Environment
  BY <1>10, EnvironmentKeepsInv
<1>. QED
  BY <1>1, <1>2, <1>3, <1>4, <1>5, <1>6, <1>7, <1>8, <1>9, <1>10
  DEF Next, PassStep, Environment

\* Unless a Secret write is applied whose reply is lost, no behaviour of the
\* access controller revokes a key that the Secret of a live access carries:
\* for any number of accesses, shared or separate Secrets, any driver the
\* backend resolves to after any restart, and any other fault.
THEOREM ConsumersKeepTheirKey ==
    "lostReply" \notin Env => (Spec => []SecretKeyNotRevoked)
<1>. SUFFICES ASSUME "lostReply" \notin Env PROVE Spec => []SecretKeyNotRevoked
  OBVIOUS
<1>1. Inv /\ [Next]_vars => Inv'
  BY InvNext
<1>2. Inv => SecretKeyNotRevoked
  BY DEF Inv
<1>. QED BY <1>1, <1>2, InvInit, PTL DEF Spec

-----------------------------------------------------------------------------
(* Secrets are replaced only in the state the pass read. *)

LEMMA PassNext == TypeInv /\ PassInv /\ [Next]_vars => PassInv'
<1>. SUFFICES ASSUME TypeInv, PassInv, [Next]_vars PROVE PassInv'
  OBVIOUS
<1>1. ASSUME Done PROVE PassInv'
  BY <1>1 DEF Done, PassInv
<1>2. ASSUME pc # "idle", pc' # "idle", UNCHANGED <<cur, read>> PROVE PassInv'
  BY <1>2 DEF PassInv
<1>3. CASE Environment
  <2>1. UNCHANGED <<pc, cur, read, res>>
    BY <1>3, EnvironmentStep DEF EnvironmentMoves
  <2>. QED BY <2>1 DEF PassInv
<1>4. ASSUME NEW a \in Access, BeginPass(a) PROVE PassInv'
  <2>1. pc = "idle" /\ UNCHANGED read /\ pc' # "idle"
    BY <1>4 DEF BeginPass, NextOnDelete, NextOnLive
  <2>2. read.owner = ""
    <3>1. read = NoSecret
      BY <2>1 DEF PassInv
    <3>. QED BY <3>1 DEF NoSecret
  <2>. QED BY <2>1, <2>2 DEF PassInv
<1>5. CASE ReadSecret
  <2>1. CASE pc' = "grant" /\ read'.owner \in {"", cur} /\ UNCHANGED cur
    BY <2>1 DEF PassInv
  <2>2. CASE Report("SecretConflict")
    BY <1>2, <1>5, <2>2 DEF ReadSecret, Report
  <2>. QED BY <1>1, <1>5, <2>1, <2>2 DEF ReadSecret
<1>6. CASE ReportStatus \/ AddFinalizer \/ ReleaseFinalizer \/ Commit \/ Restart
  BY <1>1, <1>6 DEF ReportStatus, AddFinalizer, ReleaseFinalizer, Commit, Restart
<1>7. CASE DeleteRevoke \/ RevokeOld
  BY <1>1, <1>2, <1>7 DEF DeleteRevoke, RevokeOld, Goto, Report
<1>8. CASE GrantAccess
  BY <1>2, <1>8 DEF GrantAccess, Granted, Report
<1>9. CASE WriteSecret
  BY <1>1, <1>2, <1>9 DEF WriteSecret, AfterWrite, FailedWrite, Goto, Report
<1>10. CASE Unmint
  BY <1>1, <1>2, <1>10 DEF Unmint, Report
<1>. QED
  BY <1>3, <1>4, <1>5, <1>6, <1>7, <1>8, <1>9, <1>10 DEF Next, PassStep, Environment

LEMMA OnlyWriteSecretWrites ==
    ASSUME TypeInv, PassStep, UNCHANGED secret \/ WriteSecret, NEW s \in Secret,
           secret'[s] # secret[s]
    PROVE  pc = "writeSecret" /\ s = SecretOf[cur] /\ secret[s] = read
<1>1. WriteSecret
  OBVIOUS
<1>2. cur \in Access /\ SecretOf[cur] \in Secret /\ secret \in [Secret -> SecretObject]
  BY <1>1, ConstantsAssumption DEF WriteSecret, TypeInv, TypeOK
<1>3. WriteSucceeds /\ ~SkipsWrite /\ s = SecretOf[cur]
  BY <1>1, <1>2 DEF WriteSecret, WriteApplied
<1>. QED BY <1>1, <1>3 DEF WriteSecret, WriteSucceeds, SkipsWrite

\* Whatever faults happen, lost replies included, a pass writes a Secret only
\* in the state its own live read saw, and never one that somebody else owns.
THEOREM SecretsWrittenAsRead == Spec => NoSecretOverwritten
<1>. DEFINE A == PassStep => \A s \in Secret :
            secret'[s] # secret[s] => secret[s] = read /\ secret[s].owner \in {"", cur}
<1>1. Init => TypeInv /\ PassInv
  BY InvInit DEF Inv
<1>2. TypeInv /\ PassInv /\ [Next]_vars => (TypeInv /\ PassInv)'
  BY TypeNext, PassNext
<1>3. TypeInv /\ PassInv => A
  <2>. SUFFICES ASSUME TypeInv, PassInv, PassStep, NEW s \in Secret, secret'[s] # secret[s]
                PROVE  secret[s] = read /\ secret[s].owner \in {"", cur}
    OBVIOUS
  <2>1. UNCHANGED secret \/ WriteSecret
    BY DEF PassStep, ReportStatus, AddFinalizer, DeleteRevoke, ReleaseFinalizer, ReadSecret,
       GrantAccess, Unmint, RevokeOld, Commit
  <2>. QED BY <2>1, OnlyWriteSecretWrites DEF PassInv
<1>4. TypeInv /\ PassInv => [A]_vars
  BY <1>3
<1>. QED BY <1>1, <1>2, <1>4, PTL DEF Spec, NoSecretOverwritten

-----------------------------------------------------------------------------
(* The inductive invariant behind ReleasedAfterRevocation. *)

GrantPath == {"readSecret", "grant", "writeSecret", "unmint", "revokeOld", "commit"}
HasGrant == {"writeSecret", "unmint", "revokeOld", "commit"}

\* Every key that a status, a Secret or the pass names has been minted, and
\* CreateServiceAccountKey never hands it out again.
Used(k) == k \in Key => holder[k] # ""
UsedInv ==
    /\ \A a \in Access : Used(obj[a].principal) /\ Used(cache[a].principal)
    /\ \A s \in Secret : Used(secret[s].key)
    /\ Used(snap.principal) /\ Used(res.principal) /\ Used(read.key)

\* The cache and the snapshot are older versions of an object that only moves
\* forward, and the deletion path works on a deleted one.
AgeInv ==
    /\ \A a \in Access : obj[a].phase = "none" => obj[a] = NoObj /\ cache[a] = NoObj
    /\ pc # "idle" => obj[cur].phase # "none"
    /\ pc \in {"deleteRevoke", "release"} => snap.phase = "deleting"

\* A status that names a key says that it must be revoked, and no later status
\* takes that back.
RevocableInv ==
    /\ \A a \in Access : /\ obj[a].principal \in Key => obj[a].revocable
                         /\ cache[a].principal \in Key => cache[a].revocable
                         /\ cache[a].revocable => obj[a].revocable
    /\ pc # "idle" => /\ snap.principal \in Key => snap.revocable
                      /\ snap.revocable => obj[cur].revocable
    /\ pc \in HasGrant => res.revocable

\* The finalizer is there before the first key.
FinalizerInv ==
    /\ \A a \in Access : /\ obj[a].phase = "deleting" => obj[a].fin
                         /\ Exists(a) /\ obj[a].principal \in Key => obj[a].fin
                         /\ Exists(a) /\ cache[a].fin => obj[a].fin
    /\ pc \in GrantPath /\ Exists(cur) => obj[cur].fin

\* The Buckety of an access that has been granted a key stays as long as it.
BucketyInv ==
    /\ \A a \in Access : Exists(a) /\ (obj[a].principal \in Key \/ cache[a].principal \in Key)
                            => bky # "missing"
    /\ pc # "idle" /\ Exists(cur) /\ (snap.principal \in Key \/ pc \in GrantPath)
                            => bky # "missing"

\* The finalizer is released over a key that has been revoked.
RevokedInv ==
    /\ driver \in Drivers
    /\ pc \in GrantPath \cup {"deleteRevoke"} => driver # "absent"
    /\ pc = "release" /\ Exists(cur) /\ snap.principal \in Key => snap.principal \notin live

ReleaseInv == /\ TypeInv /\ UsedInv /\ AgeInv /\ RevocableInv /\ FinalizerInv /\ BucketyInv
              /\ RevokedInv /\ ReleasedAfterRevocation

-----------------------------------------------------------------------------
(* What a step does to an object that may hold a key. *)

\* Only a commit changes the principal, and it leaves the object revocable;
\* the finalizer goes only under the snapshot's resourceVersion.
KeyedMoves(a, o, n) ==
    /\ n.phase = "none" => n = o
    /\ o.phase # "none" => n.phase # "none"
    /\ o.phase = "gone" => n = o
    /\ \/ n.principal = o.principal /\ n.revocable = o.revocable
       \/ /\ pc = "commit" /\ cur = a /\ o.phase # "none" /\ n.phase = o.phase
          /\ n.principal \in {o.principal, res.principal} /\ n.revocable
       \/ o.phase = "none" /\ n.principal = "" /\ cache[a] = NoObj
    /\ o.fin => n.fin \/ n.phase = "gone"
    /\ n.phase = "deleting" => n.fin
    /\ n.phase = "gone" => \/ o.phase = "gone" \/ (o.phase = "live" /\ ~o.fin)
                           \/ pc = "release" /\ cur = a /\ o = snap /\ n.principal = o.principal

LEMMA KeyedStaysPut ==
    ASSUME ReleaseInv, NEW a \in Access
    PROVE  KeyedMoves(a, obj[a], obj[a])
BY DEF ReleaseInv, FinalizerInv, KeyedMoves

LEMMA CommitIsRevocable ==
    ASSUME NEW current \in Object, NEW base \in Object, NEW new \in Object
    PROVE  /\ MergePatch(current, base, new).revocable =
                IF new.revocable # base.revocable THEN new.revocable ELSE current.revocable
           /\ MergePatch(current, base, new).principal =
                IF new.principal # base.principal THEN new.principal ELSE current.principal
           /\ MergePatch(current, base, new).phase = current.phase
           /\ MergePatch(current, base, new).fin = current.fin
BY DEF MergePatch, Object

LEMMA PassKeyedMoves ==
    ASSUME ReleaseInv, PassStep, NEW a \in Access
    PROVE  KeyedMoves(a, obj[a], obj'[a])
<1>t. /\ TypeInv /\ obj \in [Access -> Object] /\ snap \in Object /\ res \in Grant
      /\ why \in Reason /\ (pc # "idle" => cur \in Access)
  BY DEF ReleaseInv, TypeInv, TypeOK
<1>u. CASE obj'[a] = obj[a]
  BY <1>u, KeyedStaysPut
<1>p. ASSUME NEW new \in Object, pc # "idle", PatchStatus(new),
             \/ new.principal = snap.principal /\ new.revocable = snap.revocable
             \/ pc = "commit" /\ new.principal = res.principal /\ new.revocable = TRUE
      PROVE  KeyedMoves(a, obj[a], obj'[a])
  <2>1. CASE a = cur /\ Exists(cur)
    <3>1. obj'[a] = MergePatch(obj[a], snap, new)
      BY <1>t, <1>p, <2>1 DEF PatchStatus
    <3>2. /\ obj'[a].phase = obj[a].phase /\ obj'[a].fin = obj[a].fin
          /\ obj'[a].principal = IF new.principal # snap.principal THEN new.principal
                                 ELSE obj[a].principal
          /\ obj'[a].revocable = IF new.revocable # snap.revocable THEN new.revocable
                                 ELSE obj[a].revocable
      BY <1>t, <1>p, <3>1, CommitIsRevocable
    <3>3. snap.revocable => obj[a].revocable
      BY <1>p, <2>1 DEF ReleaseInv, RevocableInv
    <3>4. snap.revocable \in BOOLEAN /\ obj[a].revocable \in BOOLEAN
      BY <1>t DEF Object
    <3>5. KeyedMoves(a, obj[a], obj[a])
      BY KeyedStaysPut
    <3>6. \/ obj'[a].principal = obj[a].principal /\ obj'[a].revocable = obj[a].revocable
          \/ /\ pc = "commit" /\ cur = a /\ obj'[a].revocable
             /\ obj'[a].principal \in {obj[a].principal, res.principal}
      BY <1>p, <2>1, <3>2, <3>3, <3>4
    <3>. QED BY <2>1, <3>2, <3>5, <3>6 DEF KeyedMoves, Exists
  <2>2. CASE ~(a = cur /\ Exists(cur))
    <3>1. obj'[a] = obj[a]
      BY <1>t, <1>p, <2>2 DEF PatchStatus
    <3>. QED BY <1>u, <3>1
  <2>. QED BY <2>1, <2>2
<1>1. CASE ReportStatus
  <2>1. /\ [snap EXCEPT !.cond = why] \in Object
        /\ [snap EXCEPT !.cond = why].principal = snap.principal
        /\ [snap EXCEPT !.cond = why].revocable = snap.revocable
    BY <1>t DEF Object
  <2>. QED BY <1>1, <1>p, <1>u, <2>1 DEF ReportStatus
<1>2. CASE Commit
  <2>. DEFINE new == [snap EXCEPT !.principal = res.principal, !.revocable = res.revocable,
                                  !.cond = "SecretMinted", !.observed = snap.gen]
  <2>0. res.revocable = TRUE
    BY <1>2, <1>t DEF ReleaseInv, RevocableInv, HasGrant, Commit, Grant
  <2>1. new \in Object /\ new.principal = res.principal /\ new.revocable = TRUE
    BY <1>t, <2>0 DEF Object, Grant, Reason
  <2>2. PatchStatus(new) \/ UNCHANGED obj
    BY <1>2 DEF Commit
  <2>3. pc = "commit"
    BY <1>2 DEF Commit
  <2>. HIDE DEF new
  <2>. QED BY <1>p, <1>u, <2>1, <2>2, <2>3
<1>3. CASE AddFinalizer
  <2>1. obj'[a] = obj[a] \/ (obj[a].phase = "live" /\ obj'[a] = [obj[a] EXCEPT !.fin = TRUE])
    BY <1>3, <1>t DEF AddFinalizer
  <2>2. CASE obj[a].phase = "live" /\ obj'[a] = [obj[a] EXCEPT !.fin = TRUE]
    <3>1. /\ obj'[a].phase = "live" /\ obj'[a].fin = TRUE /\ obj'[a].principal = obj[a].principal
          /\ obj'[a].revocable = obj[a].revocable
      BY <1>t, <2>2 DEF Object
    <3>. QED BY <2>2, <3>1 DEF KeyedMoves
  <2>. QED BY <1>u, <2>1, <2>2
<1>4. CASE ReleaseFinalizer
  <2>1. /\ pc = "release"
        /\ \/ obj'[a] = obj[a]
           \/ /\ a = cur /\ obj[a] = snap
              /\ obj'[a] = [obj[a] EXCEPT !.phase = "gone", !.fin = FALSE]
    BY <1>4, <1>t DEF ReleaseFinalizer
  <2>2. CASE /\ a = cur /\ obj[a] = snap
             /\ obj'[a] = [obj[a] EXCEPT !.phase = "gone", !.fin = FALSE]
    <3>1. /\ obj'[a].phase = "gone" /\ obj'[a].fin = FALSE /\ obj'[a].principal = obj[a].principal
          /\ obj'[a].revocable = obj[a].revocable
      BY <1>t, <2>2 DEF Object
    <3>2. obj[a].phase = "deleting"
      BY <2>1, <2>2 DEF ReleaseInv, AgeInv
    <3>. QED BY <2>1, <2>2, <3>1, <3>2 DEF KeyedMoves
  <2>. QED BY <1>u, <2>1, <2>2
<1>5. CASE DeleteRevoke \/ ReadSecret \/ GrantAccess \/ WriteSecret \/ Unmint \/ RevokeOld
  BY <1>5, <1>u DEF DeleteRevoke, ReadSecret, GrantAccess, WriteSecret, Unmint, RevokeOld
<1>. QED BY <1>1, <1>2, <1>3, <1>4, <1>5 DEF PassStep

LEMMA KeyedObjectsMove ==
    ASSUME ReleaseInv, [Next]_vars, NEW a \in Access
    PROVE  KeyedMoves(a, obj[a], obj'[a])
<1>t. TypeInv /\ obj \in [Access -> Object]
  BY DEF ReleaseInv, TypeInv, TypeOK
<1>u. CASE obj'[a] = obj[a]
  BY <1>u, KeyedStaysPut
<1>1. CASE PassStep
  BY <1>1, PassKeyedMoves
<1>2. ASSUME NEW c \in Access, UserCreates(c) \/ UserEdits(c) \/ UserDeletes(c)
      PROVE  KeyedMoves(a, obj[a], obj'[a])
  <2>1. CASE a # c
    BY <1>2, <1>t, <1>u, <2>1 DEF UserCreates, UserEdits, UserDeletes
  <2>2. CASE a = c /\ UserCreates(c)
    <3>1. obj[a] = NoObj /\ cache[a] = NoObj /\ obj'[a] = NewObj /\ obj[a].phase = "none"
      BY <1>t, <2>2 DEF UserCreates, ReleaseInv, AgeInv
    <3>2. NewObj.phase = "live" /\ NewObj.fin = FALSE /\ NewObj.principal = "" /\ NoObj.fin = FALSE
      BY DEF NewObj, NoObj
    <3>. QED BY <3>1, <3>2 DEF KeyedMoves
  <2>3. CASE a = c /\ UserEdits(c)
    <3>1. obj'[a] = [obj[a] EXCEPT !.gen = @ + 1] /\ obj[a].phase \in {"live", "deleting"}
      BY <1>t, <2>3 DEF UserEdits, Exists
    <3>2. /\ obj'[a].phase = obj[a].phase /\ obj'[a].fin = obj[a].fin
          /\ obj'[a].principal = obj[a].principal /\ obj'[a].revocable = obj[a].revocable
      BY <1>t, <3>1 DEF Object
    <3>3. KeyedMoves(a, obj[a], obj[a])
      BY KeyedStaysPut
    <3>. QED BY <3>1, <3>2, <3>3 DEF KeyedMoves
  <2>4. CASE a = c /\ UserDeletes(c)
    <3>1. /\ obj[a].phase = "live"
          /\ obj'[a] = [obj[a] EXCEPT !.phase = IF obj[a].fin THEN "deleting" ELSE "gone"]
      BY <1>t, <2>4 DEF UserDeletes
    <3>2. /\ obj'[a].phase = IF obj[a].fin THEN "deleting" ELSE "gone"
          /\ obj'[a].fin = obj[a].fin
          /\ obj'[a].principal = obj[a].principal /\ obj'[a].revocable = obj[a].revocable
      BY <1>t, <3>1 DEF Object
    <3>. QED BY <3>1, <3>2 DEF KeyedMoves
  <2>. QED BY <1>2, <2>1, <2>2, <2>3, <2>4
<1>3. ASSUME NEW c \in Access, BeginPass(c) \/ ForgetPass(c) \/ Sync(c) PROVE UNCHANGED obj
  BY <1>3 DEF BeginPass, ForgetPass, Sync
<1>4. ASSUME NEW s \in Secret, SecretChanges(s) \/ CollectSecret(s) PROVE UNCHANGED obj
  BY <1>4 DEF SecretChanges, CollectSecret
<1>5. ASSUME NEW k \in Key, KeyExpires(k) PROVE UNCHANGED obj
  BY <1>5 DEF KeyExpires
<1>6. CASE BucketyChanges \/ Restart \/ UNCHANGED vars
  BY <1>6, <1>u DEF BucketyChanges, Restart, vars
<1>. QED BY <1>1, <1>2, <1>3, <1>4, <1>5, <1>6, <1>u DEF Next, UserStep

\* The cache is what it was, or what the object is.
LEMMA CacheMoves ==
    ASSUME TypeInv, [Next]_vars, NEW a \in Access
    PROVE  cache'[a] = cache[a] \/ (cache'[a] = obj[a] /\ obj'[a] = obj[a])
<1>t. cache \in [Access -> Object]
  BY DEF TypeInv, TypeOK
<1>1. CASE PassStep
  <2>1. UNCHANGED cache
    BY <1>1 DEF PassStep, ReportStatus, AddFinalizer, DeleteRevoke, ReleaseFinalizer, ReadSecret,
       GrantAccess, WriteSecret, Unmint, RevokeOld, Commit
  <2>. QED BY <2>1
<1>2. UserStep => UNCHANGED cache
  BY DEF UserStep, UserCreates, UserEdits, UserDeletes, SecretChanges
<1>3. ASSUME NEW c \in Access, BeginPass(c) \/ ForgetPass(c) PROVE UNCHANGED cache
  BY <1>3 DEF BeginPass, ForgetPass
<1>4. ASSUME NEW c \in Access, Sync(c)
      PROVE  cache'[a] = cache[a] \/ (cache'[a] = obj[a] /\ obj'[a] = obj[a])
  BY <1>4, <1>t DEF Sync
<1>5. ASSUME NEW s \in Secret, CollectSecret(s) PROVE UNCHANGED cache
  BY <1>5 DEF CollectSecret
<1>6. ASSUME NEW k \in Key, KeyExpires(k) PROVE UNCHANGED cache
  BY <1>6 DEF KeyExpires
<1>7. CASE BucketyChanges \/ UNCHANGED vars
  BY <1>7 DEF BucketyChanges, vars
<1>8. CASE Restart
  BY <1>8 DEF Restart
<1>. QED BY <1>1, <1>2, <1>3, <1>4, <1>5, <1>6, <1>7, <1>8 DEF Next

\* Where a pass that is in flight after a step was before it.
LEMMA PassFrom ==
    ASSUME TypeInv, [Next]_vars, pc' # "idle"
    PROVE  \/ /\ pc # "idle" /\ cur \in Access /\ UNCHANGED <<cur, snap, driver>>
              /\ pc' \in GrantPath => pc \in GrantPath
              /\ pc' = "deleteRevoke" => pc = "deleteRevoke"
              /\ pc' = "release" => pc = "release" \/ DeleteRevoke
           \/ \E a \in Access : BeginPass(a)
<1>t. pc # "idle" => cur \in Access
  BY DEF TypeInv
<1>1. CASE ReportStatus \/ AddFinalizer \/ ReleaseFinalizer \/ Commit \/ Restart
  BY <1>1 DEF ReportStatus, AddFinalizer, ReleaseFinalizer, Commit, Restart, Done
<1>2. CASE DeleteRevoke
  BY <1>2, <1>t DEF DeleteRevoke, Goto, Done, GrantPath
<1>3. CASE ReadSecret \/ GrantAccess \/ WriteSecret
  BY <1>3, <1>t DEF ReadSecret, GrantAccess, WriteSecret, Granted, Report, Done, Goto, AfterWrite,
     FailedWrite, GrantPath
<1>4. CASE Unmint \/ RevokeOld
  BY <1>4, <1>t DEF Unmint, RevokeOld, Report, Goto, Done, GrantPath
<1>5. CASE Environment
  <2>1. UNCHANGED <<pc, cur, snap>>
    BY <1>5, EnvironmentStep DEF EnvironmentMoves
  <2>2. UNCHANGED driver
    BY <1>5 DEF Environment, UserStep, UserCreates, UserEdits, UserDeletes, SecretChanges,
       ForgetPass, Sync, CollectSecret, KeyExpires, BucketyChanges, vars
  <2>. QED BY <1>t, <2>1, <2>2
<1>. QED BY <1>1, <1>2, <1>3, <1>4, <1>5 DEF Next, PassStep, Environment

LEMMA NoKeys == "" \notin Key /\ "static" \notin Key /\ "edited" \notin Key /\ "" \notin Access
BY ConstantsAssumption, Zenon

\* A key, once minted, stays minted.
LEMMA HoldersStay ==
    ASSUME TypeInv, [Next]_vars, NEW k, Used(k)
    PROVE  Used(k)'
<1>t. holder \in [Key -> Access \cup {""}] /\ (pc # "idle" => cur \in Access)
  BY DEF TypeInv, TypeOK
<1>1. CASE UNCHANGED holder
  BY <1>1 DEF Used
<1>2. CASE GrantAccess
  <2>1. cur \in Access /\ cur # ""
    BY <1>2, <1>t, NoKeys DEF GrantAccess
  <2>2. UNCHANGED holder \/ \E c \in Key : holder' = [holder EXCEPT ![c] = cur]
    BY <1>2 DEF GrantAccess, Mint, backend, Fresh
  <2>. QED BY <1>t, <1>1, <2>1, <2>2 DEF Used
<1>3. CASE PassStep /\ ~GrantAccess
  BY <1>1, <1>3 DEF PassStep, ReportStatus, AddFinalizer, DeleteRevoke, ReleaseFinalizer, ReadSecret,
     WriteSecret, Unmint, RevokeOld, Commit, backend
<1>4. ASSUME NEW a \in Access, BeginPass(a) PROVE UNCHANGED holder
  BY <1>4 DEF BeginPass, backend
<1>5. CASE Restart
  BY <1>1, <1>5 DEF Restart, backend
<1>6. CASE Environment
  BY <1>1, <1>6, EnvironmentStep DEF EnvironmentMoves
<1>. QED BY <1>1, <1>2, <1>3, <1>4, <1>5, <1>6 DEF Next, Environment

StillUsed(k) == k \in Key => holder'[k] # ""

LEMMA UsedNext == ReleaseInv /\ [Next]_vars => UsedInv'
<1>. SUFFICES ASSUME ReleaseInv, [Next]_vars PROVE UsedInv'
  OBVIOUS
<1>t. /\ TypeInv /\ UsedInv /\ (pc # "idle" => cur \in Access)
      /\ secret \in [Secret -> SecretObject] /\ holder \in [Key -> Access \cup {""}]
      /\ SecretOf \in [Access -> Secret]
  BY ConstantsAssumption DEF ReleaseInv, TypeInv, TypeOK
<1>k. \A k : Used(k) => StillUsed(k)
  BY <1>t, HoldersStay DEF Used, StillUsed
<1>n. Used("") /\ Used("static") /\ Used("edited")
  BY NoKeys DEF Used
<1>1. \A a \in Access : Used(obj[a].principal) /\ Used(cache[a].principal)
  BY <1>t DEF UsedInv
<1>2. ASSUME NEW a \in Access PROVE StillUsed(obj'[a].principal)
  <2>1. obj'[a].principal \in {obj[a].principal, res.principal, ""}
    BY KeyedObjectsMove DEF KeyedMoves
  <2>. QED BY <1>t, <1>k, <1>n, <1>1, <2>1 DEF UsedInv
<1>3. ASSUME NEW a \in Access PROVE StillUsed(cache'[a].principal)
  BY <1>t, <1>k, <1>1, CacheMoves
<1>4. ASSUME NEW s \in Secret PROVE StillUsed(secret'[s].key)
  <2>0. StillUsed(secret[s].key) /\ StillUsed(res.principal)
    BY <1>t, <1>k DEF UsedInv
  <2>1. CASE Environment
    <3>1. secret'[s] = secret[s] \/ secret'[s].key \notin Key
      BY <1>t, <2>1, EnvironmentStep DEF EnvironmentMoves
    <3>. QED BY <2>0, <3>1 DEF StillUsed
  <2>2. CASE WriteSecret
    <3>1. UNCHANGED secret \/ secret' = [secret EXCEPT ![SecretOf[cur]] = Desired]
      BY <2>2 DEF WriteSecret, WriteApplied
    <3>2. Desired.key = res.principal
      BY DEF Desired
    <3>. QED BY <1>t, <2>0, <3>1, <3>2
  <2>3. CASE PassStep /\ ~WriteSecret
    <3>1. UNCHANGED secret
      BY <2>3 DEF PassStep, ReportStatus, AddFinalizer, DeleteRevoke, ReleaseFinalizer, ReadSecret,
         GrantAccess, Unmint, RevokeOld, Commit
    <3>. QED BY <2>0, <3>1
  <2>4. ASSUME NEW a \in Access, BeginPass(a) PROVE UNCHANGED secret
    BY <2>4 DEF BeginPass
  <2>5. CASE Restart
    BY <2>0, <2>5 DEF Restart
  <2>. QED BY <2>0, <2>1, <2>2, <2>3, <2>4, <2>5 DEF Next, Environment
<1>5. StillUsed(snap'.principal) /\ StillUsed(read'.key) /\ StillUsed(res'.principal)
  <2>0. StillUsed(snap.principal) /\ StillUsed(read.key) /\ StillUsed(res.principal)
    BY <1>t, <1>k DEF UsedInv
  <2>d. CASE Done
    <3>1. snap'.principal = "" /\ read'.key = "" /\ res'.principal = ""
      BY <2>d DEF Done, NoObj, NoSecret, NoGrant
    <3>2. StillUsed("")
      BY <1>k, <1>n
    <3>. QED BY <3>1, <3>2
  <2>u. CASE UNCHANGED <<snap, read, res>>
    BY <2>0, <2>u
  <2>1. CASE ReportStatus \/ AddFinalizer \/ ReleaseFinalizer \/ Commit \/ Restart
    BY <2>1, <2>d DEF ReportStatus, AddFinalizer, ReleaseFinalizer, Commit, Restart
  <2>2. CASE DeleteRevoke \/ RevokeOld \/ Unmint \/ WriteSecret
    BY <2>2, <2>d, <2>u DEF DeleteRevoke, RevokeOld, Unmint, WriteSecret, AfterWrite, FailedWrite,
       Goto, Report
  <2>3. CASE ReadSecret
    <3>1. CASE pc' = "grant" /\ read' = secret[SecretOf[cur]] /\ UNCHANGED <<snap, res>>
      <4>1. SecretOf[cur] \in Secret
        BY <1>t, <2>3 DEF ReadSecret
      <4>2. StillUsed(secret[SecretOf[cur]].key)
        BY <1>t, <1>k, <4>1 DEF UsedInv
      <4>. QED BY <2>0, <3>1, <4>2
    <3>. QED BY <2>3, <2>d, <2>u, <3>1 DEF ReadSecret, Report
  <2>4. CASE GrantAccess
    <3>1. UNCHANGED <<snap, read>>
      BY <2>4 DEF GrantAccess, Granted, Report
    <3>2. \/ UNCHANGED res \/ res'.principal \in {"static", read.key}
          \/ \E k \in Fresh : Mint(k) /\ res'.principal = k
      BY <2>4 DEF GrantAccess, Granted, Report
    <3>3. ASSUME NEW k \in Fresh, Mint(k), res'.principal = k PROVE StillUsed(res'.principal)
      <4>1. holder'[k] = cur /\ cur # ""
        BY <1>t, <2>4, <3>3, NoKeys DEF GrantAccess, Mint, Fresh
      <4>. QED BY <3>3, <4>1 DEF StillUsed
    <3>4. StillUsed("static") /\ StillUsed(read.key)
      BY <1>k, <1>n, <2>0
    <3>. QED BY <2>0, <3>1, <3>2, <3>3, <3>4
  <2>5. ASSUME NEW a \in Access, BeginPass(a) PROVE snap' = cache[a] /\ UNCHANGED <<read, res>>
    BY <2>5 DEF BeginPass
  <2>6. CASE Environment
    BY <1>t, <2>6, <2>u, EnvironmentStep DEF EnvironmentMoves
  <2>. QED BY <1>k, <1>1, <2>0, <2>1, <2>2, <2>3, <2>4, <2>5, <2>6 DEF Next, PassStep, Environment
<1>. QED BY <1>2, <1>3, <1>4, <1>5 DEF UsedInv, Used, StillUsed

\* A key that has been minted and is not in the backend does not come back.
LEMMA RevokedStaysRevoked ==
    ASSUME TypeInv, [Next]_vars, NEW k \in Key, holder[k] # "", k \notin live
    PROVE  k \notin live'
<1>1. CASE GrantAccess
  <2>1. UNCHANGED live \/ \E c \in Fresh : live' = live \cup {c}
    BY <1>1 DEF GrantAccess, Mint, backend
  <2>. QED BY <2>1 DEF Fresh
<1>2. CASE PassStep /\ ~GrantAccess
  <2>1. UNCHANGED live \/ \E p : live' = RevokeAccess(p)
    BY <1>2 DEF PassStep, ReportStatus, AddFinalizer, DeleteRevoke, ReleaseFinalizer, ReadSecret,
       WriteSecret, Unmint, RevokeOld, Commit, backend
  <2>. QED BY <2>1 DEF RevokeAccess
<1>3. ASSUME NEW a \in Access, BeginPass(a) PROVE UNCHANGED live
  BY <1>3 DEF BeginPass, backend
<1>4. CASE Restart
  BY <1>4 DEF Restart, backend
<1>5. CASE Environment
  BY <1>5, EnvironmentStep DEF EnvironmentMoves
<1>. QED BY <1>1, <1>2, <1>3, <1>4, <1>5 DEF Next, Environment

LEMMA AgeNext == ReleaseInv /\ [Next]_vars => AgeInv'
<1>. SUFFICES ASSUME ReleaseInv, [Next]_vars PROVE AgeInv'
  OBVIOUS
<1>t. TypeInv /\ AgeInv
  BY DEF ReleaseInv
<1>1. ASSUME NEW a \in Access, obj'[a].phase = "none"
      PROVE  obj'[a] = NoObj /\ cache'[a] = NoObj
  <2>1. obj'[a] = obj[a]
    BY <1>1, KeyedObjectsMove DEF KeyedMoves
  <2>2. obj[a] = NoObj /\ cache[a] = NoObj
    BY <1>t, <1>1, <2>1 DEF AgeInv
  <2>. QED BY <1>t, <2>1, <2>2, CacheMoves
<1>2. ASSUME pc' # "idle"
      PROVE  /\ obj'[cur'].phase # "none"
             /\ pc' \in {"deleteRevoke", "release"} => snap'.phase = "deleting"
  <2>1. ASSUME NEW a \in Access, BeginPass(a)
        PROVE  /\ obj'[cur'].phase # "none"
               /\ pc' \in {"deleteRevoke", "release"} => snap'.phase = "deleting"
    <3>1. /\ cache[a].phase \in {"live", "deleting"} /\ UNCHANGED obj /\ cur' = a
          /\ snap' = cache[a]
          /\ cache[a].phase # "deleting" => pc' = NextOnLive(cache[a])
      BY <2>1 DEF BeginPass
    <3>2. NoObj.phase = "none"
      BY DEF NoObj
    <3>3. NextOnLive(cache[a]) \notin {"deleteRevoke", "release"}
      BY DEF NextOnLive
    <3>. QED BY <1>t, <3>1, <3>2, <3>3 DEF AgeInv
  <2>2. CASE /\ pc # "idle" /\ cur \in Access /\ UNCHANGED <<cur, snap, driver>>
             /\ pc' = "deleteRevoke" => pc = "deleteRevoke"
             /\ pc' = "release" => pc = "release" \/ DeleteRevoke
    <3>1. obj[cur].phase # "none" => obj'[cur].phase # "none"
      BY <2>2, KeyedObjectsMove DEF KeyedMoves
    <3>2. DeleteRevoke => pc = "deleteRevoke"
      BY DEF DeleteRevoke
    <3>. QED BY <1>t, <2>2, <3>1, <3>2 DEF AgeInv
  <2>. QED BY <1>t, <1>2, <2>1, <2>2, PassFrom
<1>. QED BY <1>1, <1>2 DEF AgeInv

\* A grant result is made by GrantAccess and kept to the end of the pass.
LEMMA GrantFrom ==
    ASSUME TypeInv, [Next]_vars, pc' \in HasGrant, driver # "static"
    PROVE  (pc \in HasGrant /\ UNCHANGED res) \/ res'.revocable = TRUE
<1>1. CASE ReportStatus \/ AddFinalizer \/ ReleaseFinalizer \/ Commit \/ Restart
  BY <1>1 DEF ReportStatus, AddFinalizer, ReleaseFinalizer, Commit, Restart, Done, HasGrant
<1>2. CASE DeleteRevoke \/ ReadSecret
  BY <1>2 DEF DeleteRevoke, ReadSecret, Goto, Done, Report, HasGrant
<1>3. CASE GrantAccess
  BY <1>3 DEF GrantAccess, Granted, Report, HasGrant
<1>4. CASE WriteSecret \/ Unmint \/ RevokeOld
  BY <1>4 DEF WriteSecret, Unmint, RevokeOld, AfterWrite, FailedWrite, Goto, Report, Done, HasGrant
<1>5. ASSUME NEW a \in Access, BeginPass(a) PROVE FALSE
  BY <1>5 DEF BeginPass, NextOnDelete, NextOnLive, HasGrant
<1>6. CASE Environment
  BY <1>6, EnvironmentStep DEF EnvironmentMoves
<1>. QED BY <1>1, <1>2, <1>3, <1>4, <1>5, <1>6 DEF Next, PassStep, Environment

LEMMA RevocableNext ==
    ASSUME ReleaseInv, [Next]_vars, "static" \notin Drivers
    PROVE  RevocableInv'
<1>t. TypeInv /\ AgeInv /\ RevocableInv /\ driver # "static"
  BY DEF ReleaseInv, RevokedInv
<1>n. NoObj.revocable = FALSE /\ NoObj.principal = ""
  BY DEF NoObj
<1>1. ASSUME NEW a \in Access
      PROVE  /\ obj'[a].principal \in Key => obj'[a].revocable
             /\ cache[a].revocable => obj'[a].revocable
             /\ obj[a].phase # "none" /\ obj[a].revocable => obj'[a].revocable
  <2>1. \/ obj'[a].principal = obj[a].principal /\ obj'[a].revocable = obj[a].revocable
        \/ obj'[a].revocable
        \/ obj[a].phase = "none" /\ obj'[a].principal = "" /\ cache[a] = NoObj
    BY KeyedObjectsMove DEF KeyedMoves
  <2>. QED BY <1>t, <1>n, <2>1, NoKeys DEF RevocableInv
<1>2. ASSUME NEW a \in Access
      PROVE  /\ cache'[a].principal \in Key => cache'[a].revocable
             /\ cache'[a].revocable => obj'[a].revocable
  BY <1>t, <1>1, CacheMoves DEF RevocableInv
<1>3. ASSUME pc' # "idle"
      PROVE  /\ snap'.principal \in Key => snap'.revocable
             /\ snap'.revocable => obj'[cur'].revocable
  <2>1. ASSUME NEW a \in Access, BeginPass(a) PROVE cur' = a /\ snap' = cache[a]
    BY <2>1 DEF BeginPass
  <2>2. CASE pc # "idle" /\ cur \in Access /\ UNCHANGED <<cur, snap, driver>>
    BY <1>t, <1>1, <2>2 DEF RevocableInv, AgeInv
  <2>. QED BY <1>t, <1>1, <1>3, <2>1, <2>2, PassFrom DEF RevocableInv
<1>4. pc' \in HasGrant => res'.revocable
  BY <1>t, GrantFrom DEF RevocableInv
<1>. QED BY <1>1, <1>2, <1>3, <1>4 DEF RevocableInv

LEMMA FinalizerNext == ReleaseInv /\ [Next]_vars => FinalizerInv'
<1>. SUFFICES ASSUME ReleaseInv, [Next]_vars PROVE FinalizerInv'
  OBVIOUS
<1>t. TypeInv /\ AgeInv /\ FinalizerInv
  BY DEF ReleaseInv
<1>n. NoObj.fin = FALSE /\ NoObj.principal = ""
  BY DEF NoObj
<1>0. ASSUME NEW a \in Access, obj'[a].phase \in {"live", "deleting"}
      PROVE  obj[a].phase = "none" \/ Exists(a)
  BY <1>t, <1>0, KeyedObjectsMove DEF KeyedMoves, Exists, TypeInv, TypeOK, Object, Phase
<1>1. ASSUME NEW a \in Access
      PROVE  /\ obj'[a].phase = "deleting" => obj'[a].fin
             /\ obj[a].fin => obj'[a].fin \/ obj'[a].phase = "gone"
  BY KeyedObjectsMove DEF KeyedMoves
<1>2. ASSUME NEW a \in Access, obj'[a].phase \in {"live", "deleting"}, obj'[a].principal \in Key
      PROVE  obj'[a].fin
  <2>1. \/ obj'[a].principal = obj[a].principal
        \/ pc = "commit" /\ cur = a /\ obj[a].phase # "none"
        \/ obj'[a].principal = ""
    BY KeyedObjectsMove DEF KeyedMoves
  <2>2. obj[a].fin
    BY <1>t, <1>n, <1>0, <1>2, <2>1, NoKeys DEF FinalizerInv, AgeInv, GrantPath
  <2>. QED BY <1>1, <1>2, <2>2
<1>3. ASSUME NEW a \in Access, obj'[a].phase \in {"live", "deleting"}, cache'[a].fin
      PROVE  obj'[a].fin
  <2>1. cache'[a] = obj[a] \/ cache'[a] = cache[a]
    BY <1>t, CacheMoves
  <2>2. obj[a].fin
    BY <1>t, <1>n, <1>0, <1>3, <2>1 DEF FinalizerInv, AgeInv
  <2>. QED BY <1>1, <1>3, <2>2
<1>4. ASSUME pc' \in GrantPath, obj'[cur'].phase \in {"live", "deleting"}
      PROVE  obj'[cur'].fin
  <2>0. pc' # "idle"
    BY <1>4 DEF GrantPath
  <2>1. ASSUME NEW a \in Access, BeginPass(a) PROVE obj'[cur'].fin
    <3>1. /\ cur' = a /\ UNCHANGED obj
          /\ pc' \in {NextOnDelete(cache[a]), NextOnLive(cache[a])}
      BY <2>1 DEF BeginPass
    <3>2. NextOnDelete(cache[a]) \notin GrantPath
      BY DEF NextOnDelete, GrantPath
    <3>3. NextOnLive(cache[a]) \in GrantPath => cache[a].fin
      BY DEF NextOnLive, GrantPath
    <3>. QED BY <1>t, <1>4, <3>1, <3>2, <3>3 DEF FinalizerInv, Exists
  <2>2. CASE pc \in GrantPath /\ cur \in Access /\ UNCHANGED <<cur, snap, driver>>
    <3>1. pc # "idle"
      BY <2>2 DEF GrantPath
    <3>2. obj[cur].fin
      BY <1>t, <1>0, <1>4, <2>2, <3>1 DEF FinalizerInv, AgeInv
    <3>. QED BY <1>1, <1>4, <2>2, <3>2
  <2>. QED BY <1>t, <1>4, <2>0, <2>1, <2>2, PassFrom
<1>. QED BY <1>1, <1>2, <1>3, <1>4 DEF FinalizerInv, Exists

\* The Buckety goes only when no access exists.
LEMMA BucketyStays ==
    ASSUME [Next]_vars, "bkyGoes" \notin Env, bky' = "missing"
    PROVE  \/ bky = "missing"
           \/ UNCHANGED obj /\ \A a \in Access : ~Exists(a)
<1>1. CASE BucketyChanges
  BY <1>1 DEF BucketyChanges
<1>2. CASE PassStep
  BY <1>2 DEF PassStep, ReportStatus, AddFinalizer, DeleteRevoke, ReleaseFinalizer, ReadSecret,
     GrantAccess, WriteSecret, Unmint, RevokeOld, Commit
<1>3. UserStep => UNCHANGED bky
  BY DEF UserStep, UserCreates, UserEdits, UserDeletes, SecretChanges
<1>4. ASSUME NEW a \in Access, BeginPass(a) \/ ForgetPass(a) \/ Sync(a) PROVE UNCHANGED bky
  BY <1>4 DEF BeginPass, ForgetPass, Sync
<1>5. ASSUME NEW s \in Secret, CollectSecret(s) PROVE UNCHANGED bky
  BY <1>5 DEF CollectSecret
<1>6. ASSUME NEW k \in Key, KeyExpires(k) PROVE UNCHANGED bky
  BY <1>6 DEF KeyExpires
<1>7. CASE Restart \/ UNCHANGED vars
  BY <1>7 DEF Restart, vars
<1>. QED BY <1>1, <1>2, <1>3, <1>4, <1>5, <1>6, <1>7 DEF Next

LEMMA BucketyNext ==
    ASSUME ReleaseInv, [Next]_vars, "bkyGoes" \notin Env
    PROVE  BucketyInv'
<1>t. TypeInv /\ AgeInv /\ BucketyInv
  BY DEF ReleaseInv
<1>n. NoObj.principal = ""
  BY DEF NoObj
<1>0. ASSUME NEW a \in Access, obj'[a].phase \in {"live", "deleting"}
      PROVE  obj[a].phase = "none" \/ Exists(a)
  BY <1>t, <1>0, KeyedObjectsMove DEF KeyedMoves, Exists, TypeInv, TypeOK, Object, Phase
<1>1. ASSUME NEW a \in Access, obj'[a].phase \in {"live", "deleting"},
             obj'[a].principal \in Key \/ cache'[a].principal \in Key, bky' = "missing"
      PROVE  FALSE
  <2>1. bky = "missing"
    BY <1>1, BucketyStays DEF Exists
  <2>2. \/ obj'[a].principal = obj[a].principal
        \/ pc = "commit" /\ cur = a /\ obj[a].phase # "none"
        \/ obj'[a].principal = ""
    BY KeyedObjectsMove DEF KeyedMoves
  <2>3. cache'[a] \in {cache[a], obj[a]}
    BY <1>t, CacheMoves
  <2>4. pc = "commit" /\ cur = a /\ Exists(a) => bky # "missing"
    BY <1>t DEF BucketyInv, GrantPath
  <2>. QED BY <1>t, <1>n, <1>0, <1>1, <2>1, <2>2, <2>3, <2>4, NoKeys DEF BucketyInv, AgeInv
<1>2. ASSUME pc' # "idle", obj'[cur'].phase \in {"live", "deleting"},
             snap'.principal \in Key \/ pc' \in GrantPath, bky' = "missing"
      PROVE  FALSE
  <2>1. ASSUME NEW a \in Access, BeginPass(a) PROVE FALSE
    <3>1. /\ cur' = a /\ UNCHANGED <<obj, bky>> /\ snap' = cache[a]
          /\ pc' \in {NextOnDelete(cache[a]), NextOnLive(cache[a])}
      BY <2>1 DEF BeginPass
    <3>2. NextOnDelete(cache[a]) \notin GrantPath
      BY DEF NextOnDelete, GrantPath
    <3>3. NextOnLive(cache[a]) \in GrantPath => bky = "ready"
      BY DEF NextOnLive, GrantPath
    <3>. QED BY <1>t, <1>2, <3>1, <3>2, <3>3 DEF BucketyInv, Exists
  <2>2. CASE /\ pc # "idle" /\ cur \in Access /\ UNCHANGED <<cur, snap, driver>>
             /\ pc' \in GrantPath => pc \in GrantPath
    <3>1. Exists(cur)
      BY <1>t, <1>0, <1>2, <2>2 DEF AgeInv
    <3>2. bky = "missing"
      BY <1>2, <2>2, <3>1, BucketyStays
    <3>. QED BY <1>t, <1>2, <2>2, <3>1, <3>2 DEF BucketyInv
  <2>. QED BY <1>t, <1>2, <2>1, <2>2, PassFrom
<1>. QED BY <1>1, <1>2 DEF BucketyInv, Exists

LEMMA DriverStays ==
    ASSUME [Next]_vars, driver \in Drivers
    PROVE  driver' \in Drivers
<1>1. CASE Restart
  BY <1>1 DEF Restart
<1>2. CASE PassStep
  BY <1>2 DEF PassStep, ReportStatus, AddFinalizer, DeleteRevoke, ReleaseFinalizer, ReadSecret,
     GrantAccess, WriteSecret, Unmint, RevokeOld, Commit
<1>3. UserStep => UNCHANGED driver
  BY DEF UserStep, UserCreates, UserEdits, UserDeletes, SecretChanges
<1>4. ASSUME NEW a \in Access, BeginPass(a) \/ ForgetPass(a) \/ Sync(a) PROVE UNCHANGED driver
  BY <1>4 DEF BeginPass, ForgetPass, Sync
<1>5. ASSUME NEW s \in Secret, CollectSecret(s) PROVE UNCHANGED driver
  BY <1>5 DEF CollectSecret
<1>6. ASSUME NEW k \in Key, KeyExpires(k) PROVE UNCHANGED driver
  BY <1>6 DEF KeyExpires
<1>7. CASE BucketyChanges \/ UNCHANGED vars
  BY <1>7 DEF BucketyChanges, vars
<1>. QED BY <1>1, <1>2, <1>3, <1>4, <1>5, <1>6, <1>7 DEF Next

\* Where BeginPass sends a deleted access and a live one.
LEMMA FirstStep ==
    ASSUME NEW o, bky \in {"missing", "waiting", "ready"}, driver \in Driver,
           o.revocable \in BOOLEAN
    PROVE  /\ NextOnDelete(o) = "deleteRevoke" => driver # "absent"
           /\ NextOnDelete(o) = "release" =>
                bky = "missing" \/ (driver = "absent" /\ ~o.revocable)
           /\ NextOnDelete(o) \in {"release", "report", "deleteRevoke"}
           /\ NextOnLive(o) \in {"addFinalizer", "report", "readSecret"}
           /\ NextOnLive(o) = "readSecret" => driver # "absent"
<1>1. CASE bky = "missing"
  BY <1>1 DEF NextOnDelete, NextOnLive
<1>2. CASE bky # "missing" /\ driver = "absent"
  BY <1>2 DEF NextOnDelete, NextOnLive
<1>3. CASE bky # "missing" /\ driver # "absent"
  BY <1>3 DEF NextOnDelete, NextOnLive
<1>. QED BY <1>1, <1>2, <1>3

LEMMA RevokedNext ==
    ASSUME ReleaseInv, [Next]_vars, "static" \notin Drivers
    PROVE  RevokedInv'
<1>t. /\ TypeInv /\ AgeInv /\ UsedInv /\ RevocableInv /\ BucketyInv /\ RevokedInv
      /\ bky \in {"missing", "waiting", "ready"} /\ driver \in Driver
      /\ cache \in [Access -> Object]
  BY DEF ReleaseInv, TypeInv, TypeOK
<1>1. driver' \in Drivers
  BY <1>t, DriverStays DEF RevokedInv
<1>b. ASSUME NEW a \in Access, BeginPass(a)
      PROVE  /\ cur' = a /\ UNCHANGED <<obj, driver, live>> /\ snap' = cache[a]
             /\ pc' = "deleteRevoke" => driver # "absent"
             /\ pc' = "release" => bky = "missing" \/ (driver = "absent" /\ ~cache[a].revocable)
             /\ pc' \in GrantPath => driver # "absent"
  <2>1. /\ cur' = a /\ UNCHANGED <<obj, driver, live>> /\ snap' = cache[a]
        /\ pc' \in {NextOnDelete(cache[a]), NextOnLive(cache[a])}
    BY <1>b DEF BeginPass, backend
  <2>2. cache[a].revocable \in BOOLEAN
    BY <1>t DEF Object
  <2>3. /\ NextOnDelete(cache[a]) = "deleteRevoke" => driver # "absent"
        /\ NextOnDelete(cache[a]) = "release" =>
                bky = "missing" \/ (driver = "absent" /\ ~cache[a].revocable)
        /\ NextOnDelete(cache[a]) \in {"release", "report", "deleteRevoke"}
        /\ NextOnLive(cache[a]) \in {"addFinalizer", "report", "readSecret"}
        /\ NextOnLive(cache[a]) = "readSecret" => driver # "absent"
    BY <1>t, <2>2, FirstStep
  <2>. QED BY <2>1, <2>3 DEF GrantPath
<1>2. ASSUME pc' \in GrantPath \cup {"deleteRevoke"} PROVE driver' # "absent"
  <2>1. pc' # "idle"
    BY <1>2 DEF GrantPath
  <2>. QED BY <1>t, <1>2, <1>b, <2>1, PassFrom DEF RevokedInv
<1>3. ASSUME pc' = "release", obj'[cur'].phase \in {"live", "deleting"}, snap'.principal \in Key
      PROVE  snap'.principal \notin live'
  <2>1. ASSUME NEW a \in Access, BeginPass(a) PROVE FALSE
    <3>1. bky = "missing" \/ ~cache[a].revocable
      BY <1>3, <1>b, <2>1
    <3>2. cache[a].principal \in Key /\ Exists(a)
      BY <1>3, <1>b, <2>1 DEF Exists
    <3>. QED BY <1>t, <3>1, <3>2 DEF BucketyInv, RevocableInv
  <2>2. CASE DeleteRevoke
    <3>1. driver = "minting"
      BY <1>t, <2>2 DEF DeleteRevoke, RevokedInv, Driver
    <3>2. live' = RevokeAccess(snap.principal) /\ UNCHANGED snap
      BY <1>3, <2>2 DEF DeleteRevoke, Goto, Done
    <3>. QED BY <3>1, <3>2 DEF RevokeAccess
  <2>3. CASE pc = "release" /\ cur \in Access /\ UNCHANGED <<cur, snap, driver>>
    <3>1. obj[cur].phase # "none"
      BY <1>t, <2>3 DEF AgeInv
    <3>2. Exists(cur)
      BY <1>t, <1>3, <2>3, <3>1, KeyedObjectsMove
         DEF KeyedMoves, Exists, TypeInv, TypeOK, Object, Phase
    <3>3. snap.principal \in Key /\ snap.principal \notin live /\ holder[snap.principal] # ""
      BY <1>t, <1>3, <2>3, <3>2 DEF RevokedInv, UsedInv, Used
    <3>4. snap.principal \notin live'
      BY <1>t, <3>3, RevokedStaysRevoked
    <3>. QED BY <2>3, <3>4
  <2>. QED BY <1>t, <1>3, <2>1, <2>2, <2>3, PassFrom
<1>. QED BY <1>1, <1>2, <1>3 DEF RevokedInv, Exists

LEMMA ReleasedNext == ReleaseInv /\ [Next]_vars => ReleasedAfterRevocation'
<1>. SUFFICES ASSUME ReleaseInv, [Next]_vars, NEW a \in Access, obj'[a].phase = "gone",
                     obj'[a].principal \in Key
              PROVE  obj'[a].principal \notin live'
  BY DEF ReleasedAfterRevocation
<1>t. /\ TypeInv /\ AgeInv /\ UsedInv /\ FinalizerInv /\ RevokedInv /\ ReleasedAfterRevocation
  BY DEF ReleaseInv
<1>m. KeyedMoves(a, obj[a], obj'[a])
  BY KeyedObjectsMove
<1>1. CASE obj[a].phase = "gone"
  <2>1. obj'[a] = obj[a]
    BY <1>1, <1>m DEF KeyedMoves
  <2>2. obj[a].principal \in Key /\ obj[a].principal \notin live /\ holder[obj[a].principal] # ""
    BY <1>t, <1>1, <2>1 DEF ReleasedAfterRevocation, UsedInv, Used
  <2>. QED BY <1>t, <2>1, <2>2, RevokedStaysRevoked
<1>2. CASE obj[a].phase = "live" /\ ~obj[a].fin
  <2>1. obj'[a].principal = obj[a].principal
    BY <1>2, <1>m DEF KeyedMoves
  <2>. QED BY <1>t, <1>2, <2>1 DEF FinalizerInv, Exists
<1>3. CASE pc = "release" /\ cur = a /\ obj[a] = snap /\ obj'[a].principal = obj[a].principal
  <2>1. Exists(cur)
    BY <1>t, <1>3 DEF AgeInv, Exists
  <2>2. snap.principal \in Key /\ snap.principal \notin live /\ holder[snap.principal] # ""
    BY <1>t, <1>3, <2>1 DEF RevokedInv, UsedInv, Used
  <2>. QED BY <1>t, <1>3, <2>2, RevokedStaysRevoked
<1>. QED BY <1>m, <1>1, <1>2, <1>3 DEF KeyedMoves

LEMMA ReleaseInit == Init => ReleaseInv
<1>. SUFFICES ASSUME Init PROVE ReleaseInv
  OBVIOUS
<1>1. TypeInv
  BY TypeInit
<1>2. /\ NoObj.phase = "none" /\ NoObj.principal = "" /\ NoObj.revocable = FALSE
      /\ NoObj.fin = FALSE /\ NoSecret.key = "" /\ NoGrant.principal = ""
  BY DEF NoObj, NoSecret, NoGrant
<1>3. \A a \in Access : obj[a] = NoObj /\ cache[a] = NoObj
  BY DEF Init
<1>4. /\ \A s \in Secret : secret[s] = NoSecret
      /\ snap = NoObj /\ read = NoSecret /\ res = NoGrant /\ pc = "idle" /\ driver \in Drivers
  BY DEF Init
<1>5. UsedInv
  BY <1>2, <1>3, <1>4, NoKeys DEF UsedInv, Used
<1>6. AgeInv /\ RevocableInv /\ FinalizerInv /\ BucketyInv
  BY <1>2, <1>3, <1>4, NoKeys
     DEF AgeInv, RevocableInv, FinalizerInv, BucketyInv, Exists, GrantPath, HasGrant
<1>7. RevokedInv
  BY <1>4 DEF RevokedInv, GrantPath
<1>8. ReleasedAfterRevocation
  BY <1>2, <1>3 DEF ReleasedAfterRevocation
<1>. QED BY <1>1, <1>5, <1>6, <1>7, <1>8 DEF ReleaseInv

\* When the Buckety's own finalizer keeps it while an access exists, and no
\* restart resolves the backend to a driver without revocation, an access
\* leaves the API server only after the key its final status names has been
\* revoked: whatever the informer lag, crashes, failed or lost calls, the
\* finalizer goes under the resourceVersion of the very status that
\* RevokeAccess read.
THEOREM RevokedBeforeRelease ==
    ASSUME "bkyGoes" \notin Env, "static" \notin Drivers
    PROVE  Spec => []ReleasedAfterRevocation
<1>1. Init => ReleaseInv
  BY ReleaseInit
<1>2. ReleaseInv /\ [Next]_vars => ReleaseInv'
  <2>. SUFFICES ASSUME ReleaseInv, [Next]_vars PROVE ReleaseInv'
    OBVIOUS
  <2>1. TypeInv'
    BY TypeNext DEF ReleaseInv
  <2>. QED
    BY <2>1, UsedNext, AgeNext, RevocableNext, FinalizerNext, BucketyNext, RevokedNext, ReleasedNext
       DEF ReleaseInv
<1>3. ReleaseInv => ReleasedAfterRevocation
  BY DEF ReleaseInv
<1>. QED BY <1>1, <1>2, <1>3, PTL DEF Spec

-----------------------------------------------------------------------------
(* The inductive invariant behind KeysAccountedFor. *)

\* A pass that serves an access does so while the access exists: a cache that
\* shows it live and with its finalizer is out of date at most by a deletion
\* that has only been requested.
PresentInv ==
    /\ \A a \in Access : /\ cache[a].phase \in {"deleting", "gone"} =>
                                obj[a].phase \in {"deleting", "gone"}
                         /\ cache[a].phase = "live" /\ cache[a].fin => Exists(a)
    /\ pc \in {"deleteRevoke", "release"} => cache[cur].phase \in {"deleting", "gone"}
    /\ pc \in GrantPath => Exists(cur)

\* A key minted in this pass is new to the snapshot, and the snapshot's own
\* key is revoked before the status names another.
MintInv ==
    /\ pc \in HasGrant /\ res.minted =>
            /\ res.principal \in Key /\ res.principal # snap.principal
            /\ holder[res.principal] = cur
    /\ pc = "commit" => snap.principal = res.principal \/ snap.principal \notin live

\* Keys that no status names, but for the one the pass has minted and still
\* answers for.
Answers == pc \in HasGrant /\ res.minted
Named(k) == \E a \in Access : holder[k] = a /\ Exists(a) /\ obj[a].principal = k
Loose == {k \in live : ~Named(k) /\ ~(Answers /\ k = res.principal)}

\* A pass on a stale principal has been counted already; its commit may lose
\* the key that the status names by then.
Stale == pc # "idle" /\ snap.principal # obj[cur].principal
Debt == IF Stale THEN 1 ELSE 0
CountInv == IsFiniteSet(live) /\ Cardinality(Loose) + Debt <= faults

KeepInv == ReleaseInv /\ PresentInv /\ MintInv /\ CountInv

LEMMA PresentNext ==
    ASSUME ReleaseInv, PresentInv, [Next]_vars
    PROVE  PresentInv'
<1>t. TypeInv /\ AgeInv /\ FinalizerInv /\ obj \in [Access -> Object]
  BY DEF ReleaseInv, TypeInv, TypeOK
<1>m. ObjectsMove
  BY <1>t, ObjectsStep
<1>0. ASSUME NEW a \in Access, Exists(a), obj[a].fin, ~(pc = "release" /\ cur = a)
      PROVE  obj'[a].phase \in {"live", "deleting"}
  <2>1. KeyedMoves(a, obj[a], obj'[a])
    BY KeyedObjectsMove
  <2>2. obj'[a].phase \in Phase
    BY <1>t, TypeNext DEF TypeInv, TypeOK, Object
  <2>. QED BY <1>0, <2>1, <2>2 DEF KeyedMoves, Exists, Phase
<1>1. ASSUME NEW a \in Access, cache'[a].phase \in {"deleting", "gone"}
      PROVE  obj'[a].phase \in {"deleting", "gone"}
  BY <1>t, <1>m, <1>1, CacheMoves DEF PresentInv, ObjectsMove
<1>2. ASSUME NEW a \in Access, cache'[a].phase = "live", cache'[a].fin
      PROVE  obj'[a].phase \in {"live", "deleting"}
  <2>1. CASE cache'[a] = obj[a] /\ obj'[a] = obj[a]
    BY <1>2, <2>1
  <2>2. CASE cache'[a] = cache[a]
    <3>1. Exists(a) /\ ~(pc = "release" /\ cur = a)
      BY <1>2, <2>2 DEF PresentInv
    <3>2. obj[a].fin
      BY <1>t, <1>2, <2>2, <3>1 DEF FinalizerInv
    <3>. QED BY <1>0, <3>1, <3>2
  <2>. QED BY <1>t, <2>1, <2>2, CacheMoves
<1>b. ASSUME NEW a \in Access, BeginPass(a)
      PROVE  /\ cur' = a /\ UNCHANGED <<obj, cache>>
             /\ pc' \in {"deleteRevoke", "release"} => cache[a].phase = "deleting"
             /\ pc' \in GrantPath => cache[a].phase = "live" /\ cache[a].fin
  <2>1. /\ cur' = a /\ UNCHANGED <<obj, cache>> /\ cache[a].phase \in {"live", "deleting"}
        /\ pc' = IF cache[a].phase = "deleting" THEN NextOnDelete(cache[a])
                 ELSE NextOnLive(cache[a])
    BY <1>b DEF BeginPass
  <2>2. NextOnDelete(cache[a]) \notin GrantPath
    BY DEF NextOnDelete, GrantPath
  <2>3. /\ NextOnLive(cache[a]) \notin {"deleteRevoke", "release"}
        /\ NextOnLive(cache[a]) \in GrantPath => cache[a].fin
    BY DEF NextOnLive, GrantPath
  <2>. QED BY <2>1, <2>2, <2>3
<1>3. ASSUME pc' \in {"deleteRevoke", "release"}
      PROVE  cache'[cur'].phase \in {"deleting", "gone"}
  <2>1. CASE pc \in {"deleteRevoke", "release"} /\ cur \in Access /\ UNCHANGED cur
    BY <1>t, <2>1, CacheMoves DEF PresentInv
  <2>2. DeleteRevoke => pc = "deleteRevoke"
    BY DEF DeleteRevoke
  <2>3. pc' # "idle"
    BY <1>3
  <2>. QED BY <1>t, <1>3, <1>b, <2>1, <2>2, <2>3, PassFrom
<1>4. ASSUME pc' \in GrantPath
      PROVE  obj'[cur'].phase \in {"live", "deleting"}
  <2>1. CASE pc \in GrantPath /\ cur \in Access /\ UNCHANGED cur
    <3>1. Exists(cur) /\ obj[cur].fin /\ pc # "release"
      BY <1>t, <2>1 DEF PresentInv, FinalizerInv, GrantPath
    <3>. QED BY <1>0, <2>1, <3>1
  <2>2. ASSUME NEW a \in Access, BeginPass(a) PROVE obj'[cur'].phase \in {"live", "deleting"}
    <3>1. Exists(a)
      BY <1>4, <1>b, <2>2 DEF PresentInv
    <3>. QED BY <1>b, <2>2, <3>1 DEF Exists
  <2>3. pc' # "idle"
    BY <1>4 DEF GrantPath
  <2>. QED BY <1>t, <1>4, <2>1, <2>2, <2>3, PassFrom
<1>. QED BY <1>1, <1>2, <1>3, <1>4 DEF PresentInv, Exists

\* Where a grant result comes from.
LEMMA MintFrom ==
    ASSUME TypeInv, [Next]_vars, pc' \in HasGrant
    PROVE  \/ pc \in HasGrant /\ UNCHANGED <<res, cur, snap, holder>>
           \/ GrantAccess /\ UNCHANGED <<cur, snap, holder>> /\ ~res'.minted
           \/ GrantAccess /\ UNCHANGED <<cur, snap>> /\ \E k \in Fresh : Mint(k) /\ res'.principal = k
<1>1. CASE ReportStatus \/ AddFinalizer \/ ReleaseFinalizer \/ Commit \/ Restart
  BY <1>1 DEF ReportStatus, AddFinalizer, ReleaseFinalizer, Commit, Restart, Done, HasGrant
<1>2. CASE DeleteRevoke \/ ReadSecret
  BY <1>2 DEF DeleteRevoke, ReadSecret, Goto, Done, Report, HasGrant
<1>3. CASE GrantAccess
  BY <1>3 DEF GrantAccess, Granted, Report, HasGrant, backend
<1>4. CASE WriteSecret \/ Unmint \/ RevokeOld
  BY <1>4 DEF WriteSecret, Unmint, RevokeOld, AfterWrite, FailedWrite, Goto, Report, Done, HasGrant,
     backend
<1>5. ASSUME NEW a \in Access, BeginPass(a) PROVE FALSE
  BY <1>5 DEF BeginPass, NextOnDelete, NextOnLive, HasGrant
<1>6. CASE Environment
  BY <1>6, EnvironmentStep DEF EnvironmentMoves
<1>. QED BY <1>1, <1>2, <1>3, <1>4, <1>5, <1>6 DEF Next, PassStep, Environment

\* A pass at its commit has got there from the write or from a revocation.
LEMMA CommitFrom ==
    ASSUME TypeInv, [Next]_vars, pc' = "commit"
    PROVE  /\ UNCHANGED <<res, snap>>
           /\ \/ pc = "commit" /\ UNCHANGED live
              \/ (snap.principal = res.principal \/ snap.principal \notin Key) /\ UNCHANGED live
              \/ pc = "revokeOld" /\ live' = RevokeAccess(snap.principal)
<1>1. CASE ReportStatus \/ AddFinalizer \/ ReleaseFinalizer \/ Commit \/ Restart
  BY <1>1 DEF ReportStatus, AddFinalizer, ReleaseFinalizer, Commit, Restart, Done
<1>2. CASE DeleteRevoke \/ ReadSecret \/ GrantAccess \/ Unmint
  BY <1>2 DEF DeleteRevoke, ReadSecret, GrantAccess, Unmint, Granted, Goto, Done, Report
<1>3. CASE RevokeOld
  BY <1>3 DEF RevokeOld, Goto, Report
<1>4. CASE WriteSecret
  <2>1. AfterWrite /\ UNCHANGED live
    BY <1>4 DEF WriteSecret, FailedWrite, Goto, Report, Done, backend
  <2>. QED BY <2>1, NoKeys DEF AfterWrite, Goto
<1>5. ASSUME NEW a \in Access, BeginPass(a) PROVE FALSE
  BY <1>5 DEF BeginPass, NextOnDelete, NextOnLive
<1>6. CASE Environment
  BY <1>6, EnvironmentStep DEF EnvironmentMoves
<1>. QED BY <1>1, <1>2, <1>3, <1>4, <1>5, <1>6 DEF Next, PassStep, Environment

LEMMA MintNext ==
    ASSUME ReleaseInv, MintInv, [Next]_vars, "static" \notin Drivers
    PROVE  MintInv'
<1>t. TypeInv /\ UsedInv /\ RevokedInv /\ driver \in Driver /\ live \subseteq Key
  BY DEF ReleaseInv, TypeInv, TypeOK
<1>h. holder \in [Key -> Access \cup {""}]
  BY DEF ReleaseInv, TypeInv, TypeOK
<1>1. ASSUME pc' \in HasGrant, res'.minted
      PROVE  /\ res'.principal \in Key /\ res'.principal # snap'.principal
             /\ holder'[res'.principal] = cur'
  <2>1. CASE pc \in HasGrant /\ UNCHANGED <<res, cur, snap, holder>>
    BY <1>1, <2>1 DEF MintInv
  <2>2. ASSUME UNCHANGED <<cur, snap>>, NEW k \in Fresh, Mint(k), res'.principal = k
        PROVE  /\ res'.principal \in Key /\ res'.principal # snap'.principal
               /\ holder'[res'.principal] = cur'
    <3>1. k \in Key /\ holder[k] = ""
      BY DEF Fresh
    <3>2. snap.principal # k
      BY <1>t, <3>1 DEF UsedInv, Used
    <3>3. holder'[k] = cur
      BY <1>h, <2>2, <3>1 DEF Mint
    <3>. QED BY <2>2, <3>1, <3>2, <3>3
  <2>. QED BY <1>t, <1>1, <2>1, <2>2, MintFrom
<1>2. ASSUME pc' = "commit"
      PROVE  snap'.principal = res'.principal \/ snap'.principal \notin live'
  <2>2. CASE pc = "revokeOld" /\ live' = RevokeAccess(snap.principal)
    <3>1. driver = "minting"
      BY <1>t, <2>2 DEF RevokedInv, Driver, GrantPath
    <3>. QED BY <1>t, <1>2, <2>2, <3>1, CommitFrom DEF RevokeAccess
  <2>. QED BY <1>t, <1>2, <2>2, CommitFrom DEF MintInv
<1>. QED BY <1>1, <1>2 DEF MintInv

-----------------------------------------------------------------------------
(* What a step adds to the keys that no status names. *)

\* Only a commit changes the principal of an object, and only when it differs
\* from the one the pass began with.
LEMMA CommitMoves ==
    ASSUME ReleaseInv, [Next]_vars, NEW a \in Access, obj[a].phase # "none",
           obj'[a].principal # obj[a].principal
    PROVE  /\ Commit /\ a = cur /\ UNCHANGED faults /\ res.principal # snap.principal
           /\ obj'[a].principal = res.principal
<1>t. TypeInv /\ obj \in [Access -> Object] /\ snap \in Object /\ res \in Grant
  BY DEF ReleaseInv, TypeInv, TypeOK
<1>1. CASE Commit
  <2>. DEFINE new == [snap EXCEPT !.principal = res.principal, !.revocable = res.revocable,
                                  !.cond = "SecretMinted", !.observed = snap.gen]
  <2>1. new \in Object /\ new.principal = res.principal
    BY <1>t DEF Object, Grant, Reason
  <2>2. PatchStatus(new) /\ UNCHANGED faults
    BY <1>1 DEF Commit
  <2>. HIDE DEF new
  <2>3. a = cur /\ obj'[a] = MergePatch(obj[a], snap, new)
    BY <1>t, <2>2 DEF PatchStatus
  <2>4. obj'[a].principal = IF new.principal # snap.principal THEN new.principal
                            ELSE obj[a].principal
    BY <1>t, <2>1, <2>3, CommitIsRevocable
  <2>. QED BY <1>1, <2>1, <2>2, <2>3, <2>4
<1>2. CASE PassStep /\ ~Commit
  <2>1. pc = "commit"
    BY <1>2, PassKeyedMoves DEF KeyedMoves
  <2>. QED
    BY <1>2, <2>1 DEF PassStep, ReportStatus, AddFinalizer, DeleteRevoke, ReleaseFinalizer,
       ReadSecret, GrantAccess, WriteSecret, Unmint, RevokeOld
<1>3. ASSUME NEW c \in Access, UserCreates(c) \/ UserEdits(c) \/ UserDeletes(c)
      PROVE  FALSE
  <2>1. CASE UserCreates(c)
    BY <1>t, <2>1 DEF UserCreates
  <2>2. CASE UserEdits(c)
    BY <1>t, <2>2 DEF UserEdits, Object
  <2>3. CASE UserDeletes(c)
    BY <1>t, <2>3 DEF UserDeletes, Object
  <2>. QED BY <1>3, <2>1, <2>2, <2>3
<1>4. ASSUME NEW c \in Access, BeginPass(c) \/ ForgetPass(c) \/ Sync(c) PROVE UNCHANGED obj
  BY <1>4 DEF BeginPass, ForgetPass, Sync
<1>5. ASSUME NEW s \in Secret, SecretChanges(s) \/ CollectSecret(s) PROVE UNCHANGED obj
  BY <1>5 DEF SecretChanges, CollectSecret
<1>6. ASSUME NEW k \in Key, KeyExpires(k) PROVE UNCHANGED obj
  BY <1>6 DEF KeyExpires
<1>7. CASE BucketyChanges \/ Restart \/ UNCHANGED vars
  BY <1>7 DEF BucketyChanges, Restart, vars
<1>. QED BY <1>1, <1>2, <1>3, <1>4, <1>5, <1>6, <1>7 DEF Next, UserStep

\* A status stops naming a live key only in the commit of a pass that began
\* on a stale principal.
LEMMA NameLost ==
    ASSUME KeepInv, [Next]_vars, NEW k \in live, Named(k), ~Named(k)', holder'[k] = holder[k]
    PROVE  k = obj[cur].principal /\ Stale /\ Commit /\ UNCHANGED faults
<1>t. /\ ReleaseInv /\ TypeInv /\ FinalizerInv /\ RevokedInv /\ MintInv /\ k \in Key
      /\ obj \in [Access -> Object]
  BY DEF KeepInv, ReleaseInv, TypeInv, TypeOK
<1>1. PICK a \in Access : holder[k] = a /\ Exists(a) /\ obj[a].principal = k
  BY DEF Named
<1>2. ~(obj'[a].phase \in {"live", "deleting"} /\ obj'[a].principal = k)
  BY <1>1 DEF Named, Exists
<1>3. obj'[a].phase \in {"live", "deleting"}
  <2>1. obj[a].fin
    BY <1>t, <1>1 DEF FinalizerInv
  <2>2. KeyedMoves(a, obj[a], obj'[a])
    BY <1>t, KeyedObjectsMove
  <2>3. ~(pc = "release" /\ cur = a /\ obj[a] = snap)
    BY <1>t, <1>1 DEF RevokedInv
  <2>4. obj'[a].phase \in Phase
    BY <1>t, TypeNext DEF TypeInv, TypeOK, Object
  <2>. QED BY <1>1, <2>1, <2>2, <2>3, <2>4 DEF KeyedMoves, Exists, Phase
<1>4. /\ Commit /\ a = cur /\ UNCHANGED faults /\ res.principal # snap.principal
  BY <1>t, <1>1, <1>2, <1>3, CommitMoves DEF Exists
<1>5. pc = "commit" /\ snap.principal \notin live
  BY <1>t, <1>4 DEF Commit, MintInv
<1>. QED BY <1>1, <1>4, <1>5 DEF Stale

\* A pass stops answering for the key it minted when the status names it,
\* when it has revoked it, or in a fault.
LEMMA AnswerLost ==
    ASSUME KeepInv, [Next]_vars, "static" \notin Drivers, NEW k \in live', Answers,
           k = res.principal, ~(Answers' /\ k = res'.principal), ~Named(k)'
    PROVE  faults' = faults + 1
<1>t. /\ ReleaseInv /\ TypeInv /\ RevokedInv /\ RevocableInv /\ PresentInv /\ MintInv
      /\ obj \in [Access -> Object] /\ snap \in Object /\ res \in Grant
      /\ cur \in Access /\ pc \in HasGrant /\ res.minted /\ pc # "idle" /\ driver \in Driver
  BY DEF KeepInv, ReleaseInv, TypeInv, TypeOK, Answers, HasGrant
<1>d. driver = "minting" /\ res.revocable
  BY <1>t DEF RevokedInv, RevocableInv, Driver, HasGrant, GrantPath
<1>k. ~(pc' \in HasGrant /\ UNCHANGED res)
  BY <1>t DEF Answers
<1>1. CASE WriteSecret
  <2>1. UNCHANGED res /\ pc' \in HasGrant
    BY <1>t, <1>d, <1>1 DEF WriteSecret, AfterWrite, FailedWrite, Goto, HasGrant
  <2>. QED BY <1>k, <2>1
<1>2. CASE Unmint
  BY <1>d, <1>2 DEF Unmint, RevokeAccess, Fault
<1>3. CASE RevokeOld
  BY <1>k, <1>3 DEF RevokeOld, Goto, HasGrant, Fault
<1>4. CASE Commit
  <2>. DEFINE new == [snap EXCEPT !.principal = res.principal, !.revocable = res.revocable,
                                  !.cond = "SecretMinted", !.observed = snap.gen]
  <2>1. new \in Object /\ new.principal = res.principal
    BY <1>t DEF Object, Grant, Reason
  <2>2. PatchStatus(new) \/ faults' = faults + 1
    BY <1>4 DEF Commit, Fault
  <2>3. UNCHANGED holder
    BY <1>4 DEF Commit, backend
  <2>4. Exists(cur)
    BY <1>t DEF PresentInv, HasGrant, GrantPath
  <2>. HIDE DEF new
  <2>5. ASSUME PatchStatus(new) PROVE FALSE
    <3>1. obj'[cur] = MergePatch(obj[cur], snap, new)
      BY <1>t, <2>4, <2>5 DEF PatchStatus
    <3>2. obj'[cur].phase = obj[cur].phase
      BY <1>t, <2>1, <3>1, CommitIsRevocable
    <3>3. obj'[cur].principal = k
      BY <1>t, <2>1, <3>1, CommitIsRevocable DEF MintInv
    <3>4. holder'[k] = cur
      BY <1>t, <2>3 DEF MintInv
    <3>. QED BY <1>t, <2>4, <3>2, <3>3, <3>4 DEF Named, Exists
  <2>. QED BY <2>2, <2>5
<1>5. CASE Restart
  BY <1>5 DEF Restart, Fault
<1>6. CASE ReportStatus \/ AddFinalizer \/ DeleteRevoke \/ ReleaseFinalizer \/ ReadSecret \/ GrantAccess
  BY <1>t, <1>6 DEF ReportStatus, AddFinalizer, DeleteRevoke, ReleaseFinalizer, ReadSecret,
     GrantAccess, HasGrant
<1>7. ASSUME NEW a \in Access, BeginPass(a) PROVE FALSE
  BY <1>t, <1>7 DEF BeginPass
<1>8. CASE Environment
  BY <1>t, <1>k, <1>8, EnvironmentStep DEF EnvironmentMoves
<1>. QED BY <1>1, <1>2, <1>3, <1>4, <1>5, <1>6, <1>7, <1>8 DEF Next, PassStep, Environment

\* A key is minted whose answer is lost.
LostKey(k) == pc = "grant" /\ faults' = faults + 1 /\ k \in Fresh /\ Mint(k)

\* Every key but the one being minted keeps its holder, and no other becomes
\* live.
LEMMA KeysFrom ==
    ASSUME TypeInv, [Next]_vars, NEW k \in live', ~(Answers' /\ k = res'.principal)
    PROVE  (k \in live /\ holder'[k] = holder[k]) \/ LostKey(k)
<1>t. live \subseteq Key
  BY DEF TypeInv, TypeOK
<1>h. holder \in [Key -> Access \cup {""}]
  BY DEF TypeInv, TypeOK
<1>1. CASE GrantAccess
  <2>1. CASE UNCHANGED <<live, holder>>
    BY <2>1
  <2>2. ASSUME NEW c \in Fresh, Mint(c), Granted(c, TRUE, TRUE)
        PROVE  k \in live /\ holder'[k] = holder[k]
    <3>1. pc' \in HasGrant /\ res'.minted = TRUE /\ res'.principal = c
      BY <2>2 DEF Granted, HasGrant
    <3>2. k # c
      BY <3>1 DEF Answers
    <3>3. k \in live
      BY <2>2, <3>2 DEF Mint
    <3>4. holder'[k] = holder[k]
      BY <1>t, <1>h, <2>2, <3>2, <3>3 DEF Mint
    <3>. QED BY <3>3, <3>4
  <2>3. ASSUME NEW c \in Fresh, Mint(c), Fault("grant")
        PROVE  (k \in live /\ holder'[k] = holder[k]) \/ LostKey(k)
    <3>1. k = c => LostKey(k)
      BY <1>1, <2>3 DEF LostKey, GrantAccess, Fault
    <3>2. k # c => k \in live
      BY <2>3 DEF Mint
    <3>3. k # c => holder'[k] = holder[k]
      BY <1>t, <1>h, <2>3, <3>2 DEF Mint
    <3>. QED BY <3>1, <3>2, <3>3
  <2>. QED BY <1>1, <2>1, <2>2, <2>3 DEF GrantAccess, backend
<1>2. CASE PassStep /\ ~GrantAccess
  <2>1. UNCHANGED holder /\ (UNCHANGED live \/ \E p : live' = RevokeAccess(p))
    BY <1>2 DEF PassStep, ReportStatus, AddFinalizer, DeleteRevoke, ReleaseFinalizer, ReadSecret,
       WriteSecret, Unmint, RevokeOld, Commit, backend
  <2>. QED BY <2>1 DEF RevokeAccess
<1>3. ASSUME NEW a \in Access, BeginPass(a) PROVE UNCHANGED <<live, holder>>
  BY <1>3 DEF BeginPass, backend
<1>4. CASE Restart
  BY <1>4 DEF Restart, backend
<1>5. CASE Environment
  BY <1>5, EnvironmentStep DEF EnvironmentMoves
<1>. QED BY <1>1, <1>2, <1>3, <1>4, <1>5 DEF Next, Environment

LEMMA FaultsGrow ==
    ASSUME TypeInv, [Next]_vars
    PROVE  faults' \in {faults, faults + 1}
<1>1. CASE ReportStatus \/ AddFinalizer \/ DeleteRevoke \/ ReleaseFinalizer \/ ReadSecret
  BY <1>1 DEF ReportStatus, AddFinalizer, DeleteRevoke, ReleaseFinalizer, ReadSecret, Fault
<1>2. CASE GrantAccess \/ WriteSecret \/ Unmint \/ RevokeOld \/ Commit
  BY <1>2 DEF GrantAccess, WriteSecret, Unmint, RevokeOld, Commit, Fault
<1>3. ASSUME NEW a \in Access, BeginPass(a) PROVE faults' \in {faults, faults + 1}
  BY <1>3 DEF BeginPass, Fault
<1>4. ASSUME NEW a \in Access, ForgetPass(a) \/ Sync(a) \/ UserCreates(a) \/ UserEdits(a) \/ UserDeletes(a)
      PROVE  UNCHANGED faults
  BY <1>4 DEF ForgetPass, Sync, UserCreates, UserEdits, UserDeletes
<1>5. ASSUME NEW s \in Secret, SecretChanges(s) \/ CollectSecret(s) PROVE UNCHANGED faults
  BY <1>5 DEF SecretChanges, CollectSecret
<1>6. ASSUME NEW k \in Key, KeyExpires(k) PROVE UNCHANGED faults
  BY <1>6 DEF KeyExpires
<1>7. CASE BucketyChanges \/ Restart \/ UNCHANGED vars
  BY <1>7 DEF BucketyChanges, Restart, vars, Fault
<1>. QED BY <1>1, <1>2, <1>3, <1>4, <1>5, <1>6, <1>7 DEF Next, PassStep, UserStep

\* A pass is on a stale principal from its beginning, which is counted, or
\* not at all.
LEMMA StaleFrom ==
    ASSUME ReleaseInv, [Next]_vars, Stale'
    PROVE  Stale \/ (pc = "idle" /\ faults' = faults + 1)
<1>t. TypeInv /\ AgeInv
  BY DEF ReleaseInv
<1>0. pc' # "idle" /\ snap'.principal # obj'[cur'].principal
  BY DEF Stale
<1>1. ASSUME NEW a \in Access, BeginPass(a) PROVE pc = "idle" /\ faults' = faults + 1
  BY <1>0, <1>1 DEF BeginPass, Fault
<1>2. CASE pc # "idle" /\ cur \in Access /\ UNCHANGED <<cur, snap, driver>>
  <2>1. obj[cur].phase # "none"
    BY <1>t, <1>2 DEF AgeInv
  <2>2. Commit => pc' = "idle"
    BY DEF Commit, Done
  <2>3. obj'[cur].principal = obj[cur].principal
    BY <1>0, <1>2, <2>1, <2>2, CommitMoves
  <2>. QED BY <1>0, <1>2, <2>3 DEF Stale
<1>. QED BY <1>t, <1>0, <1>1, <1>2, PassFrom

\* At most one key per step, and each is paid for.
LEMMA LooseGains ==
    ASSUME KeepInv, [Next]_vars, "static" \notin Drivers, NEW k \in Loose', k \notin Loose
    PROVE  \/ k = obj[cur].principal /\ Stale /\ ~Stale' /\ UNCHANGED faults
           \/ k = res.principal /\ faults' = faults + 1 /\ pc \in HasGrant
           \/ LostKey(k)
<1>t. TypeInv
  BY DEF KeepInv, ReleaseInv
<1>1. k \in live' /\ ~Named(k)' /\ ~(Answers' /\ k = res'.principal)
  BY DEF Loose
<1>. SUFFICES ASSUME ~LostKey(k)
              PROVE  \/ k = obj[cur].principal /\ Stale /\ ~Stale' /\ UNCHANGED faults
                     \/ k = res.principal /\ faults' = faults + 1 /\ pc \in HasGrant
  OBVIOUS
<1>2. k \in live /\ holder'[k] = holder[k]
  BY <1>t, <1>1, KeysFrom
<1>3. CASE Named(k)
  <2>1. k = obj[cur].principal /\ Stale /\ Commit /\ UNCHANGED faults
    BY <1>1, <1>2, <1>3, NameLost
  <2>2. ~Stale'
    BY <2>1 DEF Commit, Done, Stale
  <2>. QED BY <2>1, <2>2
<1>4. CASE Answers /\ k = res.principal
  <2>1. faults' = faults + 1
    BY <1>1, <1>4, AnswerLost
  <2>. QED BY <1>4, <2>1 DEF Answers, HasGrant
<1>. QED BY <1>2, <1>3, <1>4 DEF Loose

LEMMA OneMore ==
    ASSUME NEW A, IsFiniteSet(A), NEW x, NEW B, B \subseteq A \cup {x}
    PROVE  Cardinality(A) \in Nat /\ Cardinality(B) \in Nat /\ Cardinality(B) <= Cardinality(A) + 1
<1>1. /\ IsFiniteSet(A \cup {x})
      /\ Cardinality(A \cup {x}) = Cardinality(A) \/ Cardinality(A \cup {x}) = Cardinality(A) + 1
  BY FS_AddElement
<1>2. IsFiniteSet(B) /\ Cardinality(B) <= Cardinality(A \cup {x})
  BY <1>1, FS_Subset
<1>3. Cardinality(A) \in Nat /\ Cardinality(B) \in Nat /\ Cardinality(A \cup {x}) \in Nat
  BY <1>1, <1>2, FS_CardinalityType
<1>. QED BY <1>1, <1>2, <1>3

LEMMA NoMore ==
    ASSUME NEW A, IsFiniteSet(A), NEW B, B \subseteq A
    PROVE  Cardinality(A) \in Nat /\ Cardinality(B) \in Nat /\ Cardinality(B) <= Cardinality(A)
<1>1. IsFiniteSet(B) /\ Cardinality(B) <= Cardinality(A)
  BY FS_Subset
<1>. QED BY <1>1, FS_CardinalityType

LEMMA LiveStaysFinite ==
    ASSUME TypeInv, [Next]_vars, IsFiniteSet(live)
    PROVE  IsFiniteSet(live')
<1>1. CASE \E c \in Fresh : LostKey(c)
  <2>1. PICK c \in Fresh : live' = live \cup {c}
    BY <1>1 DEF LostKey, Mint
  <2>. QED BY <2>1, FS_AddElement
<1>2. CASE ~\E c \in Fresh : LostKey(c)
  <2>1. live' \subseteq live \cup {res'.principal}
    BY <1>2, KeysFrom DEF LostKey
  <2>2. IsFiniteSet(live \cup {res'.principal})
    BY FS_AddElement
  <2>. QED BY <2>1, <2>2, FS_Subset
<1>. QED BY <1>1, <1>2

\* One key is lost in a step.
LEMMA OneLostKey ==
    ASSUME TypeInv, NEW k, NEW x, LostKey(k), LostKey(x)
    PROVE  k = x
<1>1. k \in Key /\ x \in Key /\ holder[k] = "" /\ holder[x] = ""
  BY DEF LostKey, Fresh
<1>2. cur \in Access /\ "" \notin Access /\ holder \in [Key -> Access \cup {""}]
  BY ConstantsAssumption DEF LostKey, TypeInv, TypeOK
<1>3. holder' = [holder EXCEPT ![k] = cur] /\ holder' = [holder EXCEPT ![x] = cur]
  BY DEF LostKey, Mint
<1>. QED BY <1>1, <1>2, <1>3

LEMMA CountNext ==
    ASSUME KeepInv, [Next]_vars, "static" \notin Drivers
    PROVE  CountInv'
<1>t. /\ ReleaseInv /\ TypeInv /\ IsFiniteSet(live) /\ Cardinality(Loose) + Debt <= faults
      /\ faults \in Nat /\ faults' \in {faults, faults + 1}
  <2>1. ReleaseInv /\ TypeInv /\ faults \in 0..MaxFaults
    BY DEF KeepInv, ReleaseInv, TypeInv, TypeOK
  <2>2. faults \in Nat
    BY <2>1, BoundsAssumption
  <2>. QED BY <2>1, <2>2, FaultsGrow DEF KeepInv, CountInv
<1>f. IsFiniteSet(live') /\ IsFiniteSet(Loose)
  <2>1. Loose \subseteq live
    BY DEF Loose
  <2>. QED BY <1>t, <2>1, LiveStaysFinite, FS_Subset
<1>d. /\ Stale => Debt = 1
      /\ ~Stale => Debt = 0
      /\ Stale' => Debt' = 1
      /\ ~Stale' => Debt' = 0
  BY DEF Debt
<1>1. CASE Loose' \subseteq Loose
  <2>1. /\ Cardinality(Loose) \in Nat /\ Cardinality(Loose') \in Nat
        /\ Cardinality(Loose') <= Cardinality(Loose)
    BY <1>f, <1>1, NoMore
  <2>2. Stale' => Stale \/ (~Stale /\ faults' = faults + 1)
    BY <1>t, StaleFrom
  <2>3. Cardinality(Loose') + Debt' <= faults'
    BY <1>t, <1>d, <2>1, <2>2
  <2>. QED BY <1>f, <2>3 DEF CountInv
<1>2. ASSUME NEW k \in Loose', k \notin Loose, k = obj[cur].principal, Stale, ~Stale',
             UNCHANGED faults
      PROVE  CountInv'
  <2>1. ASSUME NEW x \in Loose', x \notin Loose PROVE x = k
    <3>1. faults' # faults + 1
      BY <1>t, <1>2
    <3>. QED BY <1>2, <2>1, <3>1, LooseGains DEF LostKey
  <2>2. Loose' \subseteq Loose \cup {k}
    BY <2>1
  <2>3. /\ Cardinality(Loose) \in Nat /\ Cardinality(Loose') \in Nat
        /\ Cardinality(Loose') <= Cardinality(Loose) + 1
    BY <1>f, <2>2, OneMore
  <2>4. Cardinality(Loose') + Debt' <= faults'
    BY <1>t, <1>d, <1>2, <2>3
  <2>. QED BY <1>f, <2>4 DEF CountInv
<1>3. ASSUME NEW k \in Loose', k \notin Loose, faults' = faults + 1,
             (k = res.principal /\ pc \in HasGrant) \/ LostKey(k)
      PROVE  CountInv'
  <2>0. pc # "idle"
    BY <1>3 DEF HasGrant, LostKey
  <2>1. ASSUME NEW x \in Loose', x \notin Loose PROVE x = k
    <3>1. ~UNCHANGED faults
      BY <1>t, <1>3
    <3>2. (x = res.principal /\ pc \in HasGrant) \/ LostKey(x)
      BY <1>t, <2>1, <3>1, LooseGains
    <3>3. \A y : LostKey(y) => pc \notin HasGrant
      BY DEF LostKey, HasGrant
    <3>. QED BY <1>t, <1>3, <3>2, <3>3, OneLostKey
  <2>2. Loose' \subseteq Loose \cup {k}
    BY <2>1
  <2>3. /\ Cardinality(Loose) \in Nat /\ Cardinality(Loose') \in Nat
        /\ Cardinality(Loose') <= Cardinality(Loose) + 1
    BY <1>f, <2>2, OneMore
  <2>4. Stale' => Stale
    BY <1>t, <2>0, StaleFrom
  <2>5. Cardinality(Loose') + Debt' <= faults'
    BY <1>t, <1>d, <1>3, <2>3, <2>4
  <2>. QED BY <1>f, <2>5 DEF CountInv
<1>. QED BY <1>1, <1>2, <1>3, LooseGains DEF LostKey

LEMMA KeepInit == Init => KeepInv
<1>. SUFFICES ASSUME Init PROVE KeepInv
  OBVIOUS
<1>1. ReleaseInv
  BY ReleaseInit
<1>2. NoObj.phase = "none"
  BY DEF NoObj
<1>3. /\ \A a \in Access : cache[a] = NoObj
      /\ pc = "idle" /\ live = {} /\ faults = 0
  BY DEF Init
<1>4. PresentInv /\ MintInv
  BY <1>2, <1>3 DEF PresentInv, MintInv, GrantPath, HasGrant
<1>5. Loose = {} /\ Debt = 0
  BY <1>3 DEF Loose, Debt, Stale
<1>6. CountInv
  BY <1>3, <1>5, FS_EmptySet DEF CountInv
<1>. QED BY <1>1, <1>4, <1>6 DEF KeepInv

\* The inductive invariant gives the bounds on live keys.
LEMMA KeepBounds == ASSUME KeepInv PROVE KeysAccountedFor
<1>t. /\ IsFiniteSet(live) /\ Cardinality(Loose) + Debt <= faults /\ MintInv
      /\ faults \in Nat /\ Debt \in {0, 1}
  <2>1. faults \in 0..MaxFaults
    BY DEF KeepInv, ReleaseInv, TypeInv, TypeOK
  <2>2. faults \in Nat
    BY <2>1, BoundsAssumption
  <2>. QED BY <2>2 DEF KeepInv, CountInv, Debt
<1>f. IsFiniteSet(Loose)
  <2>1. Loose \subseteq live
    BY DEF Loose
  <2>. QED BY <1>t, <2>1, FS_Subset
<1>1. Orphans \subseteq Loose
  <2>. SUFFICES ASSUME NEW k \in live, k \notin Loose PROVE Accounted(k)
    BY DEF Orphans
  <2>1. CASE Named(k)
    BY <2>1 DEF Named, Accounted
  <2>2. CASE Answers /\ k = res.principal
    <3>1. holder[k] = cur /\ pc # "idle"
      BY <1>t, <2>2 DEF Answers, MintInv, HasGrant
    <3>. QED BY <2>2, <3>1 DEF Accounted
  <2>. QED BY <2>1, <2>2 DEF Loose
<1>2. Cardinality(Orphans) <= faults
  <2>1. /\ Cardinality(Loose) \in Nat /\ Cardinality(Orphans) \in Nat
        /\ Cardinality(Orphans) <= Cardinality(Loose)
    BY <1>f, <1>1, NoMore
  <2>. QED BY <1>t, <2>1
<1>3. ASSUME pc = "idle", NEW a \in Access
      PROVE  Cardinality({k \in live : holder[k] = a}) <= 1 + faults
  <2>. DEFINE B == {k \in live : holder[k] = a}
  <2>1. B \subseteq Loose \cup {obj[a].principal}
    BY <1>3 DEF Loose, Named, Answers, HasGrant
  <2>. HIDE DEF B
  <2>2. /\ Cardinality(Loose) \in Nat /\ Cardinality(B) \in Nat
        /\ Cardinality(B) <= Cardinality(Loose) + 1
    BY <1>f, <2>1, OneMore
  <2>3. Cardinality(B) <= 1 + faults
    BY <1>t, <2>2
  <2>. QED BY <2>3 DEF B
<1>. QED BY <1>2, <1>3 DEF KeysAccountedFor

\* When the Buckety stays while an access exists, and no restart resolves the
\* backend to a driver without revocation, a pass leaks no key: live keys that
\* neither a status nor the running pass accounts for are at most the faults so
\* far, and between passes an access has one live key and at most one more per
\* fault, for any number of accesses and keys, lost replies included.
THEOREM LeaksArePaidFor ==
    ASSUME "bkyGoes" \notin Env, "static" \notin Drivers
    PROVE  Spec => []KeysAccountedFor
<1>1. KeepInv /\ [Next]_vars => KeepInv'
  <2>. SUFFICES ASSUME KeepInv, [Next]_vars PROVE KeepInv'
    OBVIOUS
  <2>1. ReleaseInv /\ PresentInv /\ MintInv
    BY DEF KeepInv
  <2>2. TypeInv'
    BY <2>1, TypeNext DEF ReleaseInv
  <2>3. ReleaseInv'
    BY <2>1, <2>2, UsedNext, AgeNext, RevocableNext, FinalizerNext, BucketyNext, RevokedNext,
       ReleasedNext DEF ReleaseInv
  <2>4. PresentInv' /\ MintInv' /\ CountInv'
    BY <2>1, PresentNext, MintNext, CountNext
  <2>. QED BY <2>3, <2>4 DEF KeepInv
<1>2. KeepInv => KeysAccountedFor
  BY KeepBounds
<1>. QED BY <1>1, <1>2, KeepInit, PTL DEF Spec
=============================================================================

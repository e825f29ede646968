------------------------------- MODULE MCBuckety -------------------------------
(* Instances of BucketyReconciler for TLC. *)
EXTENDS BucketyReconciler

CONSTANTS b1, r1, x1

AllOnOne == [b \in Buckety |-> r1]
AllOfB1 == [a \in Access |-> b1]

Want(policy, adoption, secret, params) ==
    [policy |-> policy, adoption |-> adoption, want |-> secret, params |-> params]
Broken == Want("Delete", "AdoptEmpty", "none", "invalid")

\* Every combination of what the adoption gate and the retention policy read.
ClaimSpecs == {Want("Delete", "AdoptEmpty", "none", "templated"),
               Want("Delete", "Adopt", "none", "good"),
               Want("Retain", "AdoptEmpty", "none", "good"), Broken}
\* defaultAccess with one Secret name or another.
LivenessSpecs == {Want("Delete", "AdoptEmpty", "s", "templated"),
                  Want("Delete", "Adopt", "t", "good")}

Backend(driver, major, build, defaults) ==
    [driver |-> driver, major |-> major, build |-> build, defaults |-> defaults]
Gcs == Backend("gcs", 0, 1, TRUE)
GcsBare == Backend("gcs", 0, 2, FALSE)  \* upgraded, and its defaults removed
GcsMajor == Backend("gcs", 1, 3, FALSE)
Kadm == Backend("kadm", 0, 1, FALSE)
MySQL == Backend("mysql", 0, 1, FALSE)
AllBackends == {Absent, Gcs, GcsMajor, Kadm, MySQL}
SameMajor == {Absent, Gcs, GcsBare}
==============================================================================

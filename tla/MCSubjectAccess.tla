--------------------------- MODULE MCSubjectAccess ---------------------------
EXTENDS SubjectAccess, TLC

CONSTANTS s1, s2, c1, c2, l1, l2, r1, r2, b1, b2

(* Role r1 lists c1 and selects l1; r2 lists nothing and selects l2.      *)
(* Binding b1 gives r1 to s1; b2 gives r2 to s1 and s2.                    *)
MCRoleClusterIDs == (r1 :> {c1}) @@ (r2 :> {})
MCRoleMatch == (r1 :> l1) @@ (r2 :> l2)
MCBindingRole == (b1 :> r1) @@ (b2 :> r2)
MCBindingSubjects == (b1 :> {s1}) @@ (b2 :> {s1, s2})

=============================================================================

\* One subject, two clusters, two roles, two bindings, two label values;
\* the stores start in any state and take up to three management calls.
CONSTANTS
  s1 = s1
  s2 = s2
  c1 = c1
  c2 = c2
  l1 = l1
  l2 = l2
  r1 = r1
  r2 = r2
  b1 = b1
  b2 = b2
  Subject = s1
  Subjects = {s1, s2}
  Clusters = {c1, c2}
  Labels = {l1, l2}
  Roles = {r1, r2}
  Bindings = {b1, b2}
  RoleClusterIDs <- MCRoleClusterIDs
  RoleMatch <- MCRoleMatch
  BindingRole <- MCBindingRole
  BindingSubjects <- MCBindingSubjects
  MaxWrites = 3
SPECIFICATION Spec
INVARIANT AccessWasHeld

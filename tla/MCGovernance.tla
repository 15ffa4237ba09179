----------------------------- MODULE MCGovernance -----------------------------
\* Instances of Governance: two tenants, of which one has an administrator and a reviewer
\* who owns a package of two versions, the other an administrator who is to see nothing of
\* it; four deployments: a hosted one, a developer's machine, and two that claim to be
\* hosted.
EXTENDS Governance, TLC

CONSTANTS ada, carl, tom, m1, k1, k2, t1, t2, td

MCTenantOf == (ada :> t1) @@ (carl :> t1) @@ (tom :> t2) @@ (Dev :> td) @@ (m1 :> t1)
MCRoles == (ada :> {"admin"}) @@ (carl :> {"creator", "security_reviewer"})
           @@ (tom :> {"creator", "admin"}) @@ (Dev :> {"creator", "admin"})
MCOwnerOf == m1 :> carl
MCMailboxOf == (k1 :> m1) @@ (k2 :> m1)
MCEnvironments ==
  {{}, {"no deploy env", "dev auth", "dev vault", "default url"}, {"dev auth"},
   {"local redirect", "no voyage key"}}
MCSymmetry == Permutations(Processes) \cup Permutations(Packages)
=============================================================================

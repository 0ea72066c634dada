----------------------- MODULE MCPluginAdministration -----------------------
EXTENDS PluginAdministration, TLC

CONSTANTS t1, t2, o1, o2

\* The two users may be of one organization or of two, and one may be of none.
MCMemberships == {(t1 :> o1) @@ (t2 :> o) : o \in {o1, o2, NoOrg}}

MCProfiles == {RequiredFields, KnownFields \ {"applicable_internal_policies", "risk_appetite"}}
=============================================================================

------------------------- MODULE PluginAdministration -------------------------
(***************************************************************************)
(* How an organization sets a plugin up: the install and disable routes    *)
(* behind the toggle of the plugin's page, and the cold start that writes  *)
(* the organization's profile and its domain profile. Each post is a       *)
(* series of separate database calls, posts interleave, and one may be     *)
(* lost between two of its calls: nothing is rolled back.                  *)
(***************************************************************************)
EXTENDS Integers, Sequences, FiniteSets

CONSTANTS
    Tabs,        \* the pages open at once, each with at most one post in flight
    Orgs,        \* the organizations
    NoOrg,       \* stands for the organization of a user without profile
    Memberships, \* the organizations the users of the tabs may be members of
    Profiles,    \* the profiles submitted: each the set of its filled fields
    MaxPosts,    \* bound: the posts of a tab
    MaxVersion   \* bound: the versions of the plugin ever published

ASSUME AdministrationAssumption ==
    NoOrg \notin Orgs /\ Memberships \subseteq [Tabs -> Orgs \cup {NoOrg}]

VARIABLES
    orgOf,         \* the organization of a tab's user
    latest,        \* the number of the plugin's latest version, 0 without one
    installation,  \* the plugin_installations row of an organization
    orgProfile,    \* its organization_profiles row
    domainProfile, \* its domain_profiles row
    trail,         \* the plugin_audit_events of an organization, oldest first
    pc,            \* the next call of a tab's post
    post,          \* what the tab's post asks for
    existing,      \* the row its last read has found
    installed,     \* what the toggle of the tab's page shows
    answer,        \* the answer to the tab's last post
    posts,         \* how many posts the tab has made
    disturbed      \* history: organizations where posts have overlapped or been lost

vars == <<orgOf, latest, installation, orgProfile, domainProfile, trail, pc, post, existing,
          installed, answer, posts, disturbed>>
tables == <<installation, orgProfile, domainProfile, trail>>
page == <<orgOf, latest, installed, posts, disturbed>>

NoRow == [present |-> FALSE]

NoPost == [op |-> "install", profile |-> {}, version |-> 0]

Ops == {"install", "disable", "cold_start"}

Answers == {"none", "ok", "missing_organization_context", "no_plugin_version",
            "plugin_not_installed", "conflict", "lost"}

Pcs == {"idle", "readInstallation", "writeInstallation", "auditInstallation", "readOrgProfile",
        "writeOrgProfile", "readDomainProfile", "writeDomainProfile", "auditColdStart"}
-----------------------------------------------------------------------------
(* The fields of a domain profile. *)

OrganizationFields == {"sector", "jurisdictions", "business_units", "governance_model"}

RequiredFields == {"ai_governance_owner", "risk_appetite", "escalation_threshold_risk_level",
                   "human_review_required"}

\* Cold start submits all the fields but the last.
KnownFields == OrganizationFields \cup RequiredFields \cup
    {"authority_matrix_references", "prohibited_ai_uses", "restricted_data_classifications",
     "evidence_requirements", "approved_connector_ids", "approved_models",
     "approved_deployment_environments", "applicable_internal_policies"}

\* Rounded to the nearest integer, halves up.
ComputeProfileCompleteness(profile) ==
    [score |-> (200 * Cardinality(profile \cap KnownFields) + Cardinality(KnownFields))
                 \div (2 * Cardinality(KnownFields)),
     missing |-> RequiredFields \ profile]
-----------------------------------------------------------------------------
(* A row is inserted under the caller's organization, of which the table     *)
(* holds one row at most, and is read and updated under it alone.            *)

Init ==
    /\ orgOf \in Memberships
    /\ latest \in 0..1
    /\ installation = [o \in Orgs |-> NoRow]
    /\ orgProfile = [o \in Orgs |-> NoRow]
    /\ domainProfile = [o \in Orgs |-> NoRow]
    /\ trail = [o \in Orgs |-> <<>>]
    /\ pc = [t \in Tabs |-> "idle"]
    /\ post = [t \in Tabs |-> NoPost]
    /\ existing = [t \in Tabs |-> NoOrg]
    /\ installed = [t \in Tabs |-> FALSE]
    /\ answer = [t \in Tabs |-> "none"]
    /\ posts = [t \in Tabs |-> 0]
    /\ disturbed = {}

\* Mutant: row-level security does not restrict what is read.
AnyRow(table, t) ==
    IF \E o \in Orgs : table[o].present THEN CHOOSE o \in Orgs : table[o].present ELSE NoOrg

\* The row that the user of the tab can see, by its organization.
VisibleRow(table, t) ==
    IF orgOf[t] \in Orgs /\ table[orgOf[t]].present THEN orgOf[t] ELSE NoOrg

Goto(t, next) == pc' = [pc EXCEPT ![t] = next]

\* The post is answered and its local variables are gone.
Return(t, outcome) ==
    /\ Goto(t, "idle")
    /\ answer' = [answer EXCEPT ![t] = outcome]
    /\ post' = [post EXCEPT ![t] = NoPost]
    /\ existing' = [existing EXCEPT ![t] = NoOrg]

Continue(t, next) == Goto(t, next) /\ UNCHANGED <<post, existing, answer>>

\* A read, and the call that follows it.
Read(t, table, next) ==
    /\ existing' = [existing EXCEPT ![t] = VisibleRow(table, t)]
    /\ Goto(t, next)
    /\ UNCHANGED <<tables, page, post, answer>>

\* The table once the row that was read is updated, or a row inserted without one.
WithRow(t, table, updated, inserted) ==
    IF existing[t] # NoOrg THEN [table EXCEPT ![existing[t]] = updated]
    ELSE [table EXCEPT ![orgOf[t]] = inserted]

\* A row has been inserted since the read found none: the insert throws.
Conflict(t, table) == existing[t] = NoOrg /\ table[orgOf[t]].present

Record(t, event) ==
    trail' = [trail EXCEPT ![orgOf[t]] = Append(@, event)]

\* History: another post of the same organization is in flight.
Overlap(t) == \E u \in Tabs \ {t} : orgOf[u] = orgOf[t] /\ pc[u] # "idle"
-----------------------------------------------------------------------------
(* The page. *)

Begin(t, op, profile, next) ==
    /\ posts[t] < MaxPosts
    /\ pc[t] = "idle"
    /\ posts' = [posts EXCEPT ![t] = @ + 1]
    /\ disturbed' = IF Overlap(t) THEN disturbed \cup {orgOf[t]} ELSE disturbed
    /\ UNCHANGED <<orgOf, tables, latest, installed>>
    /\ IF orgOf[t] = NoOrg /\ op # "disable"
       THEN Return(t, "missing_organization_context")
       ELSE IF op = "install" /\ latest = 0
       THEN Return(t, "no_plugin_version")
       ELSE /\ Goto(t, next)
            /\ answer' = [answer EXCEPT ![t] = "none"]
            /\ post' = [post EXCEPT ![t] = [op |-> op, profile |-> profile, version |-> latest]]
            /\ UNCHANGED existing

\* The toggle asks for the opposite of what the page showed when it was rendered.
Toggle(t) ==
    Begin(t, IF installed[t] THEN "disable" ELSE "install", {}, "readInstallation")

SubmitColdStart(t) ==
    \E profile \in Profiles : Begin(t, "cold_start", profile, "readOrgProfile")

\* The page is rendered: after a post, or again at any time
\* while it has posts to make.
Refresh(t) ==
    LET row == VisibleRow(installation, t)
    IN  /\ pc[t] = "idle"
        /\ posts[t] < MaxPosts
        /\ installed' = [installed EXCEPT ![t] =
                            row # NoOrg /\ installation[row].state = "installed"]
        /\ installed' # installed
        /\ UNCHANGED <<orgOf, latest, tables, pc, post, existing, answer, posts, disturbed>>

\* The platform publishes a version (while a post may still read it).
Publish ==
    /\ latest < MaxVersion
    /\ latest' = latest + 1
    /\ \E t \in Tabs : posts[t] < MaxPosts
    /\ UNCHANGED <<orgOf, tables, pc, post, existing, installed, answer, posts, disturbed>>
-----------------------------------------------------------------------------
(* The install and disable routes. *)

ReadInstallation(t) ==
    /\ pc[t] = "readInstallation"
    /\ IF post[t].op = "disable" /\ VisibleRow(installation, t) = NoOrg
       THEN Return(t, "plugin_not_installed") /\ UNCHANGED <<tables, page>>
       ELSE Read(t, installation, "writeInstallation")

\* The state alone is updated: the row keeps the version of its first installation.
UpdatedRow(row, op) == [row EXCEPT !.state = IF op = "install" THEN "installed" ELSE "disabled"]

\* The version is the one that was the latest when the post began.
WriteInstallation(t) ==
    /\ pc[t] = "writeInstallation"
    /\ UNCHANGED <<orgProfile, domainProfile, trail, page>>
    /\ IF Conflict(t, installation)
       THEN Return(t, "conflict") /\ UNCHANGED installation
       ELSE /\ installation' = WithRow(t, installation,
                    IF existing[t] = NoOrg THEN NoRow
                    ELSE UpdatedRow(installation[existing[t]], post[t].op),
                    [present |-> TRUE, state |-> "installed", version |-> post[t].version])
            /\ Continue(t, "auditInstallation")

\* Mutant: disabling is recorded as an installation.
InstalledEvent(op) == "installed"

InstallationEvent(op) == IF op = "install" THEN "installed" ELSE "disabled"

AuditInstallation(t) ==
    /\ pc[t] = "auditInstallation"
    /\ Record(t, InstallationEvent(post[t].op))
    /\ Return(t, "ok")
    /\ UNCHANGED <<installation, orgProfile, domainProfile, page>>
-----------------------------------------------------------------------------
(* Cold start. *)

ReadOrgProfile(t) == pc[t] = "readOrgProfile" /\ Read(t, orgProfile, "writeOrgProfile")

\* Mutant: an update writes the fields that are filled and leaves the others.
OrgFieldsMerged(t, profile) ==
    (profile \cap OrganizationFields) \cup
    (IF existing[t] # NoOrg THEN orgProfile[existing[t]].fields ELSE {})

OrgFields(t, profile) == profile \cap OrganizationFields

WriteOrgProfile(t) ==
    /\ pc[t] = "writeOrgProfile"
    /\ UNCHANGED <<installation, domainProfile, trail, page>>
    /\ IF Conflict(t, orgProfile)
       THEN Return(t, "conflict") /\ UNCHANGED orgProfile
       ELSE LET row == [present |-> TRUE, fields |-> OrgFields(t, post[t].profile)]
            IN  /\ orgProfile' = WithRow(t, orgProfile, row, row)
                /\ Continue(t, "readDomainProfile")

ReadDomainProfile(t) ==
    pc[t] = "readDomainProfile" /\ Read(t, domainProfile, "writeDomainProfile")

ScoreOf(t, profile) == ComputeProfileCompleteness(profile).score

WriteDomainProfile(t) ==
    /\ pc[t] = "writeDomainProfile"
    /\ UNCHANGED <<installation, orgProfile, trail, page>>
    /\ IF Conflict(t, domainProfile)
       THEN Return(t, "conflict") /\ UNCHANGED domainProfile
       ELSE LET row == [present |-> TRUE, profile |-> post[t].profile,
                        score |-> ScoreOf(t, post[t].profile)]
            IN  /\ domainProfile' = WithRow(t, domainProfile, row, row)
                /\ Continue(t, "auditColdStart")

AuditColdStart(t) ==
    /\ pc[t] = "auditColdStart"
    /\ Record(t, "cold_start")
    /\ Return(t, "ok")
    /\ UNCHANGED <<installation, orgProfile, domainProfile, page>>

\* A call of the post fails, or its process dies; what it has written stays.
Lose(t) ==
    /\ pc[t] # "idle"
    /\ Return(t, "lost")
    /\ disturbed' = disturbed \cup {orgOf[t]}
    /\ UNCHANGED <<orgOf, tables, latest, installed, posts>>
-----------------------------------------------------------------------------
Step(t) ==
    \/ ReadInstallation(t) \/ WriteInstallation(t) \/ AuditInstallation(t)
    \/ ReadOrgProfile(t) \/ WriteOrgProfile(t)
    \/ ReadDomainProfile(t) \/ WriteDomainProfile(t) \/ AuditColdStart(t)

Next ==
    \/ \E t \in Tabs : Toggle(t) \/ SubmitColdStart(t) \/ Refresh(t) \/ Step(t) \/ Lose(t)
    \/ Publish

Spec == Init /\ [][Next]_vars
-----------------------------------------------------------------------------
(* Properties. *)

Rows == {o \in Orgs : installation[o].present}

\* The rows, the posts and the answers have the shape the database gives them.
TypeOK ==
    /\ orgOf \in Memberships /\ latest \in 0..MaxVersion
    /\ \A o \in Orgs :
        /\ installation[o].present =>
            installation[o].state \in {"installed", "disabled"} /\ installation[o].version \in 1..latest
        /\ orgProfile[o].present => orgProfile[o].fields \subseteq OrganizationFields
        /\ domainProfile[o].present =>
            domainProfile[o].profile \subseteq KnownFields /\ domainProfile[o].score \in 0..100
        /\ trail[o] \in Seq({"installed", "disabled", "cold_start"})
    /\ pc \in [Tabs -> Pcs] /\ existing \in [Tabs -> Orgs \cup {NoOrg}]
    /\ \A t \in Tabs : post[t].op \in Ops /\ post[t].profile \subseteq KnownFields /\ post[t].version <= latest
    /\ installed \in [Tabs -> BOOLEAN] /\ answer \in [Tabs -> Answers]
    /\ posts \in [Tabs -> 0..MaxPosts] /\ disturbed \subseteq Orgs \cup {NoOrg}

\* A step changes the rows of one organization, and only by a post of its own users
\* (the row-level policies of the three tables and the forced organization_id).
TenantsAreSeparate ==
    [][\A o \in Orgs :
        <<installation[o], orgProfile[o], domainProfile[o], trail[o]>>' #
            <<installation[o], orgProfile[o], domainProfile[o], trail[o]>> =>
        \E t \in Tabs : orgOf[t] = o /\ pc[t] # "idle" /\ pc'[t] # pc[t]]_vars

\* Once the posts of an undisturbed organization have ended, the last event of its
\* audit trail about the plugin tells the state of the installation. (Two posts that
\* overlap may record their events in the other order, and a lost one none.)
TrailTellsState == \A o \in Orgs \ disturbed :
    (\A t \in Tabs : orgOf[t] = o => pc[t] = "idle") =>
        LET events == {i \in DOMAIN trail[o] : trail[o][i] # "cold_start"}
        IN  /\ installation[o].present <=> events # {}
            /\ \A i \in events : (\A j \in events : j <= i) => installation[o].state = trail[o][i]

\* In an undisturbed organization the two profiles come from one submission once
\* it has ended, although they are written by separate calls (cold-start.ts).
ProfilesOfOneSubmission == \A o \in Orgs \ disturbed :
    (\A t \in Tabs : orgOf[t] = o => pc[t] = "idle") =>
        /\ orgProfile[o].present <=> domainProfile[o].present
        /\ orgProfile[o].present =>
            orgProfile[o].fields = domainProfile[o].profile \cap OrganizationFields

\* The stored score is that of the stored profile, whichever cold starts overlap.
ScoreMatchesProfile == \A o \in Orgs : domainProfile[o].present =>
    domainProfile[o].score = ComputeProfileCompleteness(domainProfile[o].profile).score

\* An installation keeps the version it was first installed with, through any
\* disabling and re-enabling and whatever is published meanwhile (updateInstallationState
\* writes the state alone).
VersionIsKept ==
    [][\A o \in Rows : installation'[o].present
                       /\ installation'[o].version = installation[o].version]_vars
=============================================================================

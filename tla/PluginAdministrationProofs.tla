--------------------- MODULE PluginAdministrationProofs ---------------------
(***************************************************************************)
(* Proofs about the administration of a plugin, for every set of pages,    *)
(* organizations and profiles and any number of posts and versions.        *)
(***************************************************************************)
EXTENDS PluginAdministration, TLAPS

-----------------------------------------------------------------------------
(* The inductive invariant.                                                *)

\* The rows of the three tables. A domain profile is stored with its own score.
Events == {"installed", "disabled", "cold_start"}
Submissions == Profiles \cup {{}}
InstallationRow == {NoRow} \cup [present : {TRUE}, state : {"installed", "disabled"}, version : Nat]
OrgRow == {NoRow} \cup [present : {TRUE}, fields : SUBSET OrganizationFields]
DomainRow == {NoRow} \cup
    {[present |-> TRUE, profile |-> p, score |-> ComputeProfileCompleteness(p).score] : p \in Submissions}

TablesTyped ==
    /\ installation \in [Orgs -> InstallationRow]
    /\ orgProfile \in [Orgs -> OrgRow]
    /\ domainProfile \in [Orgs -> DomainRow]
    /\ trail \in [Orgs -> Seq(Events)]

PostsTyped ==
    /\ pc \in [Tabs -> Pcs]
    /\ post \in [Tabs -> [op : Ops, profile : Submissions, version : Nat]]
    /\ existing \in [Tabs -> Orgs \cup {NoOrg}]

PageTyped ==
    /\ orgOf \in [Tabs -> Orgs \cup {NoOrg}] /\ latest \in Nat
    /\ installed \in [Tabs -> BOOLEAN]

\* A post in flight is of a user with an organization, and the row it has read
\* is that organization's; a page shows a plugin installed to such a user alone.
InstallationPcs == {"readInstallation", "writeInstallation", "auditInstallation"}
Owned(t) ==
    /\ pc[t] # "idle" \/ installed[t] => orgOf[t] \in Orgs
    /\ existing[t] # NoOrg => existing[t] = orgOf[t]
    /\ pc[t] \in InstallationPcs => post[t].op \in {"install", "disable"}

\* The row a write follows up on is still there, and only an install begins one.
Found(t) ==
    /\ pc[t] = "writeInstallation" =>
        IF existing[t] # NoOrg THEN installation[orgOf[t]].present ELSE post[t].op = "install"
    /\ pc[t] = "writeOrgProfile" /\ existing[t] # NoOrg => orgProfile[orgOf[t]].present
    /\ pc[t] = "writeDomainProfile" /\ existing[t] # NoOrg => domainProfile[orgOf[t]].present

\* The last event of the trail about the plugin tells the state of the installation.
PluginEvents(o) == {i \in DOMAIN trail[o] : trail[o][i] # "cold_start"}
Told(o) ==
    /\ installation[o].present <=> PluginEvents(o) # {}
    /\ \A i \in PluginEvents(o) :
        (\A j \in PluginEvents(o) : j <= i) => installation[o].state = trail[o][i]

\* Between the write and its event, the state is the one the event will tell.
TrailFollows(t) ==
    IF pc[t] = "auditInstallation"
    THEN /\ installation[orgOf[t]].present
         /\ installation[orgOf[t]].state = InstallationEvent(post[t].op)
    ELSE Told(orgOf[t])

\* The two profiles are of one submission.
Matching(o) ==
    /\ orgProfile[o].present <=> domainProfile[o].present
    /\ orgProfile[o].present =>
        orgProfile[o].fields = domainProfile[o].profile \cap OrganizationFields

\* Between the writes of the two profiles, the first is that of the post, and
\* the second will be found as it was read.
ProfilesFollow(t) ==
    /\ IF pc[t] \in {"readDomainProfile", "writeDomainProfile"}
       THEN /\ orgProfile[orgOf[t]].present
            /\ orgProfile[orgOf[t]].fields = post[t].profile \cap OrganizationFields
       ELSE Matching(orgOf[t])
    /\ pc[t] = "writeDomainProfile" => (domainProfile[orgOf[t]].present <=> existing[t] # NoOrg)

\* The posts of an undisturbed organization are made one at a time.
Active(o) == {t \in Tabs : orgOf[t] = o /\ pc[t] # "idle"}
Undisturbed(o) == o \notin disturbed =>
    /\ \A t, u \in Active(o) : t = u
    /\ Active(o) = {} => Told(o) /\ Matching(o)
    /\ \A t \in Active(o) : TrailFollows(t) /\ ProfilesFollow(t)

Typed == TablesTyped /\ PostsTyped /\ PageTyped

AdminInv ==
    /\ Typed
    /\ \A t \in Tabs : Owned(t) /\ Found(t)
    /\ \A o \in Orgs : Undisturbed(o)
-----------------------------------------------------------------------------
(* What a step of a tab leaves alone.                                      *)

\* The other tabs, the rows of the other organizations, and every row's existence.
Frame(t) ==
    /\ orgOf' = orgOf
    /\ disturbed \subseteq disturbed'
    /\ \A u \in Tabs \ {t} : /\ pc'[u] = pc[u] /\ post'[u] = post[u]
                             /\ existing'[u] = existing[u] /\ installed'[u] = installed[u]
    /\ \A o \in Orgs \ {orgOf[t]} :
        /\ installation'[o] = installation[o] /\ orgProfile'[o] = orgProfile[o]
        /\ domainProfile'[o] = domainProfile[o] /\ trail'[o] = trail[o]
    /\ \A o \in Orgs :
        /\ installation[o].present =>
            installation'[o].present /\ installation'[o].version = installation[o].version
        /\ orgProfile[o].present => orgProfile'[o].present
        /\ domainProfile[o].present => domainProfile'[o].present

\* A step that is not another post's overlap or loss keeps what the organization's
\* posts rely on.
Follows(t) == orgOf[t] \in Orgs \ disturbed' =>
    /\ pc[t] # "idle" \/ ~Overlap(t)
    /\ TrailFollows(t) /\ ProfilesFollow(t) => TrailFollows(t)' /\ ProfilesFollow(t)'

Good(t) == Typed' /\ Frame(t) /\ Owned(t)' /\ Found(t)' /\ Follows(t)

\* A step of one tab keeps the invariant once it is good for that tab.
LEMMA GoodKeepsInv ==
    ASSUME AdminInv, NEW t \in Tabs, Good(t), pc'[t] \in Pcs
    PROVE  AdminInv'
<1>1. Typed' BY DEF Good
<1>2. ASSUME NEW u \in Tabs PROVE Owned(u)' /\ Found(u)'
  <2>1. CASE u = t BY <2>1 DEF Good
  <2>2. CASE u # t
    <3>1. Owned(u) /\ Found(u) BY DEF AdminInv
    <3>2. Owned(u)' BY <2>2, <3>1 DEF Owned, Good, Frame
    <3>3. pc[u] # "idle" => orgOf[u] \in Orgs BY <3>1 DEF Owned
    <3>4. Found(u)' BY <2>2, <3>1, <3>3 DEF Found, Good, Frame
    <3> QED BY <3>2, <3>4
  <2> QED BY <2>1, <2>2
<1>3. ASSUME NEW o \in Orgs, o # orgOf[t] PROVE Undisturbed(o)'
  <2>1. Undisturbed(o) BY DEF AdminInv
  <2>2. orgOf' = orgOf /\ (o \in disturbed => o \in disturbed') BY DEF Good, Frame
  <2>3. Active(o)' = Active(o) BY <1>3, <2>2 DEF Active, Good, Frame
  <2>4. Told(o)' = Told(o) BY <1>3 DEF Told, PluginEvents, Good, Frame
  <2>5. Matching(o)' = Matching(o) BY <1>3 DEF Matching, Good, Frame
  <2>6. ASSUME NEW u \in Active(o)
        PROVE TrailFollows(u)' = TrailFollows(u) /\ ProfilesFollow(u)' = ProfilesFollow(u)
    <3>1. u \in Tabs /\ u # t /\ orgOf[u] = o BY <1>3 DEF Active
    <3>2. TrailFollows(u)' = TrailFollows(u)
      <4>1. /\ pc'[u] = pc[u] /\ post'[u] = post[u] /\ orgOf'[u] = o
            /\ installation'[o] = installation[o]
        BY <1>3, <2>2, <3>1 DEF Good, Frame
      <4>2. CASE pc[u] = "auditInstallation"
        BY <3>1, <4>1, <4>2 DEF TrailFollows, InstallationEvent
      <4>3. CASE pc[u] # "auditInstallation"
        BY <2>4, <3>1, <4>1, <4>3 DEF TrailFollows
      <4> QED BY <4>2, <4>3
    <3>3. ProfilesFollow(u)' = ProfilesFollow(u)
      BY <1>3, <2>2, <2>5, <3>1 DEF ProfilesFollow, Good, Frame
    <3> QED BY <3>2, <3>3
  <2> QED BY <2>1, <2>2, <2>3, <2>4, <2>5, <2>6 DEF Undisturbed
<1>4. ASSUME NEW o \in Orgs, o = orgOf[t] PROVE Undisturbed(o)'
  <2> SUFFICES ASSUME o \notin disturbed' PROVE Undisturbed(o)' BY DEF Undisturbed
  <2>1. Undisturbed(o) /\ o \notin disturbed BY DEF AdminInv, Good, Frame
  <2>2. Active(o) \subseteq {t}
    <3>1. CASE pc[t] # "idle" BY <1>4, <2>1, <3>1 DEF Undisturbed, Active
    <3>2. CASE ~Overlap(t) BY <1>4, <3>2 DEF Overlap, Active
    <3> QED BY <1>4, <3>1, <3>2 DEF Good, Follows
  <2>3. Active(o)' \subseteq {t} BY <1>4, <2>2 DEF Active, Good, Frame
  <2>4. TrailFollows(t) /\ ProfilesFollow(t)
    <3>1. CASE pc[t] = "idle"
      <4>1. Active(o) = {} BY <2>2, <3>1 DEF Active
      <4> QED BY <1>4, <2>1, <3>1, <4>1 DEF Undisturbed, TrailFollows, ProfilesFollow
    <3>2. CASE pc[t] # "idle" BY <1>4, <2>1, <3>2 DEF Undisturbed, Active
    <3> QED BY <3>1, <3>2
  <2>5. TrailFollows(t)' /\ ProfilesFollow(t)' BY <1>4, <2>4 DEF Good, Follows
  <2>6. orgOf'[t] = o BY <1>4 DEF Good, Frame
  <2>7. Active(o)' = {} => pc'[t] = "idle" BY <2>6 DEF Active
  <2>8. Active(o)' = {} => Told(o)' /\ Matching(o)'
    BY <2>5, <2>6, <2>7 DEF TrailFollows, ProfilesFollow
  <2> QED BY <2>3, <2>5, <2>8 DEF Undisturbed
<1> QED BY <1>1, <1>2, <1>3, <1>4 DEF AdminInv

-----------------------------------------------------------------------------
(* The steps, one by one.                                                  *)

\* The facts of the invariant about one tab.
LEMMA OfTab ==
    ASSUME AdminInv, NEW t \in Tabs
    PROVE  /\ Typed /\ Owned(t) /\ Found(t)
           /\ pc[t] \in Pcs /\ post[t] \in [op : Ops, profile : Submissions, version : Nat]
           /\ existing[t] \in Orgs \cup {NoOrg} /\ orgOf[t] \in Orgs \cup {NoOrg}
           /\ NoOrg \notin Orgs
BY AdministrationAssumption DEF AdminInv, Typed, PostsTyped, PageTyped

\* Nothing but the version, the page or the answer has changed.
LEMMA QuietKeepsInv ==
    ASSUME AdminInv, UNCHANGED <<orgOf, tables, pc, post, existing, disturbed>>, PageTyped',
           \A t \in Tabs : installed'[t] /\ ~installed[t] => orgOf[t] \in Orgs
    PROVE  AdminInv'
<1>1. /\ orgOf' = orgOf /\ pc' = pc /\ post' = post /\ existing' = existing
      /\ disturbed' = disturbed /\ installation' = installation /\ orgProfile' = orgProfile
      /\ domainProfile' = domainProfile /\ trail' = trail
  BY DEF tables
<1>2. Typed' BY <1>1 DEF AdminInv, Typed, TablesTyped, PostsTyped
<1>3. ASSUME NEW t \in Tabs PROVE Owned(t)' /\ Found(t)'
  <2>1. Owned(t) /\ Found(t) BY DEF AdminInv
  <2>2. installed[t] \in BOOLEAN /\ installed'[t] \in BOOLEAN
    BY DEF AdminInv, Typed, PageTyped
  <2>3. Owned(t)' BY <1>1, <2>1, <2>2 DEF Owned
  <2>4. Found(t)' BY <1>1, <2>1 DEF Found
  <2> QED BY <2>3, <2>4
<1>4. ASSUME NEW o \in Orgs PROVE Undisturbed(o)'
  <2>1. Undisturbed(o) BY DEF AdminInv
  <2>2. Active(o)' = Active(o) BY <1>1 DEF Active
  <2>3. Told(o)' = Told(o) /\ Matching(o)' = Matching(o)
    BY <1>1 DEF Told, PluginEvents, Matching
  <2>4. ASSUME NEW t \in Active(o)
        PROVE TrailFollows(t)' = TrailFollows(t) /\ ProfilesFollow(t)' = ProfilesFollow(t)
    <3>1. orgOf[t] = o /\ orgOf'[t] = o BY <1>1 DEF Active
    <3>2. TrailFollows(t)' = TrailFollows(t)
      BY <1>1 DEF TrailFollows, InstallationEvent, Told, PluginEvents
    <3>3. ProfilesFollow(t)' = ProfilesFollow(t)
      BY <1>1 DEF ProfilesFollow, Matching
    <3> QED BY <3>2, <3>3
  <2> QED BY <1>1, <2>1, <2>2, <2>3, <2>4 DEF Undisturbed
<1> QED BY <1>2, <1>3, <1>4 DEF AdminInv

\* A post that ends without another write, where no other call relies on it.
LEMMA ReturnIsGood ==
    ASSUME AdminInv, NEW t \in Tabs, NEW outcome, Return(t, outcome), pc[t] # "idle",
           UNCHANGED <<tables, page>>, pc[t] # "auditInstallation",
           pc[t] \notin {"readDomainProfile", "writeDomainProfile"}
    PROVE  Good(t) /\ pc'[t] \in Pcs
<1>1. /\ orgOf' = orgOf /\ latest' = latest /\ installed' = installed
      /\ disturbed' = disturbed /\ installation' = installation /\ orgProfile' = orgProfile
      /\ domainProfile' = domainProfile /\ trail' = trail
  BY DEF tables, page
<1>2. /\ pc' = [pc EXCEPT ![t] = "idle"] /\ post' = [post EXCEPT ![t] = NoPost]
      /\ existing' = [existing EXCEPT ![t] = NoOrg]
  BY DEF Return, Goto
<1>3. NoPost \in [op : Ops, profile : Submissions, version : Nat]
  BY DEF NoPost, Ops, Submissions
<1>4. Typed'
  BY <1>1, <1>2, <1>3 DEF AdminInv, Typed, TablesTyped, PostsTyped, PageTyped, Pcs
<1>5. pc'[t] = "idle" /\ existing'[t] = NoOrg /\ pc'[t] \in Pcs
  BY <1>2 DEF AdminInv, Typed, PostsTyped, Pcs
<1>6. Frame(t)
  BY <1>1, <1>2 DEF Frame, AdminInv, Typed, PostsTyped
<1>7. Owned(t)' BY <1>1, <1>5, OfTab DEF Owned, InstallationPcs
<1>8. Found(t)' BY <1>5 DEF Found
<1>9. TrailFollows(t) => TrailFollows(t)'
  BY <1>1, <1>5 DEF TrailFollows, Told, PluginEvents
<1>10. ProfilesFollow(t) => ProfilesFollow(t)'
  BY <1>1, <1>5 DEF ProfilesFollow, Matching
<1> QED BY <1>4, <1>5, <1>6, <1>7, <1>8, <1>9, <1>10 DEF Good, Follows

\* The three reads.
LEMMA ReadIsGood ==
    ASSUME AdminInv, NEW t \in Tabs, NEW table, NEW next, Read(t, table, next), pc[t] # "idle",
           \/ /\ table = installation /\ pc[t] = "readInstallation" /\ next = "writeInstallation"
              /\ post[t].op = "disable" => VisibleRow(table, t) # NoOrg
           \/ table = orgProfile /\ pc[t] = "readOrgProfile" /\ next = "writeOrgProfile"
           \/ table = domainProfile /\ pc[t] = "readDomainProfile" /\ next = "writeDomainProfile"
    PROVE  Good(t) /\ pc'[t] \in Pcs
<1>1. /\ orgOf' = orgOf /\ latest' = latest /\ installed' = installed
      /\ disturbed' = disturbed /\ installation' = installation /\ orgProfile' = orgProfile
      /\ domainProfile' = domainProfile /\ trail' = trail /\ post' = post
  BY DEF tables, page, Read
<1>2. pc' = [pc EXCEPT ![t] = next] /\ existing' = [existing EXCEPT ![t] = VisibleRow(table, t)]
  BY DEF Read, Goto
<1>3. next \in Pcs /\ next # "idle" /\ next # "auditInstallation" BY DEF Pcs
<1>4. orgOf[t] \in Orgs /\ NoOrg \notin Orgs BY OfTab DEF Owned
<1>5. VisibleRow(table, t) = IF table[orgOf[t]].present THEN orgOf[t] ELSE NoOrg
  BY <1>4 DEF VisibleRow
<1>6. VisibleRow(table, t) \in Orgs \cup {NoOrg} BY <1>4, <1>5
<1>7. Typed'
  BY <1>1, <1>2, <1>3, <1>6 DEF AdminInv, Typed, TablesTyped, PostsTyped, PageTyped
<1>8. pc'[t] = next /\ existing'[t] = VisibleRow(table, t)
  BY <1>2 DEF AdminInv, Typed, PostsTyped
<1>9. Frame(t) BY <1>1, <1>2 DEF Frame, AdminInv, Typed, PostsTyped
<1>10. Owned(t)'
  BY <1>1, <1>4, <1>5, <1>8, OfTab DEF Owned, InstallationPcs
<1>11. Found(t)'
  <2>1. post[t].op \in {"install", "disable"} \/ pc[t] # "readInstallation"
    BY OfTab DEF Owned, InstallationPcs
  <2> QED BY <1>1, <1>4, <1>5, <1>8, <2>1 DEF Found
<1>12. TrailFollows(t) => TrailFollows(t)'
  BY <1>1, <1>3, <1>8 DEF TrailFollows, Told, PluginEvents
<1>13. ProfilesFollow(t) => ProfilesFollow(t)'
  BY <1>1, <1>4, <1>5, <1>8 DEF ProfilesFollow, Matching
<1> QED BY <1>3, <1>7, <1>8, <1>9, <1>10, <1>11, <1>12, <1>13 DEF Good, Follows

\* An installation is written with the state that its event will tell.
LEMMA WriteInstallationIsGood ==
    ASSUME AdminInv, NEW t \in Tabs, WriteInstallation(t)
    PROVE  Good(t) /\ pc'[t] \in Pcs
<1>1. pc[t] = "writeInstallation" BY DEF WriteInstallation
<1>2. CASE Conflict(t, installation)
  <2>1. Return(t, "conflict") /\ UNCHANGED <<tables, page>>
    BY <1>2 DEF WriteInstallation, tables
  <2> QED BY <1>1, <2>1, ReturnIsGood
<1>3. CASE ~Conflict(t, installation)
  <2> DEFINE o == orgOf[t]
             row == IF existing[t] # NoOrg THEN UpdatedRow(installation[o], post[t].op)
                    ELSE [present |-> TRUE, state |-> "installed", version |-> post[t].version]
  <2>1. o \in Orgs /\ NoOrg \notin Orgs /\ Found(t) /\ Owned(t)
    BY <1>1, OfTab DEF Owned
  <2>2. /\ orgOf' = orgOf /\ latest' = latest /\ installed' = installed
        /\ disturbed' = disturbed /\ orgProfile' = orgProfile
        /\ domainProfile' = domainProfile /\ trail' = trail
        /\ post' = post /\ existing' = existing
        /\ pc' = [pc EXCEPT ![t] = "auditInstallation"]
    BY <1>3 DEF WriteInstallation, Continue, Goto, page
  <2>3. installation' = [installation EXCEPT ![o] = row]
    <3>1. existing[t] # NoOrg => existing[t] = o BY <2>1 DEF Owned
    <3>2. installation' = WithRow(t, installation,
                    IF existing[t] = NoOrg THEN NoRow
                    ELSE UpdatedRow(installation[existing[t]], post[t].op),
                    [present |-> TRUE, state |-> "installed", version |-> post[t].version])
      BY <1>3 DEF WriteInstallation
    <3> QED BY <2>1, <3>1, <3>2 DEF WithRow
  <2>4. post[t].op \in {"install", "disable"} /\ post[t].version \in Nat
    BY <1>1, <2>1, OfTab DEF Owned, InstallationPcs
  <2>5. installation[o] \in InstallationRow BY <2>1 DEF AdminInv, Typed, TablesTyped
  <2>6. existing[t] # NoOrg =>
            installation[o] \in [present : {TRUE}, state : {"installed", "disabled"}, version : Nat]
    <3>1. ~NoRow.present BY DEF NoRow
    <3>2. existing[t] # NoOrg => installation[o].present BY <1>1, <2>1 DEF Found
    <3> QED BY <2>5, <3>1, <3>2 DEF InstallationRow
  <2>7. /\ row \in InstallationRow /\ row.present
        /\ row.state = InstallationEvent(post[t].op)
        /\ existing[t] # NoOrg => row.version = installation[o].version
    <3>1. CASE existing[t] # NoOrg
      BY <2>4, <2>6, <3>1 DEF UpdatedRow, InstallationEvent, InstallationRow
    <3>2. CASE existing[t] = NoOrg
      BY <1>1, <2>1, <2>4, <3>2 DEF Found, InstallationEvent, InstallationRow
    <3> QED BY <3>1, <3>2
  <2> HIDE DEF row
  <2>8. existing[t] = NoOrg => ~installation[o].present BY <1>3 DEF Conflict
  <2>9. Typed'
    BY <2>1, <2>2, <2>3, <2>7 DEF AdminInv, Typed, TablesTyped, PostsTyped, PageTyped, Pcs
  <2>10. /\ pc'[t] = "auditInstallation" /\ pc'[t] \in Pcs
         /\ installation'[o] = row /\ \A p \in Orgs \ {o} : installation'[p] = installation[p]
    BY <2>1, <2>2, <2>3 DEF AdminInv, Typed, PostsTyped, TablesTyped, Pcs
  <2>11. Frame(t)
    BY <2>2, <2>7, <2>8, <2>10 DEF Frame, AdminInv, Typed, PostsTyped
  <2>12. Owned(t)' BY <2>1, <2>2, <2>4, <2>10 DEF Owned
  <2>13. Found(t)' BY <2>10 DEF Found
  <2>14. TrailFollows(t)'
    BY <2>2, <2>7, <2>10 DEF TrailFollows, InstallationEvent
  <2>15. ProfilesFollow(t) => ProfilesFollow(t)'
    BY <1>1, <2>2, <2>10 DEF ProfilesFollow, Matching
  <2> QED BY <1>1, <2>9, <2>10, <2>11, <2>12, <2>13, <2>14, <2>15 DEF Good, Follows
<1> QED BY <1>2, <1>3

\* The organization profile is written; the domain profile is to follow.
LEMMA WriteOrgProfileIsGood ==
    ASSUME AdminInv, NEW t \in Tabs, WriteOrgProfile(t)
    PROVE  Good(t) /\ pc'[t] \in Pcs
<1>1. pc[t] = "writeOrgProfile" BY DEF WriteOrgProfile
<1>2. CASE Conflict(t, orgProfile)
  <2>1. Return(t, "conflict") /\ UNCHANGED <<tables, page>>
    BY <1>2 DEF WriteOrgProfile, tables
  <2> QED BY <1>1, <2>1, ReturnIsGood
<1>3. CASE ~Conflict(t, orgProfile)
  <2> DEFINE o == orgOf[t]
             row == [present |-> TRUE, fields |-> OrgFields(t, post[t].profile)]
  <2>1. o \in Orgs /\ NoOrg \notin Orgs /\ Owned(t) BY <1>1, OfTab DEF Owned
  <2>2. /\ orgOf' = orgOf /\ latest' = latest /\ installed' = installed
        /\ disturbed' = disturbed /\ installation' = installation
        /\ domainProfile' = domainProfile /\ trail' = trail
        /\ post' = post /\ existing' = existing
        /\ pc' = [pc EXCEPT ![t] = "readDomainProfile"]
    BY <1>3 DEF WriteOrgProfile, Continue, Goto, page
  <2>3. orgProfile' = [orgProfile EXCEPT ![o] = row]
    BY <1>3, <2>1 DEF WriteOrgProfile, WithRow, Owned
  <2>4. row \in OrgRow /\ row.present /\ row.fields = post[t].profile \cap OrganizationFields
    BY DEF OrgRow, OrgFields
  <2> HIDE DEF row
  <2>5. Typed'
    BY <2>1, <2>2, <2>3, <2>4 DEF AdminInv, Typed, TablesTyped, PostsTyped, PageTyped, Pcs
  <2>6. /\ pc'[t] = "readDomainProfile" /\ pc'[t] \in Pcs
        /\ orgProfile'[o] = row /\ \A p \in Orgs \ {o} : orgProfile'[p] = orgProfile[p]
    BY <2>1, <2>2, <2>3 DEF AdminInv, Typed, PostsTyped, TablesTyped, Pcs
  <2>7. Frame(t)
    BY <2>2, <2>4, <2>6 DEF Frame, AdminInv, Typed, PostsTyped
  <2>8. Owned(t)' BY <2>1, <2>2, <2>6 DEF Owned, InstallationPcs
  <2>9. Found(t)' BY <2>6 DEF Found
  <2>10. TrailFollows(t) => TrailFollows(t)'
    BY <1>1, <2>2, <2>6 DEF TrailFollows, Told, PluginEvents
  <2>11. ProfilesFollow(t)'
    BY <2>2, <2>4, <2>6 DEF ProfilesFollow
  <2> QED BY <1>1, <2>5, <2>6, <2>7, <2>8, <2>9, <2>10, <2>11 DEF Good, Follows
<1> QED BY <1>2, <1>3

\* The domain profile is written from the submission of the organization profile.
LEMMA WriteDomainProfileIsGood ==
    ASSUME AdminInv, NEW t \in Tabs, WriteDomainProfile(t)
    PROVE  Good(t) /\ pc'[t] \in Pcs
<1> DEFINE o == orgOf[t]
<1>1. pc[t] = "writeDomainProfile" BY DEF WriteDomainProfile
<1>2. o \in Orgs /\ NoOrg \notin Orgs /\ Owned(t) BY <1>1, OfTab DEF Owned
<1>3. CASE Conflict(t, domainProfile)
  <2>1. Return(t, "conflict") /\ UNCHANGED <<tables, page>>
    BY <1>3 DEF WriteDomainProfile, tables
  <2>2. /\ orgOf' = orgOf /\ latest' = latest /\ installed' = installed
        /\ disturbed' = disturbed /\ installation' = installation /\ orgProfile' = orgProfile
        /\ domainProfile' = domainProfile /\ trail' = trail
    BY <2>1 DEF tables, page
  <2>3. /\ pc' = [pc EXCEPT ![t] = "idle"] /\ post' = [post EXCEPT ![t] = NoPost]
        /\ existing' = [existing EXCEPT ![t] = NoOrg]
    BY <2>1 DEF Return, Goto
  <2>4. NoPost \in [op : Ops, profile : Submissions, version : Nat]
    BY DEF NoPost, Ops, Submissions
  <2>5. Typed'
    BY <2>2, <2>3, <2>4 DEF AdminInv, Typed, TablesTyped, PostsTyped, PageTyped, Pcs
  <2>6. pc'[t] = "idle" /\ existing'[t] = NoOrg /\ pc'[t] \in Pcs
    BY <2>3 DEF AdminInv, Typed, PostsTyped, Pcs
  <2>7. Frame(t) BY <2>2, <2>3 DEF Frame, AdminInv, Typed, PostsTyped
  <2>8. Owned(t)' /\ Found(t)'
    BY <1>2, <2>2, <2>6 DEF Owned, Found, InstallationPcs
  <2>9. ~ProfilesFollow(t) BY <1>1, <1>3 DEF ProfilesFollow, Conflict
  <2> QED BY <1>1, <2>5, <2>6, <2>7, <2>8, <2>9 DEF Good, Follows
<1>4. CASE ~Conflict(t, domainProfile)
  <2> DEFINE row == [present |-> TRUE, profile |-> post[t].profile,
                     score |-> ScoreOf(t, post[t].profile)]
  <2>2. /\ orgOf' = orgOf /\ latest' = latest /\ installed' = installed
        /\ disturbed' = disturbed /\ installation' = installation
        /\ orgProfile' = orgProfile /\ trail' = trail
        /\ post' = post /\ existing' = existing
        /\ pc' = [pc EXCEPT ![t] = "auditColdStart"]
    BY <1>4 DEF WriteDomainProfile, Continue, Goto, page
  <2>3. domainProfile' = [domainProfile EXCEPT ![o] = row]
    BY <1>2, <1>4 DEF WriteDomainProfile, WithRow, Owned
  <2>4. row \in DomainRow /\ row.present /\ row.profile = post[t].profile
    <3>1. post[t].profile \in Submissions BY OfTab
    <3> QED BY <3>1 DEF DomainRow, ScoreOf
  <2> HIDE DEF row
  <2>5. Typed'
    BY <1>2, <2>2, <2>3, <2>4 DEF AdminInv, Typed, TablesTyped, PostsTyped, PageTyped, Pcs
  <2>6. /\ pc'[t] = "auditColdStart" /\ pc'[t] \in Pcs
        /\ domainProfile'[o] = row /\ \A p \in Orgs \ {o} : domainProfile'[p] = domainProfile[p]
    BY <1>2, <2>2, <2>3 DEF AdminInv, Typed, PostsTyped, TablesTyped, Pcs
  <2>7. Frame(t)
    BY <2>2, <2>4, <2>6 DEF Frame, AdminInv, Typed, PostsTyped
  <2>8. Owned(t)' BY <1>2, <2>2, <2>6 DEF Owned, InstallationPcs
  <2>9. Found(t)' BY <2>6 DEF Found
  <2>10. TrailFollows(t) => TrailFollows(t)'
    BY <1>1, <2>2, <2>6 DEF TrailFollows, Told, PluginEvents
  <2>11. ProfilesFollow(t) => ProfilesFollow(t)'
    BY <1>1, <2>2, <2>4, <2>6 DEF ProfilesFollow, Matching
  <2> QED BY <1>1, <2>5, <2>6, <2>7, <2>8, <2>9, <2>10, <2>11 DEF Good, Follows
<1> QED BY <1>3, <1>4

\* What a trail tells once an event is appended to it: an event about the plugin
\* tells the state, a cold start changes nothing.
LEMMA AppendTells ==
    ASSUME Typed, NEW o \in Orgs, NEW event \in Events,
           trail' = [trail EXCEPT ![o] = Append(@, event)], installation' = installation,
           IF event = "cold_start" THEN Told(o)
           ELSE installation[o].present /\ installation[o].state = event
    PROVE  Told(o)' /\ trail' \in [Orgs -> Seq(Events)]
<1> DEFINE n == Len(trail[o])
<1>1. trail \in [Orgs -> Seq(Events)] /\ trail[o] \in Seq(Events) BY DEF Typed, TablesTyped
<1>2. /\ n \in Nat /\ DOMAIN trail[o] = 1..n
      /\ trail'[o] = Append(trail[o], event) /\ trail'[o] \in Seq(Events)
      /\ DOMAIN trail'[o] = 1..(n + 1) /\ trail'[o][n + 1] = event
      /\ \A i \in 1..n : trail'[o][i] = trail[o][i]
  BY <1>1
<1>3. trail' \in [Orgs -> Seq(Events)] BY <1>1, <1>2
<1>4. CASE event = "cold_start"
  <2>1. PluginEvents(o)' = PluginEvents(o)
    BY <1>2, <1>4 DEF PluginEvents
  <2>2. \A i \in PluginEvents(o) : trail'[o][i] = trail[o][i] BY <1>2 DEF PluginEvents
  <2> QED BY <1>3, <1>4, <2>1, <2>2 DEF Told
<1>5. CASE event # "cold_start"
  <2>1. n + 1 \in PluginEvents(o)' /\ PluginEvents(o)' \subseteq 1..(n + 1)
    BY <1>2, <1>5 DEF PluginEvents
  <2>2. ASSUME NEW i \in PluginEvents(o)', \A j \in PluginEvents(o)' : j <= i
        PROVE  i = n + 1
    BY <1>2, <2>1, <2>2
  <2> QED BY <1>2, <1>3, <1>5, <2>1, <2>2 DEF Told
<1> QED BY <1>4, <1>5

\* The event of an installation, or of a cold start, ends its post.
LEMMA AuditIsGood ==
    ASSUME AdminInv, NEW t \in Tabs, AuditInstallation(t) \/ AuditColdStart(t)
    PROVE  Good(t) /\ pc'[t] \in Pcs
<1> DEFINE o == orgOf[t]
           event == IF pc[t] = "auditColdStart" THEN "cold_start" ELSE InstallationEvent(post[t].op)
<1>1. pc[t] = "auditInstallation" \/ pc[t] = "auditColdStart"
  BY DEF AuditInstallation, AuditColdStart
<1>2. o \in Orgs /\ NoOrg \notin Orgs /\ Owned(t) BY <1>1, OfTab DEF Owned
<1>3. /\ orgOf' = orgOf /\ latest' = latest /\ installed' = installed
      /\ disturbed' = disturbed /\ installation' = installation
      /\ orgProfile' = orgProfile /\ domainProfile' = domainProfile
      /\ trail' = [trail EXCEPT ![o] = Append(@, event)]
      /\ Return(t, "ok")
  BY DEF AuditInstallation, AuditColdStart, page, Record
<1>4. /\ pc' = [pc EXCEPT ![t] = "idle"] /\ post' = [post EXCEPT ![t] = NoPost]
      /\ existing' = [existing EXCEPT ![t] = NoOrg]
  BY <1>3 DEF Return, Goto
<1>5. event \in Events /\ (pc[t] # "auditColdStart" => event # "cold_start")
  BY DEF Events, InstallationEvent
<1> HIDE DEF event
<1>6. trail' \in [Orgs -> Seq(Events)]
  <2>1. trail \in [Orgs -> Seq(Events)] BY DEF AdminInv, Typed, TablesTyped
  <2> QED BY <1>2, <1>3, <1>5, <2>1
<1>7. NoPost \in [op : Ops, profile : Submissions, version : Nat]
  BY DEF NoPost, Ops, Submissions
<1>8. Typed'
  BY <1>3, <1>4, <1>6, <1>7 DEF AdminInv, Typed, TablesTyped, PostsTyped, PageTyped, Pcs
<1>9. pc'[t] = "idle" /\ existing'[t] = NoOrg /\ pc'[t] \in Pcs
  BY <1>4 DEF AdminInv, Typed, PostsTyped, Pcs
<1>10. \A p \in Orgs \ {o} : trail'[p] = trail[p]
  BY <1>3 DEF AdminInv, Typed, TablesTyped
<1>11. Frame(t) BY <1>3, <1>4, <1>10 DEF Frame, AdminInv, Typed, PostsTyped
<1>12. Owned(t)' /\ Found(t)'
  BY <1>2, <1>3, <1>9 DEF Owned, Found, InstallationPcs
<1>13. TrailFollows(t) => TrailFollows(t)'
  <2> SUFFICES ASSUME TrailFollows(t) PROVE TrailFollows(t)' OBVIOUS
  <2>1. CASE pc[t] = "auditInstallation"
    <3>1. installation[o].present /\ installation[o].state = event
      BY <2>1 DEF TrailFollows, event
    <3>2. event # "cold_start" BY <1>5, <2>1
    <3>3. Told(o)' BY <1>2, <1>3, <1>5, <3>1, <3>2, AppendTells DEF AdminInv
    <3> QED BY <1>3, <1>9, <3>3 DEF TrailFollows, Told, PluginEvents
  <2>2. CASE pc[t] = "auditColdStart"
    <3>1. event = "cold_start" /\ Told(o) BY <2>2 DEF TrailFollows, event
    <3>2. Told(o)' BY <1>2, <1>3, <1>5, <3>1, AppendTells DEF AdminInv
    <3> QED BY <1>3, <1>9, <3>2 DEF TrailFollows, Told, PluginEvents
  <2> QED BY <1>1, <2>1, <2>2
<1>14. ProfilesFollow(t) => ProfilesFollow(t)'
  BY <1>1, <1>3, <1>9 DEF ProfilesFollow, Matching
<1> QED BY <1>1, <1>8, <1>9, <1>11, <1>12, <1>13, <1>14 DEF Good, Follows

\* A lost post disturbs its organization.
LEMMA LoseIsGood ==
    ASSUME AdminInv, NEW t \in Tabs, Lose(t)
    PROVE  Good(t) /\ pc'[t] \in Pcs
<1>1. /\ pc[t] # "idle" /\ orgOf' = orgOf /\ latest' = latest /\ installed' = installed
      /\ disturbed' = disturbed \cup {orgOf[t]} /\ installation' = installation
      /\ orgProfile' = orgProfile /\ domainProfile' = domainProfile /\ trail' = trail
      /\ pc' = [pc EXCEPT ![t] = "idle"] /\ post' = [post EXCEPT ![t] = NoPost]
      /\ existing' = [existing EXCEPT ![t] = NoOrg]
  BY DEF Lose, tables, Return, Goto
<1>2. NoPost \in [op : Ops, profile : Submissions, version : Nat]
  BY DEF NoPost, Ops, Submissions
<1>3. Typed'
  BY <1>1, <1>2 DEF AdminInv, Typed, TablesTyped, PostsTyped, PageTyped, Pcs
<1>4. pc'[t] = "idle" /\ existing'[t] = NoOrg /\ pc'[t] \in Pcs
  BY <1>1 DEF AdminInv, Typed, PostsTyped, Pcs
<1>5. Frame(t) BY <1>1 DEF Frame, AdminInv, Typed, PostsTyped
<1>6. Owned(t)' /\ Found(t)'
  BY <1>1, <1>4, OfTab DEF Owned, Found, InstallationPcs
<1> QED BY <1>1, <1>3, <1>4, <1>5, <1>6 DEF Good, Follows

\* A post begins, or is refused at once.
LEMMA BeginIsGood ==
    ASSUME AdminInv, NEW t \in Tabs, NEW op \in Ops, NEW profile \in Submissions,
           NEW next \in {"readInstallation", "readOrgProfile"}, Begin(t, op, profile, next),
           op = "disable" => installed[t],
           next = "readInstallation" => op \in {"install", "disable"}
    PROVE  Good(t) /\ pc'[t] \in Pcs
<1>1. /\ pc[t] = "idle" /\ orgOf' = orgOf /\ latest' = latest /\ installed' = installed
      /\ installation' = installation /\ orgProfile' = orgProfile
      /\ domainProfile' = domainProfile /\ trail' = trail
      /\ disturbed' = IF Overlap(t) THEN disturbed \cup {orgOf[t]} ELSE disturbed
  BY DEF Begin, tables
<1>2. PICK begun \in BOOLEAN : begun <=>
        ~(orgOf[t] = NoOrg /\ op # "disable") /\ ~(op = "install" /\ latest = 0)
  OBVIOUS
<1>3. /\ pc' = [pc EXCEPT ![t] = IF begun THEN next ELSE "idle"]
      /\ post' = [post EXCEPT ![t] =
                    IF begun THEN [op |-> op, profile |-> profile, version |-> latest] ELSE NoPost]
      /\ existing' = IF begun THEN existing ELSE [existing EXCEPT ![t] = NoOrg]
  BY <1>2 DEF Begin, Return, Goto
<1>4. NoPost \in [op : Ops, profile : Submissions, version : Nat]
  BY DEF NoPost, Ops, Submissions
<1>5. latest \in Nat /\ orgOf[t] \in Orgs \cup {NoOrg} /\ Owned(t)
  BY OfTab DEF Typed, PageTyped
<1>6. begun => orgOf[t] \in Orgs BY <1>2, <1>5 DEF Owned
<1>7. Typed'
  BY <1>1, <1>3, <1>4, <1>5 DEF AdminInv, Typed, TablesTyped, PostsTyped, PageTyped, Pcs
<1>8. /\ pc'[t] = (IF begun THEN next ELSE "idle") /\ pc'[t] \in Pcs
      /\ begun => post'[t].op = op
      /\ existing'[t] = existing[t] \/ existing'[t] = NoOrg
  BY <1>3 DEF AdminInv, Typed, PostsTyped, Pcs
<1>9. Frame(t) BY <1>1, <1>3 DEF Frame, AdminInv, Typed, PostsTyped
<1>10. Owned(t)' BY <1>1, <1>5, <1>6, <1>8 DEF Owned, InstallationPcs
<1>11. Found(t)' BY <1>8 DEF Found
<1>12. TrailFollows(t) => TrailFollows(t)'
  BY <1>1, <1>8 DEF TrailFollows, Told, PluginEvents
<1>13. ProfilesFollow(t) => ProfilesFollow(t)'
  BY <1>1, <1>8 DEF ProfilesFollow, Matching
<1> QED BY <1>1, <1>7, <1>8, <1>9, <1>10, <1>11, <1>12, <1>13 DEF Good, Follows

\* The calls of a post are good.
LEMMA StepIsGood ==
    ASSUME AdminInv, NEW t \in Tabs, Step(t)
    PROVE  Good(t) /\ pc'[t] \in Pcs
<1>1. CASE ReadInstallation(t)
  <2>1. pc[t] = "readInstallation" BY <1>1 DEF ReadInstallation
  <2>2. CASE post[t].op = "disable" /\ VisibleRow(installation, t) = NoOrg
    <3>1. Return(t, "plugin_not_installed") /\ UNCHANGED <<tables, page>>
      BY <1>1, <2>2 DEF ReadInstallation
    <3> QED BY <2>1, <3>1, ReturnIsGood
  <2>3. CASE ~(post[t].op = "disable" /\ VisibleRow(installation, t) = NoOrg)
    <3>1. Read(t, installation, "writeInstallation") BY <1>1, <2>3 DEF ReadInstallation
    <3> QED BY <2>1, <2>3, <3>1, ReadIsGood
  <2> QED BY <2>2, <2>3
<1>2. CASE ReadOrgProfile(t)
  <2>1. pc[t] = "readOrgProfile" /\ Read(t, orgProfile, "writeOrgProfile")
    BY <1>2 DEF ReadOrgProfile
  <2> QED BY <2>1, ReadIsGood
<1>3. CASE ReadDomainProfile(t)
  <2>1. pc[t] = "readDomainProfile" /\ Read(t, domainProfile, "writeDomainProfile")
    BY <1>3 DEF ReadDomainProfile
  <2> QED BY <2>1, ReadIsGood
<1>4. CASE WriteInstallation(t) BY <1>4, WriteInstallationIsGood
<1>5. CASE WriteOrgProfile(t) BY <1>5, WriteOrgProfileIsGood
<1>6. CASE WriteDomainProfile(t) BY <1>6, WriteDomainProfileIsGood
<1>7. CASE AuditInstallation(t) \/ AuditColdStart(t) BY <1>7, AuditIsGood
<1> QED BY <1>1, <1>2, <1>3, <1>4, <1>5, <1>6, <1>7 DEF Step

\* So are the posts that the page begins.
LEMMA PostIsGood ==
    ASSUME AdminInv, NEW t \in Tabs, Toggle(t) \/ SubmitColdStart(t)
    PROVE  Good(t) /\ pc'[t] \in Pcs
<1>1. CASE Toggle(t)
  <2>1. PICK op \in {"install", "disable"} : op = IF installed[t] THEN "disable" ELSE "install"
    OBVIOUS
  <2>2. Begin(t, op, {}, "readInstallation") BY <1>1, <2>1 DEF Toggle
  <2>3. op \in Ops /\ {} \in Submissions /\ (op = "disable" => installed[t])
    BY <2>1 DEF Ops, Submissions
  <2> QED BY <2>2, <2>3, BeginIsGood
<1>2. CASE SubmitColdStart(t)
  <2>1. PICK profile \in Profiles : Begin(t, "cold_start", profile, "readOrgProfile")
    BY <1>2 DEF SubmitColdStart
  <2>2. profile \in Submissions /\ "cold_start" \in Ops BY DEF Submissions, Ops
  <2> QED BY <2>1, <2>2, BeginIsGood
<1> QED BY <1>1, <1>2

\* The page and the versions are no part of what posts rely on.
LEMMA PageKeepsInv ==
    ASSUME AdminInv, (\E t \in Tabs : Refresh(t)) \/ Publish \/ UNCHANGED vars
    PROVE  AdminInv' /\ UNCHANGED tables
<1>1. ASSUME NEW t \in Tabs, Refresh(t) PROVE AdminInv' /\ UNCHANGED tables
  <2> DEFINE row == VisibleRow(installation, t)
             shown == row # NoOrg /\ installation[row].state = "installed"
  <2>1. /\ UNCHANGED <<orgOf, tables, pc, post, existing, disturbed>> /\ latest' = latest
        /\ installed' = [installed EXCEPT ![t] = shown]
    BY <1>1 DEF Refresh
  <2>2. installed \in [Tabs -> BOOLEAN] BY DEF AdminInv, Typed, PageTyped
  <2>3. shown \in BOOLEAN OBVIOUS
  <2>4. shown => orgOf[t] \in Orgs BY DEF VisibleRow
  <2> HIDE DEF shown
  <2>5. PageTyped' BY <2>1, <2>2, <2>3 DEF AdminInv, Typed, PageTyped
  <2>6. \A u \in Tabs : installed'[u] /\ ~installed[u] => orgOf[u] \in Orgs
    BY <2>1, <2>2, <2>4
  <2> QED BY <2>1, <2>5, <2>6, QuietKeepsInv
<1>2. CASE Publish
  <2>1. /\ UNCHANGED <<orgOf, tables, pc, post, existing, disturbed>>
        /\ latest' = latest + 1 /\ installed' = installed
    BY <1>2 DEF Publish
  <2>2. PageTyped' BY <2>1 DEF AdminInv, Typed, PageTyped
  <2> QED BY <2>1, <2>2, QuietKeepsInv
<1>3. CASE UNCHANGED vars
  <2>1. UNCHANGED <<orgOf, tables, pc, post, existing, disturbed, latest, installed>>
    BY <1>3 DEF vars, tables
  <2>2. PageTyped' BY <2>1 DEF AdminInv, Typed, PageTyped
  <2> QED BY <2>1, <2>2, QuietKeepsInv
<1> QED BY <1>1, <1>2, <1>3

\* A step is of the page, or good for one tab.
LEMMA NextCases ==
    ASSUME AdminInv, [Next]_vars
    PROVE  \/ AdminInv' /\ UNCHANGED tables
           \/ \E t \in Tabs : Good(t) /\ pc'[t] \in Pcs /\ (Step(t) \/ UNCHANGED tables)
<1>1. CASE (\E t \in Tabs : Refresh(t)) \/ Publish \/ UNCHANGED vars BY <1>1, PageKeepsInv
<1>2. ASSUME NEW t \in Tabs, Toggle(t) \/ SubmitColdStart(t)
      PROVE  Good(t) /\ pc'[t] \in Pcs /\ UNCHANGED tables
  BY <1>2, PostIsGood DEF Toggle, SubmitColdStart, Begin
<1>3. ASSUME NEW t \in Tabs, Step(t) PROVE Good(t) /\ pc'[t] \in Pcs
  BY <1>3, StepIsGood
<1>4. ASSUME NEW t \in Tabs, Lose(t) PROVE Good(t) /\ pc'[t] \in Pcs /\ UNCHANGED tables
  BY <1>4, LoseIsGood DEF Lose
<1> QED BY <1>1, <1>2, <1>3, <1>4 DEF Next
-----------------------------------------------------------------------------
(* The theorems.                                                           *)

LEMMA InitEstablishesInv == Init => AdminInv
<1> SUFFICES ASSUME Init PROVE AdminInv OBVIOUS
<1>1. NoPost \in [op : Ops, profile : Submissions, version : Nat]
  BY DEF NoPost, Ops, Submissions
<1>2. orgOf \in [Tabs -> Orgs \cup {NoOrg}] BY AdministrationAssumption DEF Init
<1>3. Typed
  BY <1>1, <1>2 DEF Init, Typed, TablesTyped, PostsTyped, PageTyped, Pcs,
                    InstallationRow, OrgRow, DomainRow
<1>4. ASSUME NEW t \in Tabs PROVE Owned(t) /\ Found(t)
  BY DEF Init, Owned, Found, InstallationPcs
<1>5. ASSUME NEW o \in Orgs PROVE Undisturbed(o)
  <2>1. Active(o) = {} BY DEF Init, Active
  <2>2. Told(o) BY DEF Init, Told, PluginEvents, NoRow
  <2>3. Matching(o) BY DEF Init, Matching, NoRow
  <2> QED BY <2>1, <2>2, <2>3 DEF Undisturbed
<1> QED BY <1>3, <1>4, <1>5 DEF AdminInv

\* The invariant holds of every state, whatever the posts, their order and their losses.
THEOREM AdminInvariant == Spec => []AdminInv
<1>1. AdminInv /\ [Next]_vars => AdminInv' BY NextCases, GoodKeepsInv
<1> QED BY <1>1, InitEstablishesInv, PTL DEF Spec

\* Once the posts of an undisturbed organization have ended, its trail tells the
\* state of its installation (the audit events of the install and disable routes).
THEOREM TrailTells == Spec => []TrailTellsState
<1>1. AdminInv => TrailTellsState
  <2> SUFFICES ASSUME AdminInv, NEW o \in Orgs \ disturbed,
                      \A t \in Tabs : orgOf[t] = o => pc[t] = "idle"
               PROVE  Told(o)
    BY DEF TrailTellsState, Told, PluginEvents
  <2>1. Active(o) = {} BY DEF Active
  <2> QED BY <2>1 DEF AdminInv, Undisturbed
<1> QED BY <1>1, AdminInvariant, PTL

\* Once they have ended, its two profiles come from one submission (cold-start.ts).
THEOREM ProfilesAgree == Spec => []ProfilesOfOneSubmission
<1>1. AdminInv => ProfilesOfOneSubmission
  <2> SUFFICES ASSUME AdminInv, NEW o \in Orgs \ disturbed,
                      \A t \in Tabs : orgOf[t] = o => pc[t] = "idle"
               PROVE  Matching(o)
    BY DEF ProfilesOfOneSubmission, Matching
  <2>1. Active(o) = {} BY DEF Active
  <2> QED BY <2>1 DEF AdminInv, Undisturbed
<1> QED BY <1>1, AdminInvariant, PTL

\* The stored completeness score is that of the stored profile.
THEOREM ScoreIsOfProfile == Spec => []ScoreMatchesProfile
<1>1. AdminInv => ScoreMatchesProfile
  <2> SUFFICES ASSUME AdminInv, NEW o \in Orgs, domainProfile[o].present
               PROVE  domainProfile[o].score =
                          ComputeProfileCompleteness(domainProfile[o].profile).score
    BY DEF ScoreMatchesProfile
  <2>1. domainProfile[o] \in DomainRow BY DEF AdminInv, Typed, TablesTyped
  <2>2. domainProfile[o] # NoRow BY DEF NoRow
  <2>3. PICK p \in Submissions : domainProfile[o] =
            [present |-> TRUE, profile |-> p, score |-> ComputeProfileCompleteness(p).score]
    BY <2>1, <2>2 DEF DomainRow
  <2>4. domainProfile[o].profile = p
        /\ domainProfile[o].score = ComputeProfileCompleteness(p).score
    BY <2>3
  <2> QED BY <2>4
<1> QED BY <1>1, AdminInvariant, PTL

\* An installation keeps its version through every disabling and re-enabling.
THEOREM VersionKept == Spec => VersionIsKept
<1>1. AdminInv /\ [Next]_vars =>
        [\A o \in Rows : installation'[o].present
                         /\ installation'[o].version = installation[o].version]_vars
  <2> SUFFICES ASSUME AdminInv, [Next]_vars, NEW o \in Orgs, installation[o].present
               PROVE  installation'[o].present
                      /\ installation'[o].version = installation[o].version
    BY DEF Rows
  <2>1. CASE UNCHANGED tables BY <2>1 DEF tables
  <2>2. CASE \E t \in Tabs : Good(t) BY <2>2 DEF Good, Frame
  <2> QED BY <2>1, <2>2, NextCases
<1> QED BY <1>1, AdminInvariant, PTL DEF Spec, VersionIsKept

\* The rows of an organization change by the posts of its own users alone.
THEOREM TenantsSeparate == Spec => TenantsAreSeparate
<1> DEFINE Separate(o) ==
        <<installation[o], orgProfile[o], domainProfile[o], trail[o]>>' #
            <<installation[o], orgProfile[o], domainProfile[o], trail[o]>> =>
        \E t \in Tabs : orgOf[t] = o /\ pc[t] # "idle" /\ pc'[t] # pc[t]
<1>1. AdminInv /\ [Next]_vars => [\A o \in Orgs : Separate(o)]_vars
  <2> SUFFICES ASSUME AdminInv, [Next]_vars, NEW o \in Orgs PROVE Separate(o) OBVIOUS
  <2>1. CASE UNCHANGED tables BY <2>1 DEF tables
  <2>2. ASSUME NEW t \in Tabs, Good(t), Step(t) PROVE Separate(o)
    <3>1. CASE o # orgOf[t] BY <2>2, <3>1 DEF Good, Frame
    <3>2. CASE o = orgOf[t]
      <4>1. pc \in [Tabs -> Pcs] BY DEF AdminInv, Typed, PostsTyped
      <4>2. pc[t] # "idle" /\ pc'[t] # pc[t]
        BY <2>2, <4>1 DEF Step, ReadInstallation, WriteInstallation, AuditInstallation,
           ReadOrgProfile, WriteOrgProfile, ReadDomainProfile, WriteDomainProfile,
           AuditColdStart, Read, Return, Continue, Goto
      <4> QED BY <3>2, <4>2
    <3> QED BY <3>1, <3>2
  <2> QED BY <2>1, <2>2, NextCases
<1> QED BY <1>1, AdminInvariant, PTL DEF Spec, TenantsAreSeparate
=============================================================================

---------------------------- MODULE Permissions ----------------------------
(***************************************************************************)
(* What an account may do with the proposals that the API answers with.    *)
(*                                                                         *)
(* The feed of an account is selected by SQL, from the roles of the        *)
(* policies; the permissions shown with each proposal, in every answer,    *)
(* are computed in JavaScript from the roles and from the stake that is    *)
(* delegated to the account, which later queries read.  The indexer        *)
(* changes policies and stakes between the queries of a request.  A        *)
(* request only reads, so one of them beside the indexer stands for all.   *)
(***************************************************************************)
EXTENDS Integers

CONSTANTS
  Voters,
  Nobody,             \* a request that names no account
  PolicyDaos,
  PolicyLabels,       \* the labels of the types of proposals
  Listings,           \* the proposals
  Policies,           \* the sets of roles a DAO may vote for
  StakeAmounts,       \* balances of delegations
  PermissionScenarios \* bounds: what happens at most in one behaviour

\* Labels of checkPermissions; "*" stands for every type, or every action.
VoteLabels == {"VoteApprove", "VoteReject", "VoteRemove"}
ActionLabels == VoteLabels \cup {"AddProposal"}
PermissionNames == (PolicyLabels \cup {"*"}) \X (ActionLabels \cup {"*"})

RoleRecords ==
  [council : BOOLEAN, kind : {"Everyone", "Member", "Group"}, balance : StakeAmounts,
   accountIds : SUBSET Voters, permissions : SUBSET PermissionNames]

ASSUME NobodyAssumption == Nobody \notin Voters
ASSUME AmountsAssumption == StakeAmounts \subseteq Int /\ 0 \in StakeAmounts
ASSUME ListingsAssumption ==
  Listings \subseteq [dao : PolicyDaos, label : PolicyLabels, proposer : Voters]
ASSUME PoliciesAssumption == Policies \subseteq SUBSET RoleRecords
ASSUME PermissionBounds ==
  PermissionScenarios \subseteq [requests : Nat, policies : Nat, stakes : Nat]

VARIABLES
  tables,             \* PostgreSQL: roles and accounts of each DAO, stakes
  answer,             \* the request ("one", "list", "search", "bounties" or "feed"):
                      \* what it has listed and read so far
  moments,            \* history: the tables while the request was served
  permissionBudget    \* what the scenario still allows

permissionVars == <<tables, answer, moments, permissionBudget>>

-----------------------------------------------------------------------------
(* getAccountPermissions, and the same question in SQL                     *)

\* Mutant: the kind of a role is not looked at in SQL.
EveryRole(roles, a) == UNION {r.permissions : r \in roles}

\* buildPermissionsSubQuery, which getFeedByAccountId calls without a balance.
SqlGranted(roles, a) ==
  UNION {r.permissions : r \in {x \in roles : x.kind = "Group" /\ a \in x.accountIds}}

Applies(r, a, stake) ==
  \/ r.kind = "Everyone"
  \/ r.kind = "Group" /\ a \in r.accountIds
  \/ r.kind = "Member" /\ stake >= r.balance

Granted(roles, a, stake) ==
  UNION {r.permissions : r \in {x \in roles : Applies(x, a, stake)}}

Permits(granted, label, action) ==
  granted \cap {<<"*", "*">>, <<"*", action>>, <<label, action>>} # {}

\* Roles named council are of the kind Group, and at most one in a policy.
AccountPermissions(roles, label, a, stake) ==
  [isCouncil |-> \E r \in roles : r.council /\ a \in r.accountIds,
   can |-> {c \in ActionLabels : a # Nobody /\ Permits(Granted(roles, a, stake), label, c)}]

\* The proposals in the feed of account a.
Selected(a) ==
  {p \in Listings :
     \/ p.proposer = a
     \/ a \in tables.members[p.dao]
     \/ \E c \in VoteLabels : Permits(SqlGranted(tables.roles[p.dao], a), p.label, c)}

-----------------------------------------------------------------------------
GroupAccounts(roles) == UNION {r.accountIds : r \in {x \in roles : x.kind = "Group"}}

NoStakes == [d \in PolicyDaos |-> [a \in Voters |-> 0]]

NoAnswer ==
  [kind |-> "list", step |-> "idle", account |-> Nobody, listed |-> {},
   roles |-> tables.roles, stakes |-> NoStakes]

PermissionInit ==
  /\ permissionBudget \in PermissionScenarios
  /\ \E r \in [PolicyDaos -> Policies] :
       tables = [roles |-> r, members |-> [d \in PolicyDaos |-> GroupAccounts(r[d])],
                 delegates |-> [d \in PolicyDaos |-> {}], stakes |-> NoStakes]
  /\ answer = NoAnswer
  /\ moments = {}

Consumes(f) ==
  /\ permissionBudget[f] > 0
  /\ permissionBudget' = [permissionBudget EXCEPT ![f] = @ - 1]

Serving == answer.step \in {"roles", "stakes"}

-----------------------------------------------------------------------------
(* Requests: a list of proposals, then the rows their permissions need     *)

\* A request whose list is empty reads no further.
Begins(kind, a, listed, step) ==
  /\ Consumes("requests") /\ ~Serving
  /\ answer' = [kind |-> kind, account |-> a, listed |-> listed,
                step |-> IF listed = {} THEN "answered" ELSE step,
                roles |-> tables.roles, stakes |-> NoStakes]
  /\ moments' = {tables}
  /\ UNCHANGED tables

\* getById: the roles come with the proposal.
GetById(a) == \E p \in Listings : Begins("one", a, {p}, "stakes")

\* getFeed: whatever its filters leave; mapProposals reads the stakes first.
GetFeed(a) ==
  \E listed \in SUBSET Listings :
    Begins("list", a, listed, IF a = Nobody THEN "roles" ELSE "stakes")

Search(a) == \E listed \in SUBSET Listings : Begins("search", a, listed, "roles")

\* setProposalsPermissions: the proposals that bounties were made and done by.
GetBountyContexts(a) ==
  \E listed \in SUBSET Listings \ {{}} : Begins("bounties", a, listed, "roles")

GetFeedByAccountId(a) == a # Nobody /\ Begins("feed", a, Selected(a), "roles")

ReadRoles ==
  /\ answer.step = "roles"
  /\ answer' = [answer EXCEPT !.roles = tables.roles,
                              !.step = IF answer.kind = "list" \/ answer.account = Nobody
                                         THEN "answered" ELSE "stakes"]
  /\ UNCHANGED <<tables, moments, permissionBudget>>

\* Mutant: the first delegation of the account, of whichever DAO.
AnyStake(d, a) == LET e == CHOOSE x \in PolicyDaos : TRUE IN tables.stakes[e][a]

Stake(d, a) == tables.stakes[d][a]

ReadStakes ==
  /\ answer.step = "stakes"
  /\ answer' = [answer EXCEPT
       !.stakes = [d \in PolicyDaos |-> [a \in Voters |-> Stake(d, a)]],
       !.step = IF answer.kind = "list" THEN "roles" ELSE "answered"]
  /\ UNCHANGED <<tables, moments, permissionBudget>>

\* populateProposalPermissions.
Shown(p) ==
  AccountPermissions(answer.roles[p.dao], p.label, answer.account,
                     IF answer.account = Nobody THEN 0
                       ELSE answer.stakes[p.dao][answer.account])

-----------------------------------------------------------------------------
(* The indexer                                                             *)

Writes == moments' = IF Serving THEN moments \cup {tables'} ELSE moments

\* castDaoPolicy: the roles and the accounts of a DAO, saved in one transaction.
\* A handler that writes back an older policy is one of the choices.
ChangePolicy(d) ==
  /\ Consumes("policies")
  /\ \E roles \in Policies :
       tables' = [tables EXCEPT
         !.roles[d] = roles,
         !.members[d] = GroupAccounts(roles) \cup tables.delegates[d]]
  /\ Writes /\ UNCHANGED answer

\* A delegation is saved; updateDaoMembers comes after it.
Delegate(d) ==
  /\ Consumes("stakes")
  /\ \E a \in Voters, s \in StakeAmounts :
       tables' = [tables EXCEPT !.stakes[d][a] = s, !.delegates[d] = @ \cup {a}]
  /\ Writes /\ UNCHANGED answer

UpdateMembers(d) ==
  /\ ~(tables.delegates[d] \subseteq tables.members[d])
  /\ tables' = [tables EXCEPT !.members[d] = @ \cup tables.delegates[d]]
  /\ Writes /\ UNCHANGED <<answer, permissionBudget>>

PermissionNext ==
  \/ \E a \in Voters \cup {Nobody} :
       GetById(a) \/ GetFeed(a) \/ Search(a) \/ GetBountyContexts(a) \/ GetFeedByAccountId(a)
  \/ ReadRoles \/ ReadStakes
  \/ \E d \in PolicyDaos : ChangePolicy(d) \/ Delegate(d) \/ UpdateMembers(d)

PermissionSpec == PermissionInit /\ [][PermissionNext]_permissionVars

-----------------------------------------------------------------------------
(* Properties                                                              *)

\* What an account could do with a proposal at a moment.
PermittedAt(m, p) ==
  AccountPermissions(m.roles[p.dao], p.label, answer.account,
                     IF answer.account = Nobody THEN 0
                       ELSE m.stakes[p.dao][answer.account])

\* The feed of an account, selected in SQL, holds only proposals that the
\* account proposed, of a DAO it belonged to, or that it might vote for, against
\* or out by the rules the answers are labelled with, at a moment while the
\* request was served.
FeedPermitted ==
  answer.kind = "feed" =>
    \A p \in answer.listed : \E m \in moments :
      \/ p.proposer = answer.account
      \/ answer.account \in m.members[p.dao]
      \/ PermittedAt(m, p).can \cap VoteLabels # {}

\* The permissions shown with a proposal, computed from the roles and the stake
\* of two queries, were those of the account at one moment of the request,
\* unless both the roles and the stakes changed while it was served.
AnswersTimely ==
  answer.step = "answered" =>
    \A p \in answer.listed :
      \/ \E m \in moments : Shown(p) = PermittedAt(m, p)
      \/ /\ \E m, n \in moments : m.roles # n.roles
         /\ \E m, n \in moments : m.stakes # n.stakes
=============================================================================

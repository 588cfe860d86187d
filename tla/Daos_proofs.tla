---------------------------- MODULE Daos_proofs ----------------------------
(***************************************************************************)
(* Proofs about the permissions in DAOs (Permissions) and about the records*)
(* of DAOs (DaoRecords).                                                   *)
(***************************************************************************)
EXTENDS Permissions, DaoRecords, SequenceTheorems, FiniteSetTheorems, TLAPS

(***************************************************************************)
(* Permissions                                                             *)
(***************************************************************************)

\* What a request has listed and read was in the tables at some moment while it
\* was served.  A request of kind "list" reads the stakes first, the others the
\* roles first.
RolesRead == \E m \in moments : answer.roles = m.roles

StakesRead ==
  \E m \in moments :
    \A d \in PolicyDaos, a \in Voters : answer.stakes[d][a] = m.stakes[d][a]

RequestInv ==
  /\ answer.listed \subseteq Listings
  /\ answer.account \in Voters \cup {Nobody}
  /\ Serving => tables \in moments
  /\ answer.step = "stakes" /\ answer.kind # "list" => RolesRead
  /\ answer.step = "roles" /\ answer.kind = "list" /\ answer.account # Nobody => StakesRead
  /\ answer.step = "answered" /\ answer.listed # {} =>
       RolesRead /\ (answer.account = Nobody \/ StakesRead)

-----------------------------------------------------------------------------
\* The SQL of the feed grants an account no permission that
\* getAccountPermissions does not.
LEMMA SqlGrantsLess ==
  ASSUME NEW roles, NEW a, NEW stake
  PROVE  SqlGranted(roles, a) \subseteq Granted(roles, a, stake)
BY DEF SqlGranted, Granted, Applies

\* More permissions permit no less.
LEMMA PermitsMonotone ==
  ASSUME NEW S, NEW T, S \subseteq T, NEW label, NEW action, Permits(S, label, action)
  PROVE  Permits(T, label, action)
BY DEF Permits

\* What SQL permits to vote on is shown as permitted.
LEMMA SelectedIsPermitted ==
  ASSUME NEW roles, NEW label, NEW a, NEW stake, NEW c \in VoteLabels, a # Nobody,
         Permits(SqlGranted(roles, a), label, c)
  PROVE  c \in AccountPermissions(roles, label, a, stake).can \cap VoteLabels
<1>1. Permits(Granted(roles, a, stake), label, c)
  BY SqlGrantsLess, PermitsMonotone
<1>2. c \in ActionLabels
  BY DEF ActionLabels
<1> QED
  BY <1>1, <1>2 DEF AccountPermissions

-----------------------------------------------------------------------------
\* A step of the indexer leaves the request alone and only adds to the moments;
\* while a request is served, what it makes of the tables is one of them.
LEMMA WritesAdd ==
  ASSUME NEW d \in PolicyDaos, ChangePolicy(d) \/ Delegate(d) \/ UpdateMembers(d)
  PROVE  /\ answer' = answer
         /\ moments \subseteq moments'
         /\ Serving' => tables' \in moments'
BY DEF ChangePolicy, Delegate, UpdateMembers, Writes, Serving

\* A request that begins has only the tables of that moment.
LEMMA RequestStarts ==
  ASSUME NEW kind, NEW a, NEW listed, NEW step, Begins(kind, a, listed, step)
  PROVE  /\ answer'.kind = kind /\ answer'.account = a /\ answer'.listed = listed
         /\ answer'.step = IF listed = {} THEN "answered" ELSE step
         /\ answer'.roles = tables.roles
         /\ moments' = {tables} /\ tables' = tables
BY DEF Begins

\* A request begins in one of five ways.
LEMMA RequestKinds ==
  ASSUME NEW a \in Voters \cup {Nobody},
         \/ GetById(a) \/ GetFeed(a) \/ Search(a) \/ GetBountyContexts(a)
         \/ GetFeedByAccountId(a)
  PROVE  \E kind \in {"one", "list", "search", "bounties", "feed"},
            listed \in SUBSET Listings, step \in {"roles", "stakes"} :
           /\ Begins(kind, a, listed, step)
           /\ kind = "feed" => listed = Selected(a) /\ a # Nobody
           /\ step = "stakes" /\ kind # "list" => kind = "one"
           /\ step = "roles" /\ kind = "list" => a = Nobody
<1>1. CASE GetById(a)
  BY <1>1 DEF GetById
<1>2. CASE GetFeed(a)
  BY <1>2 DEF GetFeed
<1>3. CASE Search(a)
  BY <1>3 DEF Search
<1>4. CASE GetBountyContexts(a)
  BY <1>4 DEF GetBountyContexts
<1>5. CASE GetFeedByAccountId(a)
  <2>1. Selected(a) \in SUBSET Listings
    BY DEF Selected
  <2> QED
    BY <1>5, <2>1 DEF GetFeedByAccountId
<1> QED
  BY <1>1, <1>2, <1>3, <1>4, <1>5

-----------------------------------------------------------------------------
\* At first nothing is asked.
LEMMA InitRequest == PermissionInit => RequestInv /\ FeedPermitted
BY DEF PermissionInit, RequestInv, FeedPermitted, NoAnswer, Serving

\* Each step keeps what the request has read among the moments.
LEMMA NextRequest == RequestInv /\ [PermissionNext]_permissionVars => RequestInv'
<1> SUFFICES ASSUME RequestInv, [PermissionNext]_permissionVars
             PROVE  RequestInv'
  OBVIOUS
<1>1. ASSUME NEW a \in Voters \cup {Nobody},
             \/ GetById(a) \/ GetFeed(a) \/ Search(a) \/ GetBountyContexts(a)
             \/ GetFeedByAccountId(a)
      PROVE  RequestInv'
  <2>1. PICK kind \in {"one", "list", "search", "bounties", "feed"},
             listed \in SUBSET Listings, step \in {"roles", "stakes"} :
          /\ Begins(kind, a, listed, step)
          /\ step = "roles" /\ kind = "list" => a = Nobody
    BY <1>1, RequestKinds
  <2>2. /\ answer'.kind = kind /\ answer'.account = a /\ answer'.listed = listed
        /\ answer'.step = IF listed = {} THEN "answered" ELSE step
        /\ answer'.roles = tables.roles
        /\ moments' = {tables} /\ tables' = tables
    BY <2>1, RequestStarts
  <2>3. RolesRead'
    BY <2>2 DEF RolesRead
  <2> QED
    BY <2>1, <2>2, <2>3 DEF RequestInv, Serving
<1>2. CASE ReadRoles
  <2>1. /\ answer'.kind = answer.kind /\ answer'.account = answer.account
        /\ answer'.listed = answer.listed /\ answer'.stakes = answer.stakes
        /\ answer'.roles = tables.roles
        /\ answer'.step = IF answer.kind = "list" \/ answer.account = Nobody
                            THEN "answered" ELSE "stakes"
        /\ tables' = tables /\ moments' = moments /\ answer.step = "roles"
    BY <1>2 DEF ReadRoles
  <2>2. tables \in moments
    BY <2>1 DEF RequestInv, Serving
  <2>3. RolesRead'
    BY <2>1, <2>2 DEF RolesRead
  <2>4. StakesRead => StakesRead'
    BY <2>1 DEF StakesRead
  <2> QED
    BY <2>1, <2>2, <2>3, <2>4 DEF RequestInv, Serving
<1>3. CASE ReadStakes
  <2>1. /\ answer'.kind = answer.kind /\ answer'.account = answer.account
        /\ answer'.listed = answer.listed /\ answer'.roles = answer.roles
        /\ answer'.stakes = [d \in PolicyDaos |-> [a \in Voters |-> tables.stakes[d][a]]]
        /\ answer'.step = IF answer.kind = "list" THEN "roles" ELSE "answered"
        /\ tables' = tables /\ moments' = moments /\ answer.step = "stakes"
    BY <1>3 DEF ReadStakes, Stake
  <2>2. tables \in moments
    BY <2>1 DEF RequestInv, Serving
  <2>3. StakesRead'
    BY <2>1, <2>2 DEF StakesRead
  <2>4. RolesRead => RolesRead'
    BY <2>1 DEF RolesRead
  <2> QED
    BY <2>1, <2>2, <2>3, <2>4 DEF RequestInv, Serving
<1>4. ASSUME NEW d \in PolicyDaos, ChangePolicy(d) \/ Delegate(d) \/ UpdateMembers(d)
      PROVE  RequestInv'
  <2>1. /\ answer' = answer /\ moments \subseteq moments'
        /\ Serving' => tables' \in moments'
    BY <1>4, WritesAdd
  <2>2. /\ RolesRead => RolesRead'
        /\ StakesRead => StakesRead'
    BY <2>1 DEF RolesRead, StakesRead
  <2> QED
    BY <2>1, <2>2 DEF RequestInv
<1>5. CASE UNCHANGED permissionVars
  BY <1>5 DEF permissionVars, RequestInv, Serving, RolesRead, StakesRead
<1> QED
  BY <1>1, <1>2, <1>3, <1>4, <1>5 DEF PermissionNext

\* Each step keeps the proposals of a feed permitted.
LEMMA NextFeed == FeedPermitted /\ [PermissionNext]_permissionVars => FeedPermitted'
<1> SUFFICES ASSUME FeedPermitted, [PermissionNext]_permissionVars
             PROVE  FeedPermitted'
  OBVIOUS
<1>1. ASSUME NEW a \in Voters \cup {Nobody},
             \/ GetById(a) \/ GetFeed(a) \/ Search(a) \/ GetBountyContexts(a)
             \/ GetFeedByAccountId(a)
      PROVE  FeedPermitted'
  <2>1. PICK kind \in {"one", "list", "search", "bounties", "feed"},
             listed \in SUBSET Listings, step \in {"roles", "stakes"} :
          /\ Begins(kind, a, listed, step)
          /\ kind = "feed" => listed = Selected(a) /\ a # Nobody
    BY <1>1, RequestKinds
  <2>2. /\ answer'.kind = kind /\ answer'.account = a /\ answer'.listed = listed
        /\ moments' = {tables}
    BY <2>1, RequestStarts
  <2> DEFINE ShownTo(m, p) ==
        AccountPermissions(m.roles[p.dao], p.label, a, m.stakes[p.dao][a]).can
  <2>3. SUFFICES ASSUME kind = "feed", NEW p \in Selected(a), a # Nobody
                 PROVE  \/ p.proposer = a
                        \/ a \in tables.members[p.dao]
                        \/ ShownTo(tables, p) \cap VoteLabels # {}
    BY <2>1, <2>2 DEF FeedPermitted, PermittedAt
  <2>4. ASSUME NEW c \in VoteLabels, Permits(SqlGranted(tables.roles[p.dao], a), p.label, c)
        PROVE  c \in ShownTo(tables, p) \cap VoteLabels
    BY <2>3, <2>4, SelectedIsPermitted
  <2> QED
    BY <2>3, <2>4 DEF Selected
<1>2. ASSUME answer'.kind = answer.kind, answer'.account = answer.account,
             answer'.listed = answer.listed, moments \subseteq moments'
      PROVE  FeedPermitted'
  BY <1>2 DEF FeedPermitted, PermittedAt
<1>3. ASSUME ReadRoles \/ ReadStakes
      PROVE  FeedPermitted'
  <2>1. CASE ReadRoles
    BY <1>2, <2>1 DEF ReadRoles
  <2>2. CASE ReadStakes
    BY <1>2, <2>2 DEF ReadStakes
  <2> QED
    BY <1>3, <2>1, <2>2
<1>4. ASSUME NEW d \in PolicyDaos, ChangePolicy(d) \/ Delegate(d) \/ UpdateMembers(d)
      PROVE  FeedPermitted'
  BY <1>2, <1>4, WritesAdd
<1>5. CASE UNCHANGED permissionVars
  BY <1>2, <1>5 DEF permissionVars
<1> QED
  BY <1>1, <1>3, <1>4, <1>5 DEF PermissionNext

\* An answer made of rows of two moments is that of one of them, when all the
\* moments agree on the roles or on the stakes.
LEMMA AnswersFromMoments == RequestInv => AnswersTimely
<1> SUFFICES ASSUME RequestInv, answer.step = "answered", NEW p \in answer.listed,
                    \/ \A m, n \in moments : m.roles = n.roles
                    \/ \A m, n \in moments : m.stakes = n.stakes
             PROVE  \E m \in moments : Shown(p) = PermittedAt(m, p)
  BY DEF AnswersTimely
<1>1. /\ p \in Listings /\ p.dao \in PolicyDaos
      /\ answer.account \in Voters \cup {Nobody}
  BY ListingsAssumption DEF RequestInv
<1>2. PICK m \in moments : answer.roles = m.roles
  BY DEF RequestInv, RolesRead
<1>3. CASE answer.account = Nobody
  BY <1>2, <1>3 DEF Shown, PermittedAt
<1>4. CASE answer.account # Nobody
  <2>1. PICK n \in moments :
          \A d \in PolicyDaos, a \in Voters : answer.stakes[d][a] = n.stakes[d][a]
    BY <1>4 DEF RequestInv, StakesRead
  <2>2. answer.stakes[p.dao][answer.account] = n.stakes[p.dao][answer.account]
    BY <1>1, <1>4, <2>1
  <2>3. CASE m.roles = n.roles
    BY <1>2, <1>4, <2>2, <2>3 DEF Shown, PermittedAt
  <2>4. CASE m.stakes = n.stakes
    BY <1>2, <1>4, <2>2, <2>4 DEF Shown, PermittedAt
  <2> QED
    BY <2>3, <2>4
<1> QED
  BY <1>3, <1>4

-----------------------------------------------------------------------------
\* The feed of an account, selected in SQL, holds only proposals that the rules
\* computed in JavaScript allow it to act on, or that are its own or those of a
\* DAO it belongs to.
THEOREM FeedIsPermitted == PermissionSpec => []FeedPermitted
BY InitRequest, NextFeed, PTL DEF PermissionSpec

\* The permissions shown are those of one moment, unless roles and stakes both
\* changed while the request was served.
THEOREM AnswersAreTimely == PermissionSpec => []AnswersTimely
<1>1. PermissionSpec => []RequestInv
  BY InitRequest, NextRequest, PTL DEF PermissionSpec
<1> QED
  BY <1>1, AnswersFromMoments, PTL

(***************************************************************************)
(* DAOs                                                                    *)
(***************************************************************************)
(* The record of a DAO: the inductive invariant                            *)

DaoBlocks ==
  [kind : Kinds, policy : PolicyIds, staking : BOOLEAN,
   staked : SUBSET (Users \X Delegates), by : Users \cup {None},
   to : Delegates \cup {None}]

VersionLabels == {"version", "versionDyn", "versionSql"}
SavingLabels == {"daoDyn", "daoSql"}
DelegateLabels ==
  {"delRead", "delWrite", "delSql", "existing", "delegatedAmounts", "readRow",
   "readMembers", "saveMembers"}
FollowLabels == {"itemRead", "itemWrite", "subscriptionSql"}
SettingsLabels == {"settingsSql", "settingsDyn"}
DaoLabels ==
  {"off", "accounts", "readDao", "ids", "settingsRead", "pollWrite"}
    \cup VersionLabels \cup SavingLabels \cup DelegateLabels \cup FollowLabels
    \cup SettingsLabels
DaoOps == Asks \cup {"", "status", "funds"}

ReadRecords == Rows \cup Items \cup [settings : Settings] \cup {None}

StoresOK ==
  /\ sql \in Rows \cup {None} /\ dyn \in Items \cup {None}
  /\ sqlDelegations \in [Delegates -> DelegationRecords]
  /\ subscriptions \in SUBSET Users /\ sqlSettings \in Settings
  /\ inList \in BOOLEAN

WorkOK ==
  /\ pc \in [Workers -> DaoLabels] /\ op \in [Workers -> DaoOps]
  /\ seen \in [Workers -> ReadRecords] /\ fetched \in [Workers -> Versions]
  /\ accounts \in SUBSET Delegates /\ todo \in SUBSET Delegates
  /\ existing \in [Delegates -> DelegationRecords]
  /\ saving \in DelegationRecords

\* The types of the variables.
DaoTypeOK ==
  /\ scenario \in Scenarios /\ crashes \in Nat /\ faults \in Nat
  /\ chain \in Seq(DaoBlocks) /\ version \in Nat /\ deploying \in Nat
  /\ StoresOK /\ WorkOK
  /\ timers \in Nat /\ next \in Nat
  /\ alone \in Workers \cup {None} /\ settled \in Nat

\* Each block differs from the one before it in what its receipt changes.
BlockFollows(old, new) ==
  /\ new.kind # "create"
  /\ new.policy = old.policy \/ new.kind = "ChangePolicy"
  /\ new.staking = (old.staking \/ new.kind = "SetStakingContract")
  /\ new.kind \in Delegating =>
       /\ new.by \in Users /\ new.to \in Delegates
       /\ new.staked = IF new.kind = "delegate"
                       THEN old.staked \cup {<<new.by, new.to>>}
                       ELSE old.staked \ {<<new.by, new.to>>}
  /\ new.kind \notin Delegating => new.staked = old.staked

ChainOK ==
  /\ chain # <<>> /\ chain[1] = Genesis(scenario.migrated)
  /\ \A k \in 2 .. Len(chain) : BlockFollows(chain[k - 1], chain[k])

ConsumerLabels(kind) ==
  IF kind = "create" THEN {"accounts", "ids"} \cup SavingLabels \cup VersionLabels
  ELSE IF kind \in Delegating THEN DelegateLabels
  ELSE IF kind = "ChangePolicy" THEN {"readDao", "accounts"} \cup SavingLabels
  ELSE {"readDao"} \cup SavingLabels

\* Both stores have the DAO once its creation is passed, PostgreSQL never
\* before DynamoDB.
CreatedOK ==
  /\ next >= 1 /\ next <= Len(chain) + 1
  /\ scenario.migrated => next > 1
  /\ next > 1 => sql # None
  /\ sql # None => dyn # None
  /\ timers > 0 => next > 1
  /\ pc[Consumer] = "daoSql" => dyn # None
  /\ pc[Consumer] \in {"ids"} \cup VersionLabels => sql # None

\* What the consumer has read where it is.
ConsumerOK ==
  /\ pc[Consumer] # "off" =>
       next <= Len(chain) /\ pc[Consumer] \in ConsumerLabels(chain[next].kind)
  /\ pc[Consumer] \in {"accounts"} \cup SavingLabels => seen[Consumer] \in Rows \cup Items
  /\ pc[Consumer] \in {"delRead", "delWrite", "delSql"} => saving.account \in Delegates
  /\ pc[Consumer] = "delWrite" =>
       seen[Consumer] \in Items /\ seen[Consumer].delegations # None
  /\ pc[Consumer] \in DelegateLabels \ {"delRead"} => dyn.delegations # None
  /\ pc[Consumer] \in {"readMembers", "saveMembers"} => seen[Consumer] \in Rows

TimersOK ==
  \A w \in Timers : pc[w] \in {"off"} \cup VersionLabels /\ (pc[w] # "off" => next > 1)

RequestOK(w) ==
  /\ pc[w] \in {"off", "settingsRead"} \cup FollowLabels \cup SettingsLabels
  /\ pc[w] # "off" => sql # None
  /\ pc[w] \in FollowLabels => op[w] \in {"subscribe", "unsubscribe"}
  /\ pc[w] = "itemWrite" => seen[w] \in Items
  /\ pc[w] = "settingsRead" => op[w] = "settingsParam"
  /\ pc[w] \in SettingsLabels =>
       \/ op[w] = "settings"
       \/ op[w] = "settingsParam" /\ seen[w] \in [settings : Settings]

RequestsOK == \A w \in Requests : RequestOK(w)

PollersOK ==
  \A w \in Pollers :
    /\ pc[w] \in {"off", "pollWrite"}
    /\ pc[w] = "pollWrite" => seen[w] \in Rows /\ op[w] \in {"status", "funds"} /\ sql # None

\* A worker that began while all others were off, and none began since.
SoloOK ==
  /\ alone \in Workers =>
       pc[alone] # "off" /\ \A w \in Workers \ {alone} : pc[w] = "off"
  /\ settled # 0 => settled < next /\ \A w \in Workers : pc[w] = "off"

SameColumns(row, item) == \A f \in Columns : row[f] = item[f]

\* A handler of a new policy that is alone finds in the item what it has put.
RepairOK ==
  /\ alone = Consumer /\ pc[Consumer] = "daoSql" => SameColumns(RowToSave, dyn)
  /\ settled # 0 /\ chain[settled].kind = "ChangePolicy" =>
       sql.policy = chain[settled].policy /\ SameColumns(sql, dyn)

\* Followers and settings while one request is served.
AgreeOK(w) ==
  /\ dyn = None => subscriptions = {} /\ sqlSettings = NoSettings
  /\ dyn # None =>
       /\ pc[w] # "subscriptionSql" => dyn.followers = subscriptions
       /\ pc[w] = "subscriptionSql" => dyn.followers = FollowersAfter(op[w], subscriptions)
       /\ pc[w] # "settingsDyn" => dyn.settings = sqlSettings
       /\ pc[w] = "settingsDyn" => sqlSettings = SettingsOf(w)
       /\ pc[w] = "itemWrite" =>
            seen[w].followers = dyn.followers /\ seen[w].settings = dyn.settings

OneRequest == scenario.faults = 0 /\ \A v, w \in Requests : v = w

AgreementOK ==
  /\ scenario.faults = 0 => faults = 0
  /\ OneRequest => \A w \in Requests : AgreeOK(w)

DaoBase ==
  /\ DaoTypeOK /\ ChainOK /\ CreatedOK /\ ConsumerOK /\ TimersOK /\ RequestsOK
  /\ PollersOK
-----------------------------------------------------------------------------
(* What the stores show: the inductive invariant                           *)

\* What Shows says of a record that is there.
ColumnsShow(row, k, delegates) ==
  /\ row.policy = chain[k].policy /\ row.staking = chain[k].staking
  /\ Groups[row.policy] \subseteq row.members
  /\ row.members \subseteq Groups[row.policy] \cup delegates

\* The blocks a store may show before the consumer has passed the next one.
NearlyShows(item, delegates) ==
  /\ next > 1 => \/ Shows(item, next - 1, delegates)
                 \/ next <= Len(chain) /\ Shows(item, next, delegates)
  /\ next = 1 => item = None \/ Shows(item, 1, delegates)

SqlShown ==
  /\ next > 1 => Shows(sql, next - 1, DelegationAccounts)
  /\ next = 1 => sql = None \/ Shows(sql, 1, DelegationAccounts)

\* What the consumer has read, and is about to save.
RowShown ==
  /\ pc[Consumer] = "accounts" /\ Receipt.kind = "ChangePolicy" =>
       seen[Consumer].staking = Receipt.staking
  /\ pc[Consumer] \in SavingLabels => ColumnsShow(RowToSave, next, DelegationAccounts)
  /\ pc[Consumer] \in {"readMembers", "saveMembers"} =>
       /\ seen[Consumer].policy = sql.policy /\ seen[Consumer].staking = sql.staking
       /\ seen[Consumer].members = sql.members
  /\ pc[Consumer] = "saveMembers" => accounts \subseteq DelegationAccounts

DynShown ==
  /\ NearlyShows(dyn, Delegated(dyn))
  /\ pc[Consumer] = "daoSql" => Shows(dyn, next, Delegated(dyn))
  /\ pc[Consumer] = "delWrite" =>
       /\ seen[Consumer].members = dyn.members
       /\ seen[Consumer].delegations = dyn.delegations
  /\ pc[Consumer] = "delSql" => saving.account \in Delegated(dyn)
  /\ Known(sqlDelegations) \subseteq Delegated(dyn)

\* Nothing is done that the scenario leaves out.
PollsOK == \A w \in Pollers : pc[w] = "pollWrite" => op[w] \in scenario.polls
AsksOK == scenario.asks = {} => \A w \in Requests : pc[w] = "off"

\* Where what BlocksShown says of the row, and of the item, is meant.
RowKept == "status" \notin scenario.polls /\ (scenario.asks = {} \/ ~scenario.daoDynamo)
ItemKept == "status" \notin scenario.polls /\ scenario.asks = {}

ShownOK ==
  /\ PollsOK /\ AsksOK
  /\ RowKept => SqlShown /\ RowShown
  /\ ItemKept => DynShown

-----------------------------------------------------------------------------
(* The delegations in PostgreSQL: the inductive invariant                  *)

\* The staking contract is known wherever a row was read.
StakingOK ==
  /\ sql.staking = TRUE
  /\ pc[Consumer] \in {"accounts", "readMembers", "saveMembers"} \cup SavingLabels =>
       seen[Consumer].staking = TRUE
  /\ \A w \in Pollers : pc[w] = "pollWrite" => seen[w].staking = TRUE

\* Since block k.
StakedSince(k, u, a) == \A i \in k .. Len(chain) : <<u, a>> \in chain[i].staked

BalancesOK ==
  \A a \in Known(sqlDelegations) :
    \/ sqlDelegations[a].balance = Balance(next - 1, a)
    \/ next <= Len(chain) /\ sqlDelegations[a].balance = Balance(next, a)

DelegatorsOK ==
  \A a \in Delegates, u \in Users :
    StakedSince(next - 1, u, a) => u \in Delegators(sqlDelegations[a])

StoringLabels == {"delRead", "delWrite", "delSql"}
MemberLabels == {"readRow", "readMembers", "saveMembers"}

\* The halves of the delegations, as they are saved one after the other.
FirstHalf ==
  /\ saving.account = Receipt.to /\ saving.balance = Balance(next, Receipt.to)

FirstSaved ==
  /\ sqlDelegations[Receipt.to].account = Receipt.to
  /\ sqlDelegations[Receipt.to].balance = Balance(next, Receipt.to)

ExistingRead ==
  \A a \in Delegates :
    Delegators(sqlDelegations[a]) \subseteq Delegators(existing[a]) \cup {Receipt.by}

\* What the receipt's signer still delegates is saved, or will be.
AmountsSaved(rest) ==
  \A a \in Delegates :
    StakedSince(next, Receipt.by, a) =>
      a \in rest \/ Receipt.by \in Delegators(sqlDelegations[a])

HalvesOK ==
  /\ pc[Consumer] \in StoringLabels /\ saving.delegators = None => FirstHalf
  /\ pc[Consumer] \in StoringLabels /\ saving.delegators # None =>
       /\ saving = DelegationOf(saving.account)
       /\ FirstSaved /\ ExistingRead /\ AmountsSaved(todo \cup {saving.account})
  /\ pc[Consumer] = "existing" => FirstSaved
  /\ pc[Consumer] = "delegatedAmounts" => FirstSaved /\ ExistingRead
  /\ pc[Consumer] \in MemberLabels => FirstSaved /\ ExistingRead /\ AmountsSaved({})

\* Where DelegationsExact says something.
RowDelegations == scenario.migrated /\ ~scenario.daoDynamo

ExactOK ==
  RowDelegations =>
    /\ next > 1 /\ dyn.delegations # None
    /\ StakingOK /\ BalancesOK /\ DelegatorsOK /\ HalvesOK
-----------------------------------------------------------------------------
LEMMA DaoWorkers ==
  /\ Consumer \in Workers /\ Timers \subseteq Workers /\ Requests \subseteq Workers
  /\ Pollers \subseteq Workers /\ Indexer \subseteq Workers /\ None \notin Workers
  /\ Workers = {Consumer} \cup Timers \cup Requests \cup Pollers
  /\ Consumer \notin Timers \cup Requests \cup Pollers
  /\ Timers \cap Requests = {} /\ Timers \cap Pollers = {} /\ Requests \cap Pollers = {}
  /\ Indexer = {Consumer} \cup Timers
BY WorkersAssumption DEF Workers, Indexer

\* The records the DAO begins with.
LEMMA DaoFirstRecords ==
  /\ NoSettings \in Settings
  /\ NoDelegation \in DelegationRecords
  /\ NoDelegations \in [Delegates -> DelegationRecords]
  /\ NewRow \in Rows /\ NewItem \in Items
  /\ MigratedRow \in Rows /\ MigratedItem \in Items
<1>1. NoSettings \in Settings
  BY DEF NoSettings, Settings
<1>2. NoDelegation \in DelegationRecords
  BY DEF NoDelegation, DelegationRecords
<1>3. NoDelegations \in [Delegates -> DelegationRecords]
  BY <1>2 DEF NoDelegations
<1>4. 0 \in PolicyIds /\ Groups[0] \in SUBSET Members
  BY RecordsAssumption DEF PolicyIds
<1>5. NewRow \in Rows /\ MigratedRow \in Rows
  BY <1>4 DEF NewRow, MigratedRow, Rows, Versions
<1>6. NewItem \in Items /\ MigratedItem \in Items
  BY <1>1, <1>3, <1>4 DEF NewItem, MigratedItem, Items, Versions
<1>7. QED
  BY <1>1, <1>2, <1>3, <1>5, <1>6

\* The columns the consumer gives.
DaoColumns ==
  [policy : PolicyIds, staking : BOOLEAN, members : SUBSET (Members \cup Delegates),
   amount : Nat]

\* What a saved row keeps of the old one.
LEMMA SavedRowKept ==
  ASSUME NEW old \in Rows \cup {None}, NEW row \in DaoColumns
  PROVE  /\ SavedRow(old, row) \in Rows
         /\ SameColumns(row, SavedRow(old, row))
<1>1. PICK base \in Rows : base = IF old = None THEN NewRow ELSE old
  BY DaoFirstRecords
<1>2. SavedRow(old, row) =
        [policy |-> row.policy, staking |-> row.staking, members |-> row.members,
         amount |-> row.amount, version |-> base.version]
  BY <1>1 DEF SavedRow, WithColumns, Rows, DaoColumns, Columns
<1>3. QED
  BY <1>1, <1>2 DEF Rows, DaoColumns, SameColumns, Columns

LEMMA SavedItemKept ==
  ASSUME NEW old \in Items \cup {None}, NEW row \in DaoColumns
  PROVE  /\ Saved(old, row) \in Items
         /\ SameColumns(row, Saved(old, row))
         /\ old # None =>
              /\ Saved(old, row).version = old.version
              /\ Saved(old, row).followers = old.followers
              /\ Saved(old, row).settings = old.settings
              /\ Saved(old, row).delegations = old.delegations
         /\ old = None =>
              /\ Saved(old, row).followers = {}
              /\ Saved(old, row).settings = NoSettings
              /\ Saved(old, row).delegations = None
<1>1. PICK base \in Items : base = IF old = None THEN NewItem ELSE old
  BY DaoFirstRecords
<1>2. Saved(old, row) =
        [policy |-> row.policy, staking |-> row.staking, members |-> row.members,
         amount |-> row.amount, version |-> base.version, followers |-> base.followers,
         settings |-> base.settings, delegations |-> base.delegations]
  BY <1>1 DEF Saved, WithColumns, Items, DaoColumns, Columns
<1>3. base.followers \in SUBSET Users /\ base.settings \in Settings
        /\ base.delegations \in [Delegates -> DelegationRecords] \cup {None}
        /\ base.version \in Versions
  BY <1>1 DEF Items
<1>4. old = None => base.followers = {} /\ base.settings = NoSettings
                      /\ base.delegations = None
  BY <1>1 DEF NewItem
<1>5. Saved(old, row) \in Items
  BY <1>2, <1>3 DEF Items, DaoColumns
<1>6. SameColumns(row, Saved(old, row))
  BY <1>2 DEF SameColumns, Columns
<1>7. QED
  BY <1>1, <1>2, <1>4, <1>5, <1>6

\* The item a request writes back.
LEMMA WrittenBackKept ==
  ASSUME NEW item \in Items, NEW followers \in SUBSET Users, dyn \in Items
  PROVE  /\ WrittenBack(item, followers) \in Items
         /\ WrittenBack(item, followers).followers = followers
         /\ dyn.delegations # None => WrittenBack(item, followers).delegations # None
         /\ item.settings = dyn.settings =>
              WrittenBack(item, followers).settings = dyn.settings
<1>1. PICK v \in Versions : v = IF item.version = None THEN dyn.version ELSE item.version
  BY DEF Items
<1>2. PICK d \in [Delegates -> DelegationRecords] \cup {None} :
        d = IF item.delegations = None THEN dyn.delegations ELSE item.delegations
  BY DEF Items
<1>3. PICK s \in Settings :
        s = IF item.settings = NoSettings THEN dyn.settings ELSE item.settings
  BY DEF Items
<1>4. WrittenBack(item, followers) =
        [item EXCEPT !.followers = followers, !.version = v, !.delegations = d,
                     !.settings = s]
  BY <1>1, <1>2, <1>3 DEF WrittenBack
<1>5. QED
  BY <1>2, <1>3, <1>4 DEF Items
-----------------------------------------------------------------------------
LEMMA DaoScenario ==
  ASSUME scenario \in Scenarios
  PROVE  /\ scenario.migrated \in BOOLEAN /\ scenario.daoDynamo \in BOOLEAN
         /\ scenario.settingsDynamo \in BOOLEAN
         /\ scenario.kinds \in SUBSET (Kinds \ {"create"})
         /\ scenario.asks \in SUBSET Asks /\ scenario.polls \in SUBSET {"status", "funds"}
         /\ scenario.crashes \in Nat /\ scenario.faults \in Nat
<1>1. scenario \in [migrated : BOOLEAN, daoDynamo : BOOLEAN, settingsDynamo : BOOLEAN,
                    kinds : SUBSET (Kinds \ {"create"}), blocks : Nat,
                    asks : SUBSET Asks, polls : SUBSET {"status", "funds"},
                    crashes : Nat, faults : Nat]
  BY RecordsAssumption
<1>2. QED
  BY <1>1

\* The receipt the consumer handles, and the block before it.
LEMMA DaoReceipt ==
  ASSUME DaoBase, next <= Len(chain)
  PROVE  /\ next \in 1 .. Len(chain) /\ Receipt \in DaoBlocks
         /\ (Receipt.kind = "create") <=> (next = 1)
         /\ next > 1 => next - 1 \in 1 .. Len(chain) /\ BlockFollows(chain[next - 1], Receipt)
         /\ Receipt.kind \in Delegating => Receipt.by \in Users /\ Receipt.to \in Delegates
<1>1. next \in 1 .. Len(chain) /\ Receipt \in DaoBlocks
  BY DEF DaoBase, DaoTypeOK, CreatedOK, Receipt
<1>2. next > 1 => next - 1 \in 1 .. Len(chain) /\ BlockFollows(chain[next - 1], Receipt)
  BY <1>1 DEF DaoBase, DaoTypeOK, ChainOK, Receipt
<1>3. next = 1 => Receipt.kind = "create"
  BY DEF DaoBase, ChainOK, Genesis, Receipt
<1>4. next > 1 => Receipt.kind # "create"
  BY <1>2 DEF BlockFollows
<1>5. Receipt.kind \in Delegating =>
        next > 1 /\ Receipt.by \in Users /\ Receipt.to \in Delegates
  BY <1>1, <1>2, <1>3 DEF BlockFollows, Delegating
<1>6. QED
  BY <1>1, <1>2, <1>3, <1>4, <1>5

LEMMA DaoNow ==
  ASSUME DaoBase
  PROVE  /\ Len(chain) \in Nat \ {0} /\ Now \in DaoBlocks
BY DEF DaoBase, DaoTypeOK, ChainOK, Now

\* Both stores have the DAO when its creation is passed.
LEMMA DaoThere ==
  ASSUME DaoBase
  PROVE  /\ sql # None => sql \in Rows
         /\ dyn # None => dyn \in Items
         /\ next > 1 => sql \in Rows /\ dyn \in Items
         /\ sql # None => dyn \in Items
BY DEF DaoBase, DaoTypeOK, StoresOK, CreatedOK

LEMMA RowToSaveType ==
  ASSUME DaoBase, next <= Len(chain), seen[Consumer] \in Rows \cup Items
  PROVE  RowToSave \in DaoColumns
<1> Receipt \in DaoBlocks
  BY DaoReceipt
<1>1. PICK p \in PolicyIds : p = LoadedPolicy(Receipt)
  BY DEF LoadedPolicy, DaoBlocks
<1>2. Groups[p] \in SUBSET Members
  BY RecordsAssumption
<1>3. PICK r : r = seen[Consumer]
  OBVIOUS
<1>4. /\ r # None
      /\ r.policy \in PolicyIds /\ r.staking \in BOOLEAN
      /\ r.members \in SUBSET (Members \cup Delegates) /\ r.amount \in Nat
  <2>1. r \in Rows => r.policy \in PolicyIds /\ r.staking \in BOOLEAN
                        /\ r.members \in SUBSET (Members \cup Delegates) /\ r.amount \in Nat
    BY DEF Rows
  <2>2. r \in Items => r.policy \in PolicyIds /\ r.staking \in BOOLEAN
                        /\ r.members \in SUBSET (Members \cup Delegates) /\ r.amount \in Nat
    BY DEF Items
  <2>3. r \in Rows \/ r \in Items
    BY <1>3
  <2>4. r # None
    BY <2>3, NoneAssumption
  <2>5. QED
    BY <2>1, <2>2, <2>3, <2>4
<1>5. PICK loads \in BOOLEAN : loads <=> (Receipt.kind \in {"create", "ChangePolicy"})
  OBVIOUS
<1>6. RowToSave =
        [policy |-> IF loads THEN p ELSE r.policy,
         staking |-> IF Receipt.kind = "create" THEN Receipt.staking
                     ELSE r.staking \/ Receipt.kind = "SetStakingContract",
         members |-> IF loads THEN Groups[p] \cup accounts ELSE r.members,
         amount |-> r.amount]
  BY <1>1, <1>3, <1>4, <1>5 DEF RowToSave
<1>7. Receipt.staking \in BOOLEAN /\ accounts \in SUBSET Delegates
  BY DEF DaoBlocks, DaoBase, DaoTypeOK, WorkOK
<1>8. PICK m : m = IF loads THEN Groups[p] \cup accounts ELSE r.members
  OBVIOUS
<1>9. PICK s : s = IF Receipt.kind = "create" THEN Receipt.staking
                     ELSE r.staking \/ Receipt.kind = "SetStakingContract"
  OBVIOUS
<1>10. s \in BOOLEAN
  BY <1>4, <1>7, <1>9
<1>11. m \in SUBSET (Members \cup Delegates)
  BY <1>2, <1>4, <1>7, <1>8
<1>12. QED
  BY <1>4, <1>6, <1>8, <1>9, <1>10, <1>11 DEF DaoColumns

LEMMA DaoBalance ==
  ASSUME NEW k, NEW a
  PROVE  Balance(k, a) \in Nat
<1>1. IsFiniteSet({u \in Users : <<u, a>> \in chain[k].staked})
  BY UsersAssumption, FS_Subset
<1>2. QED
  BY <1>1, FS_CardinalityType DEF Balance

LEMMA DaoFollowers ==
  ASSUME NEW o, NEW followers \in SUBSET Users
  PROVE  FollowersAfter(o, followers) \in SUBSET Users
<1>1. Follower \in Users
  BY UsersAssumption DEF Follower
<1>2. QED
  BY <1>1 DEF FollowersAfter

LEMMA DelegationAccountsType ==
  DelegationAccounts \in SUBSET Delegates
BY DEF DelegationAccounts, Delegated, Known

-----------------------------------------------------------------------------
(* Steps of one worker                                                     *)

\* No worker but w goes on.
Beside(w) ==
  \A u \in Workers \ {w} :
    pc'[u] = pc[u] /\ op'[u] = op[u] /\ seen'[u] = seen[u] /\ fetched'[u] = fetched[u]

\* What is in a store stays there.
StoresGrow ==
  /\ sql # None => sql' # None
  /\ dyn # None => dyn' # None /\ (dyn.delegations # None => dyn'.delegations # None)

LEMMA GoesOnMoves ==
  ASSUME WorkOK, NEW w \in Workers, NEW label \in DaoLabels, GoesOn(w, label)
  PROVE  /\ pc' \in [Workers -> DaoLabels] /\ pc'[w] = label
         /\ \A u \in Workers \ {w} : pc'[u] = pc[u]
         /\ alone' = alone /\ settled' = settled
BY DEF WorkOK, GoesOn, GoTo

LEMMA BeginsMoves ==
  ASSUME WorkOK, NEW w \in Workers, NEW label \in DaoLabels, BeginsAt(w, label)
  PROVE  /\ pc[w] = "off" /\ pc' \in [Workers -> DaoLabels] /\ pc'[w] = label
         /\ \A u \in Workers \ {w} : pc'[u] = pc[u]
         /\ alone' \in Workers \cup {None} /\ settled' = 0
BY DEF WorkOK, BeginsAt, GoTo

LEMMA ForgetsMoves ==
  ASSUME DaoTypeOK, NEW ws \in SUBSET Workers, Forgets(ws)
  PROVE  /\ WorkOK' /\ alone' \in Workers \cup {None}
         /\ \A u \in ws : pc'[u] = "off"
         /\ \A u \in Workers \ ws :
              pc'[u] = pc[u] /\ op'[u] = op[u] /\ seen'[u] = seen[u]
                /\ fetched'[u] = fetched[u]
         /\ Consumer \notin ws => UNCHANGED delegating
<1> USE DEF DaoTypeOK
<1>1. pc' \in [Workers -> DaoLabels]
  BY DEF WorkOK, Forgets, DaoLabels
<1>2. op' \in [Workers -> DaoOps]
  BY DEF WorkOK, Forgets, DaoOps
<1>3. seen' \in [Workers -> ReadRecords]
  BY DEF WorkOK, Forgets, ReadRecords
<1>4. fetched' \in [Workers -> Versions]
  BY DEF WorkOK, Forgets, Versions
<1>5. /\ accounts' \in SUBSET Delegates /\ todo' \in SUBSET Delegates
      /\ existing' \in [Delegates -> DelegationRecords]
      /\ saving' \in DelegationRecords
  BY DaoFirstRecords DEF WorkOK, Forgets, delegating
<1>6. alone' \in Workers \cup {None}
  BY DEF Forgets
<1>7. QED
  BY <1>1, <1>2, <1>3, <1>4, <1>5, <1>6 DEF WorkOK, Forgets

LEMMA EndsMoves ==
  ASSUME DaoTypeOK, NEW w \in Workers \ {Consumer}, Ends(w)
  PROVE  /\ WorkOK' /\ alone' \in Workers \cup {None}
         /\ pc'[w] = "off" /\ Beside(w) /\ settled' = settled
         /\ UNCHANGED delegating
BY ForgetsMoves, DaoWorkers DEF Ends, Beside

LEMMA PassesMoves ==
  ASSUME DaoTypeOK, NEW ok, Passes(ok)
  PROVE  /\ WorkOK' /\ alone' \in Workers \cup {None}
         /\ pc'[Consumer] = "off" /\ Beside(Consumer)
         /\ next' = next + 1 /\ settled' \in {0, next}
BY ForgetsMoves, DaoWorkers DEF Passes, Beside

\* What the other workers rely on stays when one worker goes on.
LEMMA BesideKept ==
  ASSUME DaoBase, NEW w \in Workers, Beside(w), StoresGrow, next' >= next, next' \in Nat
  PROVE  /\ \A u \in Timers \ {w} : (pc[u] \in {"off"} \cup VersionLabels
                                      /\ (pc[u] # "off" => next > 1))'
         /\ w \notin Timers => TimersOK'
         /\ \A u \in Requests \ {w} : RequestOK(u)'
         /\ w \notin Requests => RequestsOK'
         /\ \A u \in Pollers \ {w} :
              /\ (pc[u] \in {"off", "pollWrite"})'
              /\ (pc[u] = "pollWrite" => seen[u] \in Rows /\ op[u] \in {"status", "funds"}
                                           /\ sql # None)'
         /\ w \notin Pollers => PollersOK'
<1> USE DaoWorkers
<1>1. \A u \in Timers \ {w} : (pc[u] \in {"off"} \cup VersionLabels
                                      /\ (pc[u] # "off" => next > 1))'
  BY DEF DaoBase, DaoTypeOK, TimersOK, Beside
<1>2. \A u \in Requests \ {w} : RequestOK(u)'
  BY DEF DaoBase, RequestsOK, RequestOK, Beside, StoresGrow
<1>3. \A u \in Pollers \ {w} :
              /\ (pc[u] \in {"off", "pollWrite"})'
              /\ (pc[u] = "pollWrite" => seen[u] \in Rows /\ op[u] \in {"status", "funds"}
                                           /\ sql # None)'
  BY DEF DaoBase, PollersOK, Beside, StoresGrow
<1>4. QED
  BY <1>1, <1>2, <1>3 DEF TimersOK, RequestsOK, PollersOK

LEMMA ConsumerKept ==
  ASSUME DaoBase, NEW w \in Workers \ {Consumer}, Beside(w), StoresGrow,
         next' = next, saving' = saving, Len(chain') >= Len(chain), Len(chain') \in Nat,
         next <= Len(chain) => chain'[next] = chain[next]
  PROVE  ConsumerOK'
<1> pc'[Consumer] = pc[Consumer] /\ seen'[Consumer] = seen[Consumer]
  BY DaoWorkers DEF Beside
<1>1. (pc[Consumer] # "off" =>
        next <= Len(chain) /\ pc[Consumer] \in ConsumerLabels(chain[next].kind))'
  BY DEF DaoBase, DaoTypeOK, ConsumerOK, ConsumerLabels
<1>2. pc[Consumer] \in DelegateLabels => next > 1
  BY DaoReceipt DEF DaoBase, ConsumerOK, ConsumerLabels, DelegateLabels, SavingLabels,
     VersionLabels, Receipt, CreatedOK, DaoTypeOK
<1>3. (pc[Consumer] \in DelegateLabels \ {"delRead"} => dyn.delegations # None)'
  BY <1>2, DaoThere, NoneAssumption DEF DaoBase, ConsumerOK, StoresGrow
<1>4. QED
  BY <1>1, <1>3 DEF DaoBase, ConsumerOK
-----------------------------------------------------------------------------
(* The steps of the chain                                                  *)

LEMMA BlocksFollow ==
  ASSUME DaoBase, NEW kind \in scenario.kinds, NEW b \in Blocks(kind)
  PROVE  b \in DaoBlocks /\ BlockFollows(Now, b) /\ b.kind = kind
<1>1. kind \in Kinds /\ kind # "create"
  BY DaoScenario DEF DaoBase, DaoTypeOK
<1>2. PICK base : base = [Now EXCEPT !.kind = kind, !.by = None, !.to = None]
  OBVIOUS
<1>3. /\ base \in DaoBlocks /\ base.kind = kind /\ base.policy = Now.policy
      /\ base.staking = Now.staking /\ base.staked = Now.staked
      /\ base.by = None /\ base.to = None /\ Now \in DaoBlocks
  BY <1>1, <1>2, DaoNow DEF DaoBlocks
<1>4. CASE kind = "ChangePolicy"
  <2>1. PICK p \in PolicyIds : b = [base EXCEPT !.policy = p]
    BY <1>2, <1>4 DEF Blocks
  <2>2. b \in DaoBlocks /\ b.kind = kind /\ b.staking = base.staking /\ b.staked = base.staked
    BY <1>3, <2>1 DEF DaoBlocks
  <2>3. QED
    BY <1>1, <1>3, <1>4, <2>2 DEF BlockFollows, Delegating, DaoBlocks
<1>5. CASE kind = "SetStakingContract"
  <2>1. b = [base EXCEPT !.staking = TRUE] /\ Now.staking # TRUE
    BY <1>2, <1>5 DEF Blocks
  <2>2. b \in DaoBlocks /\ b.kind = kind /\ b.staking = TRUE /\ b.policy = base.policy
          /\ b.staked = base.staked
    BY <1>3, <2>1 DEF DaoBlocks
  <2>3. QED
    BY <1>1, <1>3, <1>5, <2>1, <2>2 DEF BlockFollows, Delegating
<1>6. CASE kind \in Delegating
  <2> DEFINE Staked(p) == IF kind = "delegate" THEN base.staked \cup {p} ELSE base.staked \ {p}
             Pairs == IF kind = "delegate" THEN (Users \X Delegates) \ Now.staked
                      ELSE Now.staked
  <2>a. kind # "ChangePolicy" /\ kind # "SetStakingContract"
    BY <1>6 DEF Delegating
  <2>b. b \in {[base EXCEPT !.by = p[1], !.to = p[2], !.staked = Staked(p)]
                 : p \in {q \in Pairs : Now.staking}}
    BY <1>2, <1>6, <2>a, Zenon DEF Blocks
  <2>c. Pairs \subseteq Users \X Delegates
    BY <1>3 DEF DaoBlocks
  <2>d. PICK p \in {q \in Pairs : Now.staking} :
          b = [base EXCEPT !.by = p[1], !.to = p[2], !.staked = Staked(p)]
    <3> HIDE DEF Pairs, Staked
    <3> QED
      BY <2>b, Zenon
  <2>1. /\ p \in Users \X Delegates
        /\ b = [base EXCEPT !.by = p[1], !.to = p[2],
                  !.staked = IF kind = "delegate" THEN Now.staked \cup {p}
                             ELSE Now.staked \ {p}]
    <3>1. p \in Users \X Delegates
      BY <2>c, Zenon
    <3>2. Staked(p) = IF kind = "delegate" THEN Now.staked \cup {p} ELSE Now.staked \ {p}
      BY <1>3, Zenon
    <3> QED
      BY <2>d, <3>1, <3>2, Zenon
  <2>2. PICK st : st = IF kind = "delegate" THEN Now.staked \cup {p}
                            ELSE Now.staked \ {p}
    OBVIOUS
  <2>3. st \in SUBSET (Users \X Delegates) /\ p = <<p[1], p[2]>>
          /\ p[1] \in Users /\ p[2] \in Delegates
    BY <1>3, <2>2 DEF DaoBlocks
  <2>4. b \in DaoBlocks /\ b.kind = kind /\ b.staking = base.staking /\ b.staked = st
          /\ b.by = p[1] /\ b.to = p[2] /\ b.policy = base.policy
    BY <1>3, <2>1, <2>2, <2>3 DEF DaoBlocks
  <2>5. b.staking = (Now.staking \/ b.kind = "SetStakingContract")
    BY <1>3, <1>6, <2>4 DEF Delegating, DaoBlocks
  <2>6. QED
    BY <1>1, <1>3, <1>6, <2>2, <2>3, <2>4, <2>5 DEF BlockFollows, Delegating
<1>7. CASE kind \notin Delegating \cup {"ChangePolicy", "SetStakingContract"}
  <2>1. b = base
    BY <1>2, <1>7 DEF Blocks
  <2>2. base.staking = (Now.staking \/ base.kind = "SetStakingContract")
    BY <1>3, <1>7 DEF DaoBlocks
  <2>3. QED
    BY <1>1, <1>3, <1>7, <2>1, <2>2 DEF BlockFollows
<1>8. QED
  BY <1>4, <1>5, <1>6, <1>7

LEMMA BlockAppends ==
  ASSUME DaoBase, Block
  PROVE  /\ chain' \in Seq(DaoBlocks) /\ Len(chain') = Len(chain) + 1
         /\ \A k \in 1 .. Len(chain) : chain'[k] = chain[k]
         /\ BlockFollows(Now, chain'[Len(chain')])
         /\ deploying' \in Nat
<1>1. PICK kind \in scenario.kinds :
        \E b \in Blocks(kind) :
          chain' = Append(chain, b)
            /\ deploying' = deploying + IF kind = "UpgradeSelf" THEN 1 ELSE 0
  BY DEF Block
<1>2. PICK b \in Blocks(kind) :
        chain' = Append(chain, b)
          /\ deploying' = deploying + IF kind = "UpgradeSelf" THEN 1 ELSE 0
  BY <1>1
<1>3. b \in DaoBlocks /\ BlockFollows(Now, b)
  BY BlocksFollow
<1>4. QED
  BY <1>2, <1>3 DEF DaoBase, DaoTypeOK

LEMMA BlockBase ==
  ASSUME DaoBase, Block
  PROVE  DaoBase'
<1> USE BlockAppends
<1>0. Len(chain) \in Nat \ {0} /\ Len(chain') \in Nat
  BY DaoNow
<1>1. DaoTypeOK'
  BY DEF DaoBase, DaoTypeOK, StoresOK, WorkOK, Block, sqlTables, daoItem, memory, delegating,
     bounds
<1>2. ChainOK'
  <2>1. scenario' = scenario
    BY DEF Block, bounds
  <2>2. chain' # <<>> /\ chain'[1] = Genesis(scenario'.migrated)
    BY <1>0, <2>1 DEF DaoBase, ChainOK
  <2>3. ASSUME NEW k \in 2 .. Len(chain')
        PROVE  BlockFollows(chain'[k - 1], chain'[k])
    <3>1. CASE k = Len(chain')
      BY <1>0, <3>1 DEF Now
    <3>2. CASE k # Len(chain')
      BY <1>0, <3>2 DEF DaoBase, ChainOK
    <3>3. QED
      BY <3>1, <3>2
  <2>4. QED
    BY <2>2, <2>3 DEF ChainOK
<1>3. CreatedOK'
  BY <1>0 DEF DaoBase, DaoTypeOK, CreatedOK, Block, sqlTables, daoItem, bounds
<1>4. Beside(Consumer) /\ pc' = pc /\ seen' = seen /\ saving' = saving
  BY DEF Block, Beside, memory, delegating
<1>5. StoresGrow
  BY DEF Block, sqlTables, daoItem, StoresGrow
<1>6. TimersOK' /\ RequestsOK' /\ PollersOK'
  BY <1>4, <1>5, BesideKept, DaoWorkers DEF Block, DaoBase, DaoTypeOK
<1>7. next' = next /\ dyn' = dyn
  BY DEF Block, daoItem
<1>8. pc[Consumer] # "off" => next <= Len(chain) /\ chain'[next] = chain[next]
  BY <1>0 DEF DaoBase, ConsumerOK, DaoTypeOK, CreatedOK
<1>9. ConsumerOK'
  BY <1>0, <1>4, <1>7, <1>8 DEF DaoBase, DaoTypeOK, ConsumerOK
<1>10. QED
  BY <1>1, <1>2, <1>3, <1>6, <1>9 DEF DaoBase

LEMMA DeployBase ==
  ASSUME DaoBase, Deploy
  PROVE  DaoBase'
<1>1. DaoTypeOK'
  BY DEF DaoBase, DaoTypeOK, StoresOK, WorkOK, Deploy, sqlTables, daoItem, memory, delegating,
     bounds
<1>2. UNCHANGED <<chain, scenario, sqlTables, daoItem, pc, memory, timers, next>>
  BY DEF Deploy, bounds
<1>3. ChainOK' /\ CreatedOK' /\ ConsumerOK' /\ TimersOK' /\ PollersOK'
  BY <1>2 DEF DaoBase, ChainOK, CreatedOK, ConsumerOK, TimersOK, PollersOK, sqlTables, daoItem,
     memory, delegating
<1>4. RequestsOK'
  BY <1>2 DEF DaoBase, RequestsOK, RequestOK, sqlTables, memory
<1>5. QED
  BY <1>1, <1>3, <1>4 DEF DaoBase

-----------------------------------------------------------------------------
(* The consumer: DAOs                                                      *)

\* What a step of the consumer must show of its own.
LEMMA ConsumerMoved ==
  ASSUME DaoBase, Beside(Consumer), StoresGrow, next' >= next, next' \in Nat,
         UNCHANGED <<chain, scenario>>, DaoTypeOK', CreatedOK', ConsumerOK'
  PROVE  DaoBase'
<1>1. TimersOK' /\ RequestsOK' /\ PollersOK'
  BY BesideKept, DaoWorkers
<1>2. ChainOK'
  BY DEF DaoBase, ChainOK
<1>3. QED
  BY <1>1, <1>2 DEF DaoBase

LEMMA ConsumerBeginsBase ==
  ASSUME DaoBase, ConsumerBegins
  PROVE  DaoBase'
<1> USE DaoWorkers
<1> DEFINE label == FirstLabel(Receipt.kind)
<1>1. next <= Len(chain) /\ BeginsAt(Consumer, label)
  BY DEF ConsumerBegins
<1>2. label \in DaoLabels /\ label \in ConsumerLabels(Receipt.kind)
  BY DEF FirstLabel, DaoLabels, ConsumerLabels, SavingLabels, VersionLabels, DelegateLabels
<1>3. /\ pc[Consumer] = "off" /\ pc' \in [Workers -> DaoLabels] /\ pc'[Consumer] = label
      /\ \A u \in Workers \ {Consumer} : pc'[u] = pc[u]
      /\ alone' \in Workers \cup {None} /\ settled' = 0
  <2> HIDE DEF label
  <2> QED
    BY <1>1, <1>2, BeginsMoves DEF DaoBase, DaoTypeOK
<1>4. Receipt \in DaoBlocks
  BY <1>1, DaoReceipt
<1>5. saving' \in DelegationRecords
        /\ (Receipt.kind \in Delegating => saving'.account \in Delegates)
  <2>1. CASE Receipt.by = None
    BY <1>1, <2>1, DaoReceipt, DaoFirstRecords, NoneAssumption DEF ConsumerBegins
  <2>2. CASE Receipt.by # None
    <3>1. PICK n \in Nat : n = Balance(next, Receipt.to)
      BY DaoBalance
    <3>2. saving' = [account |-> Receipt.to, balance |-> n, delegators |-> None]
      BY <2>2, <3>1 DEF ConsumerBegins
    <3>3. QED
      BY <1>1, <1>4, <3>2, DaoReceipt DEF DelegationRecords, DaoBlocks
  <2>3. QED
    BY <2>1, <2>2
<1>6. /\ seen' \in [Workers -> ReadRecords]
      /\ Receipt.kind = "create" => seen'[Consumer] \in Rows
      /\ \A u \in Workers \ {Consumer} : seen'[u] = seen[u]
  <2>1. PICK r : r = IF Receipt.kind = "create" THEN [NewRow EXCEPT !.amount = Len(chain)]
                     ELSE None
    OBVIOUS
  <2>2. Receipt.kind = "create" => r \in Rows
    BY <2>1, DaoFirstRecords, DaoNow DEF Rows
  <2>3. seen' = [seen EXCEPT ![Consumer] = r]
    BY <2>1 DEF ConsumerBegins
  <2>4. r \in ReadRecords
    BY <2>1, <2>2 DEF ReadRecords
  <2>5. QED
    BY <2>2, <2>3, <2>4 DEF DaoBase, DaoTypeOK, WorkOK
<1>7. UNCHANGED <<chain, version, deploying, sqlTables, daoItem, op, accounts, existing, todo,
                  fetched, timers, next, bounds>>
  BY DEF ConsumerBegins, contract
<1>8. DaoTypeOK'
  BY <1>3, <1>5, <1>6, <1>7 DEF DaoBase, DaoTypeOK, StoresOK, WorkOK, sqlTables, daoItem, bounds
<1>9. Beside(Consumer)
  BY <1>3, <1>6, <1>7 DEF Beside
<1>10. StoresGrow
  BY <1>7 DEF StoresGrow, sqlTables, daoItem
<1>11. label \in {"accounts", "delRead", "readDao"} /\ (label = "accounts" => Receipt.kind = "create")
        /\ (label = "delRead" => Receipt.kind \in Delegating)
  BY DEF FirstLabel
<1>12. CreatedOK'
  BY <1>3, <1>7, <1>11 DEF DaoBase, CreatedOK, sqlTables, daoItem, bounds, VersionLabels
<1>13. ConsumerOK'
  <2> HIDE DEF label
  <2>1. pc'[Consumer] = label /\ label \in ConsumerLabels(chain'[next'].kind) /\ next' <= Len(chain')
    BY <1>1, <1>2, <1>3, <1>7 DEF Receipt
  <2>2. label = "accounts" => seen'[Consumer] \in Rows
    BY <1>6, <1>11
  <2>3. label = "delRead" => saving'.account \in Delegates
    BY <1>5, <1>11
  <2>4. QED
    BY <1>11, <2>1, <2>2, <2>3 DEF ConsumerOK, SavingLabels, DelegateLabels
<1>14. QED
  BY <1>7, <1>8, <1>9, <1>10, <1>12, <1>13, ConsumerMoved DEF DaoBase, DaoTypeOK, bounds
LEMMA ConsumerPlace ==
  ASSUME DaoBase, pc[Consumer] # "off"
  PROVE  /\ next <= Len(chain) /\ next \in 1 .. Len(chain) /\ Receipt \in DaoBlocks
         /\ pc[Consumer] \in ConsumerLabels(Receipt.kind)
         /\ Len(chain) \in Nat \ {0}
         /\ Receipt.kind = "create" \/ (next > 1 /\ sql \in Rows /\ dyn \in Items)
BY DaoReceipt, DaoNow, DaoThere DEF DaoBase, ConsumerOK, Receipt

LEMMA StoredThere ==
  ASSUME DaoBase, next > 1
  PROVE  Stored \in Rows \cup Items
BY DaoThere DEF Stored

LEMMA ReadDaoBase ==
  ASSUME DaoBase, ReadDao
  PROVE  DaoBase'
<1> USE DaoWorkers, ConsumerPlace
<1> DEFINE label == IF Receipt.kind = "ChangePolicy" THEN "accounts" ELSE "daoDyn"
<1>1. pc[Consumer] = "readDao" /\ GoesOn(Consumer, label)
  BY DEF ReadDao, ConsumerAt
<1>2. Receipt.kind # "create" /\ Receipt.kind \notin Delegating /\ next > 1
  BY <1>1 DEF ConsumerLabels, SavingLabels, VersionLabels, DelegateLabels
<1>3. label \in DaoLabels /\ label \in ConsumerLabels(Receipt.kind)
        /\ label \in {"accounts", "daoDyn"}
  BY <1>2 DEF DaoLabels, SavingLabels, ConsumerLabels
<1>4. /\ pc' \in [Workers -> DaoLabels] /\ pc'[Consumer] = label
      /\ \A u \in Workers \ {Consumer} : pc'[u] = pc[u]
      /\ alone' = alone /\ settled' = settled
  <2> HIDE DEF label
  <2> QED
    BY <1>1, <1>3, GoesOnMoves DEF DaoBase, DaoTypeOK
<1> HIDE DEF label
<1>5. /\ seen' \in [Workers -> ReadRecords] /\ seen'[Consumer] \in Rows \cup Items
      /\ \A u \in Workers \ {Consumer} : seen'[u] = seen[u]
  <2>1. PICK r \in Rows \cup Items : r = Stored
    BY <1>2, StoredThere
  <2>2. PICK q : q = [r EXCEPT !.amount = Len(chain)]
    OBVIOUS
  <2>3. q \in Rows \cup Items
    <3>1. r \in Rows => q \in Rows
      BY <1>1, <2>2 DEF Rows
    <3>2. r \in Items => q \in Items
      BY <1>1, <2>2 DEF Items
    <3>3. QED
      BY <3>1, <3>2
  <2>4. seen' = [seen EXCEPT ![Consumer] = q]
    BY <2>1, <2>2 DEF ReadDao
  <2>5. QED
    BY <2>3, <2>4 DEF DaoBase, DaoTypeOK, WorkOK, ReadRecords
<1>6. UNCHANGED <<chain, version, deploying, sqlTables, daoItem, op, delegating, fetched, next,
                  bounds>>
  BY DEF ReadDao, contract
<1>7. timers' \in Nat
  BY DEF ReadDao, DaoBase, DaoTypeOK
<1>8. DaoTypeOK'
  BY <1>4, <1>5, <1>6, <1>7 DEF DaoBase, DaoTypeOK, StoresOK, WorkOK, sqlTables, daoItem, bounds,
     delegating
<1>9. Beside(Consumer) /\ StoresGrow
  BY <1>4, <1>5, <1>6 DEF Beside, StoresGrow, sqlTables, daoItem
<1>10. CreatedOK'
  BY <1>2, <1>3, <1>4, <1>6 DEF DaoBase, CreatedOK, sqlTables, daoItem, bounds, VersionLabels
<1>11. ConsumerOK'
  <2>1. pc'[Consumer] = label /\ label \in ConsumerLabels(chain'[next'].kind) /\ next' <= Len(chain')
    BY <1>1, <1>3, <1>4, <1>6 DEF Receipt
  <2>2. QED
    BY <1>3, <1>5, <2>1 DEF ConsumerOK, SavingLabels, DelegateLabels
<1>12. QED
  BY <1>6, <1>8, <1>9, <1>10, <1>11, ConsumerMoved DEF DaoBase, DaoTypeOK, bounds

LEMMA ReadAccountsBase ==
  ASSUME DaoBase, ReadAccounts
  PROVE  DaoBase'
<1> USE DaoWorkers, ConsumerPlace
<1>1. pc[Consumer] = "accounts" /\ GoesOn(Consumer, "daoDyn")
  BY DEF ReadAccounts, ConsumerAt
<1>2. "daoDyn" \in DaoLabels
  BY DEF DaoLabels, SavingLabels
<1>3. /\ pc' \in [Workers -> DaoLabels] /\ pc'[Consumer] = "daoDyn"
      /\ \A u \in Workers \ {Consumer} : pc'[u] = pc[u]
      /\ alone' = alone /\ settled' = settled
  BY <1>1, <1>2, GoesOnMoves DEF DaoBase, DaoTypeOK
<1>4. UNCHANGED <<chain, version, deploying, sqlTables, daoItem, op, seen, existing, saving, todo,
                  fetched, timers, next, bounds>>
  BY DEF ReadAccounts, contract
<1>5. accounts' \in SUBSET Delegates
  BY DelegationAccountsType DEF ReadAccounts
<1>6. DaoTypeOK'
  BY <1>3, <1>4, <1>5 DEF DaoBase, DaoTypeOK, StoresOK, WorkOK, sqlTables, daoItem, bounds
<1>7. Beside(Consumer) /\ StoresGrow
  BY <1>3, <1>4 DEF Beside, StoresGrow, sqlTables, daoItem
<1>8. CreatedOK'
  BY <1>3, <1>4 DEF DaoBase, CreatedOK, sqlTables, daoItem, bounds, VersionLabels
<1>9. ConsumerOK'
  <2>1. "daoDyn" \in ConsumerLabels(Receipt.kind)
    BY <1>1 DEF ConsumerLabels, SavingLabels, VersionLabels, DelegateLabels
  <2>2. pc'[Consumer] = "daoDyn" /\ "daoDyn" \in ConsumerLabels(chain'[next'].kind)
          /\ next' <= Len(chain')
    BY <1>1, <1>3, <1>4, <2>1 DEF Receipt
  <2>3. seen'[Consumer] \in Rows \cup Items
    BY <1>1, <1>4 DEF DaoBase, ConsumerOK
  <2>4. QED
    BY <2>2, <2>3 DEF ConsumerOK, SavingLabels, DelegateLabels
<1>10. QED
  BY <1>4, <1>6, <1>7, <1>8, <1>9, ConsumerMoved DEF DaoBase, DaoTypeOK, bounds

LEMMA SaveDaoDynEffect ==
  ASSUME DaoBase, SaveDaoDyn
  PROVE  /\ RowToSave \in DaoColumns /\ dyn' \in Items /\ SameColumns(RowToSave, dyn')
         /\ dyn # None => /\ dyn'.version = dyn.version /\ dyn'.followers = dyn.followers
                          /\ dyn'.settings = dyn.settings
                          /\ dyn'.delegations = dyn.delegations
         /\ dyn = None => /\ dyn'.followers = {} /\ dyn'.settings = NoSettings
                          /\ dyn'.delegations = None
<1>1. pc[Consumer] = "daoDyn" /\ dyn' = Saved(dyn, RowToSave)
  BY DEF SaveDaoDyn, ConsumerAt
<1>2. seen[Consumer] \in Rows \cup Items
  BY <1>1 DEF DaoBase, ConsumerOK, SavingLabels
<1>3. RowToSave \in DaoColumns
  BY <1>1, <1>2, ConsumerPlace, RowToSaveType
<1>4. dyn \in Items \cup {None}
  BY DEF DaoBase, DaoTypeOK, StoresOK
<1>5. PICK row \in DaoColumns : row = RowToSave
  BY <1>3
<1>6. QED
  BY <1>1, <1>4, <1>5, SavedItemKept

LEMMA SaveDaoDynBase ==
  ASSUME DaoBase, SaveDaoDyn
  PROVE  DaoBase'
<1> USE DaoWorkers, ConsumerPlace, SaveDaoDynEffect
<1>1. pc[Consumer] = "daoDyn" /\ GoesOn(Consumer, "daoSql")
  BY DEF SaveDaoDyn, ConsumerAt
<1>2. "daoSql" \in DaoLabels
  BY DEF DaoLabels, SavingLabels
<1>3. /\ pc' \in [Workers -> DaoLabels] /\ pc'[Consumer] = "daoSql"
      /\ \A u \in Workers \ {Consumer} : pc'[u] = pc[u]
      /\ alone' = alone /\ settled' = settled
  BY <1>1, <1>2, GoesOnMoves DEF DaoBase, DaoTypeOK
<1>4. UNCHANGED <<chain, version, deploying, sqlTables, inList, op, seen, delegating,
                  fetched, timers, next, bounds>>
  BY DEF SaveDaoDyn, contract, memory
<1>5. dyn' # None
  BY NoneAssumption
<1>6. DaoTypeOK'
  BY <1>3, <1>4 DEF DaoBase, DaoTypeOK, StoresOK, WorkOK, sqlTables, bounds, delegating
<1>7. Beside(Consumer) /\ StoresGrow
  BY <1>3, <1>4, <1>5 DEF Beside, StoresGrow, sqlTables
<1>8. CreatedOK'
  BY <1>3, <1>4, <1>5 DEF DaoBase, CreatedOK, sqlTables, bounds, VersionLabels
<1>9. ConsumerOK'
  <2>1. "daoSql" \in ConsumerLabels(Receipt.kind)
    BY <1>1 DEF ConsumerLabels, SavingLabels, VersionLabels, DelegateLabels
  <2>2. pc'[Consumer] = "daoSql" /\ "daoSql" \in ConsumerLabels(chain'[next'].kind)
          /\ next' <= Len(chain')
    BY <1>1, <1>3, <1>4, <2>1 DEF Receipt
  <2>3. seen'[Consumer] \in Rows \cup Items
    BY <1>1, <1>4 DEF DaoBase, ConsumerOK, SavingLabels
  <2>4. QED
    BY <2>2, <2>3 DEF ConsumerOK, SavingLabels, DelegateLabels
<1>10. QED
  BY <1>4, <1>6, <1>7, <1>8, <1>9, ConsumerMoved DEF DaoBase, DaoTypeOK, bounds

LEMMA SaveDaoSqlEffect ==
  ASSUME DaoBase, SaveDaoSql
  PROVE  /\ RowToSave \in DaoColumns /\ sql' \in Rows /\ SameColumns(RowToSave, sql')
<1>1. /\ pc[Consumer] = "daoSql"
      /\ sql' = [SavedRow(sql, RowToSave) EXCEPT !.version = SavedVersion]
  BY DEF SaveDaoSql, ConsumerAt
<1>2. seen[Consumer] \in Rows \cup Items
  BY <1>1 DEF DaoBase, ConsumerOK, SavingLabels
<1>3. RowToSave \in DaoColumns
  BY <1>1, <1>2, ConsumerPlace, RowToSaveType
<1>4. sql \in Rows \cup {None}
  BY DEF DaoBase, DaoTypeOK, StoresOK
<1>5. PICK row \in DaoColumns : row = RowToSave
  BY <1>3
<1>6. SavedVersion \in Versions
  <2>1. seen[Consumer].version \in Versions
    BY <1>2 DEF Rows, Items
  <2>2. sql # None => sql.version \in Versions
    BY <1>4 DEF Rows
  <2>3. QED
    BY <2>1, <2>2 DEF SavedVersion, Versions
<1>7. PICK saved \in Rows : saved = SavedRow(sql, RowToSave) /\ SameColumns(RowToSave, saved)
  BY <1>4, <1>5, SavedRowKept
<1>8. PICK v \in Versions : v = SavedVersion
  BY <1>6
<1>9. sql' = [saved EXCEPT !.version = v]
  BY <1>1, <1>7, <1>8
<1>10. QED
  BY <1>3, <1>7, <1>9 DEF Rows, SameColumns, Columns

LEMMA SaveDaoSqlBase ==
  ASSUME DaoBase, SaveDaoSql
  PROVE  DaoBase'
<1> USE DaoWorkers, ConsumerPlace, SaveDaoSqlEffect
<1>1. pc[Consumer] = "daoSql" /\ dyn # None
  BY DEF SaveDaoSql, ConsumerAt, DaoBase, CreatedOK
<1>2. UNCHANGED <<chain, version, deploying, sqlDelegations, subscriptions, sqlSettings, daoItem,
                  timers, bounds>>
  BY DEF SaveDaoSql, contract
<1>3. sql' # None
  BY NoneAssumption
<1>4. StoresGrow
  BY <1>2, <1>3 DEF StoresGrow, daoItem
<1>5. CASE Receipt.kind = "create"
  <2>1. GoesOn(Consumer, "version") /\ UNCHANGED <<memory, next>>
    BY <1>5 DEF SaveDaoSql
  <2>2. "version" \in DaoLabels
    BY DEF DaoLabels, VersionLabels
  <2>3. /\ pc' \in [Workers -> DaoLabels] /\ pc'[Consumer] = "version"
        /\ \A u \in Workers \ {Consumer} : pc'[u] = pc[u]
        /\ alone' = alone /\ settled' = settled
    BY <2>1, <2>2, GoesOnMoves DEF DaoBase, DaoTypeOK
  <2>4. DaoTypeOK'
    BY <1>2, <2>1, <2>3 DEF DaoBase, DaoTypeOK, StoresOK, WorkOK, daoItem, bounds, delegating,
       memory
  <2>5. Beside(Consumer)
    BY <2>1, <2>3 DEF Beside, memory
  <2>6. CreatedOK'
    BY <1>1, <1>2, <1>3, <2>1, <2>3 DEF DaoBase, CreatedOK, daoItem, bounds, VersionLabels
  <2>7. ConsumerOK'
    <3>1. "version" \in ConsumerLabels(Receipt.kind)
      BY <1>5 DEF ConsumerLabels, VersionLabels
    <3>2. pc'[Consumer] = "version" /\ "version" \in ConsumerLabels(chain'[next'].kind)
            /\ next' <= Len(chain')
      BY <1>1, <1>2, <2>1, <2>3, <3>1 DEF Receipt
    <3>3. QED
      BY <3>2 DEF ConsumerOK, SavingLabels, DelegateLabels
  <2>8. QED
    BY <1>2, <1>4, <2>1, <2>4, <2>5, <2>6, <2>7, ConsumerMoved DEF DaoBase, DaoTypeOK, bounds
<1>6. CASE Receipt.kind # "create"
  <2>1. Passes(TRUE)
    BY <1>6 DEF SaveDaoSql
  <2>2. /\ WorkOK' /\ alone' \in Workers \cup {None}
        /\ pc'[Consumer] = "off" /\ Beside(Consumer)
        /\ next' = next + 1 /\ settled' \in {0, next}
    BY <2>1, PassesMoves DEF DaoBase
  <2>3. next \in Nat /\ next <= Len(chain)
    BY <1>1
  <2>4. DaoTypeOK'
    BY <1>2, <2>2, <2>3 DEF DaoBase, DaoTypeOK, StoresOK, daoItem, bounds
  <2>5. CreatedOK'
    BY <1>1, <1>2, <1>3, <2>2, <2>3 DEF DaoBase, CreatedOK, daoItem, bounds, VersionLabels
  <2>6. ConsumerOK'
    BY <2>2 DEF ConsumerOK, SavingLabels, DelegateLabels
  <2>7. QED
    BY <1>2, <1>4, <2>2, <2>3, <2>4, <2>5, <2>6, ConsumerMoved DEF bounds
<1>7. QED
  BY <1>5, <1>6

\* A receipt is passed.
LEMMA PassesBase ==
  ASSUME DaoBase, NEW ok, Passes(ok), pc[Consumer] # "off", sql # None, sql' \in Rows,
         UNCHANGED <<chain, version, deploying, sqlDelegations, subscriptions, sqlSettings,
                     dyn, timers, bounds>>,
         inList' \in BOOLEAN
  PROVE  DaoBase'
<1> USE DaoWorkers, ConsumerPlace
<1>1. /\ WorkOK' /\ alone' \in Workers \cup {None}
      /\ pc'[Consumer] = "off" /\ Beside(Consumer)
      /\ next' = next + 1 /\ settled' \in {0, next}
  BY PassesMoves DEF DaoBase
<1>2. next \in Nat /\ next <= Len(chain) /\ sql' # None
  BY NoneAssumption
<1>3. DaoTypeOK'
  BY <1>1, <1>2 DEF DaoBase, DaoTypeOK, StoresOK, bounds
<1>4. CreatedOK'
  BY <1>1, <1>2 DEF DaoBase, CreatedOK, bounds, VersionLabels
<1>5. ConsumerOK'
  BY <1>1 DEF ConsumerOK, SavingLabels, DelegateLabels
<1>6. StoresGrow
  BY <1>2 DEF StoresGrow
<1>7. QED
  BY <1>1, <1>2, <1>3, <1>4, <1>5, <1>6, ConsumerMoved DEF bounds

LEMMA SaveDaoIdBase ==
  ASSUME DaoBase, SaveDaoId
  PROVE  DaoBase'
<1>1. pc[Consumer] = "ids"
  BY DEF SaveDaoId, ConsumerAt
<1>2. sql # None /\ sql \in Rows
  BY <1>1, DaoThere DEF DaoBase, CreatedOK
<1>3. /\ UNCHANGED <<chain, version, deploying, sql, sqlDelegations, subscriptions, sqlSettings,
                     dyn, timers, bounds>>
      /\ inList' = TRUE /\ Passes(TRUE)
  BY DEF SaveDaoId, contract, sqlTables
<1>4. QED
  BY <1>1, <1>2, <1>3, PassesBase
-----------------------------------------------------------------------------
(* The version of the contract                                             *)

LEMMA TimerMoved ==
  ASSUME DaoBase, NEW w \in Timers, Beside(w), StoresGrow,
         UNCHANGED <<chain, scenario, next, saving>>, DaoTypeOK', CreatedOK',
         pc'[w] \in {"off"} \cup VersionLabels, next > 1
  PROVE  DaoBase'
<1> USE DaoWorkers
<1>1. next' \in Nat /\ next' >= next /\ Len(chain) \in Nat
  BY DEF DaoBase, DaoTypeOK
<1>2. RequestsOK' /\ PollersOK'
  BY <1>1, BesideKept
<1>3. \A u \in Timers \ {w} : (pc[u] \in {"off"} \cup VersionLabels
                                 /\ (pc[u] # "off" => next > 1))'
  BY <1>1, BesideKept
<1>4. TimersOK'
  BY <1>3 DEF TimersOK
<1>5. ConsumerOK'
  BY <1>1, ConsumerKept
<1>6. ChainOK'
  BY DEF DaoBase, ChainOK
<1>7. QED
  BY <1>2, <1>4, <1>5, <1>6 DEF DaoBase

LEMMA TimerFiresBase ==
  ASSUME DaoBase, NEW w \in Timers, TimerFires(w)
  PROVE  DaoBase'
<1> USE DaoWorkers
<1>1. timers > 0 /\ timers' = timers - 1 /\ BeginsAt(w, "version")
        /\ UNCHANGED <<contract, sqlTables, daoItem, memory, next, bounds>>
  BY DEF TimerFires
<1>2. "version" \in DaoLabels
  BY DEF DaoLabels, VersionLabels
<1>3. /\ pc[w] = "off" /\ pc' \in [Workers -> DaoLabels] /\ pc'[w] = "version"
      /\ \A u \in Workers \ {w} : pc'[u] = pc[u]
      /\ alone' \in Workers \cup {None} /\ settled' = 0
  BY <1>1, <1>2, BeginsMoves DEF DaoBase, DaoTypeOK
<1>4. DaoTypeOK'
  BY <1>1, <1>3 DEF DaoBase, DaoTypeOK, StoresOK, WorkOK, contract, sqlTables, daoItem, memory,
     delegating, bounds
<1>5. next > 1
  BY <1>1 DEF DaoBase, CreatedOK
<1>6. CreatedOK'
  BY <1>1, <1>3, <1>5 DEF DaoBase, CreatedOK, contract, sqlTables, daoItem, bounds
<1>7. Beside(w) /\ StoresGrow
  BY <1>1, <1>3 DEF Beside, StoresGrow, sqlTables, daoItem, memory
<1>8. QED
  BY <1>1, <1>3, <1>4, <1>5, <1>6, <1>7, TimerMoved DEF contract, memory, delegating, bounds,
     VersionLabels

\* Who loads a version finds the DAO in both stores.
LEMMA VersionThere ==
  ASSUME DaoBase, NEW w \in Indexer, pc[w] \in {"ids"} \cup VersionLabels
  PROVE  /\ sql \in Rows /\ dyn \in Items /\ next \in Nat
         /\ w # Consumer => w \in Timers /\ next > 1
         /\ w = Consumer => Receipt.kind = "create" /\ next <= Len(chain)
<1> USE DaoWorkers
<1>1. CASE w = Consumer
  <2>1. sql # None
    BY <1>1 DEF DaoBase, CreatedOK
  <2>2. Receipt.kind = "create" /\ next <= Len(chain)
    BY <1>1, ConsumerPlace DEF ConsumerLabels, SavingLabels, DelegateLabels, VersionLabels
  <2>3. QED
    BY <1>1, <2>1, <2>2, DaoThere DEF DaoBase, DaoTypeOK
<1>2. CASE w # Consumer
  <2>1. w \in Timers /\ pc[w] # "off"
    BY <1>2 DEF VersionLabels
  <2>2. next > 1
    BY <2>1 DEF DaoBase, TimersOK
  <2>3. QED
    BY <1>2, <2>1, <2>2, DaoThere DEF DaoBase, DaoTypeOK
<1>3. QED
  BY <1>1, <1>2

\* A step of the loading of a version that stays inside it.
LEMMA VersionStep ==
  ASSUME DaoBase, NEW w \in Indexer, pc[w] \in VersionLabels,
         NEW label \in {"ids"} \cup VersionLabels, GoesOn(w, label),
         w # Consumer => label \in VersionLabels,
         UNCHANGED <<contract, inList, sqlDelegations, subscriptions, sqlSettings, op, seen,
                     delegating, timers, next, bounds>>,
         sql' \in Rows, dyn' \in Items, dyn'.delegations = dyn.delegations,
         fetched' \in [Workers -> Versions],
         \A u \in Workers \ {w} : fetched'[u] = fetched[u]
  PROVE  DaoBase'
<1> USE DaoWorkers
<1>1. label \in DaoLabels /\ w \in Workers
  BY DEF DaoLabels
<1>2. /\ pc' \in [Workers -> DaoLabels] /\ pc'[w] = label
      /\ \A u \in Workers \ {w} : pc'[u] = pc[u]
      /\ alone' = alone /\ settled' = settled
  BY <1>1, GoesOnMoves DEF DaoBase, DaoTypeOK
<1>3. sql' # None /\ dyn' # None
  BY NoneAssumption
<1>4. DaoTypeOK'
  BY <1>2 DEF DaoBase, DaoTypeOK, StoresOK, WorkOK, contract, delegating, bounds
<1>5. Beside(w) /\ StoresGrow
  BY <1>2, <1>3 DEF Beside, StoresGrow
<1>6. CreatedOK'
  BY <1>3 DEF DaoBase, CreatedOK, contract, bounds
<1>7. UNCHANGED <<chain, scenario, next, saving>>
  BY DEF contract, bounds, delegating
<1>8. CASE w # Consumer
  BY <1>1, <1>2, <1>4, <1>5, <1>6, <1>7, <1>8, TimerMoved, VersionThere
<1>9. CASE w = Consumer
  <2>1. label \in ConsumerLabels(Receipt.kind) /\ next <= Len(chain) /\ next \in Nat
    BY <1>9, VersionThere DEF ConsumerLabels
  <2>2. ConsumerOK'
    BY <1>2, <1>7, <1>9, <2>1 DEF ConsumerOK, SavingLabels, DelegateLabels, VersionLabels, Receipt
  <2>3. QED
    BY <1>4, <1>5, <1>6, <1>7, <1>9, <2>1, <2>2, ConsumerMoved
<1>10. QED
  BY <1>8, <1>9

LEMMA ReadVersionBase ==
  ASSUME DaoBase, NEW w \in Indexer, ReadVersion(w)
  PROVE  DaoBase'
<1> USE DaoWorkers
<1>1. pc[w] \in VersionLabels /\ GoesOn(w, "versionDyn") /\ "versionDyn" \in VersionLabels
        /\ fetched' = [fetched EXCEPT ![w] = version]
        /\ UNCHANGED <<contract, inList, sqlDelegations, subscriptions, sqlSettings, op, seen,
                       delegating, timers, next, bounds, sql, dyn>>
  BY DEF ReadVersion, VersionLabels, sqlTables, daoItem
<1>2. sql \in Rows /\ dyn \in Items
  BY <1>1, VersionThere
<1>3. fetched' \in [Workers -> Versions] /\ \A u \in Workers \ {w} : fetched'[u] = fetched[u]
  BY <1>1 DEF DaoBase, DaoTypeOK, WorkOK, Versions
<1>4. QED
  BY <1>1, <1>2, <1>3, VersionStep

LEMMA SaveVersionDynEffect ==
  ASSUME DaoBase, NEW w \in Indexer, SaveVersionDyn(w)
  PROVE  /\ dyn \in Items /\ dyn' \in Items /\ dyn'.delegations = dyn.delegations
         /\ dyn'.followers = dyn.followers /\ dyn'.settings = dyn.settings
         /\ SameColumns(dyn, dyn')
<1>1. pc[w] = "versionDyn" /\ dyn' = [dyn EXCEPT !.version = fetched[w]]
  BY DEF SaveVersionDyn
<1>2. dyn \in Items
  BY <1>1, VersionThere DEF VersionLabels
<1>3. fetched[w] \in Versions
  BY DaoWorkers DEF DaoBase, DaoTypeOK, WorkOK
<1>4. QED
  BY <1>1, <1>2, <1>3 DEF Items, SameColumns, Columns

LEMMA SaveVersionDynBase ==
  ASSUME DaoBase, NEW w \in Indexer, SaveVersionDyn(w)
  PROVE  DaoBase'
<1> USE DaoWorkers
<1>1. pc[w] \in VersionLabels /\ GoesOn(w, "versionSql") /\ "versionSql" \in VersionLabels
        /\ UNCHANGED <<contract, inList, sqlDelegations, subscriptions, sqlSettings, op, seen,
                       delegating, timers, next, bounds, sql, fetched>>
  BY DEF SaveVersionDyn, VersionLabels, sqlTables, memory
<1>2. sql \in Rows
  BY <1>1, VersionThere
<1>3. fetched' \in [Workers -> Versions]
  BY <1>1 DEF DaoBase, DaoTypeOK, WorkOK
<1>4. QED
  BY <1>1, <1>2, <1>3, VersionStep, SaveVersionDynEffect

LEMMA SaveVersionSqlEffect ==
  ASSUME DaoBase, NEW w \in Indexer, SaveVersionSql(w)
  PROVE  sql \in Rows /\ sql' \in Rows /\ SameColumns(sql, sql') /\ dyn \in Items
<1>1. pc[w] = "versionSql" /\ sql' = [sql EXCEPT !.version = fetched[w]]
  BY DEF SaveVersionSql
<1>2. sql \in Rows /\ dyn \in Items
  BY <1>1, VersionThere DEF VersionLabels
<1>3. fetched[w] \in Versions
  BY DaoWorkers DEF DaoBase, DaoTypeOK, WorkOK
<1>4. QED
  BY <1>1, <1>2, <1>3 DEF Rows, SameColumns, Columns

LEMMA SaveVersionSqlBase ==
  ASSUME DaoBase, NEW w \in Indexer, SaveVersionSql(w)
  PROVE  DaoBase'
<1> USE DaoWorkers, SaveVersionSqlEffect
<1>1. pc[w] \in VersionLabels
        /\ UNCHANGED <<contract, sqlDelegations, subscriptions, sqlSettings, daoItem, timers, next,
                       bounds>>
  BY DEF SaveVersionSql, VersionLabels
<1>2. CASE w = Consumer
  <2>1. GoesOn(w, "ids") /\ UNCHANGED memory
    BY <1>2 DEF SaveVersionSql
  <2>2. fetched' \in [Workers -> Versions] /\ fetched' = fetched
    BY <2>1 DEF DaoBase, DaoTypeOK, WorkOK, memory
  <2>3. QED
    BY <1>1, <1>2, <2>1, <2>2, VersionStep DEF daoItem, memory
<1>3. CASE w # Consumer
  <2>1. w \in Timers /\ Ends(w) /\ next > 1
    BY <1>1, <1>3, VersionThere DEF SaveVersionSql
  <2>2. /\ WorkOK' /\ alone' \in Workers \cup {None}
        /\ pc'[w] = "off" /\ Beside(w) /\ settled' = settled
        /\ UNCHANGED delegating
    BY <2>1, EndsMoves DEF DaoBase
  <2>3. DaoTypeOK'
    BY <1>1, <2>2 DEF DaoBase, DaoTypeOK, StoresOK, contract, daoItem, bounds
  <2>4. sql' # None
    BY NoneAssumption
  <2>5. CreatedOK'
    BY <1>1, <2>1, <2>2, <2>4 DEF DaoBase, CreatedOK, contract, daoItem, bounds, Beside
  <2>6. StoresGrow
    BY <1>1, <2>4 DEF StoresGrow, daoItem
  <2>7. QED
    BY <1>1, <2>1, <2>2, <2>3, <2>5, <2>6, TimerMoved DEF contract, bounds, delegating
<1>4. QED
  BY <1>2, <1>3
-----------------------------------------------------------------------------
(* The consumer: delegations                                               *)

LEMMA DelegatePlace ==
  ASSUME DaoBase, pc[Consumer] \in DelegateLabels
  PROVE  /\ next \in 2 .. Len(chain) /\ Receipt \in DaoBlocks /\ Receipt.kind \in Delegating
         /\ Receipt.by \in Users /\ Receipt.to \in Delegates
         /\ sql \in Rows /\ dyn \in Items /\ sql # None /\ dyn # None
         /\ Len(chain) \in Nat
         /\ pc[Consumer] # "delRead" => dyn.delegations \in [Delegates -> DelegationRecords]
<1>1. pc[Consumer] # "off" /\ pc[Consumer] \notin {"accounts", "ids", "readDao"}
        /\ pc[Consumer] \notin SavingLabels \cup VersionLabels
  BY DEF DelegateLabels, SavingLabels, VersionLabels
<1>2. Receipt.kind \in Delegating
  BY <1>1, ConsumerPlace DEF ConsumerLabels
<1>3. next <= Len(chain) /\ next > 1 /\ next \in 1 .. Len(chain) /\ Len(chain) \in Nat
        /\ Receipt \in DaoBlocks
  BY <1>1, <1>2, ConsumerPlace DEF Delegating
<1>4. Receipt.by \in Users /\ Receipt.to \in Delegates
  BY <1>2, <1>3, DaoReceipt
<1>5. sql \in Rows /\ dyn \in Items
  BY <1>3, DaoThere
<1>6. pc[Consumer] # "delRead" => dyn.delegations # None
  BY DEF DaoBase, ConsumerOK
<1>7. QED
  BY <1>2, <1>3, <1>4, <1>5, <1>6, NoneAssumption DEF Items

\* A step of the handler that stays inside it.
LEMMA DelegateStep ==
  ASSUME DaoBase, pc[Consumer] \in DelegateLabels, NEW label \in DelegateLabels,
         GoesOn(Consumer, label),
         UNCHANGED <<contract, inList, sql, subscriptions, sqlSettings, op, fetched, timers,
                     next, bounds>>,
         sqlDelegations' \in [Delegates -> DelegationRecords],
         dyn' \in Items, label # "delRead" => dyn'.delegations # None,
         dyn.delegations # None => dyn'.delegations # None,
         seen' \in [Workers -> ReadRecords],
         \A u \in Workers \ {Consumer} : seen'[u] = seen[u],
         accounts' \in SUBSET Delegates, todo' \in SUBSET Delegates,
         existing' \in [Delegates -> DelegationRecords], saving' \in DelegationRecords,
         label \in {"delRead", "delWrite", "delSql"} => saving'.account \in Delegates,
         label = "delWrite" => seen'[Consumer] \in Items
                                 /\ seen'[Consumer].delegations # None,
         label \in {"readMembers", "saveMembers"} => seen'[Consumer] \in Rows
  PROVE  DaoBase'
<1> USE DaoWorkers, DelegatePlace
<1>1. label \in DaoLabels
  BY DEF DaoLabels
<1>2. /\ pc' \in [Workers -> DaoLabels] /\ pc'[Consumer] = label
      /\ \A u \in Workers \ {Consumer} : pc'[u] = pc[u]
      /\ alone' = alone /\ settled' = settled
  BY <1>1, GoesOnMoves DEF DaoBase, DaoTypeOK
<1>3. dyn' # None
  BY NoneAssumption
<1>4. DaoTypeOK'
  BY <1>2 DEF DaoBase, DaoTypeOK, StoresOK, WorkOK, contract, bounds
<1>5. Beside(Consumer) /\ StoresGrow
  BY <1>2, <1>3 DEF Beside, StoresGrow
<1>6. CreatedOK'
  BY <1>2, <1>3 DEF DaoBase, CreatedOK, contract, bounds, DelegateLabels, VersionLabels
<1>7. label \in ConsumerLabels(Receipt.kind)
  BY DEF ConsumerLabels, Delegating
<1>8. ConsumerOK'
  BY <1>2, <1>7 DEF ConsumerOK, SavingLabels, DelegateLabels, Receipt, contract
<1>9. QED
  BY <1>4, <1>5, <1>6, <1>8, ConsumerMoved DEF contract, bounds

LEMMA DaoTypes ==
  ASSUME DaoBase
  PROVE  /\ pc \in [Workers -> DaoLabels] /\ op \in [Workers -> DaoOps]
         /\ seen \in [Workers -> ReadRecords] /\ fetched \in [Workers -> Versions]
         /\ accounts \in SUBSET Delegates /\ todo \in SUBSET Delegates
         /\ existing \in [Delegates -> DelegationRecords] /\ saving \in DelegationRecords
         /\ sqlDelegations \in [Delegates -> DelegationRecords]
         /\ subscriptions \in SUBSET Users /\ sqlSettings \in Settings
BY DEF DaoBase, DaoTypeOK, StoresOK, WorkOK

LEMMA ReadDelegationsBase ==
  ASSUME DaoBase, ReadDelegations
  PROVE  DaoBase'
<1> USE DaoWorkers
<1>1. pc[Consumer] = "delRead" /\ pc[Consumer] \in DelegateLabels
  BY DEF ReadDelegations, ConsumerAt, DelegateLabels
<1>2. dyn \in Items /\ dyn # None /\ dyn.delegations # None
  BY <1>1, DelegatePlace DEF ReadDelegations
<1>3. GoesOn(Consumer, "delWrite") /\ seen' = [seen EXCEPT ![Consumer] = dyn]
        /\ UNCHANGED <<contract, inList, sql, sqlDelegations, subscriptions, sqlSettings, op,
                       delegating, fetched, timers, next, bounds, dyn>>
  BY <1>2 DEF ReadDelegations, sqlTables, daoItem
<1>4. seen' \in [Workers -> ReadRecords] /\ seen'[Consumer] = dyn
        /\ \A u \in Workers \ {Consumer} : seen'[u] = seen[u]
  BY <1>2, <1>3, DaoTypes DEF ReadRecords
<1>5. saving.account \in Delegates
  BY <1>1 DEF DaoBase, ConsumerOK
<1>6. "delWrite" \in DelegateLabels
  BY DEF DelegateLabels
<1>7. QED
  BY <1>1, <1>2, <1>3, <1>4, <1>5, <1>6, DaoTypes, DelegateStep DEF delegating

LEMMA NoDelegationsThrowsBase ==
  ASSUME DaoBase, NoDelegationsThrows
  PROVE  DaoBase'
<1>1. pc[Consumer] = "delRead" /\ pc[Consumer] \in DelegateLabels
  BY DEF NoDelegationsThrows, ConsumerAt, DelegateLabels
<1>2. sql # None /\ sql \in Rows
  BY <1>1, DelegatePlace
<1>3. /\ UNCHANGED <<chain, version, deploying, sql, sqlDelegations, subscriptions, sqlSettings,
                     dyn, inList, timers, bounds>>
      /\ Passes(FALSE)
  BY DEF NoDelegationsThrows, contract, sqlTables, daoItem
<1>4. inList' \in BOOLEAN
  BY <1>3 DEF DaoBase, DaoTypeOK, StoresOK
<1>5. QED
  BY <1>1, <1>2, <1>3, <1>4, PassesBase

\* The item with the delegation the consumer saves.
LEMMA WriteDelegationsEffect ==
  ASSUME DaoBase, WriteDelegations
  PROVE  /\ seen[Consumer] \in Items /\ saving.account \in Delegates
         /\ seen[Consumer].delegations \in [Delegates -> DelegationRecords]
         /\ dyn \in Items /\ dyn' \in Items
         /\ dyn'.delegations = [seen[Consumer].delegations EXCEPT ![saving.account] = saving]
         /\ dyn'.delegations \in [Delegates -> DelegationRecords]
         /\ dyn'.members = seen[Consumer].members \cup Known(dyn'.delegations)
         /\ dyn'.policy = dyn.policy /\ dyn'.staking = dyn.staking
         /\ dyn'.followers = dyn.followers /\ dyn'.settings = dyn.settings
<1>1. pc[Consumer] = "delWrite" /\ pc[Consumer] \in DelegateLabels
  BY DEF WriteDelegations, ConsumerAt, DelegateLabels
<1>2. /\ seen[Consumer] \in Items /\ seen[Consumer].delegations # None
      /\ saving.account \in Delegates /\ dyn \in Items
  BY <1>1, DelegatePlace DEF DaoBase, ConsumerOK
<1>3. /\ seen[Consumer].delegations \in [Delegates -> DelegationRecords]
      /\ seen[Consumer].members \in SUBSET (Members \cup Delegates)
  BY <1>2 DEF Items
<1>4. PICK ds : ds = [seen[Consumer].delegations EXCEPT ![saving.account] = saving]
  OBVIOUS
<1>5. ds \in [Delegates -> DelegationRecords]
  BY <1>3, <1>4, DaoTypes
<1>6. PICK ms : ms = seen[Consumer].members \cup Known(ds)
  OBVIOUS
<1>7. ms \in SUBSET (Members \cup Delegates)
  BY <1>3, <1>6 DEF Known
<1>8. dyn' = [dyn EXCEPT !.delegations = ds, !.members = ms]
  BY <1>4, <1>6 DEF WriteDelegations
<1>9. dyn' \in Items
  BY <1>2, <1>5, <1>7, <1>8 DEF Items
<1>10. dyn'.delegations = ds /\ dyn'.members = ms /\ dyn'.policy = dyn.policy
         /\ dyn'.staking = dyn.staking /\ dyn'.followers = dyn.followers
         /\ dyn'.settings = dyn.settings
  BY <1>2, <1>8 DEF Items
<1>11. QED
  BY <1>2, <1>3, <1>4, <1>5, <1>6, <1>9, <1>10

LEMMA WriteDelegationsBase ==
  ASSUME DaoBase, WriteDelegations
  PROVE  DaoBase'
<1> USE DaoWorkers, WriteDelegationsEffect
<1>1. pc[Consumer] \in DelegateLabels /\ GoesOn(Consumer, "delSql")
        /\ UNCHANGED <<contract, inList, sql, sqlDelegations, subscriptions, sqlSettings, op,
                       seen, delegating, fetched, timers, next, bounds>>
  BY DEF WriteDelegations, ConsumerAt, DelegateLabels, sqlTables, memory
<1>2. dyn'.delegations # None
  BY NoneAssumption
<1>3. "delSql" \in DelegateLabels
  BY DEF DelegateLabels
<1>4. QED
  BY <1>1, <1>2, <1>3, DaoTypes, DelegateStep DEF delegating

LEMMA MergedType ==
  ASSUME NEW old \in DelegationRecords, NEW new \in DelegationRecords
  PROVE  MergedDelegation(old, new) \in DelegationRecords
BY DEF MergedDelegation, DelegationRecords

LEMMA DelegationOfType ==
  ASSUME DaoBase, pc[Consumer] \in DelegateLabels, NEW a \in Delegates
  PROVE  /\ DelegationOf(a) \in DelegationRecords /\ DelegationOf(a).account = a
         /\ DelegationOf(a).balance = IF a = Receipt.to THEN None ELSE Balance(next, a)
         /\ DelegationOf(a).delegators = Delegators(existing[a]) \cup {Receipt.by}
         /\ Delegators(existing[a]) \in SUBSET Users
         /\ DelegationOf(a).delegators \in SUBSET Users
<1>1. PICK n \in {None} \cup Nat : n = IF a = Receipt.to THEN None ELSE Balance(next, a)
  BY DaoBalance
<1>2. Delegators(existing[a]) \in SUBSET Users
  BY DaoTypes DEF Delegators, DelegationRecords
<1>3. PICK d \in SUBSET Users : d = Delegators(existing[a]) \cup {Receipt.by}
  BY <1>2, DelegatePlace
<1>4. DelegationOf(a) = [account |-> a, balance |-> n, delegators |-> d]
  BY <1>1, <1>3 DEF DelegationOf
<1>5. QED
  BY <1>1, <1>2, <1>3, <1>4 DEF DelegationRecords

\* The next account is taken.
LEMMA SaveNextBase ==
  ASSUME DaoBase, pc[Consumer] \in DelegateLabels, NEW accs \in SUBSET Delegates,
         SaveNext(accs),
         UNCHANGED <<contract, sql, subscriptions, sqlSettings, daoItem, op, seen,
                     accounts, existing, fetched, timers, next, bounds>>,
         sqlDelegations' \in [Delegates -> DelegationRecords]
  PROVE  DaoBase'
<1>1. PICK a \in accs : saving' = DelegationOf(a) /\ todo' = accs \ {a}
                          /\ GoesOn(Consumer, "delRead")
  BY DEF SaveNext
<1>2. "delRead" \in DelegateLabels
  BY DEF DelegateLabels
<1>3. saving' \in DelegationRecords /\ saving'.account \in Delegates
  BY <1>1, DelegationOfType
<1>4. QED
  BY <1>1, <1>2, <1>3, DaoTypes, DelegatePlace, DelegateStep DEF daoItem

LEMMA SaveDelegationSqlEffect ==
  ASSUME DaoBase, SaveDelegationSql
  PROVE  /\ saving.account \in Delegates
         /\ sqlDelegations' \in [Delegates -> DelegationRecords]
         /\ sqlDelegations'[saving.account] =
              MergedDelegation(sqlDelegations[saving.account], saving)
         /\ \A a \in Delegates \ {saving.account} : sqlDelegations'[a] = sqlDelegations[a]
<1>1. pc[Consumer] = "delSql"
  BY DEF SaveDelegationSql, ConsumerAt
<1>2. saving.account \in Delegates
  BY <1>1 DEF DaoBase, ConsumerOK
<1>3. PICK a \in Delegates : a = saving.account
  BY <1>2
<1>4. PICK m : m = MergedDelegation(sqlDelegations[a], saving)
  OBVIOUS
<1>5. m \in DelegationRecords
  BY <1>4, MergedType, DaoTypes
<1>6. sqlDelegations' = [sqlDelegations EXCEPT ![a] = m]
  BY <1>3, <1>4 DEF SaveDelegationSql
<1>7. QED
  BY <1>3, <1>4, <1>5, <1>6, DaoTypes

LEMMA SaveDelegationSqlBase ==
  ASSUME DaoBase, SaveDelegationSql
  PROVE  DaoBase'
<1> USE SaveDelegationSqlEffect
<1>1. pc[Consumer] = "delSql" /\ pc[Consumer] \in DelegateLabels
        /\ UNCHANGED <<contract, sql, subscriptions, sqlSettings, daoItem, op, seen, accounts,
                       existing, fetched, timers, next, bounds>>
  BY DEF SaveDelegationSql, ConsumerAt, DelegateLabels
<1>2. dyn.delegations # None /\ dyn \in Items
  BY <1>1, DelegatePlace, NoneAssumption
<1>3. ASSUME NEW label \in {"existing", "readRow"}, GoesOn(Consumer, label),
             UNCHANGED <<saving, todo>>
      PROVE  DaoBase'
  <2>1. label \in DelegateLabels
    BY DEF DelegateLabels
  <2>2. QED
    BY <1>1, <1>2, <1>3, <2>1, DaoTypes, DelegateStep DEF daoItem
<1>4. CASE saving.delegators = None
  BY <1>3, <1>4 DEF SaveDelegationSql
<1>5. CASE saving.delegators # None /\ todo = {}
  BY <1>3, <1>5 DEF SaveDelegationSql
<1>6. CASE saving.delegators # None /\ todo # {}
  <2>1. SaveNext(todo)
    BY <1>6 DEF SaveDelegationSql
  <2>2. QED
    BY <1>1, <2>1, DaoTypes, SaveNextBase
<1>7. QED
  BY <1>4, <1>5, <1>6

LEMMA ReadExistingBase ==
  ASSUME DaoBase, ReadExisting
  PROVE  DaoBase'
<1>1. pc[Consumer] = "existing" /\ pc[Consumer] \in DelegateLabels
        /\ GoesOn(Consumer, "delegatedAmounts")
        /\ UNCHANGED <<contract, sqlTables, daoItem, op, seen, accounts, saving, todo, fetched,
                       timers, next, bounds>>
  BY DEF ReadExisting, ConsumerAt, DelegateLabels
<1>2. /\ dyn.delegations \in [Delegates -> DelegationRecords] /\ dyn \in Items
      /\ dyn.delegations # None
  BY <1>1, DelegatePlace, NoneAssumption
<1>3. existing' \in [Delegates -> DelegationRecords]
  BY <1>2, DaoTypes DEF ReadExisting
<1>4. "delegatedAmounts" \in DelegateLabels
  BY DEF DelegateLabels
<1>5. QED
  BY <1>1, <1>2, <1>3, <1>4, DaoTypes, DelegateStep DEF daoItem, sqlTables

LEMMA ReadAmountsBase ==
  ASSUME DaoBase, ReadAmounts
  PROVE  DaoBase'
<1>1. pc[Consumer] = "delegatedAmounts" /\ pc[Consumer] \in DelegateLabels
        /\ UNCHANGED <<contract, sqlTables, daoItem, timers, bounds>>
  BY DEF ReadAmounts, ConsumerAt, DelegateLabels
<1>2. CASE Stored.staking /\ DelegatedAmounts # {}
  <2>1. SaveNext(DelegatedAmounts) /\ UNCHANGED <<op, seen, accounts, existing, fetched, next>>
    BY <1>2 DEF ReadAmounts
  <2>2. DelegatedAmounts \in SUBSET Delegates
    BY DEF DelegatedAmounts
  <2>3. QED
    BY <1>1, <2>1, <2>2, DaoTypes, SaveNextBase DEF sqlTables
<1>3. CASE ~(Stored.staking /\ DelegatedAmounts # {})
  <2>1. Passes(TRUE)
    BY <1>3 DEF ReadAmounts
  <2>2. sql \in Rows /\ sql # None /\ inList \in BOOLEAN
    BY <1>1, DelegatePlace DEF DaoBase, DaoTypeOK, StoresOK
  <2>3. QED
    BY <1>1, <2>1, <2>2, PassesBase DEF contract, sqlTables, daoItem, DelegateLabels
<1>4. QED
  BY <1>2, <1>3

LEMMA ReadMembersBase ==
  ASSUME DaoBase, ReadMembers
  PROVE  DaoBase'
<1> USE DaoWorkers
<1>1. pc[Consumer] = "readRow" /\ pc[Consumer] \in DelegateLabels
        /\ GoesOn(Consumer, "readMembers")
        /\ UNCHANGED <<contract, sqlTables, daoItem, op, delegating, fetched, timers, next, bounds>>
        /\ seen' = [seen EXCEPT ![Consumer] = sql]
  BY DEF ReadMembers, ConsumerAt, DelegateLabels
<1>2. sql \in Rows /\ dyn.delegations # None /\ dyn \in Items
  BY <1>1, DelegatePlace, NoneAssumption
<1>3. seen' \in [Workers -> ReadRecords] /\ seen'[Consumer] = sql
        /\ \A u \in Workers \ {Consumer} : seen'[u] = seen[u]
  BY <1>1, <1>2, DaoTypes DEF ReadRecords
<1>4. "readMembers" \in DelegateLabels
  BY DEF DelegateLabels
<1>5. QED
  BY <1>1, <1>2, <1>3, <1>4, DaoTypes, DelegateStep DEF daoItem, sqlTables, delegating

LEMMA ReadMemberAccountsBase ==
  ASSUME DaoBase, ReadMemberAccounts
  PROVE  DaoBase'
<1>1. pc[Consumer] = "readMembers" /\ pc[Consumer] \in DelegateLabels
        /\ GoesOn(Consumer, "saveMembers") /\ accounts' = DelegationAccounts
        /\ UNCHANGED <<contract, sqlTables, daoItem, op, seen, existing, saving, todo, fetched,
                       timers, next, bounds>>
  BY DEF ReadMemberAccounts, ConsumerAt, DelegateLabels
<1>2. dyn.delegations # None /\ dyn \in Items
  BY <1>1, DelegatePlace, NoneAssumption
<1>3. seen[Consumer] \in Rows /\ accounts' \in SUBSET Delegates
  BY <1>1, DelegationAccountsType DEF DaoBase, ConsumerOK
<1>4. "saveMembers" \in DelegateLabels
  BY DEF DelegateLabels
<1>5. QED
  BY <1>1, <1>2, <1>3, <1>4, DaoTypes, DelegateStep DEF daoItem, sqlTables

LEMMA SaveMembersEffect ==
  ASSUME DaoBase, SaveMembers
  PROVE  /\ seen[Consumer] \in Rows /\ sql' \in Rows /\ sql \in Rows /\ sql # None
         /\ sql'.members = seen[Consumer].members \cup accounts
         /\ sql'.policy = seen[Consumer].policy /\ sql'.staking = seen[Consumer].staking
<1>1. pc[Consumer] = "saveMembers" /\ pc[Consumer] \in DelegateLabels
  BY DEF SaveMembers, ConsumerAt, DelegateLabels
<1>2. PICK r \in Rows : r = seen[Consumer]
  BY <1>1 DEF DaoBase, ConsumerOK
<1>3. PICK m : m = r.members \cup accounts
  OBVIOUS
<1>4. m \in SUBSET (Members \cup Delegates)
  BY <1>3, DaoTypes DEF Rows
<1>5. sql' = [r EXCEPT !.members = m]
  BY <1>2, <1>3 DEF SaveMembers
<1>6. QED
  BY <1>1, <1>2, <1>3, <1>4, <1>5, DelegatePlace DEF Rows

LEMMA SaveMembersBase ==
  ASSUME DaoBase, SaveMembers
  PROVE  DaoBase'
<1> USE SaveMembersEffect
<1>1. pc[Consumer] # "off" /\ Passes(TRUE)
        /\ UNCHANGED <<contract, sqlDelegations, subscriptions, sqlSettings, daoItem, timers,
                       bounds>>
  BY DEF SaveMembers, ConsumerAt
<1>2. inList \in BOOLEAN
  BY DEF DaoBase, DaoTypeOK, StoresOK
<1>3. QED
  BY <1>1, <1>2, PassesBase DEF contract, daoItem

LEMMA CrashBase ==
  ASSUME DaoBase, Crash
  PROVE  DaoBase'
<1> USE DaoWorkers
<1>1. Forgets(Indexer) /\ crashes' = crashes + 1 /\ timers' = 0
        /\ UNCHANGED <<contract, sqlTables, daoItem, next, settled, scenario, faults>>
  BY DEF Crash
<1>2. /\ WorkOK' /\ alone' \in Workers \cup {None}
      /\ \A u \in Indexer : pc'[u] = "off"
      /\ \A u \in Workers \ Indexer :
           pc'[u] = pc[u] /\ op'[u] = op[u] /\ seen'[u] = seen[u]
             /\ fetched'[u] = fetched[u]
  BY <1>1, ForgetsMoves DEF DaoBase
<1>3. DaoTypeOK'
  BY <1>1, <1>2 DEF DaoBase, DaoTypeOK, StoresOK, contract, sqlTables, daoItem
<1>4. CreatedOK'
  BY <1>1, <1>2 DEF DaoBase, CreatedOK, contract, sqlTables, daoItem, VersionLabels
<1>5. ConsumerOK'
  BY <1>2 DEF ConsumerOK, SavingLabels, DelegateLabels
<1>6. TimersOK'
  BY <1>2 DEF TimersOK
<1>7. RequestsOK'
  <2>1. ASSUME NEW u \in Requests PROVE RequestOK(u)'
    <3>1. u \in Workers \ Indexer /\ sql' = sql
      BY <1>1 DEF sqlTables
    <3>2. QED
      BY <1>2, <3>1 DEF DaoBase, RequestsOK, RequestOK
  <2>2. QED
    BY <2>1 DEF RequestsOK
<1>8. PollersOK'
  BY <1>1, <1>2 DEF DaoBase, PollersOK, sqlTables
<1>9. ChainOK'
  BY <1>1 DEF DaoBase, ChainOK, contract
<1>10. QED
  BY <1>3, <1>4, <1>5, <1>6, <1>7, <1>8, <1>9 DEF DaoBase
-----------------------------------------------------------------------------
(* Requests and pollers                                                    *)

LEMMA RequestMoved ==
  ASSUME DaoBase, NEW w \in Requests, Beside(w), StoresGrow,
         UNCHANGED <<chain, scenario, next, saving>>, DaoTypeOK', CreatedOK', RequestOK(w)'
  PROVE  DaoBase'
<1> USE DaoWorkers
<1>1. next' \in Nat /\ next' >= next /\ Len(chain) \in Nat
  BY DEF DaoBase, DaoTypeOK
<1>2. TimersOK' /\ PollersOK'
  BY <1>1, BesideKept
<1>3. \A u \in Requests \ {w} : RequestOK(u)'
  BY <1>1, BesideKept
<1>4. RequestsOK'
  BY <1>3 DEF RequestsOK
<1>5. ConsumerOK'
  BY <1>1, ConsumerKept
<1>6. ChainOK'
  BY DEF DaoBase, ChainOK
<1>7. QED
  BY <1>2, <1>4, <1>5, <1>6 DEF DaoBase

LEMMA PollerMoved ==
  ASSUME DaoBase, NEW w \in Pollers, Beside(w), StoresGrow,
         UNCHANGED <<chain, scenario, next, saving>>, DaoTypeOK', CreatedOK',
         pc'[w] \in {"off", "pollWrite"},
         pc'[w] = "pollWrite" => seen'[w] \in Rows /\ op'[w] \in {"status", "funds"}
                                   /\ sql' # None
  PROVE  DaoBase'
<1> USE DaoWorkers
<1>1. next' \in Nat /\ next' >= next /\ Len(chain) \in Nat
  BY DEF DaoBase, DaoTypeOK
<1>2. TimersOK' /\ RequestsOK'
  BY <1>1, BesideKept
<1>3. \A u \in Pollers \ {w} :
              /\ (pc[u] \in {"off", "pollWrite"})'
              /\ (pc[u] = "pollWrite" => seen[u] \in Rows /\ op[u] \in {"status", "funds"}
                                           /\ sql # None)'
  BY <1>1, BesideKept
<1>4. PollersOK'
  BY <1>3 DEF PollersOK
<1>5. ConsumerOK'
  BY <1>1, ConsumerKept
<1>6. ChainOK'
  BY DEF DaoBase, ChainOK
<1>7. QED
  BY <1>2, <1>4, <1>5, <1>6 DEF DaoBase

\* While a request is served the DAO is in both stores.
LEMMA RequestPlace ==
  ASSUME DaoBase, NEW w \in Requests, pc[w] # "off"
  PROVE  sql \in Rows /\ dyn \in Items /\ sql # None /\ dyn # None
BY DaoThere, NoneAssumption DEF DaoBase, RequestsOK, RequestOK

\* A step inside a request.
LEMMA RequestStep ==
  ASSUME DaoBase, NEW w \in Requests, sql # None, dyn # None,
         pc' \in [Workers -> DaoLabels], op' \in [Workers -> DaoOps],
         seen' \in [Workers -> ReadRecords],
         \A u \in Workers \ {w} : pc'[u] = pc[u] /\ op'[u] = op[u] /\ seen'[u] = seen[u],
         alone' \in Workers \cup {None}, settled' \in Nat,
         UNCHANGED <<contract, inList, sql, sqlDelegations, delegating, fetched, timers,
                     next, bounds>>,
         subscriptions' \in SUBSET Users, sqlSettings' \in Settings,
         dyn' \in Items, dyn.delegations # None => dyn'.delegations # None,
         RequestOK(w)'
  PROVE  DaoBase'
<1> USE DaoWorkers
<1>1. dyn' # None
  BY NoneAssumption
<1>2. DaoTypeOK'
  BY DEF DaoBase, DaoTypeOK, StoresOK, WorkOK, contract, bounds, delegating
<1>3. CreatedOK'
  BY <1>1 DEF DaoBase, CreatedOK, contract, bounds
<1>4. Beside(w) /\ StoresGrow
  BY <1>1 DEF Beside, StoresGrow
<1>5. QED
  BY <1>2, <1>3, <1>4, RequestMoved DEF contract, bounds, delegating

LEMMA RequestBeginsMoves ==
  ASSUME DaoBase, NEW w \in Requests, RequestBegins(w)
  PROVE  \E o \in Asks :
           LET label == IF o \in {"subscribe", "unsubscribe"} THEN "itemRead"
                        ELSE IF o = "settingsParam" THEN "settingsRead" ELSE "settingsSql"
           IN  /\ o \in scenario.asks /\ sql # None
               /\ pc[w] = "off" /\ pc' \in [Workers -> DaoLabels] /\ pc'[w] = label
               /\ op' \in [Workers -> DaoOps] /\ op'[w] = o
               /\ \A u \in Workers \ {w} : pc'[u] = pc[u] /\ op'[u] = op[u]
               /\ alone' \in Workers \cup {None} /\ settled' = 0
               /\ UNCHANGED <<contract, sqlTables, daoItem, seen, delegating, fetched, timers,
                              next, bounds>>
<1> USE DaoWorkers
<1>1. PICK o \in scenario.asks :
        /\ op' = [op EXCEPT ![w] = o]
        /\ BeginsAt(w, IF o \in {"subscribe", "unsubscribe"} THEN "itemRead"
                     ELSE IF o = "settingsParam" THEN "settingsRead" ELSE "settingsSql")
  BY DEF RequestBegins
<1>2. o \in Asks
  BY DaoScenario DEF DaoBase, DaoTypeOK
<1>3. PICK label : label = IF o \in {"subscribe", "unsubscribe"} THEN "itemRead"
                     ELSE IF o = "settingsParam" THEN "settingsRead" ELSE "settingsSql"
  OBVIOUS
<1>4. label \in DaoLabels
  BY <1>3 DEF DaoLabels, FollowLabels, SettingsLabels
<1>5. /\ pc[w] = "off" /\ pc' \in [Workers -> DaoLabels] /\ pc'[w] = label
      /\ \A u \in Workers \ {w} : pc'[u] = pc[u]
      /\ alone' \in Workers \cup {None} /\ settled' = 0
  BY <1>1, <1>3, <1>4, BeginsMoves DEF DaoBase, DaoTypeOK
<1>6. op' \in [Workers -> DaoOps] /\ op'[w] = o /\ \A u \in Workers \ {w} : op'[u] = op[u]
  BY <1>1, <1>2, DaoTypes DEF DaoOps
<1>7. /\ sql # None
      /\ UNCHANGED <<contract, sqlTables, daoItem, seen, delegating, fetched, timers, next, bounds>>
  BY DEF RequestBegins
<1>8. QED
  BY <1>1, <1>2, <1>3, <1>5, <1>6, <1>7

LEMMA RequestBeginsBase ==
  ASSUME DaoBase, NEW w \in Requests, RequestBegins(w)
  PROVE  DaoBase'
<1>1. PICK o \in Asks :
           LET label == IF o \in {"subscribe", "unsubscribe"} THEN "itemRead"
                        ELSE IF o = "settingsParam" THEN "settingsRead" ELSE "settingsSql"
           IN  /\ o \in scenario.asks /\ sql # None
               /\ pc[w] = "off" /\ pc' \in [Workers -> DaoLabels] /\ pc'[w] = label
               /\ op' \in [Workers -> DaoOps] /\ op'[w] = o
               /\ \A u \in Workers \ {w} : pc'[u] = pc[u] /\ op'[u] = op[u]
               /\ alone' \in Workers \cup {None} /\ settled' = 0
               /\ UNCHANGED <<contract, sqlTables, daoItem, seen, delegating, fetched, timers,
                              next, bounds>>
  BY RequestBeginsMoves
<1>2. dyn \in Items /\ dyn # None
  BY <1>1, DaoThere, NoneAssumption
<1>3. RequestOK(w)'
  BY <1>1 DEF RequestOK, Asks, FollowLabels, SettingsLabels, sqlTables
<1>4. QED
  BY <1>1, <1>2, <1>3, DaoTypes, RequestStep DEF sqlTables, daoItem

LEMMA ReadItemBase ==
  ASSUME DaoBase, NEW w \in Requests, ReadItem(w)
  PROVE  DaoBase'
<1> USE DaoWorkers
<1>1. pc[w] = "itemRead" /\ seen' = [seen EXCEPT ![w] = dyn] /\ GoesOn(w, "itemWrite")
        /\ UNCHANGED <<contract, sqlTables, daoItem, op, delegating, fetched, timers, next, bounds>>
  BY DEF ReadItem
<1>2. "itemWrite" \in DaoLabels
  BY DEF DaoLabels, FollowLabels
<1>3. /\ pc' \in [Workers -> DaoLabels] /\ pc'[w] = "itemWrite"
      /\ \A u \in Workers \ {w} : pc'[u] = pc[u]
      /\ alone' = alone /\ settled' = settled
  BY <1>1, <1>2, GoesOnMoves DEF DaoBase, DaoTypeOK
<1>4. sql # None /\ dyn # None /\ dyn \in Items
  BY <1>1, RequestPlace
<1>5. seen' \in [Workers -> ReadRecords] /\ seen'[w] = dyn
        /\ \A u \in Workers \ {w} : seen'[u] = seen[u]
  BY <1>1, <1>4, DaoTypes DEF ReadRecords
<1>6. op[w] \in {"subscribe", "unsubscribe"}
  BY <1>1 DEF DaoBase, RequestsOK, RequestOK, FollowLabels
<1>7. RequestOK(w)'
  BY <1>1, <1>3, <1>4, <1>5, <1>6 DEF RequestOK, FollowLabels, SettingsLabels, sqlTables
<1>8. alone \in Workers \cup {None} /\ settled \in Nat
  BY DEF DaoBase, DaoTypeOK
<1>9. QED
  BY <1>1, <1>3, <1>4, <1>5, <1>7, <1>8, DaoTypes, RequestStep DEF sqlTables, daoItem

LEMMA WriteItemEffect ==
  ASSUME DaoBase, NEW w \in Requests, WriteItem(w)
  PROVE  /\ dyn \in Items /\ seen[w] \in Items /\ dyn' \in Items
         /\ dyn'.followers = FollowersAfter(op[w], seen[w].followers)
         /\ dyn.delegations # None => dyn'.delegations # None
         /\ seen[w].settings = dyn.settings => dyn'.settings = dyn.settings
<1>1. pc[w] = "itemWrite" /\ pc[w] # "off"
        /\ dyn' = WrittenBack(seen[w], FollowersAfter(op[w], seen[w].followers))
  BY DEF WriteItem
<1>2. dyn \in Items /\ seen[w] \in Items
  BY <1>1, RequestPlace DEF DaoBase, RequestsOK, RequestOK
<1>3. PICK item \in Items : item = seen[w]
  BY <1>2
<1>4. PICK f \in SUBSET Users : f = FollowersAfter(op[w], item.followers)
  BY DaoFollowers DEF Items
<1>5. QED
  BY <1>1, <1>2, <1>3, <1>4, WrittenBackKept

LEMMA WriteItemBase ==
  ASSUME DaoBase, NEW w \in Requests, WriteItem(w)
  PROVE  DaoBase'
<1> USE DaoWorkers, WriteItemEffect
<1>1. pc[w] = "itemWrite" /\ GoesOn(w, "subscriptionSql")
        /\ UNCHANGED <<contract, sqlTables, inList, memory, timers, next, bounds>>
  BY DEF WriteItem
<1>2. "subscriptionSql" \in DaoLabels
  BY DEF DaoLabels, FollowLabels
<1>3. /\ pc' \in [Workers -> DaoLabels] /\ pc'[w] = "subscriptionSql"
      /\ \A u \in Workers \ {w} : pc'[u] = pc[u]
      /\ alone' = alone /\ settled' = settled
  BY <1>1, <1>2, GoesOnMoves DEF DaoBase, DaoTypeOK
<1>4. sql # None /\ dyn # None
  BY <1>1, RequestPlace
<1>5. op[w] \in {"subscribe", "unsubscribe"}
  BY <1>1 DEF DaoBase, RequestsOK, RequestOK, FollowLabels
<1>6. RequestOK(w)'
  BY <1>1, <1>3, <1>4, <1>5 DEF RequestOK, FollowLabels, SettingsLabels, sqlTables, memory
<1>7. alone \in Workers \cup {None} /\ settled \in Nat
  BY DEF DaoBase, DaoTypeOK
<1>8. QED
  BY <1>1, <1>3, <1>4, <1>6, <1>7, DaoTypes, RequestStep DEF sqlTables, memory

\* The end of a request.
LEMMA RequestEnds ==
  ASSUME DaoBase, NEW w \in Requests, pc[w] # "off", Ends(w),
         UNCHANGED <<contract, inList, sql, sqlDelegations, timers, next, scenario, crashes>>,
         faults' \in Nat,
         subscriptions' \in SUBSET Users, sqlSettings' \in Settings,
         dyn' \in Items, dyn.delegations # None => dyn'.delegations # None
  PROVE  DaoBase'
<1> USE DaoWorkers
<1>1. /\ WorkOK' /\ alone' \in Workers \cup {None}
      /\ pc'[w] = "off" /\ Beside(w) /\ settled' = settled
      /\ UNCHANGED delegating
  BY EndsMoves DEF DaoBase
<1>2. sql # None /\ dyn # None /\ dyn' # None
  BY RequestPlace, NoneAssumption
<1>3. DaoTypeOK'
  BY <1>1 DEF DaoBase, DaoTypeOK, StoresOK, contract
<1>4. CreatedOK'
  BY <1>1, <1>2 DEF DaoBase, CreatedOK, contract, Beside
<1>5. StoresGrow
  BY <1>2 DEF StoresGrow
<1>6. RequestOK(w)'
  BY <1>1 DEF RequestOK, FollowLabels, SettingsLabels
<1>7. QED
  BY <1>1, <1>3, <1>4, <1>5, <1>6, RequestMoved DEF contract, delegating

LEMMA WriteSubscriptionBase ==
  ASSUME DaoBase, NEW w \in Requests, WriteSubscription(w)
  PROVE  DaoBase'
<1>1. pc[w] # "off" /\ Ends(w) /\ subscriptions' = FollowersAfter(op[w], subscriptions)
        /\ UNCHANGED <<contract, sql, sqlDelegations, sqlSettings, daoItem, timers, next, bounds>>
  BY DEF WriteSubscription
<1>2. subscriptions' \in SUBSET Users
  BY <1>1, DaoFollowers, DaoTypes
<1>3. dyn \in Items /\ faults \in Nat
  BY <1>1, RequestPlace DEF DaoBase, DaoTypeOK
<1>4. QED
  BY <1>1, <1>2, <1>3, DaoTypes, RequestEnds DEF daoItem, bounds

LEMMA ReadSettingsBase ==
  ASSUME DaoBase, NEW w \in Requests, ReadSettings(w)
  PROVE  DaoBase'
<1> USE DaoWorkers
<1>1. pc[w] = "settingsRead" /\ GoesOn(w, "settingsSql")
        /\ UNCHANGED <<contract, sqlTables, daoItem, op, delegating, fetched, timers, next, bounds>>
  BY DEF ReadSettings
<1>2. "settingsSql" \in DaoLabels
  BY DEF DaoLabels, SettingsLabels
<1>3. /\ pc' \in [Workers -> DaoLabels] /\ pc'[w] = "settingsSql"
      /\ \A u \in Workers \ {w} : pc'[u] = pc[u]
      /\ alone' = alone /\ settled' = settled
  BY <1>1, <1>2, GoesOnMoves DEF DaoBase, DaoTypeOK
<1>4. sql # None /\ dyn # None /\ dyn \in Items
  BY <1>1, RequestPlace
<1>5. PICK s \in Settings : s = IF scenario.settingsDynamo THEN dyn.settings ELSE sqlSettings
  BY <1>4, DaoTypes DEF Items
<1>6. seen' = [seen EXCEPT ![w] = [settings |-> s]]
  BY <1>5 DEF ReadSettings
<1>7. /\ seen' \in [Workers -> ReadRecords] /\ seen'[w] \in [settings : Settings]
      /\ \A u \in Workers \ {w} : seen'[u] = seen[u]
  BY <1>6, DaoTypes DEF ReadRecords
<1>8. op[w] = "settingsParam"
  BY <1>1 DEF DaoBase, RequestsOK, RequestOK
<1>9. RequestOK(w)'
  BY <1>1, <1>3, <1>4, <1>7, <1>8 DEF RequestOK, FollowLabels, SettingsLabels, sqlTables
<1>10. alone \in Workers \cup {None} /\ settled \in Nat
  BY DEF DaoBase, DaoTypeOK
<1>11. QED
  BY <1>1, <1>3, <1>4, <1>7, <1>9, <1>10, DaoTypes, RequestStep DEF sqlTables, daoItem

LEMMA SettingsOfType ==
  ASSUME DaoBase, NEW w \in Requests, pc[w] \in SettingsLabels
  PROVE  SettingsOf(w) \in Settings
<1>1. RequestOK(w)
  BY DEF DaoBase, RequestsOK
<1>2. \/ op[w] = "settings"
      \/ op[w] = "settingsParam" /\ seen[w] \in [settings : Settings]
  BY <1>1 DEF RequestOK
<1>3. QED
  BY <1>2, DaoFirstRecords DEF SettingsOf, Settings

LEMMA SaveSettingsSqlBase ==
  ASSUME DaoBase, NEW w \in Requests, SaveSettingsSql(w)
  PROVE  DaoBase'
<1> USE DaoWorkers
<1>1. pc[w] = "settingsSql" /\ GoesOn(w, "settingsDyn") /\ sqlSettings' = SettingsOf(w)
        /\ UNCHANGED <<contract, sql, sqlDelegations, subscriptions, daoItem, memory, timers,
                       next, bounds>>
  BY DEF SaveSettingsSql
<1>2. "settingsDyn" \in DaoLabels /\ pc[w] \in SettingsLabels
  BY <1>1 DEF DaoLabels, SettingsLabels
<1>3. /\ pc' \in [Workers -> DaoLabels] /\ pc'[w] = "settingsDyn"
      /\ \A u \in Workers \ {w} : pc'[u] = pc[u]
      /\ alone' = alone /\ settled' = settled
  BY <1>1, <1>2, GoesOnMoves DEF DaoBase, DaoTypeOK
<1>4. sql # None /\ dyn # None /\ dyn \in Items
  BY <1>1, RequestPlace
<1>5. sqlSettings' \in Settings
  BY <1>1, <1>2, SettingsOfType
<1>6. RequestOK(w)'
  BY <1>1, <1>2, <1>3, <1>4 DEF DaoBase, RequestsOK, RequestOK, FollowLabels, SettingsLabels, memory
<1>7. alone \in Workers \cup {None} /\ settled \in Nat
  BY DEF DaoBase, DaoTypeOK
<1>8. QED
  BY <1>1, <1>3, <1>4, <1>5, <1>6, <1>7, DaoTypes, RequestStep DEF daoItem, memory

LEMMA SaveSettingsDynEffect ==
  ASSUME DaoBase, NEW w \in Requests, SaveSettingsDyn(w)
  PROVE  /\ dyn \in Items /\ dyn' \in Items /\ dyn'.settings = SettingsOf(w)
         /\ dyn'.followers = dyn.followers /\ dyn'.delegations = dyn.delegations
<1>1. pc[w] = "settingsDyn" /\ pc[w] \in SettingsLabels
        /\ dyn' = [dyn EXCEPT !.settings = SettingsOf(w)]
  BY DEF SaveSettingsDyn, SettingsLabels
<1>2. dyn \in Items
  BY <1>1, RequestPlace
<1>3. PICK s \in Settings : s = SettingsOf(w)
  BY <1>1, SettingsOfType
<1>4. QED
  BY <1>1, <1>2, <1>3 DEF Items

LEMMA SaveSettingsDynBase ==
  ASSUME DaoBase, NEW w \in Requests, SaveSettingsDyn(w)
  PROVE  DaoBase'
<1>1. pc[w] # "off" /\ Ends(w)
        /\ UNCHANGED <<contract, sqlTables, inList, timers, next, bounds>>
  BY DEF SaveSettingsDyn
<1>2. faults \in Nat
  BY DEF DaoBase, DaoTypeOK
<1>3. QED
  BY <1>1, <1>2, DaoTypes, SaveSettingsDynEffect, RequestEnds DEF sqlTables, bounds

LEMMA RequestFailsBase ==
  ASSUME DaoBase, NEW w \in Requests, RequestFails(w)
  PROVE  DaoBase'
<1>1. pc[w] # "off" /\ Ends(w) /\ faults' = faults + 1
        /\ UNCHANGED <<contract, sqlTables, daoItem, timers, next, scenario, crashes>>
  BY DEF RequestFails
<1>2. faults' \in Nat /\ dyn \in Items
  BY <1>1, RequestPlace DEF DaoBase, DaoTypeOK
<1>3. QED
  BY <1>1, <1>2, DaoTypes, RequestEnds DEF sqlTables, daoItem

LEMMA PollBeginsBase ==
  ASSUME DaoBase, NEW w \in Pollers, PollBegins(w)
  PROVE  DaoBase'
<1> USE DaoWorkers
<1>1. sql # None /\ BeginsAt(w, "pollWrite")
        /\ UNCHANGED <<contract, sqlTables, daoItem, delegating, fetched, timers, next, bounds>>
  BY DEF PollBegins
<1>2. PICK o \in scenario.polls :
        op' = [op EXCEPT ![w] = o] /\ seen' = [seen EXCEPT ![w] = sql]
  BY DEF PollBegins
<1>3. o \in {"status", "funds"}
  BY DaoScenario DEF DaoBase, DaoTypeOK
<1>4. "pollWrite" \in DaoLabels
  BY DEF DaoLabels
<1>5. /\ pc[w] = "off" /\ pc' \in [Workers -> DaoLabels] /\ pc'[w] = "pollWrite"
      /\ \A u \in Workers \ {w} : pc'[u] = pc[u]
      /\ alone' \in Workers \cup {None} /\ settled' = 0
  BY <1>1, <1>4, BeginsMoves DEF DaoBase, DaoTypeOK
<1>6. sql \in Rows
  BY <1>1, DaoThere
<1>7. /\ op' \in [Workers -> DaoOps] /\ op'[w] = o
      /\ seen' \in [Workers -> ReadRecords] /\ seen'[w] = sql
      /\ \A u \in Workers \ {w} : op'[u] = op[u] /\ seen'[u] = seen[u]
  BY <1>2, <1>3, <1>6, DaoTypes DEF DaoOps, ReadRecords
<1>8. DaoTypeOK'
  BY <1>1, <1>5, <1>7 DEF DaoBase, DaoTypeOK, StoresOK, WorkOK, contract, sqlTables, daoItem,
     bounds, delegating
<1>9. CreatedOK'
  BY <1>1, <1>5 DEF DaoBase, CreatedOK, contract, sqlTables, daoItem, bounds
<1>10. Beside(w) /\ StoresGrow
  BY <1>1, <1>5, <1>7 DEF Beside, StoresGrow, sqlTables, daoItem
<1>11. QED
  BY <1>1, <1>3, <1>5, <1>6, <1>7, <1>8, <1>9, <1>10, PollerMoved DEF contract, bounds, delegating,
     sqlTables

LEMMA PollWriteEffect ==
  ASSUME DaoBase, NEW w \in Pollers, PollWrite(w)
  PROVE  /\ sql \in Rows /\ sql' \in Rows /\ dyn \in Items /\ op[w] \in {"status", "funds"}
         /\ op[w] = "funds" => sql'.policy = sql.policy /\ sql'.staking = sql.staking
                                 /\ sql'.members = sql.members
         /\ op[w] = "status" => sql' = seen[w]
<1>1. pc[w] = "pollWrite"
        /\ sql' = IF op[w] = "status" THEN seen[w] ELSE [sql EXCEPT !.amount = seen[w].amount]
  BY DEF PollWrite
<1>2. seen[w] \in Rows /\ op[w] \in {"status", "funds"} /\ sql \in Rows /\ dyn \in Items
  BY <1>1, DaoThere DEF DaoBase, PollersOK
<1>3. PICK n \in Nat : n = seen[w].amount
  BY <1>2 DEF Rows
<1>4. op[w] = "funds" => sql' = [sql EXCEPT !.amount = n]
  BY <1>1, <1>3
<1>5. QED
  BY <1>1, <1>2, <1>3, <1>4 DEF Rows

\* The end of a run of the aggregator.
LEMMA PollEnds ==
  ASSUME DaoBase, NEW w \in Pollers, pc[w] # "off", Ends(w), sql' \in Rows,
         UNCHANGED <<contract, sqlDelegations, subscriptions, sqlSettings, daoItem, timers, next,
                     bounds>>
  PROVE  DaoBase'
<1> USE DaoWorkers
<1>1. /\ WorkOK' /\ alone' \in Workers \cup {None}
      /\ pc'[w] = "off" /\ Beside(w) /\ settled' = settled
      /\ UNCHANGED delegating
  BY EndsMoves DEF DaoBase
<1>2. sql # None /\ sql' # None /\ dyn # None
  BY NoneAssumption DEF DaoBase, PollersOK, CreatedOK
<1>3. DaoTypeOK'
  BY <1>1 DEF DaoBase, DaoTypeOK, StoresOK, contract, daoItem, bounds
<1>4. CreatedOK'
  BY <1>1, <1>2 DEF DaoBase, CreatedOK, contract, daoItem, bounds, Beside
<1>5. StoresGrow
  BY <1>2 DEF StoresGrow, daoItem
<1>6. QED
  BY <1>1, <1>3, <1>4, <1>5, PollerMoved DEF contract, delegating, bounds

LEMMA PollBase ==
  ASSUME DaoBase, NEW w \in Pollers, PollWrite(w) \/ PollSkips(w)
  PROVE  DaoBase'
<1>1. CASE PollWrite(w)
  BY <1>1, PollWriteEffect, PollEnds DEF PollWrite
<1>2. CASE PollSkips(w)
  <2>1. pc[w] # "off" /\ Ends(w) /\ UNCHANGED <<contract, sqlTables, daoItem, timers, next, bounds>>
          /\ pc[w] = "pollWrite"
    BY <1>2 DEF PollSkips
  <2>2. sql \in Rows
    BY <2>1, DaoThere DEF DaoBase, PollersOK
  <2>3. QED
    BY <2>1, <2>2, PollEnds DEF sqlTables
<1>3. QED
  BY <1>1, <1>2
-----------------------------------------------------------------------------
(* Every step                                                              *)

LEMMA DaoInitBase ==
  ASSUME Init
  PROVE  DaoBase
<1> USE DaoWorkers, DaoFirstRecords
<1>1. scenario \in Scenarios /\ scenario.migrated \in BOOLEAN
  BY DaoScenario DEF Init
<1>2. PICK g : g = Genesis(scenario.migrated)
  OBVIOUS
<1>3. g \in DaoBlocks
  BY <1>1, <1>2, RecordsAssumption DEF Genesis, DaoBlocks, Kinds, PolicyIds
<1>4. chain = <<g>> /\ Len(chain) = 1 /\ chain[1] = g /\ chain # <<>>
  BY <1>2 DEF Init
<1>5. DaoTypeOK
  <2>1. StoresOK
    BY <1>1 DEF Init, StoresOK
  <2>2. WorkOK
    BY DEF Init, WorkOK, DaoLabels, DaoOps, ReadRecords, Versions
  <2>3. chain \in Seq(DaoBlocks)
    BY <1>3, <1>4
  <2>4. version \in Nat /\ deploying \in Nat /\ timers \in Nat /\ next \in Nat
          /\ alone \in Workers \cup {None} /\ settled \in Nat /\ crashes \in Nat
          /\ faults \in Nat
    BY DEF Init
  <2>5. QED
    BY <1>1, <2>1, <2>2, <2>3, <2>4 DEF DaoTypeOK
<1>6. ChainOK
  BY <1>2, <1>4 DEF ChainOK
<1>7. CreatedOK
  <2>1. pc[Consumer] = "off" /\ timers = 0
    BY DEF Init
  <2>2. MigratedRow # None /\ MigratedItem # None
    BY NoneAssumption
  <2>3. /\ next = IF scenario.migrated THEN 2 ELSE 1
        /\ sql = IF scenario.migrated THEN MigratedRow ELSE None
        /\ dyn = IF scenario.migrated THEN MigratedItem ELSE None
    BY DEF Init
  <2>4. next >= 1 /\ next <= Len(chain) + 1 /\ (scenario.migrated => next > 1)
    BY <1>4, <2>3
  <2>5. (next > 1 => sql # None) /\ (sql # None => dyn # None)
    BY <2>2, <2>3
  <2>6. QED
    BY <2>1, <2>4, <2>5 DEF CreatedOK, VersionLabels
<1>8. ConsumerOK /\ TimersOK /\ PollersOK
  BY DEF Init, ConsumerOK, TimersOK, PollersOK, SavingLabels, DelegateLabels
<1>9. RequestsOK
  BY DEF Init, RequestsOK, RequestOK, FollowLabels, SettingsLabels
<1>10. QED
  BY <1>5, <1>6, <1>7, <1>8, <1>9 DEF DaoBase

\* What a step is.
HandleStep ==
  \/ ConsumerBegins \/ ReadDao \/ ReadAccounts \/ SaveDaoDyn \/ SaveDaoSql \/ SaveDaoId
  \/ ReadDelegations \/ NoDelegationsThrows \/ WriteDelegations \/ SaveDelegationSql
  \/ ReadExisting \/ ReadAmounts \/ ReadMembers \/ ReadMemberAccounts \/ SaveMembers

VersionsStep == \E w \in Indexer : SetVersion(w)

LEMMA DaoSteps ==
  ASSUME Next
  PROVE  \/ Block \/ Deploy \/ Crash \/ HandleStep \/ VersionsStep
         \/ \E w \in Timers : TimerFires(w)
         \/ \E w \in Requests : Request(w)
         \/ \E w \in Pollers : Poll(w)
BY DaoWorkers DEF Next, Handle, HandleDelegation, LoadVersion, HandleStep, VersionsStep

LEMMA DaoBaseStep ==
  ASSUME DaoBase, [Next]_vars
  PROVE  DaoBase'
<1>1. CASE Block
  BY <1>1, BlockBase
<1>2. CASE Deploy
  BY <1>2, DeployBase
<1>3. CASE Crash
  BY <1>3, CrashBase
<1>4. CASE HandleStep
  BY <1>4, ConsumerBeginsBase, ReadDaoBase, ReadAccountsBase, SaveDaoDynBase, SaveDaoSqlBase,
     SaveDaoIdBase, ReadDelegationsBase, NoDelegationsThrowsBase, WriteDelegationsBase,
     SaveDelegationSqlBase, ReadExistingBase, ReadAmountsBase, ReadMembersBase,
     ReadMemberAccountsBase, SaveMembersBase DEF HandleStep
<1>5. CASE VersionsStep
  BY <1>5, ReadVersionBase, SaveVersionDynBase, SaveVersionSqlBase DEF VersionsStep, SetVersion
<1>6. CASE \E w \in Timers : TimerFires(w)
  BY <1>6, TimerFiresBase
<1>7. CASE \E w \in Requests : Request(w)
  BY <1>7, RequestBeginsBase, ReadItemBase, WriteItemBase, WriteSubscriptionBase,
     ReadSettingsBase, SaveSettingsSqlBase, SaveSettingsDynBase, RequestFailsBase DEF Request
<1>8. CASE \E w \in Pollers : Poll(w)
  BY <1>8, PollBeginsBase, PollBase DEF Poll
<1>9. CASE UNCHANGED vars
  <2>1. UNCHANGED <<chain, version, deploying, sql, sqlDelegations, subscriptions, sqlSettings,
                    dyn, inList, pc, op, seen, accounts, existing, saving, todo, fetched, timers,
                    next, alone, settled, scenario, crashes, faults>>
    BY <1>9 DEF vars, contract, sqlTables, daoItem, memory, delegating, bounds
  <2>2. DaoTypeOK'
    BY <2>1 DEF DaoBase, DaoTypeOK, StoresOK, WorkOK
  <2>3. ChainOK' /\ CreatedOK' /\ ConsumerOK' /\ TimersOK' /\ PollersOK'
    BY <2>1 DEF DaoBase, ChainOK, CreatedOK, ConsumerOK, TimersOK, PollersOK
  <2>4. RequestsOK'
    BY <2>1 DEF DaoBase, RequestsOK, RequestOK
  <2>5. QED
    BY <2>2, <2>3, <2>4 DEF DaoBase
<1>10. QED
  BY <1>1, <1>2, <1>3, <1>4, <1>5, <1>6, <1>7, <1>8, <1>9, DaoSteps

-----------------------------------------------------------------------------
(* Workers that are alone                                                  *)

\* How a step moves the workers.
GoesOnStep ==
  \E w \in Workers : \E label \in DaoLabels \ {"off"} :
    GoesOn(w, label) /\ pc[w] # "off" /\ next' = next
BeginsStep ==
  \E w \in Workers : \E label \in DaoLabels \ {"off", "daoSql"} :
    BeginsAt(w, label) /\ next' = next
EndsStep == \E w \in Workers \ {Consumer} : Ends(w) /\ pc[w] # "off" /\ next' = next
PassesStep == \E ok \in BOOLEAN : Passes(ok) /\ pc[Consumer] # "off"

LEMMA HandleMoves ==
  ASSUME DaoBase, HandleStep
  PROVE  GoesOnStep \/ BeginsStep \/ PassesStep
<1> USE DaoWorkers
<1> USE DEF DaoLabels, SavingLabels, VersionLabels, DelegateLabels, ConsumerAt
<1>1. CASE ConsumerBegins
  BY <1>1 DEF ConsumerBegins, FirstLabel, BeginsStep
<1>2. CASE ReadDao
  BY <1>2 DEF ReadDao, GoesOnStep
<1>3. CASE ReadAccounts \/ SaveDaoDyn
  BY <1>3 DEF ReadAccounts, SaveDaoDyn, GoesOnStep
<1>4. CASE SaveDaoSql
  BY <1>4 DEF SaveDaoSql, GoesOnStep, PassesStep
<1>5. CASE SaveDaoId \/ NoDelegationsThrows \/ SaveMembers
  BY <1>5 DEF SaveDaoId, NoDelegationsThrows, SaveMembers, PassesStep
<1>6. CASE ReadDelegations
  BY <1>6 DEF ReadDelegations, GoesOnStep
<1>7. CASE WriteDelegations \/ ReadExisting \/ ReadMembers \/ ReadMemberAccounts
  BY <1>7 DEF WriteDelegations, ReadExisting, ReadMembers, ReadMemberAccounts, GoesOnStep
<1>8. CASE SaveDelegationSql
  <2>1. pc[Consumer] # "off" /\ next' = next
    BY <1>8 DEF SaveDelegationSql
  <2>2. GoesOn(Consumer, "existing") \/ GoesOn(Consumer, "readRow") \/ GoesOn(Consumer, "delRead")
    BY <1>8 DEF SaveDelegationSql, SaveNext
  <2>3. QED
    BY <2>1, <2>2 DEF GoesOnStep
<1>9. CASE ReadAmounts
  <2>1. pc[Consumer] # "off"
    BY <1>9 DEF ReadAmounts
  <2>2. (GoesOn(Consumer, "delRead") /\ next' = next) \/ Passes(TRUE)
    BY <1>9 DEF ReadAmounts, SaveNext
  <2>3. QED
    BY <2>1, <2>2 DEF GoesOnStep, PassesStep
<1>10. QED
  BY <1>1, <1>2, <1>3, <1>4, <1>5, <1>6, <1>7, <1>8, <1>9 DEF HandleStep

LEMMA VersionMoves ==
  ASSUME DaoBase, NEW w \in Indexer, SetVersion(w) \/ (w \in Timers /\ TimerFires(w))
  PROVE  GoesOnStep \/ BeginsStep \/ EndsStep
<1> USE DaoWorkers
<1> USE DEF DaoLabels, SavingLabels, VersionLabels
<1>1. CASE ReadVersion(w) \/ SaveVersionDyn(w)
  BY <1>1 DEF ReadVersion, SaveVersionDyn, GoesOnStep
<1>2. CASE SaveVersionSql(w)
  BY <1>2 DEF SaveVersionSql, GoesOnStep, EndsStep
<1>3. CASE w \in Timers /\ TimerFires(w)
  BY <1>3 DEF TimerFires, BeginsStep
<1>4. QED
  BY <1>1, <1>2, <1>3 DEF SetVersion

LEMMA RequestMoves ==
  ASSUME DaoBase, NEW w \in Requests, Request(w)
  PROVE  GoesOnStep \/ BeginsStep \/ EndsStep
<1> USE DaoWorkers
<1> USE DEF DaoLabels, FollowLabels, SettingsLabels
<1>1. CASE RequestBegins(w)
  <2>1. PICK label \in DaoLabels \ {"off", "daoSql"} : BeginsAt(w, label)
    BY <1>1 DEF RequestBegins
  <2>2. next' = next
    BY <1>1 DEF RequestBegins
  <2>3. QED
    BY <2>1, <2>2 DEF BeginsStep
<1>2. CASE ReadItem(w) \/ WriteItem(w) \/ ReadSettings(w) \/ SaveSettingsSql(w)
  BY <1>2 DEF ReadItem, WriteItem, ReadSettings, SaveSettingsSql, GoesOnStep
<1>3. CASE WriteSubscription(w) \/ SaveSettingsDyn(w) \/ RequestFails(w)
  BY <1>3 DEF WriteSubscription, SaveSettingsDyn, RequestFails, EndsStep
<1>4. QED
  BY <1>1, <1>2, <1>3 DEF Request

LEMMA PollMoves ==
  ASSUME DaoBase, NEW w \in Pollers, Poll(w)
  PROVE  BeginsStep \/ EndsStep
<1> USE DaoWorkers
<1>1. CASE PollBegins(w)
  BY <1>1 DEF PollBegins, BeginsStep, DaoLabels
<1>2. CASE PollWrite(w) \/ PollSkips(w)
  BY <1>2 DEF PollWrite, PollSkips, EndsStep
<1>3. QED
  BY <1>1, <1>2 DEF Poll

LEMMA SoloStep ==
  ASSUME DaoBase, SoloOK, Next
  PROVE  SoloOK'
<1> USE DaoWorkers
<1>0. next \in Nat /\ DaoTypeOK /\ alone \in Workers \cup {None} /\ settled \in Nat
  BY DEF DaoBase, DaoTypeOK
<1>1. CASE UNCHANGED <<pc, alone, settled, next>>
  BY <1>1 DEF SoloOK
<1>2. CASE GoesOnStep
  <2>1. PICK w \in Workers : \E label \in DaoLabels \ {"off"} :
          GoesOn(w, label) /\ pc[w] # "off" /\ next' = next
    BY <1>2 DEF GoesOnStep
  <2>2. PICK label \in DaoLabels \ {"off"} : GoesOn(w, label) /\ pc[w] # "off" /\ next' = next
    BY <2>1
  <2>3. /\ pc'[w] = label /\ \A u \in Workers \ {w} : pc'[u] = pc[u]
        /\ alone' = alone /\ settled' = settled
    BY <2>2, GoesOnMoves, DaoTypes DEF WorkOK, DaoBase, DaoTypeOK
  <2>4. settled = 0
    BY <2>2 DEF SoloOK
  <2>5. QED
    BY <2>2, <2>3, <2>4 DEF SoloOK
<1>3. CASE BeginsStep
  <2>1. PICK w \in Workers : \E label \in DaoLabels \ {"off", "daoSql"} :
          BeginsAt(w, label) /\ next' = next
    BY <1>3 DEF BeginsStep
  <2>2. PICK label \in DaoLabels \ {"off", "daoSql"} : BeginsAt(w, label) /\ next' = next
    BY <2>1
  <2>3. /\ pc'[w] = label /\ \A u \in Workers \ {w} : pc'[u] = pc[u] /\ settled' = 0
    BY <2>2, BeginsMoves DEF DaoBase, DaoTypeOK
  <2>4. alone' = IF \A u \in Workers : pc[u] = "off" THEN w ELSE None
    BY <2>2 DEF BeginsAt
  <2>5. settled' = 0
    BY <2>2 DEF BeginsAt
  <2>6. QED
    BY <2>2, <2>3, <2>4, <2>5 DEF SoloOK
<1>4. CASE EndsStep
  <2>1. PICK w \in Workers \ {Consumer} : Ends(w) /\ pc[w] # "off" /\ next' = next
    BY <1>4 DEF EndsStep
  <2>2. pc'[w] = "off" /\ Beside(w) /\ settled' = settled
    BY <1>0, <2>1, EndsMoves
  <2>3. settled = 0
    BY <2>1 DEF SoloOK
  <2>4. alone' = IF alone = w THEN None ELSE alone
    BY <2>1 DEF Ends, Forgets
  <2>5. alone \notin Workers \/ alone = w
    BY <2>1 DEF SoloOK
  <2>6. QED
    BY <1>0, <2>2, <2>3, <2>4, <2>5 DEF SoloOK
<1>5. CASE PassesStep
  <2>1. PICK ok \in BOOLEAN : Passes(ok) /\ pc[Consumer] # "off"
    BY <1>5 DEF PassesStep
  <2>2. pc'[Consumer] = "off" /\ Beside(Consumer) /\ next' = next + 1
    BY <1>0, <2>1, PassesMoves
  <2>3. alone' = (IF alone = Consumer THEN None ELSE alone)
          /\ settled' = (IF ok /\ alone = Consumer THEN next ELSE 0)
    BY <2>1 DEF Passes, Forgets
  <2>4. alone \notin Workers \/ alone = Consumer
    BY <2>1 DEF SoloOK
  <2>5. alone' \notin Workers
    BY <1>0, <2>3, <2>4
  <2>6. ASSUME settled' # 0
        PROVE  settled' < next' /\ \A u \in Workers : pc'[u] = "off"
    <3>1. alone = Consumer /\ settled' = next
      BY <2>3, <2>6
    <3>2. \A u \in Workers \ {Consumer} : pc[u] = "off"
      BY <3>1 DEF SoloOK
    <3>3. QED
      BY <1>0, <2>2, <3>1, <3>2 DEF Beside
  <2>7. QED
    BY <2>5, <2>6 DEF SoloOK
<1>6. CASE Crash
  <2>1. Forgets(Indexer) /\ settled' = settled /\ next' = next
    BY <1>6 DEF Crash
  <2>2. PICK w \in Indexer : pc[w] # "off"
    BY <1>6 DEF Crash
  <2>3. settled = 0
    BY <2>2 DEF SoloOK
  <2>4. alone \notin Workers \/ alone = w
    BY <2>2 DEF SoloOK
  <2>5. alone' = IF alone \in Indexer THEN None ELSE alone
    BY <2>1 DEF Forgets
  <2>6. alone' \notin Workers
    BY <1>0, <2>4, <2>5
  <2>7. QED
    BY <2>1, <2>3, <2>6 DEF SoloOK
<1>7. CASE Block \/ Deploy
  BY <1>1, <1>7 DEF Block, Deploy
<1>8. CASE VersionsStep \/ \E w \in Timers : TimerFires(w)
  BY <1>2, <1>3, <1>4, <1>8, VersionMoves DEF VersionsStep
<1>9. QED
  BY <1>2, <1>3, <1>4, <1>5, <1>6, <1>7, <1>8, DaoSteps, HandleMoves, RequestMoves, PollMoves
-----------------------------------------------------------------------------
(* A new policy repairs the stores                                         *)

\* While the consumer is alone at its last write, only the chain goes on.
LEMMA AloneStep ==
  ASSUME DaoBase, SoloOK, Next, alone' = Consumer, pc'[Consumer] = "daoSql"
  PROVE  Block \/ Deploy \/ SaveDaoDyn
<1> USE DaoWorkers
<1>1. CASE HandleStep
  <2>1. CASE SaveDaoDyn
    BY <2>1
  <2>2. CASE ~SaveDaoDyn
    <3>1. CASE ConsumerBegins
      <4>1. BeginsAt(Consumer, FirstLabel(Receipt.kind)) /\ FirstLabel(Receipt.kind) # "daoSql"
        BY <3>1 DEF ConsumerBegins, FirstLabel
      <4>2. pc'[Consumer] = FirstLabel(Receipt.kind)
        BY <4>1, DaoTypes DEF BeginsAt, GoTo
      <4>3. QED
        BY <4>1, <4>2
    <3>2. ASSUME NEW label \in DaoLabels, GoesOn(Consumer, label) PROVE label = "daoSql"
      BY <3>2, DaoTypes DEF GoesOn, GoTo
    <3>3. ASSUME NEW ok, Passes(ok) PROVE FALSE
      BY <3>3, PassesMoves DEF DaoBase
    <3>4. QED
      <4> USE DEF DaoLabels, SavingLabels, VersionLabels, DelegateLabels
      <4>1. CASE ReadDao \/ ReadAccounts \/ ReadDelegations
        BY <3>2, <4>1 DEF ReadDao, ReadAccounts, ReadDelegations
      <4>2. CASE SaveDaoSql \/ SaveDaoId \/ NoDelegationsThrows \/ SaveMembers
        BY <3>2, <3>3, <4>2 DEF SaveDaoSql, SaveDaoId, NoDelegationsThrows, SaveMembers
      <4>3. CASE WriteDelegations \/ ReadExisting \/ ReadMembers \/ ReadMemberAccounts
        BY <3>2, <4>3 DEF WriteDelegations, ReadExisting, ReadMembers, ReadMemberAccounts
      <4>4. CASE SaveDelegationSql \/ ReadAmounts
        BY <3>2, <3>3, <4>4 DEF SaveDelegationSql, ReadAmounts, SaveNext
      <4>5. QED
        BY <1>1, <2>2, <3>1, <4>1, <4>2, <4>3, <4>4 DEF HandleStep
  <2>3. QED
    BY <2>1, <2>2
<1>2. ASSUME NEW w \in Workers \ {Consumer}, NEW label, BeginsAt(w, label)
      PROVE  FALSE
  <2>1. pc'[Consumer] = pc[Consumer] /\ alone' = IF \A u \in Workers : pc[u] = "off" THEN w ELSE None
    BY <1>2, DaoTypes DEF BeginsAt, GoTo
  <2>2. QED
    BY <2>1
<1>3. ASSUME NEW w \in Workers \ {Consumer}, pc[w] # "off", Ends(w) \/ alone' = alone
      PROVE  FALSE
  <2>1. alone' = alone \/ alone' = None
    BY <1>3 DEF Ends, Forgets
  <2>2. alone = Consumer
    BY <2>1
  <2>3. QED
    BY <1>3, <2>2 DEF SoloOK
<1>4. CASE Crash
  <2>1. pc'[Consumer] = "off"
    BY <1>4, ForgetsMoves DEF Crash, DaoBase
  <2>2. QED
    BY <2>1
<1>5. CASE \E w \in Timers : TimerFires(w)
  BY <1>2, <1>5 DEF TimerFires
<1>6. CASE VersionsStep
  <2>1. PICK w \in Indexer : SetVersion(w)
    BY <1>6 DEF VersionsStep
  <2>2. CASE w # Consumer
    BY <1>3, <2>1, <2>2 DEF SetVersion, ReadVersion, SaveVersionDyn, SaveVersionSql, GoesOn
  <2>3. CASE w = Consumer
    <3>1. pc[Consumer] \in VersionLabels
      BY <2>1, <2>3 DEF SetVersion, ReadVersion, SaveVersionDyn, SaveVersionSql, VersionLabels
    <3>2. PICK label \in {"versionDyn", "versionSql", "ids"} : GoesOn(Consumer, label)
      BY <2>1, <2>3 DEF SetVersion, ReadVersion, SaveVersionDyn, SaveVersionSql
    <3>3. pc'[Consumer] = label
      BY <3>2, DaoTypes DEF GoesOn, GoTo
    <3>4. QED
      BY <3>2, <3>3
  <2>4. QED
    BY <2>2, <2>3
<1>7. CASE \E w \in Requests : Request(w)
  <2>1. PICK w \in Requests : Request(w)
    BY <1>7
  <2>2. CASE RequestBegins(w)
    BY <1>2, <2>2 DEF RequestBegins
  <2>3. CASE ~RequestBegins(w)
    BY <1>3, <2>1, <2>3 DEF Request, ReadItem, WriteItem, WriteSubscription, ReadSettings,
       SaveSettingsSql, SaveSettingsDyn, RequestFails, GoesOn
  <2>4. QED
    BY <2>2, <2>3
<1>8. CASE \E w \in Pollers : Poll(w)
  <2>1. PICK w \in Pollers : Poll(w)
    BY <1>8
  <2>2. CASE PollBegins(w)
    BY <1>2, <2>2 DEF PollBegins
  <2>3. CASE ~PollBegins(w)
    BY <1>3, <2>1, <2>3 DEF Poll, PollWrite, PollSkips
  <2>4. QED
    BY <2>2, <2>3
<1>9. QED
  BY <1>1, <1>4, <1>5, <1>6, <1>7, <1>8, DaoSteps

LEMMA RowToSaveSame ==
  ASSUME DaoBase, next <= Len(chain), chain'[next] = chain[next],
         UNCHANGED <<next, seen, accounts>>
  PROVE  RowToSave' = RowToSave
BY DEF RowToSave, Receipt, LoadedPolicy

\* The receipt that is passed is no new policy, or PostgreSQL has been written.
LEMMA PassesPolicy ==
  ASSUME DaoBase, HandleStep, PassesStep, Receipt.kind = "ChangePolicy"
  PROVE  SaveDaoSql
<1> USE DaoWorkers
<1>1. pc[Consumer] # "off"
  BY DEF PassesStep
<1>2. pc[Consumer] \in {"readDao", "accounts", "daoDyn", "daoSql"}
  BY <1>1, ConsumerPlace DEF ConsumerLabels, SavingLabels, Delegating
<1>3. pc'[Consumer] = "off"
  BY PassesMoves DEF DaoBase, PassesStep
<1>4. ASSUME NEW label \in DaoLabels \ {"off"}, GoesOn(Consumer, label) PROVE FALSE
  BY <1>3, <1>4, DaoTypes DEF GoesOn, GoTo
<1>5. CASE ConsumerBegins
  BY <1>1, <1>5 DEF ConsumerBegins, BeginsAt
<1>6. CASE ReadDao \/ ReadAccounts \/ SaveDaoDyn
  BY <1>4, <1>6 DEF ReadDao, ReadAccounts, SaveDaoDyn, DaoLabels, SavingLabels
<1>7. QED
  BY <1>2, <1>5, <1>6 DEF HandleStep, ConsumerAt, SaveDaoId, ReadDelegations,
     NoDelegationsThrows, WriteDelegations, SaveDelegationSql, ReadExisting, ReadAmounts,
     ReadMembers, ReadMemberAccounts, SaveMembers

LEMMA RepairStep ==
  ASSUME DaoBase, SoloOK, RepairOK, Next
  PROVE  RepairOK'
<1> USE DaoWorkers
<1>0. next \in Nat /\ DaoTypeOK /\ settled \in Nat /\ Len(chain) \in Nat /\ next <= Len(chain) + 1
        /\ next >= 1
  BY DEF DaoBase, DaoTypeOK, CreatedOK
<1>1. ASSUME alone' = Consumer, pc'[Consumer] = "daoSql"
      PROVE  SameColumns(RowToSave', dyn')
  <2>1. CASE SaveDaoDyn
    <3>1. pc[Consumer] # "off" /\ UNCHANGED <<chain, next, seen, accounts>>
      BY <2>1 DEF SaveDaoDyn, ConsumerAt, contract, memory, delegating
    <3>2. RowToSave' = RowToSave
      BY <3>1, ConsumerPlace, RowToSaveSame
    <3>3. QED
      BY <2>1, <3>2, SaveDaoDynEffect
  <2>2. CASE Block \/ Deploy
    <3>1. UNCHANGED <<pc, alone, next, seen, accounts, dyn>>
      BY <2>2 DEF Block, Deploy, memory, delegating, daoItem
    <3>2. pc[Consumer] = "daoSql" /\ alone = Consumer
      BY <1>1, <3>1
    <3>3. next <= Len(chain) /\ next \in 1 .. Len(chain)
      BY <3>2, ConsumerPlace
    <3>4. chain'[next] = chain[next]
      BY <2>2, <3>3, BlockAppends DEF Deploy
    <3>5. RowToSave' = RowToSave
      BY <3>1, <3>3, <3>4, RowToSaveSame
    <3>6. QED
      BY <3>1, <3>2, <3>5 DEF RepairOK
  <2>3. QED
    BY <1>1, <2>1, <2>2, AloneStep
<1>2. ASSUME settled' # 0, chain'[settled'].kind = "ChangePolicy"
      PROVE  sql'.policy = chain'[settled'].policy /\ SameColumns(sql', dyn')
  <2>1. CASE Block \/ Deploy
    <3>1. UNCHANGED <<settled, sql, dyn>>
      BY <2>1 DEF Block, Deploy, sqlTables, daoItem
    <3>2. settled \in 1 .. Len(chain)
      BY <1>0, <1>2, <3>1 DEF SoloOK
    <3>3. chain'[settled] = chain[settled]
      BY <2>1, <3>2, BlockAppends DEF Deploy
    <3>4. QED
      BY <1>2, <3>1, <3>3 DEF RepairOK
  <2>2. CASE GoesOnStep \/ EndsStep \/ Crash
    <3>1. settled' = settled /\ \E w \in Workers : pc[w] # "off"
      BY <2>2 DEF GoesOnStep, EndsStep, Crash, GoesOn, Ends
    <3>2. QED
      BY <1>2, <3>1 DEF SoloOK
  <2>3. CASE BeginsStep
    BY <1>2, <2>3 DEF BeginsStep, BeginsAt
  <2>4. CASE HandleStep /\ PassesStep
    <3>1. PICK ok \in BOOLEAN : Passes(ok) /\ pc[Consumer] # "off"
      BY <2>4 DEF PassesStep
    <3>2. settled' = next /\ alone = Consumer
      BY <1>2, <3>1 DEF Passes
    <3>3. chain' = chain
      BY <2>4, <3>1 DEF HandleStep, ConsumerBegins, ReadDao, ReadAccounts, SaveDaoDyn, SaveDaoSql,
         SaveDaoId, ReadDelegations, NoDelegationsThrows, WriteDelegations, SaveDelegationSql,
         ReadExisting, ReadAmounts, ReadMembers, ReadMemberAccounts, SaveMembers, contract
    <3>4. Receipt.kind = "ChangePolicy"
      BY <1>2, <3>2, <3>3 DEF Receipt
    <3>5. SaveDaoSql
      BY <2>4, <3>4, PassesPolicy
    <3>6. dyn' = dyn /\ pc[Consumer] = "daoSql"
      BY <3>5 DEF SaveDaoSql, ConsumerAt, daoItem
    <3>7. SameColumns(RowToSave, dyn) /\ SameColumns(RowToSave, sql')
      BY <3>2, <3>5, <3>6, SaveDaoSqlEffect DEF RepairOK
    <3>8. RowToSave.policy = LoadedPolicy(Receipt)
      BY <3>4 DEF RowToSave
    <3>9. QED
      BY <3>2, <3>3, <3>6, <3>7, <3>8 DEF SameColumns, Columns, LoadedPolicy, Receipt
  <2>5. QED
    BY <2>1, <2>2, <2>3, <2>4, DaoSteps, HandleMoves, VersionMoves, RequestMoves, PollMoves
       DEF VersionsStep
<1>3. QED
  BY <1>1, <1>2 DEF RepairOK
-----------------------------------------------------------------------------
(* Followers and settings                                                  *)

\* What no one but the request writes.
AgreementKept ==
  /\ UNCHANGED <<subscriptions, sqlSettings>>
  /\ dyn # None => dyn' # None /\ dyn'.followers = dyn.followers
                     /\ dyn'.settings = dyn.settings
  /\ dyn = None /\ dyn' # None => dyn'.followers = {} /\ dyn'.settings = NoSettings

LEMMA AgreeKept ==
  ASSUME DaoBase, NEW w \in Requests, AgreeOK(w), AgreementKept,
         pc'[w] = pc[w], op'[w] = op[w], seen'[w] = seen[w]
  PROVE  AgreeOK(w)'
<1>1. SettingsOf(w)' = SettingsOf(w)
  BY DEF SettingsOf
<1>2. FollowersAfter(op[w], subscriptions)' = FollowersAfter(op[w], subscriptions)
  BY DEF FollowersAfter, AgreementKept
<1>3. CASE dyn = None
  <2>1. pc[w] = "off"
    BY <1>3, RequestPlace
  <2>2. QED
    BY <1>3, <2>1 DEF AgreeOK, AgreementKept
<1>4. CASE dyn # None
  <2>1. dyn' # None /\ dyn'.followers = dyn.followers /\ dyn'.settings = dyn.settings
    BY <1>4 DEF AgreementKept
  <2>2. QED
    BY <1>1, <1>2, <1>4, <2>1 DEF AgreeOK, AgreementKept
<1>5. QED
  BY <1>3, <1>4

\* A step of a worker that serves no request.
LEMMA OthersAgree ==
  ASSUME DaoBase, Block \/ Deploy \/ Crash \/ HandleStep \/ VersionsStep
                    \/ (\E w \in Timers : TimerFires(w)) \/ (\E w \in Pollers : Poll(w))
  PROVE  /\ AgreementKept /\ UNCHANGED <<scenario, faults>>
         /\ \A w \in Requests : pc'[w] = pc[w] /\ op'[w] = op[w] /\ seen'[w] = seen[w]
<1> USE DaoWorkers
<1> DEFINE Others == \A w \in Requests : pc'[w] = pc[w] /\ op'[w] = op[w] /\ seen'[w] = seen[w]
<1>0. ASSUME UNCHANGED <<subscriptions, sqlSettings, dyn>> PROVE AgreementKept
  BY <1>0 DEF AgreementKept
<1>1. ASSUME NEW w \in Workers \ Requests, NEW label, GoesOn(w, label) \/ BeginsAt(w, label)
      PROVE  \A u \in Requests : pc'[u] = pc[u]
  BY <1>1, DaoTypes DEF GoesOn, BeginsAt, GoTo
<1>2. ASSUME NEW ws \in SUBSET Indexer, Forgets(ws)
      PROVE  Others
  BY <1>2, ForgetsMoves DEF DaoBase
<1>3. ASSUME NEW ok, Passes(ok) PROVE Others
  BY <1>2, <1>3 DEF Passes
<1>4. ASSUME NEW w \in Pollers, Ends(w) PROVE Others
  <2>1. Beside(w)
    BY <1>4, EndsMoves DEF DaoBase
  <2>2. QED
    BY <2>1 DEF Beside
<1>5. ASSUME NEW w \in Workers \ Requests, NEW r, seen' = [seen EXCEPT ![w] = r]
      PROVE  \A u \in Requests : seen'[u] = seen[u]
  BY <1>5, DaoTypes
<1>6. CASE Block \/ Deploy
  BY <1>0, <1>6 DEF Block, Deploy, sqlTables, daoItem, memory, bounds
<1>7. CASE Crash
  BY <1>0, <1>2, <1>7 DEF Crash, sqlTables, daoItem
<1>8. CASE ConsumerBegins \/ ReadDao
  BY <1>0, <1>1, <1>5, <1>8 DEF ConsumerBegins, ReadDao, sqlTables, daoItem, bounds
<1>9. CASE ReadAccounts
  BY <1>0, <1>1, <1>9 DEF ReadAccounts, sqlTables, daoItem, bounds
<1>10. CASE SaveDaoDyn
  <2>1. dyn' # None
    BY <1>10, SaveDaoDynEffect, NoneAssumption
  <2>2. AgreementKept
    BY <1>10, <2>1, SaveDaoDynEffect DEF SaveDaoDyn, sqlTables, AgreementKept
  <2>3. QED
    BY <1>1, <1>10, <2>2 DEF SaveDaoDyn, memory, bounds
<1>11. CASE SaveDaoSql
  <2>1. AgreementKept
    BY <1>0, <1>11 DEF SaveDaoSql, daoItem
  <2>2. QED
    BY <1>1, <1>3, <1>11, <2>1 DEF SaveDaoSql, memory, bounds
<1>12. CASE SaveDaoId \/ NoDelegationsThrows \/ SaveMembers
  BY <1>0, <1>3, <1>12 DEF SaveDaoId, NoDelegationsThrows, SaveMembers, sqlTables, daoItem, bounds
<1>13. CASE ReadDelegations \/ ReadMembers
  BY <1>0, <1>1, <1>5, <1>13 DEF ReadDelegations, ReadMembers, sqlTables, daoItem, bounds
<1>14. CASE WriteDelegations
  <2>1. dyn' # None /\ dyn # None
    BY <1>14, WriteDelegationsEffect, NoneAssumption
  <2>2. AgreementKept
    BY <1>14, <2>1, WriteDelegationsEffect DEF WriteDelegations, sqlTables, AgreementKept
  <2>3. QED
    BY <1>1, <1>14, <2>2 DEF WriteDelegations, memory, bounds
<1>15. CASE SaveDelegationSql
  <2>1. AgreementKept
    BY <1>0, <1>15 DEF SaveDelegationSql, daoItem
  <2>2. QED
    BY <1>1, <1>15, <2>1 DEF SaveDelegationSql, SaveNext, bounds
<1>16. CASE ReadExisting \/ ReadMemberAccounts
  BY <1>0, <1>1, <1>16 DEF ReadExisting, ReadMemberAccounts, sqlTables, daoItem, bounds
<1>17. CASE ReadAmounts
  <2>1. AgreementKept
    BY <1>0, <1>17 DEF ReadAmounts, sqlTables, daoItem
  <2>2. QED
    BY <1>1, <1>3, <1>17, <2>1 DEF ReadAmounts, SaveNext, bounds
<1>18. CASE VersionsStep
  <2>1. PICK w \in Indexer : SetVersion(w)
    BY <1>18 DEF VersionsStep
  <2>2. CASE ReadVersion(w)
    BY <1>0, <1>1, <2>2 DEF ReadVersion, sqlTables, daoItem, bounds
  <2>3. CASE SaveVersionDyn(w)
    <3>1. dyn' # None /\ dyn # None
      BY <2>3, SaveVersionDynEffect, NoneAssumption
    <3>2. AgreementKept
      BY <2>3, <3>1, SaveVersionDynEffect DEF SaveVersionDyn, sqlTables, AgreementKept
    <3>3. QED
      BY <1>1, <2>3, <3>2 DEF SaveVersionDyn, memory, bounds
  <2>4. CASE SaveVersionSql(w)
    <3>1. AgreementKept
      BY <1>0, <2>4 DEF SaveVersionSql, daoItem
    <3>2. QED
      BY <1>1, <1>2, <2>4, <3>1 DEF SaveVersionSql, Ends, memory, bounds
  <2>5. QED
    BY <2>1, <2>2, <2>3, <2>4 DEF SetVersion
<1>19. CASE \E w \in Timers : TimerFires(w)
  BY <1>0, <1>1, <1>19 DEF TimerFires, sqlTables, daoItem, memory, bounds
<1>20. CASE \E w \in Pollers : Poll(w)
  <2>1. PICK w \in Pollers : Poll(w)
    BY <1>20
  <2>2. CASE PollBegins(w)
    <3>1. PICK o \in scenario.polls :
            op' = [op EXCEPT ![w] = o] /\ seen' = [seen EXCEPT ![w] = sql]
      BY <2>2 DEF PollBegins
    <3>2. \A u \in Requests : op'[u] = op[u] /\ seen'[u] = seen[u]
      BY <3>1, DaoTypes
    <3>3. QED
      BY <1>0, <1>1, <2>2, <3>2 DEF PollBegins, sqlTables, daoItem, bounds
  <2>3. CASE PollWrite(w) \/ PollSkips(w)
    BY <1>0, <1>4, <2>3 DEF PollWrite, PollSkips, sqlTables, daoItem, bounds
  <2>4. QED
    BY <2>1, <2>2, <2>3 DEF Poll
<1>21. QED
  BY <1>6, <1>7, <1>8, <1>9, <1>10, <1>11, <1>12, <1>13, <1>14, <1>15, <1>16, <1>17, <1>18,
     <1>19, <1>20 DEF HandleStep

\* A step of the request itself.
LEMMA RequestAgrees ==
  ASSUME DaoBase, NEW w \in Requests, AgreeOK(w), Request(w), ~RequestFails(w)
  PROVE  AgreeOK(w)'
<1> USE DaoWorkers
<1>1. CASE RequestBegins(w)
  <2>1. PICK o \in Asks :
           LET label == IF o \in {"subscribe", "unsubscribe"} THEN "itemRead"
                        ELSE IF o = "settingsParam" THEN "settingsRead" ELSE "settingsSql"
           IN  /\ o \in scenario.asks /\ sql # None
               /\ pc[w] = "off" /\ pc' \in [Workers -> DaoLabels] /\ pc'[w] = label
               /\ op' \in [Workers -> DaoOps] /\ op'[w] = o
               /\ \A u \in Workers \ {w} : pc'[u] = pc[u] /\ op'[u] = op[u]
               /\ alone' \in Workers \cup {None} /\ settled' = 0
               /\ UNCHANGED <<contract, sqlTables, daoItem, seen, delegating, fetched, timers,
                              next, bounds>>
    BY <1>1, RequestBeginsMoves
  <2>2. pc'[w] \notin {"itemWrite", "subscriptionSql", "settingsDyn"} /\ pc[w] = "off"
    BY <2>1
  <2>3. UNCHANGED <<dyn, subscriptions, sqlSettings>>
    BY <2>1 DEF sqlTables, daoItem
  <2>4. QED
    BY <2>2, <2>3 DEF AgreeOK
<1>2. ASSUME NEW label \in DaoLabels, GoesOn(w, label) PROVE pc'[w] = label
  BY <1>2, GoesOnMoves DEF DaoBase, DaoTypeOK
<1>3. ASSUME Ends(w) PROVE pc'[w] = "off"
  BY <1>3, EndsMoves DEF DaoBase
<1> USE DEF DaoLabels, FollowLabels, SettingsLabels
<1>4. CASE ReadItem(w)
  <2>1. pc'[w] = "itemWrite" /\ pc[w] = "itemRead" /\ seen'[w] = dyn
    BY <1>2, <1>4, DaoTypes DEF ReadItem
  <2>2. UNCHANGED <<dyn, subscriptions, sqlSettings>>
    BY <1>4 DEF ReadItem, sqlTables, daoItem
  <2>3. QED
    BY <2>1, <2>2 DEF AgreeOK
<1>5. CASE WriteItem(w)
  <2>1. pc'[w] = "subscriptionSql" /\ pc[w] = "itemWrite" /\ dyn # None
    BY <1>2, <1>5, RequestPlace DEF WriteItem
  <2>2. UNCHANGED <<subscriptions, sqlSettings, op>>
    BY <1>5 DEF WriteItem, sqlTables, memory
  <2>3. seen[w].followers = subscriptions /\ seen[w].settings = dyn.settings
          /\ dyn.settings = sqlSettings
    BY <2>1 DEF AgreeOK
  <2>4. dyn'.followers = FollowersAfter(op'[w], subscriptions') /\ dyn'.settings = sqlSettings'
          /\ dyn' # None
    BY <1>5, <2>2, <2>3, WriteItemEffect, NoneAssumption
  <2>5. QED
    BY <2>1, <2>4 DEF AgreeOK
<1>6. CASE WriteSubscription(w)
  <2>1. pc'[w] = "off" /\ pc[w] = "subscriptionSql" /\ dyn # None
    BY <1>3, <1>6, RequestPlace DEF WriteSubscription
  <2>2. UNCHANGED <<dyn, sqlSettings>> /\ subscriptions' = FollowersAfter(op[w], subscriptions)
    BY <1>6 DEF WriteSubscription, daoItem
  <2>3. QED
    BY <2>1, <2>2 DEF AgreeOK
<1>7. CASE ReadSettings(w)
  <2>1. pc'[w] = "settingsSql" /\ pc[w] = "settingsRead"
    BY <1>2, <1>7 DEF ReadSettings
  <2>2. UNCHANGED <<dyn, subscriptions, sqlSettings>>
    BY <1>7 DEF ReadSettings, sqlTables, daoItem
  <2>3. QED
    BY <2>1, <2>2 DEF AgreeOK
<1>8. CASE SaveSettingsSql(w)
  <2>1. pc'[w] = "settingsDyn" /\ pc[w] = "settingsSql" /\ dyn # None
    BY <1>2, <1>8, RequestPlace DEF SaveSettingsSql
  <2>2. UNCHANGED <<dyn, subscriptions, op, seen>> /\ sqlSettings' = SettingsOf(w)
    BY <1>8 DEF SaveSettingsSql, daoItem, memory
  <2>3. SettingsOf(w)' = SettingsOf(w)
    BY <2>2 DEF SettingsOf
  <2>4. QED
    BY <2>1, <2>2, <2>3 DEF AgreeOK
<1>9. CASE SaveSettingsDyn(w)
  <2>1. pc'[w] = "off" /\ pc[w] = "settingsDyn" /\ dyn # None
    BY <1>3, <1>9, RequestPlace DEF SaveSettingsDyn
  <2>2. UNCHANGED <<subscriptions, sqlSettings>>
    BY <1>9 DEF SaveSettingsDyn, sqlTables
  <2>3. dyn' # None /\ dyn'.settings = SettingsOf(w) /\ dyn'.followers = dyn.followers
    BY <1>9, SaveSettingsDynEffect, NoneAssumption
  <2>4. QED
    BY <2>1, <2>2, <2>3 DEF AgreeOK
<1>10. QED
  BY <1>1, <1>4, <1>5, <1>6, <1>7, <1>8, <1>9 DEF Request

LEMMA AgreementStep ==
  ASSUME DaoBase, AgreementOK, Next
  PROVE  AgreementOK'
<1>1. CASE Block \/ Deploy \/ Crash \/ HandleStep \/ VersionsStep
                    \/ (\E w \in Timers : TimerFires(w)) \/ (\E w \in Pollers : Poll(w))
  <2>1. /\ AgreementKept /\ UNCHANGED <<scenario, faults>>
        /\ \A w \in Requests : pc'[w] = pc[w] /\ op'[w] = op[w] /\ seen'[w] = seen[w]
    BY <1>1, OthersAgree
  <2>2. OneRequest' <=> OneRequest
    BY <2>1 DEF OneRequest
  <2>3. ASSUME OneRequest, NEW w \in Requests PROVE AgreeOK(w)'
    BY <2>1, <2>3, AgreeKept DEF AgreementOK
  <2>4. QED
    BY <2>1, <2>2, <2>3 DEF AgreementOK
<1>2. CASE \E w \in Requests : Request(w)
  <2>1. PICK v \in Requests : Request(v)
    BY <1>2
  <2>2. scenario' = scenario
    BY <2>1 DEF Request, RequestBegins, ReadItem, WriteItem, WriteSubscription, ReadSettings,
       SaveSettingsSql, SaveSettingsDyn, RequestFails, bounds
  <2>3. RequestFails(v) => scenario.faults # 0
    BY DaoScenario DEF RequestFails, DaoBase, DaoTypeOK
  <2>4. scenario.faults = 0 => faults' = faults
    BY <2>1, <2>3 DEF Request, RequestBegins, ReadItem, WriteItem, WriteSubscription, ReadSettings,
       SaveSettingsSql, SaveSettingsDyn, bounds
  <2>5. ASSUME OneRequest, NEW w \in Requests PROVE AgreeOK(w)'
    <3>1. w = v /\ scenario.faults = 0 /\ AgreeOK(w)
      BY <2>5 DEF OneRequest, AgreementOK
    <3>2. QED
      BY <2>1, <2>3, <3>1, RequestAgrees
  <2>6. OneRequest' <=> OneRequest
    BY <2>2 DEF OneRequest
  <2>7. QED
    BY <2>2, <2>4, <2>5, <2>6 DEF AgreementOK
<1>3. QED
  BY <1>1, <1>2, DaoSteps
-----------------------------------------------------------------------------
(* Who moves in a step                                                     *)

Stays(u) == pc'[u] = pc[u] /\ op'[u] = op[u] /\ seen'[u] = seen[u]

LEMMA LabelStays ==
  ASSUME DaoBase, NEW w \in Workers, NEW label, GoesOn(w, label) \/ BeginsAt(w, label)
  PROVE  \A u \in Workers \ {w} : pc'[u] = pc[u]
BY DaoTypes DEF GoesOn, BeginsAt, GoTo

LEMMA LabelMoves ==
  ASSUME DaoBase, NEW w \in Workers, NEW label, GoesOn(w, label) \/ BeginsAt(w, label)
  PROVE  pc'[w] = label
BY DaoTypes DEF GoesOn, BeginsAt, GoTo

LEMMA SeenStays ==
  ASSUME DaoBase, NEW w \in Workers, NEW r, seen' = [seen EXCEPT ![w] = r]
  PROVE  seen'[w] = r /\ \A u \in Workers \ {w} : seen'[u] = seen[u]
BY DaoTypes

LEMMA PassesStays ==
  ASSUME DaoBase, NEW ok, Passes(ok)
  PROVE  /\ pc'[Consumer] = "off" /\ next' = next + 1
         /\ \A u \in Workers \ {Consumer} : Stays(u)
BY PassesMoves DEF DaoBase, Beside, Stays

LEMMA EndsStays ==
  ASSUME DaoBase, NEW w \in Workers \ {Consumer}, Ends(w)
  PROVE  /\ pc'[w] = "off" /\ UNCHANGED delegating
         /\ \A u \in Workers \ {w} : Stays(u)
BY EndsMoves DEF DaoBase, Beside, Stays

LEMMA HandleStays ==
  ASSUME DaoBase, HandleStep
  PROVE  /\ \A u \in Workers \ {Consumer} : Stays(u)
         /\ UNCHANGED <<chain, scenario>>
<1> USE DaoWorkers
<1> USE DEF Stays, contract, memory, bounds
<1>1. CASE ConsumerBegins \/ ReadDao
  BY <1>1, LabelStays, SeenStays DEF ConsumerBegins, ReadDao
<1>2. CASE ReadDelegations \/ ReadMembers
  BY <1>2, LabelStays, SeenStays DEF ReadDelegations, ReadMembers
<1>3. CASE ReadAccounts \/ SaveDaoDyn \/ WriteDelegations
  BY <1>3, LabelStays DEF ReadAccounts, SaveDaoDyn, WriteDelegations
<1>4. CASE ReadExisting \/ ReadMemberAccounts
  BY <1>4, LabelStays DEF ReadExisting, ReadMemberAccounts
<1>5. CASE SaveDaoSql
  BY <1>5, LabelStays, PassesStays DEF SaveDaoSql
<1>6. CASE SaveDaoId \/ NoDelegationsThrows \/ SaveMembers
  BY <1>6, PassesStays DEF SaveDaoId, NoDelegationsThrows, SaveMembers
<1>7. CASE SaveDelegationSql
  BY <1>7, LabelStays DEF SaveDelegationSql, SaveNext
<1>8. CASE ReadAmounts
  BY <1>8, LabelStays, PassesStays DEF ReadAmounts, SaveNext
<1>9. QED
  BY <1>1, <1>2, <1>3, <1>4, <1>5, <1>6, <1>7, <1>8 DEF HandleStep

LEMMA VersionStays ==
  ASSUME DaoBase, NEW w \in Indexer, SetVersion(w) \/ (w \in Timers /\ TimerFires(w))
  PROVE  /\ \A u \in Workers \ {w} : Stays(u)
         /\ UNCHANGED <<chain, scenario, delegating, sqlDelegations, next>>
         /\ pc'[w] \in {"off", "ids"} \cup VersionLabels
<1> USE DaoWorkers
<1> USE DEF Stays, contract, memory, bounds, sqlTables, VersionLabels
<1>1. CASE w \in Timers /\ TimerFires(w)
  BY <1>1, LabelStays, LabelMoves DEF TimerFires
<1>2. CASE ReadVersion(w)
  BY <1>2, LabelStays, LabelMoves DEF ReadVersion
<1>3. CASE SaveVersionDyn(w)
  BY <1>3, LabelStays, LabelMoves DEF SaveVersionDyn
<1>4. CASE SaveVersionSql(w)
  BY <1>4, LabelStays, LabelMoves, EndsStays DEF SaveVersionSql
<1>5. QED
  BY <1>1, <1>2, <1>3, <1>4 DEF SetVersion

LEMMA RequestStays ==
  ASSUME DaoBase, NEW w \in Requests, Request(w)
  PROVE  /\ \A u \in Workers \ {w} : Stays(u)
         /\ UNCHANGED <<chain, scenario, delegating, sql, sqlDelegations, next>>
         /\ scenario.asks # {} \/ pc[w] # "off"
<1> USE DaoWorkers
<1> USE DEF Stays, contract, memory, bounds, sqlTables
<1>1. CASE RequestBegins(w)
  <2>1. PICK o \in scenario.asks : op' = [op EXCEPT ![w] = o] /\ \E label : BeginsAt(w, label)
    BY <1>1 DEF RequestBegins
  <2>2. \A u \in Workers \ {w} : op'[u] = op[u]
    BY <2>1, DaoTypes
  <2>3. \A u \in Workers \ {w} : pc'[u] = pc[u]
    BY <2>1, LabelStays
  <2>4. QED
    BY <1>1, <2>1, <2>2, <2>3 DEF RequestBegins
<1>2. CASE ReadItem(w) \/ ReadSettings(w)
  BY <1>2, LabelStays, SeenStays DEF ReadItem, ReadSettings
<1>3. CASE WriteItem(w) \/ SaveSettingsSql(w)
  BY <1>3, LabelStays DEF WriteItem, SaveSettingsSql
<1>4. CASE WriteSubscription(w) \/ SaveSettingsDyn(w) \/ RequestFails(w)
  BY <1>4, EndsStays DEF WriteSubscription, SaveSettingsDyn, RequestFails
<1>5. QED
  BY <1>1, <1>2, <1>3, <1>4 DEF Request

LEMMA PollStays ==
  ASSUME DaoBase, NEW w \in Pollers, Poll(w)
  PROVE  /\ \A u \in Workers \ {w} : Stays(u)
         /\ UNCHANGED <<chain, scenario, delegating, sqlDelegations, dyn, next>>
         /\ pc'[w] = "pollWrite" => op'[w] \in scenario.polls /\ seen'[w] = sql /\ sql' = sql
<1> USE DaoWorkers
<1> USE DEF Stays, contract, memory, bounds, sqlTables, daoItem
<1>1. CASE PollBegins(w)
  <2>1. PICK o \in scenario.polls : op' = [op EXCEPT ![w] = o] /\ seen' = [seen EXCEPT ![w] = sql]
    BY <1>1 DEF PollBegins
  <2>2. op'[w] = o /\ \A u \in Workers \ {w} : op'[u] = op[u]
    BY <2>1, DaoTypes
  <2>3. \A u \in Workers \ {w} : pc'[u] = pc[u]
    BY <1>1, LabelStays DEF PollBegins
  <2>4. seen'[w] = sql /\ \A u \in Workers \ {w} : seen'[u] = seen[u]
    BY <2>1, SeenStays
  <2>5. QED
    BY <1>1, <2>2, <2>3, <2>4 DEF PollBegins
<1>2. CASE PollWrite(w) \/ PollSkips(w)
  BY <1>2, EndsStays DEF PollWrite, PollSkips
<1>3. QED
  BY <1>1, <1>2 DEF Poll

LEMMA CrashStays ==
  ASSUME DaoBase, Crash
  PROVE  /\ \A u \in Workers \ Indexer : Stays(u)
         /\ pc'[Consumer] = "off"
         /\ UNCHANGED <<chain, scenario, sql, sqlDelegations, dyn, next>>
BY DaoWorkers, ForgetsMoves DEF Crash, DaoBase, Stays, contract, sqlTables, daoItem
-----------------------------------------------------------------------------
(* What the stores show: steps of the others                               *)

\* The columns of a record that is there stay.
SameShown(old, new) ==
  /\ old = None => new = None
  /\ old # None => /\ new # None /\ new.policy = old.policy
                   /\ new.staking = old.staking /\ new.members = old.members

LEMMA ShownPlace ==
  ASSUME DaoBase
  PROVE  /\ next \in Nat /\ next >= 1 /\ Len(chain) \in Nat /\ next <= Len(chain) + 1
         /\ Len(chain) >= 1
         /\ next > 1 => next - 1 \in 1 .. Len(chain)
         /\ next <= Len(chain) => next \in 1 .. Len(chain)
BY DaoNow DEF DaoBase, DaoTypeOK, CreatedOK

\* The receipt the consumer handles, and what it changes.
LEMMA NextBlock ==
  ASSUME DaoBase, pc[Consumer] # "off"
  PROVE  /\ next \in 1 .. Len(chain) /\ Receipt = chain[next] /\ Receipt \in DaoBlocks
         /\ (Receipt.kind = "create") <=> (next = 1)
         /\ next > 1 =>
              /\ Receipt.kind # "ChangePolicy" => chain[next].policy = chain[next - 1].policy
              /\ chain[next].staking =
                   (chain[next - 1].staking \/ Receipt.kind = "SetStakingContract")
              /\ Receipt.kind \notin Delegating => chain[next].staked = chain[next - 1].staked
<1>1. next <= Len(chain) /\ next \in 1 .. Len(chain) /\ Receipt \in DaoBlocks
  BY ConsumerPlace
<1>2. Receipt = chain[next]
  BY DEF Receipt
<1>3. (Receipt.kind = "create") <=> (next = 1)
  BY <1>1, DaoReceipt
<1>4. next > 1 => BlockFollows(chain[next - 1], chain[next])
  BY <1>1, <1>2, DaoReceipt
<1>5. QED
  BY <1>1, <1>2, <1>3, <1>4 DEF BlockFollows

\* A record that shows a block shows the next one, if it changes nothing shown.
LEMMA ShowsNext ==
  ASSUME NEW row, NEW k, NEW delegates, Shows(row, k - 1, delegates),
         chain[k].policy = chain[k - 1].policy, chain[k].staking = chain[k - 1].staking
  PROVE  Shows(row, k, delegates)
BY DEF Shows

LEMMA AccountsKnown ==
  ASSUME ItemKept, DynShown
  PROVE  DelegationAccounts \subseteq Delegated(dyn)
BY DEF ItemKept, DynShown, DelegationAccounts

LEMMA StoresStay ==
  ASSUME DaoBase, UNCHANGED <<scenario, next, sqlDelegations>>,
         \A k \in 1 .. Len(chain) : chain'[k] = chain[k], Len(chain') \in Nat,
         Len(chain') >= Len(chain),
         RowKept => SameShown(sql, sql'),
         ItemKept => SameShown(dyn, dyn') /\ (dyn # None => dyn'.delegations = dyn.delegations)
  PROVE  /\ RowKept' <=> RowKept
         /\ ItemKept' <=> ItemKept
         /\ ItemKept => Delegated(dyn)' = Delegated(dyn)
         /\ RowKept => DelegationAccounts' = DelegationAccounts
         /\ RowKept /\ SqlShown => SqlShown'
         /\ ItemKept /\ NearlyShows(dyn, Delegated(dyn)) => NearlyShows(dyn, Delegated(dyn))'
<1>1. (RowKept' <=> RowKept) /\ (ItemKept' <=> ItemKept)
  BY DEF RowKept, ItemKept
<1>2. ItemKept => Delegated(dyn)' = Delegated(dyn)
  BY DEF SameShown, Delegated, Known
<1>3. RowKept => DelegationAccounts' = DelegationAccounts
  BY <1>2 DEF RowKept, ItemKept, DelegationAccounts, Known
<1>4. ASSUME RowKept, SqlShown PROVE SqlShown'
  <2>1. PICK d : d = DelegationAccounts /\ d = DelegationAccounts'
    BY <1>3, <1>4
  <2>2. next > 1 => Shows(sql, next - 1, d)'
    BY <1>4, <2>1, ShownPlace DEF SqlShown, Shows, SameShown
  <2>3. next = 1 => (sql = None \/ Shows(sql, 1, d))'
    BY <1>4, <2>1, ShownPlace DEF SqlShown, Shows, SameShown
  <2>4. QED
    BY <2>1, <2>2, <2>3 DEF SqlShown
<1>5. ASSUME ItemKept, NearlyShows(dyn, Delegated(dyn)) PROVE NearlyShows(dyn, Delegated(dyn))'
  <2>1. PICK d : d = Delegated(dyn) /\ d = Delegated(dyn)'
    BY <1>2, <1>5
  <2>2. ASSUME NEW k \in 1 .. Len(chain), Shows(dyn, k, d)
        PROVE  Shows(dyn, k, d)'
    BY <1>5, <2>2 DEF Shows, SameShown
  <2>3. next > 1 => (Shows(dyn, next - 1, d) \/ (next <= Len(chain) /\ Shows(dyn, next, d)))'
    BY <1>5, <2>1, <2>2, ShownPlace DEF NearlyShows
  <2>4. next = 1 => (dyn = None \/ Shows(dyn, 1, d))'
    BY <1>5, <2>1, <2>2, ShownPlace DEF NearlyShows, SameShown
  <2>5. QED
    BY <2>1, <2>3, <2>4 DEF NearlyShows
<1>6. QED
  BY <1>1, <1>2, <1>3, <1>4, <1>5

\* A step that is none of the consumer.
LEMMA ShownBeside ==
  ASSUME DaoBase, ShownOK, Stays(Consumer),
         UNCHANGED <<scenario, next, delegating, sqlDelegations>>,
         \A k \in 1 .. Len(chain) : chain'[k] = chain[k], Len(chain') \in Nat,
         Len(chain') >= Len(chain),
         RowKept => SameShown(sql, sql'),
         ItemKept => SameShown(dyn, dyn') /\ (dyn # None => dyn'.delegations = dyn.delegations),
         PollsOK', AsksOK'
  PROVE  ShownOK'
<1> USE DEF Stays, delegating
<1>1. ASSUME pc[Consumer] # "off"
      PROVE  /\ Receipt' = Receipt /\ RowToSave' = RowToSave /\ chain'[next] = chain[next]
  <2>1. chain'[next] = chain[next] /\ next <= Len(chain)
    BY <1>1, NextBlock, ConsumerPlace
  <2>2. PICK r, s, d, b : r = Receipt /\ s = seen[Consumer] /\ d = accounts /\ b = chain[next]
    OBVIOUS
  <2>3. QED
    BY <1>1, <2>1, NextBlock DEF Receipt, RowToSave, LoadedPolicy
<1>2. ASSUME RowKept, RowShown PROVE RowShown'
  <2>1. PICK d : d = DelegationAccounts /\ d = DelegationAccounts'
    BY <1>2, StoresStay
  <2>2. CASE pc[Consumer] = "off"
    BY <2>2 DEF RowShown, SavingLabels
  <2>3. CASE pc[Consumer] \in {"accounts"} \cup SavingLabels
    <3>1. Receipt' = Receipt /\ RowToSave' = RowToSave /\ chain'[next] = chain[next]
      BY <1>1, <2>3 DEF SavingLabels
    <3>2. pc[Consumer] \in SavingLabels => ColumnsShow(RowToSave, next, d)'
      BY <1>2, <2>1, <3>1 DEF RowShown, ColumnsShow
    <3>3. QED
      BY <1>2, <2>1, <2>3, <3>1, <3>2 DEF RowShown, SavingLabels
  <2>4. CASE pc[Consumer] \in {"readMembers", "saveMembers"}
    <3>1. sql # None
      BY <2>4, DelegatePlace DEF DelegateLabels
    <3>2. sql'.policy = sql.policy /\ sql'.staking = sql.staking /\ sql'.members = sql.members
      BY <1>2, <3>1 DEF SameShown
    <3>3. QED
      BY <1>2, <2>1, <2>4, <3>2 DEF RowShown, SavingLabels
  <2>5. QED
    BY <2>2, <2>3, <2>4 DEF RowShown, SavingLabels
<1>3. ASSUME ItemKept, DynShown PROVE DynShown'
  <2>1. PICK d : d = Delegated(dyn) /\ d = Delegated(dyn)'
    BY <1>3, StoresStay
  <2>2. NearlyShows(dyn, Delegated(dyn))'
    BY <1>3, StoresStay DEF DynShown
  <2>3. pc[Consumer] = "daoSql" => Shows(dyn, next, d)'
    BY <1>1, <1>3, <2>1 DEF DynShown, Shows, SameShown
  <2>4. pc[Consumer] = "delWrite" => dyn'.members = dyn.members /\ dyn'.delegations = dyn.delegations
    BY <1>3, DelegatePlace DEF SameShown, DelegateLabels
  <2>5. Known(sqlDelegations)' = Known(sqlDelegations)
    BY DEF Known
  <2>6. QED
    BY <1>3, <2>1, <2>2, <2>3, <2>4, <2>5 DEF DynShown
<1>4. QED
  BY <1>2, <1>3, StoresStay DEF ShownOK
-----------------------------------------------------------------------------
LEMMA SameShownSelf ==
  ASSUME NEW old, NEW new, new = old
  PROVE  SameShown(old, new)
BY DEF SameShown

LEMMA VersionShows ==
  ASSUME DaoBase, NEW w \in Indexer, SetVersion(w) \/ (w \in Timers /\ TimerFires(w))
  PROVE  /\ SameShown(sql, sql') /\ SameShown(dyn, dyn')
         /\ dyn # None => dyn'.delegations = dyn.delegations
<1>1. CASE SaveVersionDyn(w)
  <2>1. sql' = sql
    BY <1>1 DEF SaveVersionDyn, sqlTables
  <2>2. dyn # None /\ dyn' # None
    BY <1>1, SaveVersionDynEffect, NoneAssumption
  <2>3. QED
    BY <1>1, <2>1, <2>2, SaveVersionDynEffect, SameShownSelf DEF SameShown, SameColumns, Columns
<1>2. CASE SaveVersionSql(w)
  <2>1. dyn' = dyn
    BY <1>2 DEF SaveVersionSql, daoItem
  <2>2. sql # None /\ sql' # None
    BY <1>2, SaveVersionSqlEffect, NoneAssumption
  <2>3. QED
    BY <1>2, <2>1, <2>2, SaveVersionSqlEffect, SameShownSelf DEF SameShown, SameColumns, Columns
<1>3. CASE ReadVersion(w) \/ TimerFires(w)
  BY <1>3, SameShownSelf DEF ReadVersion, TimerFires, sqlTables, daoItem
<1>4. QED
  BY <1>1, <1>2, <1>3 DEF SetVersion

LEMMA PollsStay ==
  ASSUME PollsOK, scenario' = scenario, \A u \in Pollers : Stays(u)
  PROVE  PollsOK'
BY DEF PollsOK, Stays

LEMMA AsksStay ==
  ASSUME AsksOK, scenario' = scenario, \A u \in Requests : Stays(u)
  PROVE  AsksOK'
BY DEF AsksOK, Stays

LEMMA BlockShown ==
  ASSUME DaoBase, ShownOK, Block \/ Deploy
  PROVE  ShownOK'
<1> USE DaoWorkers
<1>1. UNCHANGED <<scenario, next, delegating, sqlDelegations, sql, dyn, pc, op, seen>>
  BY DEF Block, Deploy, sqlTables, daoItem, memory, delegating, bounds
<1>2. \A k \in 1 .. Len(chain) : chain'[k] = chain[k]
  BY BlockAppends DEF Deploy
<1>3. Len(chain') \in Nat /\ Len(chain') >= Len(chain)
  BY BlockAppends, ShownPlace DEF Deploy
<1>4. \A u \in Workers : Stays(u)
  BY <1>1 DEF Stays
<1>5. PollsOK' /\ AsksOK'
  BY <1>1, <1>4, PollsStay, AsksStay DEF ShownOK
<1>6. QED
  BY <1>1, <1>2, <1>3, <1>4, <1>5, ShownBeside, SameShownSelf

LEMMA TimerShown ==
  ASSUME DaoBase, ShownOK, NEW w \in Timers, SetVersion(w) \/ TimerFires(w)
  PROVE  ShownOK'
<1> USE DaoWorkers
<1>1. /\ \A u \in Workers \ {w} : Stays(u)
      /\ UNCHANGED <<chain, scenario, delegating, sqlDelegations, next>>
  BY VersionStays
<1>2. PollsOK' /\ AsksOK'
  BY <1>1, PollsStay, AsksStay DEF ShownOK
<1>3. Len(chain) \in Nat /\ Stays(Consumer)
  BY <1>1, ShownPlace
<1>4. QED
  BY <1>1, <1>2, <1>3, VersionShows, ShownBeside

LEMMA RequestShown ==
  ASSUME DaoBase, ShownOK, NEW w \in Requests, Request(w)
  PROVE  ShownOK'
<1> USE DaoWorkers
<1>1. /\ \A u \in Workers \ {w} : Stays(u)
      /\ UNCHANGED <<chain, scenario, delegating, sql, sqlDelegations, next>>
  BY RequestStays
<1>2. scenario.asks # {}
  BY RequestStays DEF ShownOK, AsksOK
<1>3. PollsOK' /\ AsksOK'
  BY <1>1, <1>2, PollsStay DEF ShownOK, AsksOK
<1>4. Len(chain) \in Nat /\ Stays(Consumer) /\ ~ItemKept
  BY <1>1, <1>2, ShownPlace DEF ItemKept
<1>5. QED
  BY <1>1, <1>3, <1>4, ShownBeside, SameShownSelf

LEMMA PollShown ==
  ASSUME DaoBase, ShownOK, NEW w \in Pollers, Poll(w)
  PROVE  ShownOK'
<1> USE DaoWorkers
<1>1. /\ \A u \in Workers \ {w} : Stays(u)
      /\ UNCHANGED <<chain, scenario, delegating, sqlDelegations, dyn, next>>
      /\ pc'[w] = "pollWrite" => op'[w] \in scenario.polls
  BY PollStays
<1>2. PollsOK' /\ AsksOK'
  BY <1>1, AsksStay DEF ShownOK, PollsOK, Stays
<1>3. RowKept => SameShown(sql, sql')
  <2>1. CASE PollWrite(w)
    <3>1. RowKept => op[w] = "funds"
      BY <2>1, PollWriteEffect DEF PollWrite, ShownOK, PollsOK, RowKept
    <3>2. sql # None /\ sql' # None
      BY <2>1, PollWriteEffect, NoneAssumption
    <3>3. QED
      BY <2>1, <3>1, <3>2, PollWriteEffect DEF SameShown
  <2>2. CASE PollBegins(w) \/ PollSkips(w)
    BY <2>2, SameShownSelf DEF PollBegins, PollSkips, sqlTables
  <2>3. QED
    BY <2>1, <2>2 DEF Poll
<1>4. Len(chain) \in Nat /\ Stays(Consumer)
  BY <1>1, ShownPlace
<1>5. QED
  BY <1>1, <1>2, <1>3, <1>4, ShownBeside, SameShownSelf

\* A step of the consumer that leaves the stores as they are.
LEMMA StoresSame ==
  ASSUME DaoBase, ShownOK, UNCHANGED <<chain, scenario, sql, sqlDelegations, dyn, next>>
  PROVE  /\ RowKept' <=> RowKept
         /\ ItemKept' <=> ItemKept
         /\ DelegationAccounts' = DelegationAccounts
         /\ Delegated(dyn)' = Delegated(dyn)
         /\ RowKept => SqlShown'
         /\ ItemKept => /\ NearlyShows(dyn, Delegated(dyn))'
                        /\ (Known(sqlDelegations) \subseteq Delegated(dyn))'
<1>1. (RowKept' <=> RowKept) /\ (ItemKept' <=> ItemKept)
  BY DEF RowKept, ItemKept
<1>2. Delegated(dyn)' = Delegated(dyn) /\ Known(sqlDelegations)' = Known(sqlDelegations)
  BY DEF Delegated, Known
<1>3. DelegationAccounts' = DelegationAccounts
  BY <1>2 DEF DelegationAccounts
<1>4. SameShown(sql, sql') /\ SameShown(dyn, dyn') /\ Len(chain) \in Nat
  BY SameShownSelf, ShownPlace
<1>5. (RowKept => SqlShown') /\ (ItemKept => NearlyShows(dyn, Delegated(dyn))')
  BY <1>4, StoresStay DEF ShownOK, DynShown
<1>6. QED
  BY <1>1, <1>2, <1>3, <1>5 DEF ShownOK, DynShown

LEMMA ConsumerQuiet ==
  ASSUME DaoBase, ShownOK, HandleStep
  PROVE  PollsOK' /\ AsksOK' /\ UNCHANGED <<chain, scenario>>
BY HandleStays, PollsStay, AsksStay, DaoWorkers DEF ShownOK

LEMMA CrashShown ==
  ASSUME DaoBase, ShownOK, Crash
  PROVE  ShownOK'
<1> USE DaoWorkers
<1>1. pc'[Consumer] = "off" /\ PollsOK' /\ AsksOK'
  BY CrashStays, PollsStay, AsksStay DEF ShownOK
<1>2. /\ RowKept => SqlShown'
      /\ ItemKept => NearlyShows(dyn, Delegated(dyn))'
                       /\ (Known(sqlDelegations) \subseteq Delegated(dyn))'
      /\ (RowKept' <=> RowKept) /\ (ItemKept' <=> ItemKept)
  BY CrashStays, StoresSame
<1>3. QED
  BY <1>1, <1>2 DEF ShownOK, RowShown, DynShown, SavingLabels
-----------------------------------------------------------------------------
(* What the stores show: steps of the consumer                             *)

\* What the consumer reads shows the block before its receipt, or the block.
LEMMA StoredShows ==
  ASSUME DaoBase, ShownOK, RowKept, next > 1
  PROVE  NearlyShows(Stored, DelegationAccounts)
<1>1. CASE scenario.daoDynamo
  <2>1. ItemKept /\ Stored = dyn /\ DelegationAccounts = Delegated(dyn)
    BY <1>1 DEF RowKept, ItemKept, Stored, DelegationAccounts
  <2>2. QED
    BY <2>1 DEF ShownOK, DynShown
<1>2. CASE ~scenario.daoDynamo
  BY <1>2, ShownPlace DEF ShownOK, SqlShown, NearlyShows, Stored
<1>3. QED
  BY <1>1, <1>2

LEMMA ConsumerBeginsShown ==
  ASSUME DaoBase, ShownOK, ConsumerBegins
  PROVE  ShownOK'
<1>1. UNCHANGED <<chain, scenario, sql, sqlDelegations, dyn, next>>
  BY DEF ConsumerBegins, contract, sqlTables, daoItem, bounds
<1>2. pc'[Consumer] = FirstLabel(Receipt.kind)
  BY LabelMoves, DaoWorkers DEF ConsumerBegins
<1>3. pc'[Consumer] \in {"readDao", "delRead"}
        \/ (pc'[Consumer] = "accounts" /\ Receipt.kind = "create")
  BY <1>2 DEF FirstLabel
<1>4. Receipt' = Receipt
  BY <1>1 DEF Receipt
<1>5. HandleStep
  BY DEF HandleStep
<1>6. QED
  BY <1>1, <1>3, <1>4, <1>5, StoresSame, ConsumerQuiet DEF ShownOK, RowShown, DynShown, SavingLabels

LEMMA ReadDaoShown ==
  ASSUME DaoBase, ShownOK, ReadDao
  PROVE  ShownOK'
<1>0. HandleStep /\ pc[Consumer] = "readDao"
  BY DEF HandleStep, ReadDao, ConsumerAt
<1>1. UNCHANGED <<chain, scenario, sql, sqlDelegations, dyn, next, accounts>>
  BY DEF ReadDao, contract, sqlTables, daoItem, bounds, delegating
<1>2. pc'[Consumer] = IF Receipt.kind = "ChangePolicy" THEN "accounts" ELSE "daoDyn"
  BY LabelMoves, DaoWorkers DEF ReadDao
<1>3. Receipt.kind \notin Delegating /\ Receipt.kind # "create" /\ next > 1
        /\ next \in 1 .. Len(chain) /\ Receipt = chain[next]
  <2>1. Receipt.kind # "create" /\ Receipt.kind \notin Delegating
    BY <1>0, ConsumerPlace DEF ConsumerLabels, SavingLabels, VersionLabels, DelegateLabels
  <2>2. QED
    BY <1>0, <2>1, NextBlock, ShownPlace
<1>4. PICK r \in Rows \cup Items : r = Stored
  BY <1>3, StoredThere
<1>5. seen'[Consumer] = [r EXCEPT !.amount = Len(chain)]
  BY <1>4, DaoTypes, DaoWorkers DEF ReadDao
<1>6. PICK s : s = seen'[Consumer]
  OBVIOUS
<1>7. s.policy = r.policy /\ s.staking = r.staking /\ s.members = r.members
        /\ s.amount = Len(chain) /\ s # None
  <2>1. r \in Rows => s \in Rows /\ s.policy = r.policy /\ s.staking = r.staking
                        /\ s.members = r.members /\ s.amount = Len(chain)
    BY <1>5, <1>6, ShownPlace DEF Rows
  <2>2. r \in Items => s \in Items /\ s.policy = r.policy /\ s.staking = r.staking
                         /\ s.members = r.members /\ s.amount = Len(chain)
    BY <1>5, <1>6, ShownPlace DEF Items
  <2>3. QED
    BY <1>4, <2>1, <2>2, NoneAssumption
<1>8. Receipt' = Receipt
  BY <1>1 DEF Receipt
<1>9. PICK d : d = DelegationAccounts /\ d = DelegationAccounts'
  BY <1>1, StoresSame
<1>10. ASSUME RowKept
       PROVE  /\ r.policy = chain[next].policy \/ Receipt.kind = "ChangePolicy"
              /\ chain[next].staking = (r.staking \/ Receipt.kind = "SetStakingContract")
              /\ Receipt.kind = "ChangePolicy" => r.staking = chain[next].staking
              /\ Groups[r.policy] \subseteq r.members /\ r.members \subseteq Groups[r.policy] \cup d
  <2>1. Shows(r, next - 1, d) \/ Shows(r, next, d)
    BY <1>3, <1>4, <1>9, <1>10, StoredShows DEF NearlyShows
  <2>2. Groups[r.policy] \subseteq r.members /\ r.members \subseteq Groups[r.policy] \cup d
    BY <2>1 DEF Shows
  <2>3. \/ /\ r.policy = chain[next - 1].policy /\ r.staking = chain[next - 1].staking
        \/ /\ r.policy = chain[next].policy /\ r.staking = chain[next].staking
    BY <2>1 DEF Shows
  <2>4. /\ Receipt.kind # "ChangePolicy" => chain[next].policy = chain[next - 1].policy
        /\ chain[next].staking = (chain[next - 1].staking \/ Receipt.kind = "SetStakingContract")
    BY <1>0, <1>3, NextBlock
  <2>5. r.staking \in BOOLEAN /\ chain[next].staking \in BOOLEAN /\ chain[next - 1].staking \in BOOLEAN
    <3>1. r.staking \in BOOLEAN
      BY <1>4 DEF Rows, Items
    <3>2. chain[next] \in DaoBlocks /\ chain[next - 1] \in DaoBlocks
      BY <1>3, ShownPlace DEF DaoBase, DaoTypeOK
    <3>3. QED
      BY <3>1, <3>2 DEF DaoBlocks
  <2>6. QED
    BY <2>2, <2>3, <2>4, <2>5
<1>11. ASSUME RowKept, Receipt.kind # "ChangePolicy"
       PROVE  ColumnsShow(RowToSave, next, DelegationAccounts)'
  <2>1. RowToSave' = [policy |-> s.policy,
                      staking |-> s.staking \/ Receipt.kind = "SetStakingContract",
                      members |-> s.members, amount |-> s.amount]
    BY <1>3, <1>6, <1>7, <1>8, <1>11 DEF RowToSave
  <2>2. QED
    BY <1>1, <1>7, <1>9, <1>10, <1>11, <2>1 DEF ColumnsShow
<1>12. RowKept => RowShown'
  BY <1>2, <1>3, <1>6, <1>7, <1>8, <1>10, <1>11 DEF RowShown, SavingLabels
<1>13. ItemKept => DynShown'
  BY <1>0, <1>1, <1>2, StoresSame DEF DynShown
<1>14. QED
  BY <1>0, <1>1, <1>12, <1>13, StoresSame, ConsumerQuiet DEF ShownOK

LEMMA ReadAccountsShown ==
  ASSUME DaoBase, ShownOK, ReadAccounts
  PROVE  ShownOK'
<1>0. HandleStep /\ pc[Consumer] = "accounts"
  BY DEF HandleStep, ReadAccounts, ConsumerAt
<1>1. UNCHANGED <<chain, scenario, sql, sqlDelegations, dyn, next, seen>>
  BY DEF ReadAccounts, contract, sqlTables, daoItem, bounds
<1>2. pc'[Consumer] = "daoDyn"
  BY LabelMoves, DaoWorkers DEF ReadAccounts
<1>3. Receipt.kind \in {"create", "ChangePolicy"} /\ Receipt = chain[next]
  BY <1>0, ConsumerPlace, NextBlock DEF ConsumerLabels, SavingLabels, VersionLabels, DelegateLabels
<1>4. Receipt' = Receipt
  BY <1>1 DEF Receipt
<1>5. PICK d : d = DelegationAccounts /\ d = DelegationAccounts' /\ accounts' = d
  BY <1>1, StoresSame DEF ReadAccounts
<1>6. PICK s : s = seen[Consumer] /\ s # None
  BY <1>0, NoneAssumption DEF DaoBase, ConsumerOK
<1>7. RowToSave' = [policy |-> Receipt.policy,
                    staking |-> IF Receipt.kind = "create" THEN Receipt.staking
                                ELSE s.staking \/ Receipt.kind = "SetStakingContract",
                    members |-> Groups[Receipt.policy] \cup d, amount |-> s.amount]
  BY <1>1, <1>3, <1>4, <1>5, <1>6 DEF RowToSave, LoadedPolicy
<1>8. ASSUME RowKept PROVE ColumnsShow(RowToSave, next, DelegationAccounts)'
  <2>1. Receipt.kind = "ChangePolicy" => s.staking = Receipt.staking
    BY <1>0, <1>6, <1>8 DEF ShownOK, RowShown
  <2>2. Receipt.staking \in BOOLEAN
    BY <1>0, NextBlock DEF DaoBlocks
  <2>3. RowToSave'.staking = Receipt.staking
    BY <1>3, <1>7, <2>1, <2>2
  <2>4. QED
    BY <1>1, <1>3, <1>5, <1>7, <2>3 DEF ColumnsShow
<1>9. RowKept => RowShown'
  BY <1>2, <1>8 DEF RowShown
<1>10. ItemKept => DynShown'
  BY <1>0, <1>1, <1>2, StoresSame DEF DynShown
<1>11. QED
  BY <1>0, <1>1, <1>9, <1>10, StoresSame, ConsumerQuiet DEF ShownOK

LEMMA SaveDaoDynShown ==
  ASSUME DaoBase, ShownOK, SaveDaoDyn
  PROVE  ShownOK'
<1>0. HandleStep /\ pc[Consumer] = "daoDyn"
  BY DEF HandleStep, SaveDaoDyn, ConsumerAt
<1>1. UNCHANGED <<chain, scenario, sql, sqlDelegations, next, seen, accounts>>
  BY DEF SaveDaoDyn, contract, sqlTables, bounds, memory, delegating
<1>2. pc'[Consumer] = "daoSql"
  BY LabelMoves, DaoWorkers DEF SaveDaoDyn
<1>3. dyn' # None /\ SameColumns(RowToSave, dyn')
  BY SaveDaoDynEffect, NoneAssumption
<1>4. Delegated(dyn)' = Delegated(dyn)
  BY <1>3, SaveDaoDynEffect DEF Delegated, Known
<1>5. DelegationAccounts' = DelegationAccounts
  BY <1>1, <1>4 DEF DelegationAccounts, Known
<1>6. RowToSave' = RowToSave
  BY <1>0, <1>1, ConsumerPlace, RowToSaveSame
<1>7. (RowKept' <=> RowKept) /\ (ItemKept' <=> ItemKept) /\ (ItemKept => RowKept)
  BY <1>1 DEF RowKept, ItemKept
<1>8. RowKept => SqlShown'
  BY <1>1, <1>5 DEF ShownOK, SqlShown, Shows
<1>9. RowKept => ColumnsShow(RowToSave, next, DelegationAccounts)
  BY <1>0 DEF ShownOK, RowShown, SavingLabels
<1>10. RowKept => RowShown'
  BY <1>1, <1>2, <1>5, <1>6, <1>9 DEF RowShown, ColumnsShow
<1>11. ASSUME ItemKept PROVE DynShown'
  <2>1. PICK d : d = Delegated(dyn) /\ d = Delegated(dyn)' /\ DelegationAccounts \subseteq d
    BY <1>4, <1>11, AccountsKnown DEF ShownOK
  <2>2. Shows(dyn, next, d)'
    BY <1>1, <1>3, <1>7, <1>9, <1>11, <2>1 DEF Shows, ColumnsShow, SameColumns, Columns
  <2>3. NearlyShows(dyn, Delegated(dyn))'
    BY <1>0, <1>1, <2>1, <2>2, NextBlock DEF NearlyShows
  <2>4. Known(sqlDelegations)' = Known(sqlDelegations)
    BY <1>1 DEF Known
  <2>5. QED
    BY <1>2, <1>4, <1>11, <2>1, <2>2, <2>3, <2>4 DEF ShownOK, DynShown
<1>12. QED
  BY <1>0, <1>7, <1>8, <1>10, <1>11, ConsumerQuiet DEF ShownOK
-----------------------------------------------------------------------------
(* The receipt that is passed is shown                                     *)

\* What a step that passes a receipt leaves.
PassShows ==
  /\ UNCHANGED <<chain, scenario, sqlDelegations, dyn>>
  /\ RowKept => Shows(sql', next, DelegationAccounts)
  /\ ItemKept => Shows(dyn, next, Delegated(dyn))

\* A delegation changes nothing of what is shown.
LEMMA DelegateShows ==
  ASSUME DaoBase, ShownOK, pc[Consumer] \in DelegateLabels
  PROVE  /\ RowKept => Shows(sql, next, DelegationAccounts)
         /\ ItemKept => Shows(dyn, next, Delegated(dyn))
<1>1. next > 1 /\ Receipt.kind \in Delegating /\ next \in 1 .. Len(chain)
  BY DelegatePlace
<1>2. pc[Consumer] # "off"
  BY DEF DelegateLabels
<1>3. chain[next].policy = chain[next - 1].policy /\ chain[next].staking = chain[next - 1].staking
  <2>1. chain[next - 1] \in DaoBlocks /\ chain[next] \in DaoBlocks
    BY <1>1, ShownPlace DEF DaoBase, DaoTypeOK
  <2>2. QED
    BY <1>1, <1>2, <2>1, NextBlock DEF Delegating, DaoBlocks
<1>4. RowKept => Shows(sql, next, DelegationAccounts)
  BY <1>1, <1>3, ShowsNext DEF ShownOK, SqlShown
<1>5. ItemKept => Shows(dyn, next, Delegated(dyn))
  BY <1>1, <1>3, ShowsNext DEF ShownOK, DynShown, NearlyShows
<1>6. QED
  BY <1>4, <1>5

LEMMA SaveDaoSqlShows ==
  ASSUME DaoBase, ShownOK, SaveDaoSql
  PROVE  PassShows
<1>1. pc[Consumer] = "daoSql" /\ UNCHANGED <<chain, scenario, sqlDelegations, dyn>>
  BY DEF SaveDaoSql, ConsumerAt, contract, daoItem, bounds
<1>2. sql' # None /\ SameColumns(RowToSave, sql')
  BY SaveDaoSqlEffect, NoneAssumption
<1>3. RowKept => ColumnsShow(RowToSave, next, DelegationAccounts)
  BY <1>1 DEF ShownOK, RowShown, SavingLabels
<1>4. RowKept => Shows(sql', next, DelegationAccounts)
  BY <1>2, <1>3 DEF Shows, ColumnsShow, SameColumns, Columns
<1>5. ItemKept => Shows(dyn, next, Delegated(dyn))
  BY <1>1 DEF ShownOK, DynShown
<1>6. QED
  BY <1>1, <1>4, <1>5 DEF PassShows

LEMMA SaveDaoIdShows ==
  ASSUME DaoBase, ShownOK, SaveDaoId
  PROVE  PassShows
<1>1. pc[Consumer] = "ids" /\ UNCHANGED <<chain, scenario, sqlDelegations, dyn, sql>>
  BY DEF SaveDaoId, ConsumerAt, contract, sqlTables, bounds
<1>2. next = 1
  <2>1. Receipt.kind = "create"
    BY <1>1, ConsumerPlace DEF ConsumerLabels, SavingLabels, DelegateLabels, VersionLabels
  <2>2. QED
    BY <1>1, <2>1, NextBlock
<1>3. sql # None /\ dyn # None
  BY <1>1 DEF DaoBase, CreatedOK
<1>4. QED
  BY <1>1, <1>2, <1>3 DEF PassShows, ShownOK, SqlShown, DynShown, NearlyShows

LEMMA SaveMembersShows ==
  ASSUME DaoBase, ShownOK, SaveMembers
  PROVE  PassShows
<1>1. pc[Consumer] = "saveMembers" /\ UNCHANGED <<chain, scenario, sqlDelegations, dyn>>
  BY DEF SaveMembers, ConsumerAt, contract, daoItem, bounds
<1>2. /\ RowKept => Shows(sql, next, DelegationAccounts)
      /\ ItemKept => Shows(dyn, next, Delegated(dyn))
  BY <1>1, DelegateShows DEF DelegateLabels
<1>3. sql' # None
  BY SaveMembersEffect, NoneAssumption
<1>4. ASSUME RowKept PROVE Shows(sql', next, DelegationAccounts)
  <2>1. /\ seen[Consumer].policy = sql.policy /\ seen[Consumer].staking = sql.staking
        /\ seen[Consumer].members = sql.members /\ accounts \subseteq DelegationAccounts
    BY <1>1, <1>4 DEF ShownOK, RowShown
  <2>2. /\ sql'.policy = sql.policy /\ sql'.staking = sql.staking
        /\ sql'.members = sql.members \cup accounts
    BY <2>1, SaveMembersEffect
  <2>3. QED
    BY <1>2, <1>3, <1>4, <2>1, <2>2 DEF Shows
<1>5. QED
  BY <1>1, <1>2, <1>4 DEF PassShows

LEMMA DelegateReturnsShows ==
  ASSUME DaoBase, ShownOK, pc[Consumer] \in DelegateLabels,
         UNCHANGED <<chain, scenario, sql, sqlDelegations, dyn>>
  PROVE  PassShows
BY DelegateShows DEF PassShows

LEMMA NextPassed ==
  ASSUME DaoBase, ShownOK, NEW ok, Passes(ok), pc[Consumer] # "off", PassShows, PollsOK', AsksOK'
  PROVE  ShownOK'
<1>1. pc'[Consumer] = "off" /\ next' = next + 1 /\ next >= 1 /\ next \in Nat
  BY PassesStays, ShownPlace
<1>2. DelegationAccounts' = DelegationAccounts /\ Delegated(dyn)' = Delegated(dyn)
        /\ Known(sqlDelegations)' = Known(sqlDelegations)
  BY DEF PassShows, DelegationAccounts, Delegated, Known
<1>3. (RowKept' <=> RowKept) /\ (ItemKept' <=> ItemKept)
  BY DEF PassShows, RowKept, ItemKept
<1>4. PICK d, e : d = DelegationAccounts /\ e = Delegated(dyn)
  OBVIOUS
<1>5. next' > 1 /\ next' # 1 /\ next' - 1 = next
  BY <1>1
<1>6. RowKept => Shows(sql, next - 1, d)'
  BY <1>4, <1>5 DEF PassShows, Shows
<1>7. ItemKept => Shows(dyn, next - 1, e)'
  BY <1>4, <1>5 DEF PassShows, Shows
<1>8. RowKept => SqlShown' /\ RowShown'
  BY <1>1, <1>2, <1>4, <1>5, <1>6 DEF SqlShown, RowShown, SavingLabels
<1>9. ItemKept => DynShown'
  BY <1>1, <1>2, <1>4, <1>5, <1>7 DEF DynShown, NearlyShows, ShownOK
<1>10. QED
  BY <1>3, <1>8, <1>9 DEF ShownOK

LEMMA PassingShown ==
  ASSUME DaoBase, ShownOK,
         \/ SaveDaoId \/ SaveMembers \/ NoDelegationsThrows
         \/ (SaveDaoSql /\ Passes(TRUE)) \/ (ReadAmounts /\ Passes(TRUE))
  PROVE  ShownOK'
<1> USE DEF ConsumerAt
<1>1. HandleStep
  BY DEF HandleStep
<1>2. PassShows /\ pc[Consumer] # "off"
  <2>1. CASE SaveDaoId
    BY <2>1, SaveDaoIdShows DEF SaveDaoId
  <2>2. CASE SaveMembers
    BY <2>2, SaveMembersShows DEF SaveMembers
  <2>3. CASE SaveDaoSql
    BY <2>3, SaveDaoSqlShows DEF SaveDaoSql
  <2>4. CASE NoDelegationsThrows \/ ReadAmounts
    BY <2>4, DelegateReturnsShows DEF NoDelegationsThrows, ReadAmounts, contract, sqlTables, daoItem,
       bounds, DelegateLabels
  <2>5. QED
    BY <2>1, <2>2, <2>3, <2>4
<1>3. \E ok \in BOOLEAN : Passes(ok)
  BY DEF SaveDaoId, SaveMembers, NoDelegationsThrows
<1>4. QED
  BY <1>1, <1>2, <1>3, ConsumerQuiet, NextPassed

LEMMA SaveNewDaoShown ==
  ASSUME DaoBase, ShownOK, SaveDaoSql, Receipt.kind = "create"
  PROVE  ShownOK'
<1>1. pc[Consumer] = "daoSql" /\ UNCHANGED <<chain, scenario, sqlDelegations, dyn, next>>
  BY DEF SaveDaoSql, ConsumerAt, contract, daoItem, bounds
<1>2. pc'[Consumer] = "version"
  BY LabelMoves, DaoWorkers DEF SaveDaoSql
<1>3. PassShows /\ HandleStep /\ next = 1
  BY <1>1, SaveDaoSqlShows, NextBlock DEF HandleStep
<1>4. DelegationAccounts' = DelegationAccounts /\ Delegated(dyn)' = Delegated(dyn)
        /\ Known(sqlDelegations)' = Known(sqlDelegations)
  BY <1>1 DEF DelegationAccounts, Delegated, Known
<1>5. (RowKept' <=> RowKept) /\ (ItemKept' <=> ItemKept)
  BY <1>1 DEF RowKept, ItemKept
<1>6. RowKept => SqlShown' /\ RowShown'
  BY <1>1, <1>2, <1>3, <1>4 DEF PassShows, SqlShown, Shows, RowShown, SavingLabels
<1>7. ItemKept => DynShown'
  BY <1>1, <1>2, <1>3, <1>4 DEF PassShows, DynShown, NearlyShows, Shows, ShownOK
<1>8. QED
  BY <1>3, <1>5, <1>6, <1>7, ConsumerQuiet DEF ShownOK
-----------------------------------------------------------------------------
(* What the stores show: versions and delegations                          *)

LEMMA ConsumerVersionShown ==
  ASSUME DaoBase, ShownOK, SetVersion(Consumer)
  PROVE  ShownOK'
<1> USE DaoWorkers
<1>1. /\ \A u \in Workers \ {Consumer} : Stays(u)
      /\ UNCHANGED <<chain, scenario, delegating, sqlDelegations, next>>
      /\ pc'[Consumer] \in {"off", "ids"} \cup VersionLabels
  BY VersionStays
<1>2. PollsOK' /\ AsksOK'
  BY <1>1, PollsStay, AsksStay DEF ShownOK
<1>3. /\ SameShown(sql, sql') /\ SameShown(dyn, dyn')
      /\ dyn # None => dyn'.delegations = dyn.delegations
      /\ Len(chain) \in Nat
  BY VersionShows, ShownPlace
<1>4. Known(sqlDelegations)' = Known(sqlDelegations)
  BY <1>1 DEF Known
<1>5. /\ RowKept' <=> RowKept
      /\ ItemKept' <=> ItemKept
      /\ ItemKept => Delegated(dyn)' = Delegated(dyn)
      /\ RowKept /\ SqlShown => SqlShown'
      /\ ItemKept /\ NearlyShows(dyn, Delegated(dyn)) => NearlyShows(dyn, Delegated(dyn))'
  BY <1>1, <1>3, StoresStay
<1>6. RowKept => SqlShown' /\ RowShown'
  BY <1>1, <1>5 DEF ShownOK, RowShown, VersionLabels, SavingLabels
<1>7. ItemKept => DynShown'
  BY <1>1, <1>4, <1>5 DEF ShownOK, DynShown, VersionLabels
<1>8. QED
  BY <1>2, <1>5, <1>6, <1>7 DEF ShownOK

LEMMA ReadDelegationsShown ==
  ASSUME DaoBase, ShownOK, ReadDelegations
  PROVE  ShownOK'
<1>0. HandleStep /\ pc[Consumer] = "delRead"
  BY DEF HandleStep, ReadDelegations, ConsumerAt
<1>1. UNCHANGED <<chain, scenario, sql, sqlDelegations, dyn, next>>
  BY DEF ReadDelegations, contract, sqlTables, daoItem, bounds
<1>2. dyn # None
  BY <1>0, DelegatePlace DEF DelegateLabels
<1>3. pc'[Consumer] = "delWrite" /\ seen'[Consumer] = dyn
  BY <1>2, LabelMoves, SeenStays, DaoWorkers DEF ReadDelegations
<1>4. QED
  BY <1>0, <1>1, <1>3, StoresSame, ConsumerQuiet DEF ShownOK, RowShown, DynShown, SavingLabels

LEMMA WriteDelegationsShown ==
  ASSUME DaoBase, ShownOK, WriteDelegations
  PROVE  ShownOK'
<1>0. HandleStep /\ pc[Consumer] = "delWrite"
  BY DEF HandleStep, WriteDelegations, ConsumerAt
<1>1. UNCHANGED <<chain, scenario, sql, sqlDelegations, next, saving>>
  BY DEF WriteDelegations, contract, sqlTables, bounds, memory, delegating
<1>2. pc'[Consumer] = "delSql"
  BY LabelMoves, DaoWorkers DEF WriteDelegations
<1>3. dyn # None /\ dyn' # None /\ saving.account \in Delegates
        /\ dyn'.delegations \in [Delegates -> DelegationRecords] /\ dyn'.delegations # None
  BY WriteDelegationsEffect, NoneAssumption
<1>4. dyn'.delegations = [seen[Consumer].delegations EXCEPT ![saving.account] = saving]
        /\ seen[Consumer].delegations \in [Delegates -> DelegationRecords]
        /\ seen[Consumer].delegations # None
  BY WriteDelegationsEffect, NoneAssumption
<1>5. Delegated(dyn') = Known(dyn'.delegations)
  BY <1>3 DEF Delegated
<1>6. saving.account \in Delegated(dyn')
  <2>1. dyn'.delegations[saving.account] = saving
    BY <1>3, <1>4
  <2>2. saving # NoDelegation
    BY <1>3, NoneAssumption DEF NoDelegation
  <2>3. QED
    BY <1>3, <1>5, <2>1, <2>2 DEF Known
<1>7. ItemKept => Delegated(dyn) \subseteq Delegated(dyn')
  <2>1. SUFFICES ASSUME ItemKept, NEW a \in Delegated(dyn) PROVE a \in Delegated(dyn')
    OBVIOUS
  <2>2. dyn.delegations = seen[Consumer].delegations
    BY <1>0, <2>1 DEF ShownOK, DynShown
  <2>3. a \in Delegates /\ dyn.delegations[a] # NoDelegation
    BY <1>3, <1>4, <2>1, <2>2 DEF Delegated, Known
  <2>4. CASE a = saving.account
    BY <1>6, <2>4
  <2>5. CASE a # saving.account
    BY <1>3, <1>4, <1>5, <2>2, <2>3, <2>5 DEF Known
  <2>6. QED
    BY <2>4, <2>5
<1>8. (RowKept' <=> RowKept) /\ (ItemKept' <=> ItemKept) /\ (ItemKept => RowKept)
  BY <1>1 DEF RowKept, ItemKept
<1>9. RowKept => DelegationAccounts \subseteq DelegationAccounts'
  BY <1>1, <1>7 DEF RowKept, ItemKept, DelegationAccounts, Known
<1>10. RowKept => SqlShown' /\ RowShown'
  <2>1. RowKept => SqlShown'
    BY <1>1, <1>9 DEF ShownOK, SqlShown, Shows
  <2>2. RowShown'
    BY <1>2 DEF RowShown, SavingLabels
  <2>3. QED
    BY <2>1, <2>2
<1>11. ASSUME ItemKept PROVE DynShown'
  <2>1. PICK d, e : d = Delegated(dyn) /\ e = Delegated(dyn') /\ d \subseteq e
    BY <1>7, <1>11
  <2>2. Shows(dyn, next, d)
    BY <1>0, <1>11, <2>1, DelegateShows DEF DelegateLabels
  <2>3. /\ dyn'.members = dyn.members \cup e
        /\ dyn'.policy = dyn.policy /\ dyn'.staking = dyn.staking
    BY <1>0, <1>5, <1>11, <2>1, WriteDelegationsEffect DEF ShownOK, DynShown
  <2>4. Shows(dyn, next, e)'
    BY <1>1, <1>3, <2>1, <2>2, <2>3 DEF Shows
  <2>5. NearlyShows(dyn, Delegated(dyn))'
    BY <1>0, <1>1, <2>1, <2>4, NextBlock DEF NearlyShows
  <2>6. Known(sqlDelegations)' = Known(sqlDelegations)
    BY <1>1 DEF Known
  <2>7. QED
    BY <1>1, <1>2, <1>6, <1>7, <1>11, <2>5, <2>6 DEF ShownOK, DynShown
<1>12. QED
  BY <1>0, <1>8, <1>10, <1>11, ConsumerQuiet DEF ShownOK

LEMMA SaveDelegationSqlShown ==
  ASSUME DaoBase, ShownOK, SaveDelegationSql
  PROVE  ShownOK'
<1>0. HandleStep /\ pc[Consumer] = "delSql"
  BY DEF HandleStep, SaveDelegationSql, ConsumerAt
<1>1. UNCHANGED <<chain, scenario, sql, dyn, next, seen>>
  BY DEF SaveDelegationSql, contract, daoItem, bounds
<1>2. pc'[Consumer] \in {"existing", "readRow", "delRead"}
  BY LabelMoves, DaoWorkers DEF SaveDelegationSql, SaveNext
<1>3. Known(sqlDelegations) \subseteq Known(sqlDelegations')
        /\ Known(sqlDelegations') \subseteq Known(sqlDelegations) \cup {saving.account}
  <2>1. sqlDelegations'[saving.account] # NoDelegation
    BY SaveDelegationSqlEffect, NoneAssumption DEF MergedDelegation, NoDelegation
  <2>2. QED
    BY <2>1, SaveDelegationSqlEffect DEF Known
<1>4. Delegated(dyn)' = Delegated(dyn) /\ Known(sqlDelegations)' = Known(sqlDelegations')
  BY <1>1 DEF Delegated, Known
<1>5. DelegationAccounts \subseteq DelegationAccounts'
  BY <1>1, <1>3, <1>4 DEF DelegationAccounts
<1>6. (RowKept' <=> RowKept) /\ (ItemKept' <=> ItemKept)
  BY <1>1 DEF RowKept, ItemKept
<1>7. RowKept => SqlShown'
  BY <1>1, <1>5 DEF ShownOK, SqlShown, Shows
<1>8. RowShown'
  BY <1>2 DEF RowShown, SavingLabels
<1>9. ItemKept => DynShown'
  <2>1. ItemKept => NearlyShows(dyn, Delegated(dyn))'
    BY <1>1, <1>4 DEF ShownOK, DynShown, NearlyShows, Shows
  <2>2. ItemKept => Known(sqlDelegations') \subseteq Delegated(dyn)
    BY <1>0, <1>3 DEF ShownOK, DynShown
  <2>3. QED
    BY <1>2, <1>4, <2>1, <2>2 DEF DynShown
<1>10. QED
  BY <1>0, <1>6, <1>7, <1>8, <1>9, ConsumerQuiet DEF ShownOK

LEMMA ReadingShown ==
  ASSUME DaoBase, ShownOK,
         \/ ReadExisting \/ ReadMembers \/ ReadMemberAccounts
         \/ ReadAmounts /\ SaveNext(DelegatedAmounts)
  PROVE  ShownOK'
<1>0. HandleStep
  BY DEF HandleStep
<1>1. UNCHANGED <<chain, scenario, sql, sqlDelegations, dyn, next>>
  <2>1. ReadAmounts /\ SaveNext(DelegatedAmounts) => next' = next
    <3>1. ASSUME Passes(TRUE), SaveNext(DelegatedAmounts) PROVE FALSE
      BY <3>1, PassesStays, LabelMoves, DaoWorkers DEF SaveNext
    <3>2. QED
      BY <3>1 DEF ReadAmounts
  <2>2. QED
    BY <2>1 DEF ReadExisting, ReadMembers, ReadMemberAccounts, ReadAmounts, contract, sqlTables, daoItem,
       bounds
<1>2. CASE ReadExisting \/ (ReadAmounts /\ SaveNext(DelegatedAmounts))
  <2>1. pc'[Consumer] \in {"delegatedAmounts", "delRead"}
    BY <1>2, LabelMoves, DaoWorkers DEF ReadExisting, SaveNext
  <2>2. QED
    BY <1>0, <1>1, <2>1, StoresSame, ConsumerQuiet DEF ShownOK, RowShown, DynShown, SavingLabels
<1>3. CASE ReadMembers
  <2>1. pc'[Consumer] = "readMembers" /\ seen'[Consumer] = sql
    BY <1>3, LabelMoves, SeenStays, DaoWorkers DEF ReadMembers
  <2>2. QED
    BY <1>0, <1>1, <2>1, StoresSame, ConsumerQuiet DEF ShownOK, RowShown, DynShown, SavingLabels
<1>4. CASE ReadMemberAccounts
  <2>1. pc'[Consumer] = "saveMembers" /\ pc[Consumer] = "readMembers"
          /\ seen' = seen /\ accounts' = DelegationAccounts
    BY <1>4, LabelMoves, DaoWorkers DEF ReadMemberAccounts, ConsumerAt
  <2>2. QED
    BY <1>0, <1>1, <2>1, StoresSame, ConsumerQuiet DEF ShownOK, RowShown, DynShown, SavingLabels
<1>5. QED
  BY <1>2, <1>3, <1>4

LEMMA HandleShown ==
  ASSUME DaoBase, ShownOK, HandleStep
  PROVE  ShownOK'
<1>1. SaveDaoSql => Passes(TRUE) \/ Receipt.kind = "create"
  BY DEF SaveDaoSql
<1>2. ReadAmounts => Passes(TRUE) \/ SaveNext(DelegatedAmounts)
  BY DEF ReadAmounts
<1>3. QED
  BY <1>1, <1>2, ConsumerBeginsShown, ReadDaoShown, ReadAccountsShown, SaveDaoDynShown, PassingShown,
     SaveNewDaoShown, ReadDelegationsShown, WriteDelegationsShown, SaveDelegationSqlShown,
     ReadingShown DEF HandleStep

LEMMA ShownStep ==
  ASSUME DaoBase, ShownOK, Next
  PROVE  ShownOK'
<1>1. CASE VersionsStep
  BY <1>1, ConsumerVersionShown, TimerShown, DaoWorkers DEF VersionsStep
<1>2. QED
  BY <1>1, DaoSteps, BlockShown, CrashShown, HandleShown, TimerShown, RequestShown, PollShown

LEMMA InitShown ==
  ASSUME Init
  PROVE  ShownOK
<1>1. scenario \in Scenarios /\ chain = <<Genesis(scenario.migrated)>>
        /\ \A w \in Workers : pc[w] = "off"
  BY DEF Init
<1>2. scenario.migrated \in BOOLEAN
  BY <1>1, DaoScenario
<1>3. CASE scenario.migrated
  <2>1. /\ sql = MigratedRow /\ dyn = MigratedItem /\ next = 2
        /\ Known(sqlDelegations) = {}
    BY <1>3 DEF Init, Known, NoDelegations
  <2>2. sql # None /\ dyn # None
    BY <2>1, DaoFirstRecords, NoneAssumption
  <2>3. \A d : Shows(sql, 1, d) /\ Shows(dyn, 1, d)
    <3>1. chain[1].policy = 0 /\ chain[1].staking = TRUE
      BY <1>1, <1>3 DEF Genesis
    <3>2. QED
      BY <2>1, <2>2, <3>1 DEF Shows, MigratedRow, MigratedItem
  <2>4. QED
    BY <1>1, <2>1, <2>3, DaoWorkers DEF ShownOK, PollsOK, AsksOK, SqlShown, RowShown, DynShown,
       NearlyShows, SavingLabels
<1>4. CASE ~scenario.migrated
  <2>1. /\ sql = None /\ dyn = None /\ next = 1
        /\ Known(sqlDelegations) = {}
    BY <1>4 DEF Init, Known, NoDelegations
  <2>2. QED
    BY <1>1, <2>1, DaoWorkers DEF ShownOK, PollsOK, AsksOK, SqlShown, RowShown, DynShown,
       NearlyShows, SavingLabels
<1>5. QED
  BY <1>3, <1>4
-----------------------------------------------------------------------------
\* Only the consumer passes receipts, at one of these steps.
LEMMA NextPasses ==
  ASSUME DaoBase, Next, next' # next
  PROVE  /\ pc[Consumer] # "off"
         /\ \/ SaveDaoId \/ SaveMembers \/ NoDelegationsThrows
            \/ (SaveDaoSql /\ Passes(TRUE)) \/ (ReadAmounts /\ Passes(TRUE))
<1>1. HandleStep
  <2>1. CASE Block \/ Deploy \/ Crash
    BY <2>1 DEF Block, Deploy, Crash
  <2>2. CASE VersionsStep \/ \E w \in Timers : TimerFires(w)
    BY <2>2, VersionStays, DaoWorkers DEF VersionsStep
  <2>3. CASE (\E w \in Requests : Request(w)) \/ \E w \in Pollers : Poll(w)
    BY <2>3, RequestStays, PollStays
  <2>4. QED
    BY <2>1, <2>2, <2>3, DaoSteps
<1> USE DEF ConsumerAt
<1>2. CASE ConsumerBegins \/ ReadDao \/ ReadAccounts \/ SaveDaoDyn \/ ReadDelegations
             \/ WriteDelegations \/ ReadExisting \/ ReadMembers \/ ReadMemberAccounts
  BY <1>2 DEF ConsumerBegins, ReadDao, ReadAccounts, SaveDaoDyn, ReadDelegations, WriteDelegations,
     ReadExisting, ReadMembers, ReadMemberAccounts
<1>3. CASE SaveDelegationSql
  BY <1>3 DEF SaveDelegationSql
<1>4. CASE SaveDaoSql \/ ReadAmounts \/ SaveDaoId \/ SaveMembers \/ NoDelegationsThrows
  BY <1>4 DEF SaveDaoSql, ReadAmounts, SaveDaoId, SaveMembers, NoDelegationsThrows
<1>5. QED
  BY <1>1, <1>2, <1>3, <1>4 DEF HandleStep

LEMMA PassedShows ==
  ASSUME DaoBase, ShownOK, Next, next' # next
  PROVE  PassShows
<1>1. /\ pc[Consumer] # "off"
      /\ SaveDaoId \/ SaveMembers \/ NoDelegationsThrows \/ SaveDaoSql \/ ReadAmounts
  BY NextPasses
<1>2. CASE NoDelegationsThrows \/ ReadAmounts
  BY <1>2, DelegateReturnsShows DEF NoDelegationsThrows, ReadAmounts, contract, sqlTables, daoItem,
     bounds, DelegateLabels, ConsumerAt
<1>3. QED
  BY <1>1, <1>2, SaveDaoIdShows, SaveMembersShows, SaveDaoSqlShows

-----------------------------------------------------------------------------
(* The staking contract and the delegations of the item stay known         *)

LEMMA ItemDelegationsStay ==
  ASSUME DaoBase, dyn # None, dyn.delegations # None, Next
  PROVE  dyn'.delegations # None
<1> USE NoneAssumption
<1>1. CASE Block \/ Deploy \/ Crash
  BY <1>1 DEF Block, Deploy, Crash, daoItem
<1>2. CASE HandleStep
  <2>1. CASE SaveDaoDyn
    BY <2>1, SaveDaoDynEffect
  <2>2. CASE WriteDelegations
    BY <2>2, WriteDelegationsEffect
  <2>3. CASE ~SaveDaoDyn /\ ~WriteDelegations
    BY <1>2, <2>3 DEF HandleStep, ConsumerBegins, ReadDao, ReadAccounts, SaveDaoSql, SaveDaoId,
       ReadDelegations, NoDelegationsThrows, SaveDelegationSql, ReadExisting, ReadAmounts,
       ReadMembers, ReadMemberAccounts, SaveMembers, daoItem
  <2>4. QED
    BY <2>1, <2>2, <2>3
<1>3. CASE VersionsStep \/ \E w \in Timers : TimerFires(w)
  BY <1>3, VersionShows, DaoWorkers DEF VersionsStep
<1>4. CASE \E w \in Requests : Request(w)
  <2>1. PICK w \in Requests : Request(w)
    BY <1>4
  <2>2. CASE WriteItem(w)
    BY <2>2, WriteItemEffect
  <2>3. CASE SaveSettingsDyn(w)
    BY <2>3, SaveSettingsDynEffect
  <2>4. QED
    BY <2>1, <2>2, <2>3 DEF Request, RequestBegins, ReadItem, WriteSubscription, ReadSettings,
       SaveSettingsSql, RequestFails, daoItem
<1>5. CASE \E w \in Pollers : Poll(w)
  BY <1>5, PollStays
<1>6. QED
  BY <1>1, <1>2, <1>3, <1>4, <1>5, DaoSteps

LEMMA StakingBeside ==
  ASSUME DaoBase, StakingOK, Stays(Consumer), sql'.staking = TRUE,
         \A u \in Pollers : pc'[u] = "pollWrite" => seen'[u].staking = TRUE
  PROVE  StakingOK'
BY DEF StakingOK, Stays

LEMMA StakingHandled ==
  ASSUME DaoBase, StakingOK, HandleStep, next > 1, ~scenario.daoDynamo
  PROVE  StakingOK'
<1> USE DaoWorkers
<1>1. \A w \in Pollers : pc'[w] = "pollWrite" => seen'[w].staking = TRUE
  BY HandleStays DEF StakingOK, Stays
<1>2. Stored = sql /\ sql \in Rows
  BY DaoThere DEF Stored
<1>4. ASSUME sql' = sql, \/ pc'[Consumer] \notin {"accounts", "readMembers", "saveMembers"} \cup SavingLabels
                         \/ seen'[Consumer].staking = TRUE
      PROVE  StakingOK'
  BY <1>1, <1>4 DEF StakingOK
<1>5. CASE ConsumerBegins
  <2>1. Receipt.kind # "create" /\ sql' = sql
    BY <1>5, DaoReceipt DEF ConsumerBegins, sqlTables
  <2>2. pc'[Consumer] \in {"readDao", "delRead"}
    BY <1>5, <2>1, LabelMoves DEF ConsumerBegins, FirstLabel
  <2>3. QED
    BY <1>4, <2>1, <2>2 DEF SavingLabels
<1>6. CASE ReadDao
  <2>1. PICK r \in Rows : r = sql /\ r.staking = TRUE
    BY <1>2 DEF StakingOK
  <2>2. seen'[Consumer] = [r EXCEPT !.amount = Len(chain)] /\ sql' = sql
    BY <1>2, <1>6, <2>1, DaoTypes DEF ReadDao, sqlTables
  <2>3. seen'[Consumer].staking = TRUE
    BY <2>1, <2>2 DEF Rows
  <2>4. QED
    BY <1>4, <2>2, <2>3
<1>7. CASE ReadAccounts \/ SaveDaoDyn
  <2>1. seen' = seen /\ sql' = sql /\ seen[Consumer].staking = TRUE
    BY <1>7 DEF ReadAccounts, SaveDaoDyn, ConsumerAt, StakingOK, SavingLabels, sqlTables, memory
  <2>2. QED
    BY <1>4, <2>1
<1>8. CASE SaveDaoSql
  <2>1. Receipt.kind # "create" /\ pc[Consumer] = "daoSql"
    BY <1>8, ConsumerPlace, NextBlock, ShownPlace DEF SaveDaoSql, ConsumerAt
  <2>2. seen[Consumer].staking = TRUE /\ seen[Consumer] # None
    BY <2>1, NoneAssumption DEF StakingOK, SavingLabels, DaoBase, ConsumerOK
  <2>3. RowToSave.staking = TRUE
    BY <2>1, <2>2 DEF RowToSave
  <2>4. sql'.staking = TRUE
    BY <1>8, <2>3, SaveDaoSqlEffect DEF SameColumns, Columns
  <2>5. pc'[Consumer] = "off"
    BY <1>8, <2>1, PassesStays DEF SaveDaoSql
  <2>6. QED
    BY <1>1, <2>4, <2>5 DEF StakingOK, SavingLabels
<1>9. CASE SaveDaoId \/ NoDelegationsThrows
  <2>1. pc'[Consumer] = "off" /\ sql' = sql
    BY <1>9, PassesStays DEF SaveDaoId, NoDelegationsThrows, sqlTables
  <2>2. QED
    BY <1>4, <2>1 DEF SavingLabels
<1>10. CASE ReadDelegations \/ WriteDelegations \/ ReadExisting \/ SaveDelegationSql
  <2>1. pc'[Consumer] \in {"delSql", "delWrite", "delegatedAmounts", "existing", "readRow", "delRead"}
          /\ sql' = sql
    BY <1>10, LabelMoves DEF ReadDelegations, WriteDelegations, ReadExisting, SaveDelegationSql,
       SaveNext, sqlTables
  <2>2. QED
    BY <1>4, <2>1 DEF SavingLabels
<1>11. CASE ReadAmounts
  <2>1. pc'[Consumer] \in {"off", "delRead"} /\ sql' = sql
    BY <1>11, LabelMoves, PassesStays DEF ReadAmounts, SaveNext, sqlTables
  <2>2. QED
    BY <1>4, <2>1 DEF SavingLabels
<1>12. CASE ReadMembers
  <2>1. seen'[Consumer] = sql /\ sql' = sql
    BY <1>12, SeenStays DEF ReadMembers, sqlTables
  <2>2. QED
    BY <1>4, <2>1 DEF StakingOK
<1>13. CASE ReadMemberAccounts
  <2>1. seen' = seen /\ sql' = sql /\ seen[Consumer].staking = TRUE
    BY <1>13 DEF ReadMemberAccounts, ConsumerAt, StakingOK, sqlTables
  <2>2. QED
    BY <1>4, <2>1
<1>14. CASE SaveMembers
  <2>1. seen[Consumer].staking = TRUE /\ pc'[Consumer] = "off"
    BY <1>14, PassesStays DEF SaveMembers, ConsumerAt, StakingOK
  <2>2. sql'.staking = TRUE
    BY <1>14, <2>1, SaveMembersEffect
  <2>3. QED
    BY <1>1, <2>1, <2>2 DEF StakingOK, SavingLabels
<1>15. QED
  BY <1>5, <1>6, <1>7, <1>8, <1>9, <1>10, <1>11, <1>12, <1>13, <1>14 DEF HandleStep

LEMMA StakingStep ==
  ASSUME DaoBase, StakingOK, Next, next > 1, ~scenario.daoDynamo
  PROVE  StakingOK'
<1> USE DaoWorkers
<1>0. sql # None
  BY DaoThere, NoneAssumption
<1>1. CASE Block \/ Deploy
  BY <1>1, StakingBeside DEF Block, Deploy, sqlTables, memory, StakingOK, Stays
<1>2. CASE Crash
  BY <1>2, CrashStays DEF StakingOK, Stays, SavingLabels
<1>3. CASE HandleStep
  BY <1>3, StakingHandled
<1>4. ASSUME NEW w \in Indexer, SetVersion(w) \/ (w \in Timers /\ TimerFires(w))
      PROVE  StakingOK'
  <2>1. sql'.staking = TRUE
    BY <1>0, <1>4, VersionShows DEF SameShown, StakingOK
  <2>2. \A u \in Pollers : pc'[u] = "pollWrite" => seen'[u].staking = TRUE
    BY <1>4, VersionStays DEF StakingOK, Stays
  <2>3. w = Consumer => pc'[w] \in {"off", "ids"} \cup VersionLabels
    BY <1>4, VersionStays
  <2>4. w # Consumer => Stays(Consumer)
    BY <1>4, VersionStays
  <2>5. QED
    BY <2>1, <2>2, <2>3, <2>4, StakingBeside DEF StakingOK, VersionLabels, SavingLabels
<1>5. ASSUME NEW w \in Requests, Request(w) PROVE StakingOK'
  BY <1>5, RequestStays, StakingBeside DEF StakingOK, Stays
<1>6. ASSUME NEW w \in Pollers, Poll(w) PROVE StakingOK'
  <2>1. /\ \A u \in Workers \ {w} : Stays(u)
        /\ pc'[w] = "pollWrite" => seen'[w] = sql /\ sql' = sql
    BY <1>6, PollStays
  <2>2. sql'.staking = TRUE
    <3>1. CASE PollWrite(w)
      <4>1. seen[w].staking = TRUE
        BY <3>1 DEF PollWrite, StakingOK
      <4>2. QED
        BY <3>1, <4>1, PollWriteEffect DEF StakingOK
    <3>2. CASE PollBegins(w) \/ PollSkips(w)
      BY <3>2 DEF PollBegins, PollSkips, StakingOK, sqlTables
    <3>3. QED
      BY <1>6, <3>1, <3>2 DEF Poll
  <2>3. QED
    BY <2>1, <2>2, StakingBeside DEF StakingOK, Stays
<1>7. QED
  BY <1>1, <1>2, <1>3, <1>4, <1>5, <1>6, DaoSteps DEF VersionsStep
-----------------------------------------------------------------------------
(* The delegations in PostgreSQL: steps of the others                      *)

LEMMA BalanceStays ==
  ASSUME NEW k, NEW a, chain'[k] = chain[k]
  PROVE  Balance(k, a)' = Balance(k, a)
BY DEF Balance

LEMMA SinceShrinks ==
  ASSUME DaoBase, NEW k \in Nat \ {0}, NEW u, NEW a,
         \A i \in 1 .. Len(chain) : chain'[i] = chain[i], Len(chain') \in Nat,
         Len(chain') >= Len(chain), StakedSince(k, u, a)'
  PROVE  StakedSince(k, u, a)
BY ShownPlace DEF StakedSince

\* A step that is none of the consumer.
LEMMA ExactBeside ==
  ASSUME DaoBase, ExactOK, Stays(Consumer),
         UNCHANGED <<scenario, next, delegating, sqlDelegations>>,
         \A k \in 1 .. Len(chain) : chain'[k] = chain[k], Len(chain') \in Nat,
         Len(chain') >= Len(chain),
         RowDelegations => StakingOK' /\ dyn'.delegations # None
  PROVE  ExactOK'
<1> USE DEF Stays, delegating
<1>1. RowDelegations' <=> RowDelegations
  BY DEF RowDelegations
<1> SUFFICES ASSUME RowDelegations
             PROVE  /\ (next > 1 /\ dyn.delegations # None)'
                    /\ StakingOK' /\ BalancesOK' /\ DelegatorsOK' /\ HalvesOK'
  BY <1>1 DEF ExactOK
<1>2. next > 1 /\ BalancesOK /\ DelegatorsOK /\ HalvesOK /\ next - 1 \in 1 .. Len(chain)
        /\ next \in Nat \ {0} /\ next - 1 \in Nat \ {0} /\ Len(chain) \in Nat
  BY ShownPlace DEF ExactOK
<1>3. \A a : Balance(next - 1, a)' = Balance(next - 1, a)
  BY <1>2, BalanceStays DEF Balance
<1>4. ASSUME next <= Len(chain)
      PROVE  chain'[next] = chain[next] /\ Receipt' = Receipt /\ next <= Len(chain')
               /\ \A a : Balance(next, a)' = Balance(next, a)
  <2>1. chain'[next] = chain[next] /\ next <= Len(chain')
    BY <1>2, <1>4
  <2>2. QED
    BY <2>1 DEF Balance, Receipt
<1>5. BalancesOK'
  BY <1>2, <1>3, <1>4 DEF BalancesOK, Known
<1>6. DelegatorsOK'
  BY <1>2, SinceShrinks DEF DelegatorsOK
<1>7. HalvesOK'
  <2>1. CASE pc[Consumer] \notin DelegateLabels
    BY <2>1 DEF HalvesOK, StoringLabels, MemberLabels, DelegateLabels
  <2>2. CASE pc[Consumer] \in DelegateLabels
    <3>1. Receipt' = Receipt /\ \A a : Balance(next, a)' = Balance(next, a)
      BY <1>4, <2>2, DelegatePlace
    <3>2. \A a : DelegationOf(a)' = DelegationOf(a)
      BY <3>1 DEF DelegationOf
    <3>3. FirstHalf' <=> FirstHalf
      BY <3>1 DEF FirstHalf
    <3>4. FirstSaved' <=> FirstSaved
      BY <3>1 DEF FirstSaved
    <3>5. ExistingRead' <=> ExistingRead
      BY <3>1 DEF ExistingRead
    <3>6. \A rest : AmountsSaved(rest) => AmountsSaved(rest)'
      BY <1>2, <3>1, SinceShrinks DEF AmountsSaved
    <3>7. PICK l, s, t : l = pc[Consumer] /\ s = saving /\ t = todo
      OBVIOUS
    <3>8. l' = l /\ pc'[Consumer] = l /\ saving' = s /\ todo' = t
      BY <3>7
    <3>9. HalvesOK
      BY <1>2
    <3>10. AmountsSaved(t \cup {s.account}) => AmountsSaved(t \cup {s.account})'
      BY <3>6
    <3>11. AmountsSaved({}) => AmountsSaved({})'
      BY <3>6
    <3>12. DelegationOf(s.account)' = DelegationOf(s.account)
      BY <3>2
    <3>13. QED
      BY <3>3, <3>4, <3>5, <3>7, <3>8, <3>9, <3>10, <3>11, <3>12 DEF HalvesOK
  <2>3. QED
    BY <2>1, <2>2
<1>8. QED
  BY <1>2, <1>5, <1>6, <1>7

LEMMA OthersExact ==
  ASSUME DaoBase, ExactOK, Next, ~HandleStep, ~Crash
  PROVE  ExactOK'
<1> USE DaoWorkers
<1>1. RowDelegations => StakingOK' /\ dyn'.delegations # None
  <2>1. SUFFICES ASSUME RowDelegations PROVE StakingOK' /\ dyn'.delegations # None
    OBVIOUS
  <2>2. next > 1 /\ dyn.delegations # None /\ StakingOK /\ ~scenario.daoDynamo
    BY <2>1 DEF ExactOK, RowDelegations
  <2>3. dyn # None
    BY <2>2, DaoThere, NoneAssumption
  <2>4. QED
    BY <2>2, <2>3, StakingStep, ItemDelegationsStay
<1>2. CASE Block \/ Deploy
  <2>1. UNCHANGED <<scenario, next, delegating, sqlDelegations, pc, op, seen>>
    BY <1>2 DEF Block, Deploy, sqlTables, memory, bounds
  <2>2. \A k \in 1 .. Len(chain) : chain'[k] = chain[k]
    BY <1>2, BlockAppends DEF Deploy
  <2>3. Len(chain') \in Nat /\ Len(chain') >= Len(chain)
    BY <1>2, BlockAppends, ShownPlace DEF Deploy
  <2>4. QED
    BY <1>1, <2>1, <2>2, <2>3, ExactBeside DEF Stays
<1>3. ASSUME NEW w \in Workers \ {Consumer}, \A u \in Workers \ {w} : Stays(u),
             UNCHANGED <<chain, scenario, delegating, sqlDelegations, next>>
      PROVE  ExactOK'
  <2>1. Len(chain) \in Nat /\ Stays(Consumer)
    BY <1>3, ShownPlace
  <2>2. QED
    BY <1>1, <1>3, <2>1, ExactBeside
<1>4. CASE \E w \in Timers : TimerFires(w)
  BY <1>3, <1>4, VersionStays
<1>5. CASE VersionsStep
  <2>1. PICK w \in Indexer : SetVersion(w)
    BY <1>5 DEF VersionsStep
  <2>2. CASE w # Consumer
    BY <1>3, <2>1, <2>2, VersionStays
  <2>3. CASE w = Consumer
    <3>1. next = 1
      BY <2>1, <2>3, VersionThere, DaoReceipt DEF SetVersion, ReadVersion, SaveVersionDyn,
         SaveVersionSql, VersionLabels
    <3>2. ~RowDelegations' /\ next' = next
      BY <2>1, <3>1, VersionStays DEF RowDelegations, ExactOK
    <3>3. QED
      BY <3>2 DEF ExactOK
  <2>4. QED
    BY <2>2, <2>3
<1>6. CASE (\E w \in Requests : Request(w)) \/ \E w \in Pollers : Poll(w)
  BY <1>3, <1>6, RequestStays, PollStays
<1>7. QED
  BY <1>2, <1>4, <1>5, <1>6, DaoSteps
-----------------------------------------------------------------------------
(* The delegations in PostgreSQL: steps of the consumer                    *)

\* Apart from the pair of the receipt, nothing that is staked changes.
LEMMA StakedFollows ==
  ASSUME DaoBase, pc[Consumer] # "off", next > 1, NEW u, NEW a,
         Receipt.kind \in Delegating => u # Receipt.by \/ a # Receipt.to
  PROVE  <<u, a>> \in chain[next].staked <=> <<u, a>> \in chain[next - 1].staked
<1>1. BlockFollows(chain[next - 1], Receipt) /\ Receipt = chain[next]
  BY ConsumerPlace, DaoReceipt DEF Receipt
<1>2. CASE Receipt.kind \in Delegating
  BY <1>1, <1>2 DEF BlockFollows
<1>3. CASE Receipt.kind \notin Delegating
  BY <1>1, <1>3 DEF BlockFollows
<1>4. QED
  BY <1>2, <1>3

LEMMA BalanceFollows ==
  ASSUME DaoBase, pc[Consumer] # "off", next > 1, NEW a,
         Receipt.kind \in Delegating => a # Receipt.to
  PROVE  Balance(next, a) = Balance(next - 1, a)
<1>1. \A u \in Users : <<u, a>> \in chain[next].staked <=> <<u, a>> \in chain[next - 1].staked
  BY StakedFollows
<1>2. {u \in Users : <<u, a>> \in chain[next].staked} =
        {u \in Users : <<u, a>> \in chain[next - 1].staked}
  BY <1>1
<1>3. QED
  BY <1>2 DEF Balance

\* What a step that passes a receipt finds in the table.
PassExact ==
  /\ UNCHANGED <<chain, scenario, sqlDelegations>>
  /\ \A a \in Known(sqlDelegations) : sqlDelegations[a].balance = Balance(next, a)
  /\ \A a \in Delegates, u \in Users :
       StakedSince(next, u, a) => u \in Delegators(sqlDelegations[a])

LEMMA HandledExact ==
  ASSUME DaoBase, ExactOK, RowDelegations, pc[Consumer] # "off",
         UNCHANGED <<chain, scenario, sqlDelegations>>,
         Receipt.kind \in Delegating =>
           /\ sqlDelegations[Receipt.to].balance = Balance(next, Receipt.to)
           /\ \A a \in Delegates : StakedSince(next, Receipt.by, a) =>
                Receipt.by \in Delegators(sqlDelegations[a])
  PROVE  PassExact
<1>1. next > 1 /\ BalancesOK /\ DelegatorsOK /\ next \in 1 .. Len(chain) /\ Len(chain) \in Nat
  BY NextBlock, ShownPlace DEF ExactOK
<1>2. ASSUME NEW a \in Known(sqlDelegations)
      PROVE  sqlDelegations[a].balance = Balance(next, a)
  <2>1. CASE Receipt.kind \in Delegating /\ a = Receipt.to
    BY <2>1
  <2>2. CASE ~(Receipt.kind \in Delegating /\ a = Receipt.to)
    BY <1>1, <1>2, <2>2, BalanceFollows DEF BalancesOK
  <2>3. QED
    BY <2>1, <2>2
<1>3. ASSUME NEW a \in Delegates, NEW u \in Users, StakedSince(next, u, a)
      PROVE  u \in Delegators(sqlDelegations[a])
  <2>1. CASE Receipt.kind \in Delegating /\ u = Receipt.by
    BY <1>3, <2>1
  <2>2. CASE ~(Receipt.kind \in Delegating /\ u = Receipt.by)
    <3>1. <<u, a>> \in chain[next].staked
      BY <1>1, <1>3 DEF StakedSince
    <3>2. <<u, a>> \in chain[next - 1].staked
      BY <1>1, <2>2, <3>1, StakedFollows
    <3>3. StakedSince(next - 1, u, a)
      BY <1>1, <1>3, <3>2 DEF StakedSince
    <3>4. QED
      BY <1>1, <3>3 DEF DelegatorsOK
  <2>3. QED
    BY <2>1, <2>2
<1>4. QED
  BY <1>2, <1>3 DEF PassExact

\* With delegations in the item, no receipt is passed unhandled.
LEMMA PassedExact ==
  ASSUME DaoBase, ExactOK, RowDelegations, Next, next' # next
  PROVE  PassExact
<1> USE DEF ConsumerAt
<1>0. next > 1 /\ HalvesOK /\ StakingOK /\ dyn.delegations # None /\ Stored = sql /\ next \in Nat
  BY ShownPlace DEF ExactOK, RowDelegations, Stored
<1>1. /\ pc[Consumer] # "off"
      /\ \/ SaveDaoId \/ SaveMembers \/ NoDelegationsThrows
         \/ (SaveDaoSql /\ Passes(TRUE)) \/ (ReadAmounts /\ Passes(TRUE))
  BY NextPasses
<1>2. CASE SaveDaoId
  BY <1>0, <1>2, ConsumerPlace, NextBlock DEF SaveDaoId, ConsumerLabels, SavingLabels,
     DelegateLabels
<1>3. CASE NoDelegationsThrows
  BY <1>0, <1>3 DEF NoDelegationsThrows
<1>4. CASE SaveDaoSql
  <2>1. Receipt.kind \notin Delegating
    BY <1>4, ConsumerPlace DEF SaveDaoSql, ConsumerLabels, DelegateLabels
  <2>2. UNCHANGED <<chain, scenario, sqlDelegations>>
    BY <1>4 DEF SaveDaoSql, contract, bounds
  <2>3. QED
    BY <1>1, <2>1, <2>2, HandledExact
<1>5. CASE SaveMembers
  <2>1. FirstSaved /\ AmountsSaved({})
    BY <1>0, <1>5 DEF SaveMembers, HalvesOK, MemberLabels
  <2>2. UNCHANGED <<chain, scenario, sqlDelegations>>
    BY <1>5 DEF SaveMembers, contract, bounds
  <2>3. QED
    BY <1>1, <2>1, <2>2, HandledExact DEF FirstSaved, AmountsSaved
<1>6. CASE ReadAmounts /\ Passes(TRUE)
  <2>1. FirstSaved /\ pc[Consumer] = "delegatedAmounts"
    BY <1>0, <1>6 DEF ReadAmounts, HalvesOK
  <2>2. UNCHANGED <<chain, scenario, sqlDelegations>>
    BY <1>6 DEF ReadAmounts, contract, sqlTables, bounds
  <2>3. DelegatedAmounts = {}
    <3>1. ~SaveNext(DelegatedAmounts)
      <4>1. SaveNext(DelegatedAmounts) => pc'[Consumer] = "delRead"
        BY LabelMoves, DaoWorkers DEF SaveNext
      <4>2. pc'[Consumer] = "off"
        BY <1>6, PassesStays
      <4>3. QED
        BY <4>1, <4>2
    <3>2. Stored.staking = TRUE
      BY <1>0 DEF StakingOK
    <3>3. QED
      BY <1>6, <3>1, <3>2 DEF ReadAmounts
  <2>4. ASSUME NEW a \in Delegates, StakedSince(next, Receipt.by, a)
        PROVE  FALSE
    <3>1. <<Receipt.by, a>> \in chain[Len(chain)].staked
      BY <1>1, <2>4, NextBlock, ShownPlace DEF StakedSince
    <3>2. QED
      BY <2>3, <3>1 DEF DelegatedAmounts, Now
  <2>5. QED
    BY <1>1, <2>1, <2>2, <2>4, HandledExact DEF FirstSaved
<1>7. QED
  BY <1>1, <1>2, <1>3, <1>4, <1>5, <1>6

LEMMA PassingExact ==
  ASSUME DaoBase, ExactOK, Next, next' # next
  PROVE  ExactOK'
<1>1. pc'[Consumer] = "off" /\ next' = next + 1 /\ UNCHANGED <<chain, scenario>>
  <2>1. PICK ok \in BOOLEAN : Passes(ok) /\ HandleStep
    BY NextPasses DEF SaveDaoId, SaveMembers, NoDelegationsThrows, HandleStep
  <2>2. QED
    BY <2>1, PassesStays, HandleStays
<1>2. RowDelegations' <=> RowDelegations
  BY <1>1 DEF RowDelegations
<1> SUFFICES ASSUME RowDelegations
             PROVE  /\ (next > 1 /\ dyn.delegations # None)'
                    /\ StakingOK' /\ BalancesOK' /\ DelegatorsOK' /\ HalvesOK'
  BY <1>2 DEF ExactOK
<1>3. PassExact
  BY PassedExact
<1>4. next > 1 /\ next \in Nat /\ next' \in Nat /\ next' > 1 /\ next' - 1 = next
  BY <1>1, ShownPlace DEF ExactOK
<1>5. StakingOK' /\ dyn'.delegations # None
  <2>1. dyn # None /\ ~scenario.daoDynamo /\ dyn.delegations # None /\ StakingOK
    BY <1>4, DaoThere, NoneAssumption DEF ExactOK, RowDelegations
  <2>2. QED
    BY <1>4, <2>1, StakingStep, ItemDelegationsStay
<1>6. BalancesOK'
  BY <1>1, <1>3, <1>4 DEF PassExact, BalancesOK, Balance, Known
<1>7. DelegatorsOK'
  BY <1>1, <1>3, <1>4 DEF PassExact, DelegatorsOK, StakedSince
<1>8. HalvesOK'
  BY <1>1 DEF HalvesOK, StoringLabels, MemberLabels
<1>9. QED
  BY <1>4, <1>5, <1>6, <1>7, <1>8
-----------------------------------------------------------------------------
LEMMA SameReceipt ==
  ASSUME DaoBase, UNCHANGED <<chain, next>>
  PROVE  /\ Receipt' = Receipt
         /\ \A k, a : Balance(k, a)' = Balance(k, a)
         /\ \A k, u, a : StakedSince(k, u, a)' <=> StakedSince(k, u, a)
BY DEF Receipt, Balance, StakedSince

\* A step of the consumer, or a restart, that passes no receipt.
LEMMA WorkingExact ==
  ASSUME DaoBase, ExactOK, Next, UNCHANGED <<chain, scenario, next>>,
         RowDelegations => BalancesOK' /\ DelegatorsOK' /\ HalvesOK'
  PROVE  ExactOK'
<1>1. RowDelegations' <=> RowDelegations
  BY DEF RowDelegations
<1>2. ASSUME RowDelegations PROVE next > 1 /\ StakingOK' /\ dyn'.delegations # None
  <2>1. dyn # None /\ ~scenario.daoDynamo /\ dyn.delegations # None /\ StakingOK /\ next > 1
    BY <1>2, DaoThere, NoneAssumption DEF ExactOK, RowDelegations
  <2>2. QED
    BY <2>1, StakingStep, ItemDelegationsStay
<1>3. QED
  BY <1>1, <1>2 DEF ExactOK

LEMMA TableStays ==
  ASSUME DaoBase, ExactOK, RowDelegations, UNCHANGED <<chain, next, sqlDelegations>>
  PROVE  BalancesOK' /\ DelegatorsOK'
<1>1. BalancesOK /\ DelegatorsOK
  BY DEF ExactOK
<1>2. BalancesOK'
  BY <1>1 DEF BalancesOK, Balance, Known
<1>3. DelegatorsOK'
  BY <1>1 DEF DelegatorsOK, StakedSince
<1>4. QED
  BY <1>2, <1>3

LEMMA CrashExact ==
  ASSUME DaoBase, ExactOK, Crash
  PROVE  ExactOK'
<1>1. Next
  BY DEF Next
<1>2. pc'[Consumer] = "off" /\ UNCHANGED <<chain, scenario, next, sqlDelegations>>
  BY CrashStays
<1>3. HalvesOK'
  BY <1>2 DEF HalvesOK, StoringLabels, MemberLabels
<1>4. QED
  BY <1>1, <1>2, <1>3, TableStays, WorkingExact

\* The halves of delegations, while the table stays.
LEMMA HalvesStay ==
  ASSUME DaoBase, UNCHANGED <<chain, next, sqlDelegations, existing>>
  PROVE  /\ FirstSaved' <=> FirstSaved
         /\ ExistingRead' <=> ExistingRead
         /\ \A rest : AmountsSaved(rest)' <=> AmountsSaved(rest)
         /\ \A a : DelegationOf(a)' = DelegationOf(a)
<1>1. /\ Receipt' = Receipt
      /\ \A k, a : Balance(k, a)' = Balance(k, a)
      /\ \A k, u, a : StakedSince(k, u, a)' <=> StakedSince(k, u, a)
  BY SameReceipt
<1>2. FirstSaved' <=> FirstSaved
  BY <1>1 DEF FirstSaved
<1>3. ExistingRead' <=> ExistingRead
  BY <1>1 DEF ExistingRead
<1>4. \A rest : AmountsSaved(rest)' <=> AmountsSaved(rest)
  BY <1>1 DEF AmountsSaved
<1>5. \A a : DelegationOf(a)' = DelegationOf(a)
  BY <1>1 DEF DelegationOf
<1>6. QED
  BY <1>2, <1>3, <1>4, <1>5

\* The next half is chosen.
LEMMA NextHalf ==
  ASSUME DaoBase, pc[Consumer] \in DelegateLabels, NEW accs \in SUBSET Delegates,
         SaveNext(accs), UNCHANGED <<chain, next, existing>>,
         FirstSaved', ExistingRead', AmountsSaved(accs)'
  PROVE  HalvesOK'
<1>1. PICK a \in accs : saving' = DelegationOf(a) /\ todo' = accs \ {a}
                          /\ GoesOn(Consumer, "delRead")
  BY DEF SaveNext
<1>2. pc'[Consumer] = "delRead"
  BY <1>1, LabelMoves, DaoWorkers
<1>3. saving'.account = a /\ saving'.delegators # None
  BY <1>1, DelegationOfType, NoneAssumption
<1>4. DelegationOf(a)' = DelegationOf(a)
  BY SameReceipt DEF DelegationOf
<1>5. todo' \cup {saving'.account} = accs
  BY <1>1, <1>3
<1>6. saving' = DelegationOf(saving.account)'
  BY <1>1, <1>3, <1>4
<1>7. QED
  BY <1>2, <1>3, <1>5, <1>6 DEF HalvesOK, StoringLabels, MemberLabels

LEMMA SaveHalfExact ==
  ASSUME DaoBase, ExactOK, SaveDelegationSql
  PROVE  ExactOK'
<1>0. Next /\ pc[Consumer] = "delSql" /\ UNCHANGED <<chain, scenario, next, existing>>
        /\ pc[Consumer] \in DelegateLabels
  BY DEF SaveDelegationSql, Next, Handle, HandleDelegation, ConsumerAt, contract, bounds, DelegateLabels
<1> SUFFICES ASSUME RowDelegations PROVE BalancesOK' /\ DelegatorsOK' /\ HalvesOK'
  BY <1>0, WorkingExact
<1> DEFINE t == Receipt.to
           b == saving.account
<1>1. /\ next \in 2 .. Len(chain) /\ Receipt.kind \in Delegating /\ Receipt.by \in Users
      /\ t \in Delegates /\ next <= Len(chain)
  BY <1>0, DelegatePlace
<1>2. HalvesOK /\ BalancesOK /\ DelegatorsOK
  BY DEF ExactOK
<1>3. /\ b \in Delegates
      /\ sqlDelegations'[b] = MergedDelegation(sqlDelegations[b], saving)
      /\ \A a \in Delegates \ {b} : sqlDelegations'[a] = sqlDelegations[a]
  BY SaveDelegationSqlEffect
<1>4. \A a : Balance(next, a) # None
  BY DaoBalance, NoneAssumption
<1>5. saving.delegators = None \/ saving.delegators # None
  OBVIOUS
<1>6. /\ sqlDelegations'[b].account = b
      /\ sqlDelegations'[b].balance = Balance(next, b)
      /\ Delegators(sqlDelegations[b]) \subseteq Delegators(sqlDelegations'[b])
      /\ saving.delegators = None => b = t
      /\ saving.delegators = None =>
           Delegators(sqlDelegations'[b]) = Delegators(sqlDelegations[b])
      /\ saving.delegators # None =>
           Delegators(sqlDelegations'[b]) = Delegators(existing[b]) \cup {Receipt.by}
  <2>1. CASE saving.delegators = None
    <3>1. b = t /\ saving.balance = Balance(next, t)
      BY <1>0, <1>2, <2>1 DEF HalvesOK, StoringLabels, FirstHalf
    <3>2. QED
      BY <1>3, <1>4, <2>1, <3>1 DEF MergedDelegation, Delegators
  <2>2. CASE saving.delegators # None
    <3>1. saving = DelegationOf(b) /\ FirstSaved /\ ExistingRead
      BY <1>0, <1>2, <2>2 DEF HalvesOK, StoringLabels
    <3>2. /\ saving.balance = IF b = t THEN None ELSE Balance(next, b)
          /\ saving.delegators = Delegators(existing[b]) \cup {Receipt.by}
      BY <1>0, <1>3, <3>1, DelegationOfType
    <3>3. sqlDelegations'[b].balance = Balance(next, b) /\ sqlDelegations'[b].account = b
      BY <1>3, <1>4, <3>1, <3>2 DEF MergedDelegation, FirstSaved
    <3>4. Delegators(sqlDelegations'[b]) = Delegators(existing[b]) \cup {Receipt.by}
      BY <1>3, <2>2, <3>2 DEF MergedDelegation, Delegators
    <3>5. QED
      BY <1>3, <2>2, <3>1, <3>3, <3>4 DEF ExistingRead
  <2>3. QED
    BY <1>5, <2>1, <2>2
<1>7. \A a \in Delegates : Delegators(sqlDelegations[a]) \subseteq Delegators(sqlDelegations'[a])
  BY <1>3, <1>6
<1>8. /\ Receipt' = Receipt
      /\ \A k, a : Balance(k, a)' = Balance(k, a)
      /\ \A k, u, a : StakedSince(k, u, a)' <=> StakedSince(k, u, a)
  BY <1>0, SameReceipt
<1>9. BalancesOK'
  <2>1. SUFFICES ASSUME NEW a \in Known(sqlDelegations')
                 PROVE  \/ sqlDelegations'[a].balance = Balance(next - 1, a)
                        \/ sqlDelegations'[a].balance = Balance(next, a)
    <3>1. \A a : Balance(next - 1, a)' = Balance(next - 1, a) /\ Balance(next, a)' = Balance(next, a)
      BY <1>0 DEF Balance
    <3>2. QED
      BY <1>0, <1>1, <3>1 DEF BalancesOK, Known
  <2>2. CASE a = b
    BY <1>6, <2>2
  <2>3. CASE a # b
    BY <1>2, <1>3, <2>1, <2>3 DEF BalancesOK, Known
  <2>4. QED
    BY <2>2, <2>3
<1>10. DelegatorsOK'
  <2>1. \A u, a : StakedSince(next - 1, u, a)' <=> StakedSince(next - 1, u, a)
    BY <1>0 DEF StakedSince
  <2>2. QED
    BY <1>2, <1>7, <2>1 DEF DelegatorsOK
<1>11. HalvesOK'
  <2>1. CASE saving.delegators = None
    <3>1. pc'[Consumer] = "existing"
      BY <2>1, LabelMoves, DaoWorkers DEF SaveDelegationSql
    <3>2. FirstSaved'
      BY <1>0, <1>6, <1>8, <2>1 DEF FirstSaved
    <3>3. QED
      BY <3>1, <3>2 DEF HalvesOK, StoringLabels, MemberLabels
  <2>2. CASE saving.delegators # None
    <3>1. FirstSaved /\ ExistingRead /\ AmountsSaved(todo \cup {b})
      BY <1>0, <1>2, <2>2 DEF HalvesOK, StoringLabels
    <3>2. FirstSaved'
      <4>1. sqlDelegations'[t].account = t /\ sqlDelegations'[t].balance = Balance(next, t)
        BY <1>1, <1>3, <1>6, <3>1 DEF FirstSaved
      <4>2. QED
        BY <1>0, <1>8, <4>1 DEF FirstSaved
    <3>3. ExistingRead'
      <4>1. \A a \in Delegates : Delegators(sqlDelegations'[a]) \subseteq
                                   Delegators(existing[a]) \cup {Receipt.by}
        BY <1>3, <1>6, <2>2, <3>1 DEF ExistingRead
      <4>2. QED
        BY <1>0, <1>8, <4>1 DEF ExistingRead
    <3>4. PICK rest : rest = todo
      OBVIOUS
    <3>5. AmountsSaved(rest)'
      <4>1. \A a \in Delegates :
              StakedSince(next, Receipt.by, a) =>
                a \in rest \/ Receipt.by \in Delegators(sqlDelegations'[a])
        BY <1>6, <1>7, <2>2, <3>1, <3>4 DEF AmountsSaved
      <4>2. QED
        BY <1>0, <1>8, <4>1 DEF AmountsSaved
    <3>6. CASE todo = {}
      <4>1. pc'[Consumer] = "readRow"
        BY <2>2, <3>6, LabelMoves, DaoWorkers DEF SaveDelegationSql
      <4>2. AmountsSaved({})'
        BY <3>4, <3>5, <3>6
      <4>3. QED
        BY <3>2, <3>3, <4>1, <4>2 DEF HalvesOK, StoringLabels, MemberLabels
    <3>7. CASE todo # {}
      <4>1. SaveNext(rest) /\ rest \in SUBSET Delegates
        BY <2>2, <3>4, <3>7, DaoTypes DEF SaveDelegationSql
      <4>2. QED
        BY <1>0, <3>2, <3>3, <3>5, <4>1, NextHalf
    <3>8. QED
      BY <3>6, <3>7
  <2>3. QED
    BY <1>5, <2>1, <2>2
<1>12. QED
  BY <1>9, <1>10, <1>11
LEMMA ReadHalvesExact ==
  ASSUME DaoBase, ExactOK,
         \/ ReadDelegations \/ WriteDelegations \/ ReadExisting \/ ReadMembers
         \/ ReadMemberAccounts
  PROVE  ExactOK'
<1> USE DaoWorkers
<1> USE DEF ConsumerAt, sqlTables, daoItem, bounds, contract, memory, delegating
<1>0. Next /\ UNCHANGED <<chain, scenario, next, sqlDelegations, saving, todo>>
  BY DEF Next, Handle, HandleDelegation, ReadDelegations, WriteDelegations, ReadExisting, ReadMembers,
     ReadMemberAccounts
<1> SUFFICES ASSUME RowDelegations PROVE HalvesOK'
  BY <1>0, WorkingExact, TableStays
<1>1. HalvesOK
  BY DEF ExactOK
<1>2. CASE ReadExisting
  <2>1. pc'[Consumer] = "delegatedAmounts" /\ existing' = sqlDelegations /\ FirstSaved
    BY <1>1, <1>2, LabelMoves DEF ReadExisting, HalvesOK, RowDelegations
  <2>2. FirstSaved'
    BY <1>0, <2>1, SameReceipt DEF FirstSaved
  <2>3. ExistingRead'
    BY <1>0, <2>1, SameReceipt DEF ExistingRead
  <2>4. QED
    BY <2>1, <2>2, <2>3 DEF HalvesOK, StoringLabels, MemberLabels
<1>3. CASE ~ReadExisting
  <2>1. UNCHANGED <<existing>>
    BY <1>3 DEF ReadDelegations, WriteDelegations, ReadMembers, ReadMemberAccounts
  <2>2. \/ pc[Consumer] \in StoringLabels /\ pc'[Consumer] \in StoringLabels
        \/ pc[Consumer] \in MemberLabels /\ pc'[Consumer] \in MemberLabels
    BY <1>3, LabelMoves DEF ReadDelegations, WriteDelegations, ReadMembers, ReadMemberAccounts,
       StoringLabels, MemberLabels
  <2>3. /\ FirstSaved' <=> FirstSaved
        /\ ExistingRead' <=> ExistingRead
        /\ \A rest : AmountsSaved(rest)' <=> AmountsSaved(rest)
        /\ \A a : DelegationOf(a)' = DelegationOf(a)
    BY <1>0, <2>1, HalvesStay
  <2>4. FirstHalf' <=> FirstHalf
    BY <1>0, SameReceipt DEF FirstHalf
  <2>5. PICK s, t : s = saving /\ t = todo /\ saving' = s /\ todo' = t
    BY <1>0
  <2>6. /\ AmountsSaved(t \cup {s.account})' <=> AmountsSaved(t \cup {s.account})
        /\ AmountsSaved({})' <=> AmountsSaved({})
        /\ DelegationOf(s.account)' = DelegationOf(s.account)
    BY <2>3
  <2>7. QED
    BY <1>1, <2>2, <2>3, <2>4, <2>5, <2>6 DEF HalvesOK, StoringLabels, MemberLabels
<1>4. QED
  BY <1>2, <1>3

LEMMA ReadAmountsExact ==
  ASSUME DaoBase, ExactOK, ReadAmounts, next' = next
  PROVE  ExactOK'
<1>0. Next /\ pc[Consumer] = "delegatedAmounts" /\ pc[Consumer] \in DelegateLabels
        /\ UNCHANGED <<chain, scenario, sqlDelegations>>
  BY DEF ReadAmounts, Next, Handle, HandleDelegation, ConsumerAt, contract, sqlTables, bounds, DelegateLabels
<1> SUFFICES ASSUME RowDelegations PROVE HalvesOK'
  BY <1>0, WorkingExact, TableStays
<1>1. FirstSaved /\ ExistingRead
  BY <1>0 DEF ExactOK, HalvesOK
<1>2. ~Passes(TRUE)
  <2>1. next' # next + 1
    BY ShownPlace
  <2>2. QED
    BY <2>1, PassesStays
<1>3. SaveNext(DelegatedAmounts) /\ existing' = existing
  BY <1>2 DEF ReadAmounts
<1>4. PICK rest : rest = DelegatedAmounts
  OBVIOUS
<1>5. AmountsSaved(rest)'
  <2>1. ASSUME NEW a \in Delegates, StakedSince(next, Receipt.by, a) PROVE a \in rest
    <3>1. <<Receipt.by, a>> \in chain[Len(chain)].staked
      BY <1>0, <2>1, NextBlock, ShownPlace DEF StakedSince, DelegateLabels
    <3>2. QED
      BY <1>4, <3>1 DEF DelegatedAmounts, Now
  <2>2. QED
    BY <1>0, <2>1, SameReceipt DEF AmountsSaved
<1>6. FirstSaved' /\ ExistingRead'
  BY <1>0, <1>1, <1>3, HalvesStay
<1>7. rest \in SUBSET Delegates
  BY <1>4 DEF DelegatedAmounts
<1>8. QED
  BY <1>0, <1>3, <1>4, <1>5, <1>6, <1>7, NextHalf

\* A step outside handleDelegate.
LEMMA SavingExact ==
  ASSUME DaoBase, ExactOK, ConsumerBegins \/ ReadDao \/ ReadAccounts \/ SaveDaoDyn
                             \/ (SaveDaoSql /\ next' = next)
  PROVE  ExactOK'
<1> USE DaoWorkers
<1>0. Next /\ UNCHANGED <<chain, scenario, next, sqlDelegations>>
  BY DEF Next, Handle, ConsumerBegins, ReadDao, ReadAccounts, SaveDaoDyn, SaveDaoSql, contract,
     sqlTables, bounds
<1> SUFFICES ASSUME RowDelegations PROVE HalvesOK'
  BY <1>0, WorkingExact, TableStays
<1>1. CASE ConsumerBegins
  <2>1. pc'[Consumer] = FirstLabel(Receipt.kind) /\ next <= Len(chain)
    BY <1>1, LabelMoves DEF ConsumerBegins
  <2>2. CASE Receipt.kind \in Delegating
    <3>1. Receipt.by \in Users /\ Receipt.by # None
      BY <2>1, <2>2, DaoReceipt, NoneAssumption
    <3>2. saving' = [account |-> Receipt.to, balance |-> Balance(next, Receipt.to),
                     delegators |-> None]
      BY <1>1, <3>1 DEF ConsumerBegins
    <3>3. FirstHalf' /\ saving'.delegators = None
      BY <1>0, <3>2, SameReceipt DEF FirstHalf
    <3>4. pc'[Consumer] = "delRead"
      BY <2>1, <2>2 DEF FirstLabel, Delegating
    <3>5. QED
      BY <3>3, <3>4 DEF HalvesOK, StoringLabels, MemberLabels
  <2>3. CASE Receipt.kind \notin Delegating
    BY <2>1, <2>3 DEF FirstLabel, HalvesOK, StoringLabels, MemberLabels
  <2>4. QED
    BY <2>2, <2>3
<1>2. CASE ReadDao \/ ReadAccounts \/ SaveDaoDyn
  <2>1. pc'[Consumer] \in {"accounts", "daoDyn", "daoSql"}
    BY <1>2, LabelMoves DEF ReadDao, ReadAccounts, SaveDaoDyn
  <2>2. QED
    BY <2>1 DEF HalvesOK, StoringLabels, MemberLabels
<1>3. CASE SaveDaoSql /\ next' = next
  <2>1. pc'[Consumer] \in {"off", "version"}
    BY <1>3, LabelMoves, PassesStays DEF SaveDaoSql
  <2>2. QED
    BY <2>1 DEF HalvesOK, StoringLabels, MemberLabels
<1>4. QED
  BY <1>1, <1>2, <1>3

LEMMA ExactStep ==
  ASSUME DaoBase, ExactOK, Next
  PROVE  ExactOK'
<1>1. CASE next' # next
  BY <1>1, PassingExact
<1>2. CASE HandleStep /\ next' = next
  <2>1. ASSUME NEW ok, Passes(ok) PROVE FALSE
    BY <1>2, <2>1, PassesStays, ShownPlace
  <2>2. ~SaveDaoId /\ ~NoDelegationsThrows /\ ~SaveMembers
    BY <2>1 DEF SaveDaoId, NoDelegationsThrows, SaveMembers
  <2>3. QED
    BY <1>2, <2>2, SavingExact, ReadHalvesExact, SaveHalfExact, ReadAmountsExact DEF HandleStep
<1>3. QED
  BY <1>1, <1>2, CrashExact, OthersExact

LEMMA InitExact ==
  ASSUME Init
  PROVE  ExactOK
<1> SUFFICES ASSUME RowDelegations
             PROVE  /\ next > 1 /\ dyn.delegations # None
                    /\ StakingOK /\ BalancesOK /\ DelegatorsOK /\ HalvesOK
  BY DEF ExactOK
<1>1. /\ sql = MigratedRow /\ dyn = MigratedItem /\ next = 2 /\ sqlDelegations = NoDelegations
      /\ chain = <<Genesis(TRUE)>> /\ \A w \in Workers : pc[w] = "off"
  BY DaoScenario DEF Init, RowDelegations
<1>2. next > 1 /\ dyn.delegations # None
  BY <1>1, DaoFirstRecords, NoneAssumption DEF MigratedItem
<1>3. StakingOK
  BY <1>1, DaoWorkers DEF StakingOK, MigratedRow, SavingLabels
<1>4. BalancesOK
  BY <1>1 DEF BalancesOK, Known, NoDelegations
<1>5. DelegatorsOK
  <2>1. chain[1].staked = {} /\ Len(chain) = 1
    BY <1>1 DEF Genesis
  <2>2. ASSUME NEW u, NEW a, StakedSince(next - 1, u, a) PROVE FALSE
    <3>1. next - 1 = 1 /\ 1 \in (next - 1) .. Len(chain)
      BY <1>1, <2>1
    <3>2. <<u, a>> \in chain[1].staked
      BY <2>2, <3>1 DEF StakedSince
    <3>3. QED
      BY <2>1, <3>2
  <2>3. QED
    BY <2>2 DEF DelegatorsOK
<1>6. HalvesOK
  BY <1>1, DaoWorkers DEF HalvesOK, StoringLabels, MemberLabels
<1>7. QED
  BY <1>2, <1>3, <1>4, <1>5, <1>6

-----------------------------------------------------------------------------
(* The theorems                                                            *)

DaoInv ==
  DaoBase /\ SoloOK /\ RepairOK /\ AgreementOK /\ ShownOK /\ ExactOK

\* The invariant of the records of a DAO.
THEOREM DaoInvariant == Spec => []DaoInv
<1>1. Init => DaoInv
  <2> SUFFICES ASSUME Init PROVE DaoInv
    OBVIOUS
  <2>1. DaoBase
    BY DaoInitBase
  <2>2. SoloOK /\ RepairOK
    BY DaoWorkers DEF Init, SoloOK, RepairOK
  <2>3. AgreementOK
    <3>1. ASSUME NEW w \in Requests PROVE AgreeOK(w)
      <4>1. pc[w] = "off" /\ subscriptions = {} /\ sqlSettings = NoSettings
        BY DaoWorkers DEF Init
      <4>2. dyn # None => dyn = MigratedItem
        BY DEF Init
      <4>3. QED
        BY <4>1, <4>2 DEF AgreeOK, MigratedItem
    <3>2. faults = 0
      BY DEF Init
    <3>3. QED
      BY <3>1, <3>2 DEF AgreementOK
  <2>4. QED
    BY <2>1, <2>2, <2>3, InitShown, InitExact DEF DaoInv
<1>2. DaoInv /\ [Next]_vars => DaoInv'
  <2> SUFFICES ASSUME DaoInv, [Next]_vars PROVE DaoInv'
    OBVIOUS
  <2>1. DaoBase'
    BY DaoBaseStep DEF DaoInv
  <2>2. CASE Next
    BY <2>1, <2>2, SoloStep, RepairStep, AgreementStep, ShownStep, ExactStep DEF DaoInv
  <2>3. CASE UNCHANGED vars
    <3>1. UNCHANGED <<chain, sql, sqlDelegations, subscriptions, sqlSettings, dyn, pc, op, seen,
                      delegating, accounts, next, alone, settled, scenario, faults>>
      BY <2>3 DEF vars, contract, sqlTables, daoItem, memory, delegating, bounds
    <3>2. RowToSave' = RowToSave /\ \A w : SettingsOf(w)' = SettingsOf(w)
      BY <3>1 DEF RowToSave, Receipt, LoadedPolicy, SettingsOf
    <3>3. SoloOK' /\ RepairOK'
      BY <3>1, <3>2 DEF DaoInv, SoloOK, RepairOK
    <3>4. \A w : AgreeOK(w) => AgreeOK(w)'
      BY <3>1, <3>2 DEF AgreeOK, FollowersAfter
    <3>5. AgreementOK'
      BY <3>1, <3>4 DEF DaoInv, AgreementOK, OneRequest
    <3>6. (\A u \in Workers : Stays(u)) /\ Len(chain) \in Nat
      BY <3>1, ShownPlace DEF Stays, DaoInv
    <3>7. ShownOK'
      <4>1. PollsOK' /\ AsksOK'
        BY <3>1, <3>6, PollsStay, AsksStay, DaoWorkers DEF DaoInv, ShownOK
      <4>2. QED
        BY <3>1, <3>6, <4>1, ShownBeside, SameShownSelf, DaoWorkers DEF DaoInv
    <3>8. ExactOK'
      <4>1. RowDelegations => StakingOK' /\ dyn'.delegations # None
        BY <3>1 DEF DaoInv, ExactOK, StakingOK
      <4>2. QED
        BY <3>1, <3>6, <4>1, ExactBeside, DaoWorkers DEF DaoInv
    <3>9. QED
      BY <2>1, <3>3, <3>5, <3>7, <3>8 DEF DaoInv
  <2>4. QED
    BY <2>2, <2>3
<1>3. QED
  BY <1>1, <1>2, PTL DEF Spec

\* Whatever stale rows are written back: after a new policy whose handler runs
\* alone, row and item agree on it.
THEOREM PolicyAlwaysRepairs == Spec => []PolicyRepairs
<1>1. DaoInv => PolicyRepairs
  BY DEF DaoInv, RepairOK, PolicyRepairs, SameColumns
<1>2. QED
  BY <1>1, DaoInvariant, PTL

\* Followers and settings agree after requests that are served one at a time.
THEOREM RequestsAlwaysAgree == Spec => []RequestsAgree
<1>1. DaoInv => RequestsAgree
  <2> SUFFICES ASSUME DaoInv, scenario.faults = 0, dyn # None,
                      NEW w \in Requests, Requests = {w}, pc[w] = "off"
               PROVE  dyn.followers = subscriptions /\ dyn.settings = sqlSettings
    BY DEF RequestsAgree
  <2>1. AgreeOK(w)
    BY DEF DaoInv, AgreementOK, OneRequest
  <2>2. QED
    BY <2>1 DEF AgreeOK
<1>2. QED
  BY <1>1, DaoInvariant, PTL

\* Each receipt that is passed is shown by both stores, restarts included.
THEOREM BlocksAlwaysShown == Spec => BlocksShown
<1>1. DaoInv /\ [Next]_vars =>
        [next' # next /\ "status" \notin scenario.polls =>
           /\ scenario.asks = {} \/ ~scenario.daoDynamo
                => Shows(sql', next, DelegationAccounts)
           /\ scenario.asks = {} => Shows(dyn', next, Delegated(dyn'))]_vars
  <2> SUFFICES ASSUME DaoInv, Next, next' # next, "status" \notin scenario.polls
               PROVE  /\ scenario.asks = {} \/ ~scenario.daoDynamo
                           => Shows(sql', next, DelegationAccounts)
                      /\ scenario.asks = {} => Shows(dyn', next, Delegated(dyn'))
    OBVIOUS
  <2>1. PassShows
    BY PassedShows DEF DaoInv
  <2>2. dyn' = dyn
    BY <2>1 DEF PassShows
  <2>3. QED
    BY <2>1, <2>2 DEF PassShows, RowKept, ItemKept
<1>2. QED
  BY <1>1, DaoInvariant, PTL DEF Spec, BlocksShown

\* Each time a receipt is passed, the delegations of PostgreSQL have the
\* balances of its block and lack no delegator.
THEOREM DelegationsAlwaysExact == Spec => DelegationsExact
<1>1. DaoInv /\ [Next]_vars =>
        [next' # next /\ scenario.migrated /\ ~scenario.daoDynamo =>
           \A a \in Known(sqlDelegations') :
             /\ sqlDelegations'[a].balance = Balance(next, a)
             /\ \A u \in Users :
                  (\A k \in next .. Len(chain) : <<u, a>> \in chain[k].staked)
                    => u \in Delegators(sqlDelegations'[a])]_vars
  <2> SUFFICES ASSUME DaoInv, Next, next' # next, scenario.migrated, ~scenario.daoDynamo,
                      NEW a \in Known(sqlDelegations')
               PROVE  /\ sqlDelegations'[a].balance = Balance(next, a)
                      /\ \A u \in Users :
                           (\A k \in next .. Len(chain) : <<u, a>> \in chain[k].staked)
                             => u \in Delegators(sqlDelegations'[a])
    OBVIOUS
  <2>1. PassExact
    BY PassedExact DEF DaoInv, RowDelegations
  <2>2. sqlDelegations' = sqlDelegations /\ a \in Known(sqlDelegations) /\ a \in Delegates
    BY <2>1 DEF PassExact, Known
  <2>3. QED
    BY <2>1, <2>2 DEF PassExact, StakedSince
<1>2. QED
  BY <1>1, DaoInvariant, PTL DEF Spec, DelegationsExact

=============================================================================

----------------------------- MODULE MCRecords ------------------------------
(***************************************************************************)
(* Instances of DaoRecords, BountyRecords and TreasuryRecords, the records *)
(* the indexer keeps of a DAO beside its proposals, for TLC: a behaviour   *)
(* is one of one of the modules, while the others rest.                    *)
(***************************************************************************)
EXTENDS DaoRecords, BountyRecords, TreasuryRecords

CONSTANTS m1, m2

VARIABLE part

\* The second policy replaces a member of the first.
MCGroups == [p \in PolicyIds |-> IF p = 0 THEN {m1} ELSE {m2}]

Quiet ==
  [migrated |-> TRUE, daoDynamo |-> FALSE, settingsDynamo |-> FALSE, kinds |-> {},
   blocks |-> 4, asks |-> {}, polls |-> {}, crashes |-> 0, faults |-> 0]

MCScenarios ==
  \* a new DAO, with a restart
  {[Quiet EXCEPT !.migrated = FALSE, !.daoDynamo = f, !.crashes = 1, !.blocks = 3,
                 !.kinds = {"ChangePolicy", "SetStakingContract", "transfer",
                            "delegate", "UpgradeSelf"}] : f \in BOOLEAN}
  \* delegations, with a restart
  \cup {[Quiet EXCEPT !.daoDynamo = f, !.crashes = 1,
                 !.kinds = {"delegate", "undelegate", "ChangePolicy"}] : f \in BOOLEAN}
  \* followers beside the indexer
  \cup {[Quiet EXCEPT !.daoDynamo = f, !.asks = {"subscribe"},
                 !.blocks = 3, !.kinds = {"ChangePolicy", "delegate"}] : f \in BOOLEAN}
  \cup {[Quiet EXCEPT !.asks = {"subscribe", "unsubscribe"},
                 !.blocks = 2, !.kinds = {"ChangePolicy", "delegate"}]}
  \* settings, followers and upgrades
  \cup {[Quiet EXCEPT !.settingsDynamo = f, !.asks = {"subscribe", "settings", "settingsParam"},
                 !.blocks = 2, !.kinds = {"ChangePolicy", "UpgradeSelf"}] : f \in BOOLEAN}
  \* two upgrades
  \cup {[Quiet EXCEPT !.asks = {"subscribe"}, !.blocks = 3,
                 !.kinds = {"UpgradeSelf"}]}
  \* statuses and funds
  \cup {[Quiet EXCEPT !.polls = {"status", "funds"}, !.asks = {"subscribe"},
                 !.faults = 1, !.blocks = 3, !.kinds = {"ChangePolicy", "transfer"}]}

QuietBounties ==
  [bountyDynamo |-> FALSE, migrated |-> TRUE, kinds |-> {}, receipts |-> 4,
   perBlock |-> 1, others |-> {}, restarts |-> 0]

MCBountyScenarios ==
  UNION {
    \* a claim is made, paid, made again and given up
    {[QuietBounties EXCEPT !.bountyDynamo = f, !.receipts = 6,
        !.kinds = {"claim", "giveup", "addDone", "approve"}],
     \* a bounty is added, or its proposal removed, with a restart
     [QuietBounties EXCEPT !.bountyDynamo = f, !.migrated = FALSE, !.restarts = 1,
        !.kinds = {"addBounty", "approve", "claim", "remove"}],
     \* two receipts in a block, and the wallet callback
     [QuietBounties EXCEPT !.bountyDynamo = f, !.perBlock = 2, !.others = {"callback"},
        !.kinds = {"claim", "giveup"}],
     \* a restart
     [QuietBounties EXCEPT !.bountyDynamo = f, !.restarts = 1,
        !.kinds = {"claim", "giveup"}],
     \* managers, and the aggregator
     [QuietBounties EXCEPT !.bountyDynamo = f, !.others = {"manager"},
        !.kinds = {"claim", "addDone"}],
     [QuietBounties EXCEPT !.bountyDynamo = f, !.others = {"poller"},
        !.kinds = {"claim", "addDone", "approve"}]} : f \in BOOLEAN}

QuietTransfers ==
  [nftDynamo |-> FALSE, what |-> {}, transfers |-> 2, between |-> TRUE, callback |-> FALSE,
   crashes |-> 1, failing |-> FALSE]

MCTransferScenarios ==
  {\* daily balances
   [QuietTransfers EXCEPT !.what = {"near"}, !.transfers = 3, !.between = FALSE],
   [QuietTransfers EXCEPT !.what = {"near", "token"}],
   [QuietTransfers EXCEPT !.what = {"nft"}, !.transfers = 3, !.crashes = 0],
   [QuietTransfers EXCEPT !.what = {"nft"}, !.nftDynamo = TRUE],
   [QuietTransfers EXCEPT !.what = {"token"}, !.callback = TRUE, !.between = FALSE],
   [QuietTransfers EXCEPT !.what = {"nft"}, !.failing = TRUE, !.crashes = 0]}

RecordsInit ==
  /\ part \in {"dao", "bounties", "treasury"}
  /\ Init /\ BountyInit /\ TreasuryInit
  /\ part # "dao" => scenario = CHOOSE s \in Scenarios : TRUE
  /\ part # "bounties" => bounded = CHOOSE s \in BountyScenarios : TRUE
  /\ part # "treasury" => budget = CHOOSE s \in TransferScenarios : TRUE

RecordsNext ==
  /\ part' = part
  /\ \/ part = "dao" /\ Next /\ UNCHANGED <<bountyVars, treasuryVars>>
     \/ part = "bounties" /\ BountyNext /\ UNCHANGED <<vars, treasuryVars>>
     \/ part = "treasury" /\ TreasuryNext /\ UNCHANGED <<vars, bountyVars>>

\* The fairness of DaoRecords; the others have none.
RecordsSpec ==
  /\ RecordsInit /\ [][RecordsNext]_<<part, vars, bountyVars, treasuryVars>>
  /\ WF_vars(part = "dao" /\ Deploy)
  /\ WF_vars(part = "dao" /\ Handle)
  /\ \A w \in Timers : WF_vars(part = "dao" /\ LoadVersion(w))
=============================================================================

--------------------------- MODULE TreasuryRecords ---------------------------
(***************************************************************************)
(* What the indexer stores of the tokens of DAOs: a list of balances in    *)
(* the item of the DAO and a row for each, NFTs, and a receipt for every   *)
(* transfer, from which daily balances are drawn.                          *)
(*                                                                         *)
(* A handler updates the balances of one DAO after the other and goes on   *)
(* when one of them fails; then it stores the receipt and marks it.  The   *)
(* consumer handles receipts in order, and again after a crash; the wallet *)
(* callback handles any that is not marked.  The list of balances is read  *)
(* and written back as a whole.                                            *)
(***************************************************************************)
EXTENDS Integers, Sequences, FiniteSets

CONSTANTS
  Treasuries,   \* DAOs
  Outsider,     \* any other account
  Tokens,       \* fungible tokens
  Nfts,         \* tokens of one NFT contract
  Absent,       \* no balance, owner or worker
  TransferScenarios

Holders == Treasuries \cup {Outsider}
Movers == {"mainConsumer", "walletCallback"}

ASSUME TreasuryAssumption ==
  /\ Outsider \notin Treasuries /\ Absent \notin Holders
  /\ TransferScenarios \subseteq
       [nftDynamo : BOOLEAN,    \* the feature flag of that name
        what : SUBSET {"near", "token", "nft"},   \* what is transferred
        transfers : Nat,
        between : BOOLEAN,      \* whether DAOs transfer to each other
        callback : BOOLEAN,
        crashes : Nat,
        failing : BOOLEAN]      \* whether RPC calls may fail

VARIABLES
  transfers,    \* the receipts, with the balances their block leaves
  balanceItems, \* DynamoDB: the list in the item of each DAO
  balanceRows,  \* PostgreSQL
  nftItems,     \* DynamoDB: NFTs in the partition of each DAO
  nftRows,      \* PostgreSQL: the owner of each NFT
  nftCount,     \* the number of NFTs of each DAO, in both stores
  fundItems,    \* DynamoDB: the receipts in the partition of each DAO
  step,         \* what each worker does next
  transfer,     \* the receipt it handles
  left,         \* the DAOs it still has to update, in order
  got,          \* what it has loaded or read
  settledTransfers,     \* the receipts that are marked
  budget        \* what the scenario still allows

holdings == <<balanceItems, balanceRows, nftItems, nftRows, nftCount, fundItems>>
moving == <<step, transfer, left, got, settledTransfers>>
treasuryVars == <<transfers, holdings, moving, budget>>

-----------------------------------------------------------------------------
(* Transfers                                                               *)

Fresh ==
  [kind |-> "near", from |-> Outsider, to |-> Outsider, token |-> Absent, day |-> 1,
   tokens |-> [t \in Tokens |-> [h \in Treasuries |-> 1]],
   owner |-> [n \in Nfts |-> Outsider]]

Chain == transfers[Len(transfers)]

MovesOf(kind, day) ==
  LET pairs == {p \in Holders \X Holders :
                  /\ p[1] # p[2]
                  /\ (p[1] \in Treasuries /\ p[2] \in Treasuries) => budget.between}
      Move(p, t, tokens, owner) ==
        [kind |-> kind, from |-> p[1], to |-> p[2], token |-> t, day |-> day,
         tokens |-> tokens, owner |-> owner]
      Shifted(b, p) == [h \in Treasuries |-> b[h] + (IF h = p[2] THEN 1 ELSE 0)
                                               - (IF h = p[1] THEN 1 ELSE 0)]
      Spenders == {p \in pairs : p[1] \in Treasuries =>
                                   \A t \in Tokens : Chain.tokens[t][p[1]] > 0}
  IN  IF kind = "near"
      THEN {Move(p, Absent, Chain.tokens, Chain.owner) : p \in pairs}
      ELSE IF kind = "token"
      THEN {Move(p, t, [Chain.tokens EXCEPT ![t] = Shifted(@, p)], Chain.owner) :
              p \in Spenders, t \in Tokens}
      ELSE {Move(f[1], f[2], Chain.tokens, [Chain.owner EXCEPT ![f[2]] = f[1][2]]) :
              f \in {f \in pairs \X Nfts : f[1][1] = Chain.owner[f[2]]}}

Transfer ==
  /\ budget.transfers > 0
  /\ \E kind \in budget.what, day \in {Chain.day, Chain.day + 1} :
       \E m \in MovesOf(kind, day) : transfers' = Append(transfers, m)
  /\ budget' = [budget EXCEPT !.transfers = @ - 1]
  /\ UNCHANGED <<holdings, moving>>

-----------------------------------------------------------------------------
(* Receipts of funds, and the balances drawn from them                     *)

\* saveDaoFunds: one partition, that of the predecessor if it is a DAO.
FundsOwner(m) == IF m.from \in Treasuries THEN m.from ELSE m.to

Moved(m) == m.kind \in {"near", "token"}
            /\ (m.from \in Treasuries \/ m.to \in Treasuries)

\* The receipts of one token, or of NEAR, in the partition of a DAO.
Listed(d, t) == {k \in fundItems[d] : transfers[k].token = t}

Net(d, ks) == Cardinality({k \in ks : transfers[k].to = d})
              - Cardinality({k \in ks : transfers[k].to # d})

\* Mutant: every day starts from nothing.
RunningOfDay(d, t, day) == Net(d, {k \in Listed(d, t) : transfers[k].day = day})

\* The running balance at the end of a day.
Running(d, t, day) == Net(d, {k \in Listed(d, t) : transfers[k].day <= day})

\* The days with a value: a balance of zero is no value.
ValuedDays(d, t, day) ==
  {e \in 1 .. day : /\ \E k \in Listed(d, t) : transfers[k].day = e
                    /\ Running(d, t, e) # 0}

\* patchDailyBalance: a day without a value has that of the last day with one.
DailyBalance(d, t) ==
  [day \in 1 .. Chain.day |->
     LET valued == ValuedDays(d, t, day)
     IN  IF valued = {} THEN 0
         ELSE Running(d, t, CHOOSE e \in valued : \A f \in valued : f <= e)]

-----------------------------------------------------------------------------
(* Bookkeeping                                                             *)

Moves(w) == transfers[transfer[w]]
OnStep(w, label) == step[w] = label
To(w, label) == step' = [step EXCEPT ![w] = label]

TreasuryInit ==
  /\ budget \in TransferScenarios
  /\ transfers = <<Fresh>>
  /\ balanceItems = [d \in Treasuries |-> [t \in Tokens |-> 1]]
  /\ balanceRows = balanceItems
  /\ nftItems = [d \in Treasuries |-> {}]
  /\ nftRows = [n \in Nfts |-> Absent]
  /\ nftCount = [d \in Treasuries |-> 0]
  /\ fundItems = [d \in Treasuries |-> {}]
  /\ step = [w \in Movers |-> "off"]
  /\ transfer = [w \in Movers |-> 0]
  /\ left = [w \in Movers |-> <<>>]
  /\ got = [w \in Movers |-> Absent]
  /\ settledTransfers = {1}

\* handleTokenMethods and handleNftMethods: the DAOs the call names.
DaosOf(m) ==
  LET Named(h) == IF h \in Treasuries THEN <<h>> ELSE <<>>
  IN  IF m.kind = "near" THEN <<>> ELSE Named(m.from) \o Named(m.to)

\* A call of a DAO updates its NEAR balance and nothing here.
StartTransfer(w) ==
  /\ OnStep(w, "off")
  /\ w = "walletCallback" => budget.callback
  /\ \E k \in DOMAIN transfers \ settledTransfers :
       /\ w = "mainConsumer" => \A j \in 1 .. k - 1 : j \in settledTransfers
       /\ transfer' = [transfer EXCEPT ![w] = k]
       /\ left' = [left EXCEPT ![w] = DaosOf(transfers[k])]
       /\ To(w, IF DaosOf(transfers[k]) = <<>> THEN "funds" ELSE transfers[k].kind)
  /\ UNCHANGED <<transfers, holdings, got, settledTransfers, budget>>

\* The next DAO, or the end of the handler.
Onwards(w) ==
  /\ left' = [left EXCEPT ![w] = Tail(@)]
  /\ got' = [got EXCEPT ![w] = Absent]
  /\ To(w, IF Len(left[w]) > 1 THEN Moves(w).kind ELSE "funds")

\* Loading fails, and the DAO is skipped.
SkipDao(w) ==
  /\ step[w] \in {"token", "nft"}
  /\ budget.failing
  /\ Onwards(w)
  /\ UNCHANGED <<transfers, holdings, transfer, settledTransfers, budget>>

-----------------------------------------------------------------------------
(* loadBalanceById                                                         *)

\* The balance at the block of the receipt; then the item of the DAO is read.
ReadTokens(w) ==
  LET d == Head(left[w])
  IN  /\ OnStep(w, "token")
      /\ got' = [got EXCEPT ![w] =
                   [balance |-> Moves(w).tokens[Moves(w).token][d],
                    list |-> balanceItems[d]]]
      /\ To(w, "writeTokens")
      /\ UNCHANGED <<transfers, holdings, transfer, left, settledTransfers, budget>>

\* Mutant: the balance of the list is kept.
KeptList(g, t) == IF g.list[t] = Absent THEN [g.list EXCEPT ![t] = g.balance] ELSE g.list

\* saveTokenBalanceToDao replaces one entry of the list it has read.
NewList(g, t) == [g.list EXCEPT ![t] = g.balance]

WriteTokens(w) ==
  /\ OnStep(w, "writeTokens")
  /\ balanceItems' = [balanceItems EXCEPT ![Head(left[w])] =
                        NewList(got[w], Moves(w).token)]
  /\ To(w, "writeBalance")
  /\ UNCHANGED <<transfers, balanceRows, nftItems, nftRows, nftCount, fundItems, transfer, left, got,
                 settledTransfers, budget>>

WriteBalanceRow(w) ==
  /\ OnStep(w, "writeBalance")
  /\ balanceRows' = [balanceRows EXCEPT ![Head(left[w])][Moves(w).token] = got[w].balance]
  /\ Onwards(w)
  /\ UNCHANGED <<transfers, balanceItems, nftItems, nftRows, nftCount, fundItems, transfer,
                 settledTransfers, budget>>

-----------------------------------------------------------------------------
(* loadNFT                                                                 *)

Owned(d) == {n \in Nfts : Chain.owner[n] = d}

\* The tokens of the moment, not of the block.  A chunk that cannot be loaded
\* ends the list, without an error.
LoadNfts(w) ==
  /\ OnStep(w, "nft")
  /\ \E list \in SUBSET Owned(Head(left[w])) :
       /\ list # Owned(Head(left[w])) => budget.failing
       /\ got' = [got EXCEPT ![w] = list]
  /\ To(w, "putNfts")
  /\ UNCHANGED <<transfers, holdings, transfer, left, settledTransfers, budget>>

PutNfts(w) ==
  /\ OnStep(w, "putNfts")
  /\ nftItems' = [nftItems EXCEPT ![Head(left[w])] = @ \cup got[w]]
  /\ To(w, "saveNfts")
  /\ UNCHANGED <<transfers, balanceItems, balanceRows, nftRows, nftCount, fundItems, transfer, left, got,
                 settledTransfers, budget>>

SaveNfts(w) ==
  /\ OnStep(w, "saveNfts")
  /\ nftRows' = [n \in Nfts |-> IF n \in got[w] THEN Head(left[w]) ELSE nftRows[n]]
  /\ To(w, "purge")
  /\ UNCHANGED <<transfers, balanceItems, balanceRows, nftItems, nftCount, fundItems, transfer, left, got,
                 settledTransfers, budget>>

\* Mutant: nothing is purged.
Kept(d, list) == nftRows

\* Rows of the DAO that are not in the list are deleted.
Purged(d, list) ==
  [n \in Nfts |-> IF nftRows[n] = d /\ n \notin list THEN Absent ELSE nftRows[n]]

\* The query for the items to delete asks for statistics instead of NFTs, which
\* have no contract: no item is ever deleted.
PurgeNfts(w) ==
  /\ OnStep(w, "purge")
  /\ nftRows' = Purged(Head(left[w]), got[w])
  /\ To(w, "count")
  /\ UNCHANGED <<transfers, balanceItems, balanceRows, nftItems, nftCount, fundItems,
                 transfer, left, got, settledTransfers, budget>>

\* getAccountTokenCount, saved by daoService.save.
CountNfts(w) ==
  LET d == Head(left[w])
  IN  /\ OnStep(w, "count")
      /\ nftCount' = [nftCount EXCEPT ![d] =
                        IF budget.nftDynamo THEN Cardinality(nftItems[d])
                        ELSE Cardinality({n \in Nfts : nftRows[n] = d})]
      /\ Onwards(w)
      /\ UNCHANGED <<transfers, balanceItems, balanceRows, nftItems, nftRows, fundItems,
                     transfer, settledTransfers, budget>>

-----------------------------------------------------------------------------
\* The key of the item is made of the receipt: storing it again changes nothing.
SaveFunds(w) ==
  /\ OnStep(w, "funds")
  /\ fundItems' = IF Moved(Moves(w))
                  THEN [fundItems EXCEPT ![FundsOwner(Moves(w))] = @ \cup {transfer[w]}]
                  ELSE fundItems
  /\ To(w, "mark")
  /\ UNCHANGED <<transfers, balanceItems, balanceRows, nftItems, nftRows, nftCount, transfer, left, got,
                 settledTransfers, budget>>

MarkTransfer(w) ==
  /\ OnStep(w, "mark")
  /\ settledTransfers' = settledTransfers \cup {transfer[w]}
  /\ transfer' = [transfer EXCEPT ![w] = 0]
  /\ To(w, "off")
  /\ UNCHANGED <<transfers, holdings, left, got, budget>>

CrashMain ==
  /\ budget.crashes > 0 /\ step["mainConsumer"] # "off"
  /\ budget' = [budget EXCEPT !.crashes = @ - 1]
  /\ step' = [step EXCEPT !["mainConsumer"] = "off"]
  /\ transfer' = [transfer EXCEPT !["mainConsumer"] = 0]
  /\ left' = [left EXCEPT !["mainConsumer"] = <<>>]
  /\ got' = [got EXCEPT !["mainConsumer"] = Absent]
  /\ UNCHANGED <<transfers, holdings, settledTransfers>>

TreasuryNext ==
  \/ Transfer
  \/ \E w \in Movers :
       \/ StartTransfer(w) \/ SkipDao(w)
       \/ ReadTokens(w) \/ WriteTokens(w) \/ WriteBalanceRow(w)
       \/ LoadNfts(w) \/ PutNfts(w) \/ SaveNfts(w) \/ PurgeNfts(w) \/ CountNfts(w)
       \/ SaveFunds(w) \/ MarkTransfer(w)
  \/ CrashMain

TreasurySpec == TreasuryInit /\ [][TreasuryNext]_treasuryVars

-----------------------------------------------------------------------------
(* Properties                                                              *)

CaughtUp == settledTransfers = DOMAIN transfers /\ \A w \in Movers : step[w] = "off"

\* Once the consumer, which may have crashed, has handled every receipt and no
\* call has failed, both stores show the balances of the chain and the rows its
\* owners; the items show at least those (token.service.ts:64,
\* nft-token.service.ts:104).
HoldingsShown ==
  CaughtUp /\ ~budget.callback /\ ~budget.failing =>
    \A d \in Treasuries :
      /\ \A t \in Tokens : balanceItems[d][t] = Chain.tokens[t][d]
                           /\ balanceRows[d][t] = Chain.tokens[t][d]
      /\ {n \in Nfts : nftRows[n] = d} = Owned(d)
      /\ Owned(d) \subseteq nftItems[d]
      /\ nftCount[d] = Cardinality(IF budget.nftDynamo THEN nftItems[d] ELSE Owned(d))

\* Whoever handled the receipts, and however often, every daily balance that is
\* not zero is the sum of the transfers so far, for a DAO that had none with
\* another DAO (dao-funds-receipt.service.ts:91).
DailyBalanceTrue ==
  CaughtUp =>
    \A d \in Treasuries, t \in Tokens \cup {Absent}, day \in 1 .. Chain.day :
      LET own == {k \in DOMAIN transfers :
                    /\ Moved(transfers[k]) /\ transfers[k].token = t
                    /\ d \in {transfers[k].from, transfers[k].to}}
          sum == Net(d, {k \in own : transfers[k].day <= day})
      IN  (\A k \in own : Outsider \in {transfers[k].from, transfers[k].to}) /\ sum # 0
            => DailyBalance(d, t)[day] = sum
=============================================================================

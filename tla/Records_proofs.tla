--------------------------- MODULE Records_proofs ---------------------------
(***************************************************************************)
(* Proofs about what the stores show of the holdings of DAOs               *)
(* (TreasuryRecords) and of their bounties (BountyRecords).                *)
(***************************************************************************)
EXTENDS TreasuryRecords, BountyRecords, SequenceTheorems, FiniteSetTheorems,
        WellFoundedInduction, TLAPS

(***************************************************************************)
(* What a DAO holds                                                        *)
(***************************************************************************)
TransferKinds == {"near", "token", "nft"}
TokenSteps == {"token", "writeTokens", "writeBalance"}
ListedSteps == {"putNfts", "saveNfts", "purge", "count"}
NftSteps == {"nft"} \cup ListedSteps

TransferRecords ==
  [kind : TransferKinds, from : Holders, to : Holders, token : Tokens \cup Nfts \cup {Absent},
   day : Nat \ {0}, tokens : [Tokens -> [Treasuries -> Int]], owner : [Nfts -> Holders]]

TransfersType ==
  /\ transfers \in Seq(TransferRecords) /\ Len(transfers) > 0 /\ transfers[1] = Fresh
  /\ \A k \in DOMAIN transfers :
       /\ transfers[k].kind = "token" => transfers[k].token \in Tokens
       /\ k > 1 => transfers[k].from # transfers[k].to

Budgets ==
  [nftDynamo : BOOLEAN, what : SUBSET TransferKinds, transfers : Nat, between : BOOLEAN,
   callback : BOOLEAN, crashes : Nat, failing : BOOLEAN]

HoldingsType ==
  /\ balanceItems \in [Treasuries -> [Tokens -> Int]]
  /\ balanceRows \in [Treasuries -> [Tokens -> Int]]
  /\ nftItems \in [Treasuries -> SUBSET Nfts]
  /\ nftRows \in [Nfts -> Treasuries \cup {Absent}]
  /\ nftCount = [d \in Treasuries |-> nftCount[d]]
  /\ fundItems = [d \in Treasuries |-> fundItems[d]]
  /\ settledTransfers \subseteq DOMAIN transfers /\ 1 \in settledTransfers
  /\ budget \in Budgets

\* The DAOs worker w still has to update.
Ahead(w) == {left[w][i] : i \in DOMAIN left[w]}

LeftType(w) ==
  LET m == Moves(w)
  IN  \/ left[w] = <<>>
      \/ \E d \in Treasuries \cap {m.from, m.to} : left[w] = <<d>>
      \/ m.from \in Treasuries /\ m.to \in Treasuries /\ left[w] = <<m.from, m.to>>

MoverType(w) ==
  \/ step[w] = "off"
  \/ /\ transfer[w] \in DOMAIN transfers /\ LeftType(w)
     /\ \/ step[w] \in {"funds", "mark"} /\ left[w] = <<>>
        \/ step[w] \in TokenSteps /\ Moves(w).kind = "token" /\ left[w] # <<>>
        \/ step[w] \in NftSteps /\ Moves(w).kind = "nft" /\ left[w] # <<>>
     /\ step[w] = "writeTokens" => got[w] \in [balance : Int, list : [Tokens -> Int]]
     /\ step[w] = "writeBalance" => got[w].balance \in Int
     /\ step[w] \in ListedSteps => got[w] \subseteq Nfts

MoversType ==
  /\ step = [w \in Movers |-> step[w]] /\ transfer = [w \in Movers |-> transfer[w]]
  /\ left = [w \in Movers |-> left[w]] /\ got = [w \in Movers |-> got[w]]
  /\ \A w \in Movers : MoverType(w)

\* The receipts in the partition of a DAO are those that belong there.
FundsKept ==
  /\ \A d \in Treasuries : \A k \in fundItems[d] :
       k \in DOMAIN transfers /\ Moved(transfers[k]) /\ FundsOwner(transfers[k]) = d
  /\ \A k \in settledTransfers : Moved(transfers[k]) => k \in fundItems[FundsOwner(transfers[k])]
  /\ \A w \in Movers : step[w] = "mark" /\ Moved(Moves(w)) =>
       transfer[w] \in fundItems[FundsOwner(Moves(w))]

\* A receipt after the k-th moves the token, or NFTs, of the holder.
TokenDue(d, t, k) ==
  \E j \in DOMAIN transfers :
    /\ j > k /\ transfers[j].kind = "token" /\ transfers[j].token = t
    /\ d \in {transfers[j].from, transfers[j].to}

NftDue(h, k) ==
  \E j \in DOMAIN transfers :
    j > k /\ transfers[j].kind = "nft" /\ h \in {transfers[j].from, transfers[j].to}

\* Only receipts change what is on the chain.
ChainKept ==
  \A k \in DOMAIN transfers, d \in Treasuries, t \in Tokens :
    transfers[k].tokens[t][d] = Chain.tokens[t][d] \/ TokenDue(d, t, k)

TokenShown(d, t) ==
  balanceItems[d][t] = Chain.tokens[t][d] /\ balanceRows[d][t] = Chain.tokens[t][d]

NftsShown(d) ==
  /\ {n \in Nfts : nftRows[n] = d} = Owned(d)
  /\ Owned(d) \subseteq nftItems[d]
  /\ nftCount[d] = Cardinality(IF budget.nftDynamo THEN nftItems[d] ELSE Owned(d))

\* What is not shown is yet to be moved by a receipt after the k-th, or is being
\* updated for it.
TokensKept(k, busy) ==
  \A d \in Treasuries, t \in Tokens :
    \/ TokenShown(d, t)
    \/ TokenDue(d, t, k)
    \/ d \in busy /\ transfers[k].kind = "token" /\ t = transfers[k].token

NftsKept(k, busy) ==
  \A d \in Treasuries : 
    \/ NftsShown(d)
    \/ NftDue(d, k)
    \/ d \in busy /\ transfers[k].kind = "nft"

\* A list of NFTs is that of the moment, or a receipt that moves one is to come.
ListKept(h, list, k) ==
  /\ list = Owned(h) \/ NftDue(h, k)
  /\ \A n \in list : Chain.owner[n] = h \/ NftDue(Chain.owner[n], k)

\* What the consumer has done for the first of the DAOs.
DaoKept(w, k) ==
  LET h == Head(left[w])
      t == transfers[k].token
      balance == transfers[k].tokens[t][h]
  IN  /\ step[w] = "writeTokens" => got[w] = [balance |-> balance, list |-> balanceItems[h]]
      /\ step[w] = "writeBalance" => got[w].balance = balance /\ balanceItems[h][t] = balance
      /\ step[w] \in ListedSteps => ListKept(h, got[w], k)
      /\ step[w] \in {"saveNfts", "purge", "count"} => got[w] \subseteq nftItems[h]
      /\ step[w] = "purge" => \A n \in got[w] : nftRows[n] = h
      /\ step[w] = "count" => \A n \in Nfts : nftRows[n] = h <=> n \in got[w]

Handling(w, k) ==
  TokensKept(k, Ahead(w)) /\ NftsKept(k, Ahead(w)) /\ DaoKept(w, k)

\* The consumer is alone and no call fails.
HoldingsKept ==
  ~budget.callback /\ ~budget.failing =>
    /\ step["walletCallback"] = "off"
    /\ \E k \in DOMAIN transfers :
         IF step["mainConsumer"] = "off"
         THEN settledTransfers = 1 .. k /\ TokensKept(k, {}) /\ NftsKept(k, {})
         ELSE /\ settledTransfers = 1 .. k - 1 /\ transfer["mainConsumer"] = k
              /\ Handling("mainConsumer", k)

TreasuryInv ==
  TransfersType /\ HoldingsType /\ MoversType /\ FundsKept /\ ChainKept /\ HoldingsKept

LEMMA DaosOfType ==
  ASSUME NEW m, m.kind # "near"
  PROVE  /\ m.from \in Treasuries /\ m.to \in Treasuries => DaosOf(m) = <<m.from, m.to>>
         /\ m.from \in Treasuries /\ m.to \notin Treasuries => DaosOf(m) = <<m.from>>
         /\ m.from \notin Treasuries /\ m.to \in Treasuries => DaosOf(m) = <<m.to>>
         /\ m.from \notin Treasuries /\ m.to \notin Treasuries => DaosOf(m) = <<>>
<1> DEFINE S == {m.from, m.to}
<1>0. <<m.from>> \in Seq(S) /\ <<m.to>> \in Seq(S) /\ <<>> \in Seq(S)
  OBVIOUS
<1>1. <<m.from>> \o <<m.to>> = <<m.from, m.to>>
  <2>1. PICK s : s = <<m.from>> \o <<m.to>>
    OBVIOUS
  <2>2. s \in Seq(S) /\ Len(s) = 2 /\ s[1] = m.from /\ s[2] = m.to
    BY <1>0, <2>1
  <2>3. <<m.from, m.to>> \in Seq(S)
    OBVIOUS
  <2>4. s = <<m.from, m.to>>
    BY <2>2, <2>3, SeqEqual
  <2> QED
    BY <2>1, <2>4
<1>2. <<m.from>> \o <<>> = <<m.from>> /\ <<>> \o <<m.to>> = <<m.to>> /\ <<>> \o <<>> = <<>>
  BY <1>0, ConcatEmptySeq
<1> QED
  BY <1>1, <1>2 DEF DaosOf

\* What a receipt leaves of the balances and the owners before it.
MoveOf(m, kind) ==
  /\ m \in TransferRecords /\ m.kind = kind /\ m.from # m.to
  /\ kind = "token" => m.token \in Tokens
  /\ \A d \in Treasuries, t \in Tokens :
       \/ m.tokens[t][d] = Chain.tokens[t][d]
       \/ kind = "token" /\ t = m.token /\ d \in {m.from, m.to}
  /\ \A n \in Nfts :
       \/ m.owner[n] = Chain.owner[n]
       \/ kind = "nft" /\ m.from = Chain.owner[n] /\ m.to = m.owner[n]

LEMMA ChainType ==
  ASSUME TransfersType
  PROVE  Chain \in TransferRecords
BY DEF TransfersType, Chain

LEMMA MovesOfType ==
  ASSUME TransfersType, NEW kind \in TransferKinds, NEW day \in Nat \ {0}, NEW m \in MovesOf(kind, day)
  PROVE  MoveOf(m, kind)
<1> DEFINE Move(p, t, tokens, owner) ==
             [kind |-> kind, from |-> p[1], to |-> p[2], token |-> t, day |-> day,
              tokens |-> tokens, owner |-> owner]
           Shifted(b, p) == [h \in Treasuries |-> b[h] + (IF h = p[2] THEN 1 ELSE 0)
                                                    - (IF h = p[1] THEN 1 ELSE 0)]
<1>1. Chain \in TransferRecords
  BY ChainType
<1>2. CASE kind = "near"
  <2>1. PICK p \in Holders \X Holders :
          p[1] # p[2] /\ m = Move(p, Absent, Chain.tokens, Chain.owner)
    BY <1>2 DEF MovesOf
  <2> QED
    BY <1>1, <1>2, <2>1 DEF MoveOf, TransferRecords
<1>3. CASE kind = "token"
  <2>1. \E p \in Holders \X Holders, t \in Tokens :
          /\ p[1] # p[2]
          /\ m = Move(p, t, [Chain.tokens EXCEPT ![t] = Shifted(@, p)], Chain.owner)
    BY <1>3 DEF MovesOf
  <2>2. PICK p \in Holders \X Holders : \E t \in Tokens :
          /\ p[1] # p[2]
          /\ m = Move(p, t, [Chain.tokens EXCEPT ![t] = Shifted(@, p)], Chain.owner)
    BY <2>1
  <2>3. PICK t \in Tokens :
          /\ p[1] # p[2]
          /\ m = Move(p, t, [Chain.tokens EXCEPT ![t] = Shifted(@, p)], Chain.owner)
    BY <2>2
  <2> DEFINE b == Chain.tokens[t]
             c == Shifted(b, p)
  <2>4. Chain.tokens \in [Tokens -> [Treasuries -> Int]]
    BY <1>1 DEF TransferRecords
  <2>5. b \in [Treasuries -> Int] /\ [Chain.tokens EXCEPT ![t] = Shifted(@, p)] = [Chain.tokens EXCEPT ![t] = c]
    BY <2>4
  <2>6. c \in [Treasuries -> Int] /\ \A h \in Treasuries : h \notin {p[1], p[2]} => c[h] = b[h]
    BY <2>5
  <2>7. m = Move(p, t, [Chain.tokens EXCEPT ![t] = c], Chain.owner)
    BY <2>3, <2>5
  <2> HIDE DEF c
  <2>8. \A d \in Treasuries, u \in Tokens :
          m.tokens[u][d] = Chain.tokens[u][d] \/ (u = m.token /\ d \in {m.from, m.to})
    <3> SUFFICES ASSUME NEW d \in Treasuries, NEW u \in Tokens
                 PROVE  m.tokens[u][d] = Chain.tokens[u][d] \/ (u = m.token /\ d \in {m.from, m.to})
      OBVIOUS
    <3>1. u # t => m.tokens[u] = Chain.tokens[u]
      BY <2>7, <2>4
    <3>2. u = t => m.tokens[u] = c
      BY <2>7, <2>4
    <3>3. m.token = t /\ m.from = p[1] /\ m.to = p[2]
      BY <2>7
    <3> QED
      BY <3>1, <3>2, <3>3, <2>6
  <2>9. [Chain.tokens EXCEPT ![t] = c] \in [Tokens -> [Treasuries -> Int]]
    BY <2>4, <2>6
  <2>10. m \in TransferRecords
    BY <1>1, <1>3, <2>7, <2>9 DEF TransferRecords, TransferKinds
  <2>11. m.kind = kind /\ m.from # m.to /\ m.token \in Tokens /\ m.owner = Chain.owner
    BY <2>3, <2>7
  <2> QED
    BY <1>3, <2>8, <2>10, <2>11 DEF MoveOf
<1>4. CASE kind = "nft"
  <2>1. PICK f \in (Holders \X Holders) \X Nfts :
          /\ f[1][1] # f[1][2] /\ f[1][1] = Chain.owner[f[2]]
          /\ m = Move(f[1], f[2], Chain.tokens, [Chain.owner EXCEPT ![f[2]] = f[1][2]])
    BY <1>4 DEF MovesOf
  <2>2. /\ m \in TransferRecords /\ m.kind = kind /\ m.from = f[1][1] /\ m.to = f[1][2]
        /\ m.tokens = Chain.tokens /\ m.owner = [Chain.owner EXCEPT ![f[2]] = f[1][2]]
    BY <1>1, <1>4, <2>1 DEF TransferRecords, TransferKinds
  <2> QED
    BY <1>1, <1>4, <2>1, <2>2 DEF MoveOf, TransferRecords
<1> QED
  BY <1>2, <1>3, <1>4 DEF TransferKinds

LEMMA TransferFacts ==
  ASSUME TransfersType, HoldingsType, Transfer
  PROVE  \E m : /\ MoveOf(m, m.kind) /\ transfers' = Append(transfers, m)
                /\ budget' = [budget EXCEPT !.transfers = @ - 1] /\ budget.transfers > 0
                /\ UNCHANGED <<holdings, moving>>
<1>1. PICK kind \in budget.what, day \in {Chain.day, Chain.day + 1} :
        \E m \in MovesOf(kind, day) : transfers' = Append(transfers, m)
  BY DEF Transfer
<1>2. PICK m \in MovesOf(kind, day) : transfers' = Append(transfers, m)
  BY <1>1
<1>3. kind \in TransferKinds /\ day \in Nat \ {0}
  BY ChainType DEF HoldingsType, TransferRecords, Budgets
<1>4. MoveOf(m, kind)
  BY <1>3, MovesOfType
<1>5. m.kind = kind
  BY <1>4 DEF MoveOf
<1> QED
  BY <1>2, <1>4, <1>5 DEF Transfer

\* The receipts after one more.
LEMMA OneMore ==
  ASSUME TransfersType, NEW m, MoveOf(m, m.kind), transfers' = Append(transfers, m)
  PROVE  /\ TransfersType' /\ Chain' = m
         /\ Len(transfers') = Len(transfers) + 1 /\ Len(transfers) \in Nat
         /\ DOMAIN transfers = 1 .. Len(transfers)
         /\ DOMAIN transfers' = 1 .. Len(transfers) + 1
         /\ \A k \in DOMAIN transfers : transfers'[k] = transfers[k]
         /\ transfers'[Len(transfers) + 1] = m
<1>1. m \in TransferRecords
  BY DEF MoveOf
<1>2. /\ transfers' \in Seq(TransferRecords) /\ Len(transfers') = Len(transfers) + 1
      /\ Len(transfers) \in Nat /\ Len(transfers) > 0
      /\ \A k \in 1 .. Len(transfers) : transfers'[k] = transfers[k]
      /\ transfers'[Len(transfers) + 1] = m
  BY <1>1 DEF TransfersType
<1>3. DOMAIN transfers = 1 .. Len(transfers) /\ DOMAIN transfers' = 1 .. Len(transfers) + 1
  BY <1>2 DEF TransfersType
<1>4. \A k \in DOMAIN transfers' :
        /\ transfers'[k].kind = "token" => transfers'[k].token \in Tokens
        /\ k > 1 => transfers'[k].from # transfers'[k].to
  <2> SUFFICES ASSUME NEW k \in DOMAIN transfers'
               PROVE  /\ transfers'[k].kind = "token" => transfers'[k].token \in Tokens
                      /\ k > 1 => transfers'[k].from # transfers'[k].to
    OBVIOUS
  <2>1. CASE k \in DOMAIN transfers
    BY <2>1, <1>2, <1>3 DEF TransfersType
  <2>2. CASE k = Len(transfers) + 1
    BY <2>2, <1>2 DEF MoveOf
  <2> QED
    BY <2>1, <2>2, <1>2, <1>3
<1>5. transfers'[1] = Fresh /\ Len(transfers') > 0
  BY <1>2 DEF TransfersType
<1>6. Chain' = m
  BY <1>2 DEF Chain
<1> QED
  BY <1>2, <1>3, <1>4, <1>5, <1>6 DEF TransfersType

LEMMA LeftFacts ==
  ASSUME NEW w, LeftType(w), left[w] # <<>>
  PROVE  /\ Head(left[w]) \in Treasuries /\ Head(left[w]) \in {Moves(w).from, Moves(w).to}
         /\ Len(left[w]) > 1 => Tail(left[w]) = <<Moves(w).to>> /\ Moves(w).to \in Treasuries
         /\ ~(Len(left[w]) > 1) => Tail(left[w]) = <<>>
         /\ Ahead(w) = {Head(left[w])} \cup {Tail(left[w])[i] : i \in DOMAIN Tail(left[w])}
<1>1. CASE \E d \in Treasuries \cap {Moves(w).from, Moves(w).to} : left[w] = <<d>>
  <2>1. PICK d \in Treasuries \cap {Moves(w).from, Moves(w).to} : left[w] = <<d>>
    BY <1>1
  <2>2. Head(<<d>>) = d /\ Tail(<<d>>) = <<>> /\ Len(<<d>>) = 1
    OBVIOUS
  <2>3. DOMAIN <<d>> = {1} /\ DOMAIN <<>> = {}
    OBVIOUS
  <2>4. Ahead(w) = {d}
    BY <2>1, <2>3 DEF Ahead
  <2> QED
    BY <2>1, <2>2, <2>3, <2>4
<1>2. CASE /\ Moves(w).from \in Treasuries /\ Moves(w).to \in Treasuries
           /\ left[w] = <<Moves(w).from, Moves(w).to>>
  <2> DEFINE a == Moves(w).from
             b == Moves(w).to
  <2>1. Head(<<a, b>>) = a /\ Tail(<<a, b>>) = <<b>> /\ Len(<<a, b>>) = 2
    OBVIOUS
  <2>2. DOMAIN <<a, b>> = {1, 2} /\ DOMAIN <<b>> = {1}
    OBVIOUS
  <2>3. Ahead(w) = {a, b}
    BY <1>2, <2>2 DEF Ahead
  <2> QED
    BY <1>2, <2>1, <2>2, <2>3
<1> QED
  BY <1>1, <1>2 DEF LeftType

\* A worker that goes on with the next DAO.
LEMMA OnwardsType ==
  ASSUME MoversType, NEW w \in Movers, step[w] \in TokenSteps \cup NftSteps, MoverType(w),
         Onwards(w), UNCHANGED <<transfers, transfer>>
  PROVE  /\ MoverType(w)' /\ MoversType'
         /\ Ahead(w) = {Head(left[w])} \cup Ahead(w)'
         /\ step'[w] \in {"token", "nft", "funds"}
<1>1. /\ step[w] # "off" /\ step[w] \notin {"funds", "mark"} /\ left[w] # <<>> /\ LeftType(w)
      /\ transfer[w] \in DOMAIN transfers /\ Moves(w).kind \in {"token", "nft"}
  BY DEF MoverType, TokenSteps, NftSteps, ListedSteps
<1>2. /\ step' = [step EXCEPT ![w] = IF Len(left[w]) > 1 THEN Moves(w).kind ELSE "funds"]
      /\ left' = [left EXCEPT ![w] = Tail(left[w])] /\ got' = [got EXCEPT ![w] = Absent]
  BY DEF Onwards, To
<1>3. step'[w] = (IF Len(left[w]) > 1 THEN Moves(w).kind ELSE "funds") /\ left'[w] = Tail(left[w])
  BY <1>2 DEF MoversType
<1>4. Moves(w)' = Moves(w)
  BY DEF Moves
<1>5. Ahead(w)' = {Tail(left[w])[i] : i \in DOMAIN Tail(left[w])}
  BY <1>3 DEF Ahead
<1>6. MoverType(w)'
  <2>1. CASE Len(left[w]) > 1
    <3>1. left'[w] = <<Moves(w).to>> /\ Moves(w).to \in Treasuries
      BY <1>1, <1>3, <2>1, LeftFacts
    <3>2. LeftType(w)' /\ left'[w] # <<>>
      BY <1>4, <3>1 DEF LeftType
    <3> QED
      BY <1>1, <1>3, <1>4, <2>1, <3>2 DEF MoverType, TokenSteps, NftSteps, ListedSteps
  <2>2. CASE ~(Len(left[w]) > 1)
    <3>1. left'[w] = <<>>
      BY <1>1, <1>3, <2>2, LeftFacts
    <3> QED
      BY <1>1, <1>3, <2>2, <3>1 DEF MoverType, LeftType, TokenSteps, ListedSteps
  <2> QED
    BY <2>1, <2>2
<1>7. ASSUME NEW u \in Movers, u # w
      PROVE  MoverType(u)'
  BY <1>2, <1>7 DEF MoversType, MoverType, LeftType, Moves
<1>8. MoversType'
  BY <1>2, <1>6, <1>7 DEF MoversType
<1> QED
  BY <1>1, <1>3, <1>5, <1>6, <1>8, LeftFacts

\* The other actions of a worker.
LEMMA OneMoves ==
  ASSUME MoversType, NEW w \in Movers, UNCHANGED <<transfers>>,
         step' = [step EXCEPT ![w] = step'[w]], transfer' = [transfer EXCEPT ![w] = transfer'[w]],
         left' = [left EXCEPT ![w] = left'[w]], got' = [got EXCEPT ![w] = got'[w]],
         MoverType(w)'
  PROVE  MoversType'
<1>1. ASSUME NEW u \in Movers, u # w
      PROVE  MoverType(u)'
  <2>1. step'[u] = step[u] /\ transfer'[u] = transfer[u] /\ left'[u] = left[u] /\ got'[u] = got[u]
    BY <1>1 DEF MoversType
  <2>2. MoverType(u)
    BY DEF MoversType
  <2> QED
    BY <2>1, <2>2 DEF MoverType, LeftType, Moves
<1> QED
  BY <1>1 DEF MoversType

LEMMA TypesNext ==
  ASSUME TreasuryAssumption, TransfersType, HoldingsType, MoversType, TreasuryNext
  PROVE  TransfersType' /\ HoldingsType' /\ MoversType'
<1>1. CASE Transfer
  <2>1. PICK m : /\ MoveOf(m, m.kind) /\ transfers' = Append(transfers, m)
                 /\ budget' = [budget EXCEPT !.transfers = @ - 1] /\ budget.transfers > 0
                 /\ UNCHANGED <<holdings, moving>>
    BY <1>1, TransferFacts
  <2>2. /\ TransfersType' /\ Len(transfers) \in Nat
        /\ DOMAIN transfers = 1 .. Len(transfers) /\ DOMAIN transfers' = 1 .. Len(transfers) + 1
        /\ \A k \in DOMAIN transfers : transfers'[k] = transfers[k]
    BY <2>1, OneMore
  <2>0. budget' \in Budgets
    <3>1. budget \in Budgets /\ budget.transfers - 1 \in Nat
      BY <2>1 DEF HoldingsType, Budgets
    <3>2. budget' = [budget EXCEPT !.transfers = budget.transfers - 1]
      BY <2>1
    <3> QED
      BY <3>1, <3>2 DEF Budgets
  <2>3. HoldingsType'
    BY <2>0, <2>1, <2>2 DEF HoldingsType, holdings, moving
  <2>4. ASSUME NEW w \in Movers
        PROVE  MoverType(w)'
    <3>1. MoverType(w)
      BY DEF MoversType
    <3>2. transfer[w] \in DOMAIN transfers => Moves(w)' = Moves(w) /\ transfer'[w] \in DOMAIN transfers'
      BY <2>1, <2>2 DEF Moves, moving
    <3> QED
      BY <2>1, <3>1, <3>2 DEF MoverType, LeftType, moving
  <2> QED
    BY <2>1, <2>2, <2>3, <2>4 DEF MoversType, moving
<1>2. CASE CrashMain
  <2>1. /\ step' = [step EXCEPT !["mainConsumer"] = "off"] /\ UNCHANGED <<transfers, holdings, settledTransfers>>
        /\ transfer' = [transfer EXCEPT !["mainConsumer"] = 0]
        /\ left' = [left EXCEPT !["mainConsumer"] = <<>>] /\ got' = [got EXCEPT !["mainConsumer"] = Absent]
        /\ budget' = [budget EXCEPT !.crashes = @ - 1] /\ budget.crashes > 0
    BY <1>2 DEF CrashMain
  <2>2. "mainConsumer" \in Movers
    BY DEF Movers
  <2>3. step'["mainConsumer"] = "off" /\ transfer'["mainConsumer"] = 0
        /\ left'["mainConsumer"] = <<>> /\ got'["mainConsumer"] = Absent
    BY <2>1, <2>2 DEF MoversType
  <2>4. MoverType("mainConsumer")'
    BY <2>3 DEF MoverType
  <2>5. MoversType'
    BY <2>1, <2>2, <2>3, <2>4, OneMoves
  <2>0. budget' \in Budgets
    <3>1. budget \in Budgets /\ budget.crashes - 1 \in Nat
      BY <2>1 DEF HoldingsType, Budgets
    <3>2. budget' = [budget EXCEPT !.crashes = budget.crashes - 1]
      BY <2>1
    <3> QED
      BY <3>1, <3>2 DEF Budgets
  <2>6. HoldingsType'
    BY <2>0, <2>1 DEF HoldingsType, holdings
  <2>7. TransfersType'
    BY <2>1 DEF TransfersType
  <2> QED
    BY <2>5, <2>6, <2>7
<1>3. ASSUME NEW w \in Movers,
             \/ StartTransfer(w) \/ SkipDao(w)
             \/ ReadTokens(w) \/ WriteTokens(w) \/ WriteBalanceRow(w)
             \/ LoadNfts(w) \/ PutNfts(w) \/ SaveNfts(w) \/ PurgeNfts(w) \/ CountNfts(w)
             \/ SaveFunds(w) \/ MarkTransfer(w)
      PROVE  TransfersType' /\ HoldingsType' /\ MoversType'
  <2>1. UNCHANGED transfers /\ UNCHANGED budget
    BY <1>3 DEF StartTransfer, SkipDao, ReadTokens, WriteTokens, WriteBalanceRow, LoadNfts, PutNfts,
                SaveNfts, PurgeNfts, CountNfts, SaveFunds, MarkTransfer
  <2>2. TransfersType'
    BY <2>1 DEF TransfersType
  <2>3. MoverType(w)
    BY DEF MoversType
  <2> DEFINE h == Head(left[w])
             m == Moves(w)
  <2>4. ASSUME step[w] \in TokenSteps \cup NftSteps
        PROVE  /\ h \in Treasuries /\ LeftType(w) /\ left[w] # <<>> /\ transfer[w] \in DOMAIN transfers
               /\ step[w] \in TokenSteps => m.kind = "token"
               /\ step[w] \in NftSteps => m.kind = "nft"
    <3>1. LeftType(w) /\ left[w] # <<>> /\ transfer[w] \in DOMAIN transfers
          /\ (step[w] \in TokenSteps => m.kind = "token")
          /\ (step[w] \in NftSteps => m.kind = "nft")
      BY <2>3, <2>4 DEF MoverType, TokenSteps, NftSteps, ListedSteps
    <3> QED
      BY <3>1, LeftFacts
  <2>5. m' = m \/ transfer'[w] # transfer[w]
    BY <2>1 DEF Moves
  <2>6. CASE StartTransfer(w)
    <3>1. PICK k \in DOMAIN transfers \ settledTransfers :
            /\ transfer' = [transfer EXCEPT ![w] = k]
            /\ left' = [left EXCEPT ![w] = DaosOf(transfers[k])]
            /\ step' = [step EXCEPT ![w] = IF DaosOf(transfers[k]) = <<>> THEN "funds" ELSE transfers[k].kind]
      BY <2>6 DEF StartTransfer, To
    <3>2. UNCHANGED <<holdings, got, settledTransfers>>
      BY <2>6 DEF StartTransfer
    <3>3. /\ transfer'[w] = k /\ left'[w] = DaosOf(transfers[k])
          /\ step'[w] = IF DaosOf(transfers[k]) = <<>> THEN "funds" ELSE transfers[k].kind
      BY <3>1 DEF MoversType
    <3>4. Moves(w)' = transfers[k] /\ transfers[k].kind \in TransferKinds
      <4>1. transfers[k] \in TransferRecords
        BY DEF TransfersType
      <4> QED
        BY <4>1, <3>3, <2>1 DEF Moves, TransferRecords
    <3>5. LeftType(w)'
      <4>1. CASE transfers[k].kind = "near"
        BY <3>3, <4>1 DEF LeftType, DaosOf
      <4>2. CASE transfers[k].kind # "near"
        BY <3>3, <3>4, <4>2, DaosOfType DEF LeftType
      <4> QED
        BY <4>1, <4>2
    <3>6. transfers[k].kind = "near" => left'[w] = <<>>
      BY <3>3 DEF DaosOf
    <3>7. MoverType(w)'
      BY <3>3, <3>4, <3>5, <3>6, <2>1 DEF MoverType, TransferKinds, TokenSteps, NftSteps, ListedSteps
    <3>8. MoversType'
      BY <2>1, <3>1, <3>2, <3>3, <3>7, OneMoves DEF MoversType
    <3>9. HoldingsType'
      BY <2>1, <3>2 DEF HoldingsType, holdings
    <3> QED
      BY <2>2, <3>8, <3>9
  <2>7. CASE SkipDao(w)
    <3>1. step[w] \in {"token", "nft"} /\ Onwards(w) /\ UNCHANGED <<holdings, transfer, settledTransfers>>
      BY <2>7 DEF SkipDao
    <3>2. MoversType'
      BY <2>1, <2>3, <3>1, OnwardsType DEF TokenSteps, NftSteps
    <3>3. HoldingsType'
      BY <2>1, <3>1 DEF HoldingsType, holdings
    <3> QED
      BY <2>2, <3>2, <3>3
  <2>8. CASE ReadTokens(w)
    <3>1. /\ step[w] = "token" /\ step' = [step EXCEPT ![w] = "writeTokens"]
          /\ got' = [got EXCEPT ![w] = [balance |-> m.tokens[m.token][h], list |-> balanceItems[h]]]
          /\ UNCHANGED <<holdings, transfer, left, settledTransfers>>
      BY <2>8 DEF ReadTokens, OnStep, To
    <3>2. h \in Treasuries /\ LeftType(w) /\ left[w] # <<>> /\ transfer[w] \in DOMAIN transfers /\ m.kind = "token"
      BY <2>4, <3>1 DEF TokenSteps
    <3>3. m \in TransferRecords /\ m.token \in Tokens
      BY <3>2 DEF TransfersType, Moves
    <3>4. [balance |-> m.tokens[m.token][h], list |-> balanceItems[h]] \in [balance : Int, list : [Tokens -> Int]]
      BY <3>2, <3>3 DEF TransferRecords, HoldingsType
    <3>5. /\ step'[w] = "writeTokens" /\ transfer'[w] = transfer[w] /\ left'[w] = left[w]
          /\ got'[w] = [balance |-> m.tokens[m.token][h], list |-> balanceItems[h]]
      BY <3>1 DEF MoversType
    <3>6. Moves(w)' = m /\ LeftType(w)'
      BY <2>1, <3>2, <3>5 DEF Moves, LeftType
    <3>7. MoverType(w)'
      BY <2>1, <3>2, <3>4, <3>5, <3>6 DEF MoverType, TokenSteps, NftSteps, ListedSteps
    <3>8. MoversType'
      BY <2>1, <3>1, <3>5, <3>7, OneMoves DEF MoversType
    <3>9. HoldingsType'
      BY <2>1, <3>1 DEF HoldingsType, holdings
    <3> QED
      BY <2>2, <3>8, <3>9
  <2>9. CASE WriteTokens(w)
    <3>1. /\ step[w] = "writeTokens" /\ step' = [step EXCEPT ![w] = "writeBalance"]
          /\ balanceItems' = [balanceItems EXCEPT ![h] = [got[w].list EXCEPT ![m.token] = got[w].balance]]
          /\ UNCHANGED <<balanceRows, nftItems, nftRows, nftCount, fundItems, transfer, left, got,
                         settledTransfers>>
      BY <2>9 DEF WriteTokens, OnStep, To, NewList
    <3>2. h \in Treasuries /\ LeftType(w) /\ left[w] # <<>> /\ transfer[w] \in DOMAIN transfers /\ m.kind = "token"
      BY <2>4, <3>1 DEF TokenSteps
    <3>3. got[w] \in [balance : Int, list : [Tokens -> Int]]
      BY <2>3, <3>1 DEF MoverType
    <3>4. /\ step'[w] = "writeBalance" /\ transfer'[w] = transfer[w] /\ left'[w] = left[w] /\ got'[w] = got[w]
      BY <3>1 DEF MoversType
    <3>5. Moves(w)' = m /\ LeftType(w)'
      BY <2>1, <3>2, <3>4 DEF Moves, LeftType
    <3>6. MoverType(w)'
      BY <2>1, <3>2, <3>3, <3>4, <3>5 DEF MoverType, TokenSteps, NftSteps, ListedSteps
    <3>7. MoversType'
      BY <2>1, <3>1, <3>4, <3>6, OneMoves DEF MoversType
    <3>8. [got[w].list EXCEPT ![m.token] = got[w].balance] \in [Tokens -> Int]
      BY <3>3
    <3>9. balanceItems' \in [Treasuries -> [Tokens -> Int]]
      BY <3>1, <3>2, <3>8 DEF HoldingsType
    <3>10. HoldingsType'
      BY <2>1, <3>1, <3>9 DEF HoldingsType
    <3> QED
      BY <2>2, <3>7, <3>10
  <2>10. CASE WriteBalanceRow(w)
    <3>1. /\ step[w] = "writeBalance" /\ Onwards(w)
          /\ balanceRows' = [balanceRows EXCEPT ![h] = [@ EXCEPT ![m.token] = got[w].balance]]
          /\ UNCHANGED <<balanceItems, nftItems, nftRows, nftCount, fundItems, transfer, settledTransfers>>
      BY <2>10 DEF WriteBalanceRow, OnStep
    <3>2. h \in Treasuries /\ got[w].balance \in Int
      BY <2>3, <2>4, <3>1 DEF TokenSteps, MoverType
    <3>3. MoversType'
      BY <2>1, <2>3, <3>1, OnwardsType DEF TokenSteps
    <3>4. balanceRows' \in [Treasuries -> [Tokens -> Int]]
      BY <3>1, <3>2 DEF HoldingsType
    <3>5. HoldingsType'
      BY <2>1, <3>1, <3>4 DEF HoldingsType
    <3> QED
      BY <2>2, <3>3, <3>5
  <2>11. CASE LoadNfts(w)
    <3>1. /\ step[w] = "nft" /\ step' = [step EXCEPT ![w] = "putNfts"]
          /\ UNCHANGED <<holdings, transfer, left, settledTransfers>>
      BY <2>11 DEF LoadNfts, OnStep, To
    <3>2. PICK list \in SUBSET Owned(h) : got' = [got EXCEPT ![w] = list]
      BY <2>11 DEF LoadNfts
    <3>3. list \subseteq Nfts
      BY <3>2 DEF Owned
    <3>4. h \in Treasuries /\ LeftType(w) /\ left[w] # <<>> /\ transfer[w] \in DOMAIN transfers /\ m.kind = "nft"
      BY <2>4, <3>1 DEF NftSteps
    <3>5. step'[w] = "putNfts" /\ transfer'[w] = transfer[w] /\ left'[w] = left[w] /\ got'[w] = list
      BY <3>1, <3>2 DEF MoversType
    <3>6. Moves(w)' = m /\ LeftType(w)'
      BY <2>1, <3>4, <3>5 DEF Moves, LeftType
    <3>7. MoverType(w)'
      BY <2>1, <3>3, <3>4, <3>5, <3>6 DEF MoverType, TokenSteps, NftSteps, ListedSteps
    <3>8. MoversType'
      BY <2>1, <3>1, <3>2, <3>5, <3>7, OneMoves DEF MoversType
    <3>9. HoldingsType'
      BY <2>1, <3>1 DEF HoldingsType, holdings
    <3> QED
      BY <2>2, <3>8, <3>9
  <2>12. ASSUME step[w] \in ListedSteps
         PROVE  /\ h \in Treasuries /\ LeftType(w) /\ left[w] # <<>> /\ transfer[w] \in DOMAIN transfers
                /\ m.kind = "nft" /\ got[w] \subseteq Nfts
    <3>1. step[w] \in NftSteps /\ step[w] # "off"
      BY <2>12 DEF NftSteps, ListedSteps
    <3>2. got[w] \subseteq Nfts
      BY <2>3, <2>12, <3>1 DEF MoverType
    <3> QED
      BY <2>4, <3>1, <3>2
  <2>13. ASSUME NEW s \in ListedSteps, step[w] \in ListedSteps, step' = [step EXCEPT ![w] = s],
                UNCHANGED <<transfer, left, got>>
         PROVE  MoversType'
    <3>1. step'[w] = s /\ transfer'[w] = transfer[w] /\ left'[w] = left[w] /\ got'[w] = got[w]
      BY <2>13 DEF MoversType
    <3>2. Moves(w)' = m /\ LeftType(w)'
      BY <2>1, <2>12, <2>13, <3>1 DEF Moves, LeftType
    <3>3. MoverType(w)'
      BY <2>1, <2>12, <2>13, <3>1, <3>2 DEF MoverType, TokenSteps, NftSteps, ListedSteps
    <3> QED
      BY <2>1, <2>13, <3>1, <3>3, OneMoves DEF MoversType
  <2>14. CASE PutNfts(w)
    <3>1. /\ step[w] = "putNfts" /\ step' = [step EXCEPT ![w] = "saveNfts"]
          /\ nftItems' = [nftItems EXCEPT ![h] = @ \cup got[w]]
          /\ UNCHANGED <<balanceItems, balanceRows, nftRows, nftCount, fundItems, transfer, left, got,
                         settledTransfers>>
      BY <2>14 DEF PutNfts, OnStep, To
    <3>2. MoversType' /\ got[w] \subseteq Nfts /\ h \in Treasuries
      BY <2>12, <2>13, <3>1 DEF ListedSteps
    <3>3. HoldingsType'
      BY <2>1, <3>1, <3>2 DEF HoldingsType
    <3> QED
      BY <2>2, <3>2, <3>3
  <2>15. CASE SaveNfts(w)
    <3>1. /\ step[w] = "saveNfts" /\ step' = [step EXCEPT ![w] = "purge"]
          /\ nftRows' = [n \in Nfts |-> IF n \in got[w] THEN h ELSE nftRows[n]]
          /\ UNCHANGED <<balanceItems, balanceRows, nftItems, nftCount, fundItems, transfer, left, got,
                         settledTransfers>>
      BY <2>15 DEF SaveNfts, OnStep, To
    <3>2. MoversType' /\ got[w] \subseteq Nfts /\ h \in Treasuries
      BY <2>12, <2>13, <3>1 DEF ListedSteps
    <3>3. HoldingsType'
      BY <2>1, <3>1, <3>2 DEF HoldingsType
    <3> QED
      BY <2>2, <3>2, <3>3
  <2>16. CASE PurgeNfts(w)
    <3>1. /\ step[w] = "purge" /\ step' = [step EXCEPT ![w] = "count"]
          /\ nftRows' = [n \in Nfts |-> IF nftRows[n] = h /\ n \notin got[w] THEN Absent ELSE nftRows[n]]
          /\ UNCHANGED <<balanceItems, balanceRows, nftItems, nftCount, fundItems, transfer, left, got,
                         settledTransfers>>
      BY <2>16 DEF PurgeNfts, OnStep, To, Purged
    <3>2. MoversType'
      BY <2>13, <3>1 DEF ListedSteps
    <3>3. HoldingsType'
      BY <2>1, <3>1 DEF HoldingsType
    <3> QED
      BY <2>2, <3>2, <3>3
  <2>17. CASE CountNfts(w)
    <3>1. /\ step[w] = "count" /\ Onwards(w)
          /\ \E c : nftCount' = [nftCount EXCEPT ![h] = c]
          /\ UNCHANGED <<balanceItems, balanceRows, nftItems, nftRows, fundItems, transfer, settledTransfers>>
      BY <2>17 DEF CountNfts, OnStep
    <3>2. MoversType'
      BY <2>1, <2>3, <3>1, OnwardsType DEF NftSteps, ListedSteps
    <3>3. HoldingsType'
      BY <2>1, <3>1 DEF HoldingsType
    <3> QED
      BY <2>2, <3>2, <3>3
  <2>18. CASE SaveFunds(w)
    <3>1. /\ step[w] = "funds" /\ step' = [step EXCEPT ![w] = "mark"]
          /\ UNCHANGED <<balanceItems, balanceRows, nftItems, nftRows, nftCount, transfer, left, got,
                         settledTransfers>>
      BY <2>18 DEF SaveFunds, OnStep, To
    <3>2. fundItems' = IF Moved(m) THEN [fundItems EXCEPT ![FundsOwner(m)] = @ \cup {transfer[w]}]
                       ELSE fundItems
      BY <2>18 DEF SaveFunds
    <3>3. step'[w] = "mark" /\ transfer'[w] = transfer[w] /\ left'[w] = left[w]
      BY <3>1 DEF MoversType
    <3>4. left[w] = <<>> /\ transfer[w] \in DOMAIN transfers
      BY <2>3, <3>1 DEF MoverType, TokenSteps, NftSteps, ListedSteps
    <3>5. MoverType(w)'
      BY <2>1, <3>3, <3>4 DEF MoverType, LeftType, TokenSteps, NftSteps, ListedSteps
    <3>6. MoversType'
      BY <2>1, <3>1, <3>3, <3>5, OneMoves DEF MoversType
    <3>7. fundItems' = [d \in Treasuries |-> fundItems'[d]]
      BY <3>2 DEF HoldingsType
    <3>8. HoldingsType'
      BY <2>1, <3>1, <3>7 DEF HoldingsType
    <3> QED
      BY <2>2, <3>6, <3>8
  <2>19. CASE MarkTransfer(w)
    <3>1. /\ step[w] = "mark" /\ step' = [step EXCEPT ![w] = "off"]
          /\ settledTransfers' = settledTransfers \cup {transfer[w]}
          /\ transfer' = [transfer EXCEPT ![w] = 0] /\ UNCHANGED <<holdings, left, got>>
      BY <2>19 DEF MarkTransfer, OnStep, To
    <3>2. step'[w] = "off" /\ transfer'[w] = 0
      BY <3>1 DEF MoversType
    <3>3. MoverType(w)'
      BY <3>2 DEF MoverType
    <3>4. MoversType'
      BY <2>1, <3>1, <3>2, <3>3, OneMoves DEF MoversType
    <3>5. transfer[w] \in DOMAIN transfers
      BY <2>3, <3>1 DEF MoverType
    <3>6. HoldingsType'
      BY <2>1, <3>1, <3>5 DEF HoldingsType, holdings
    <3> QED
      BY <2>2, <3>4, <3>6
  <2> QED
    BY <1>3, <2>6, <2>7, <2>8, <2>9, <2>10, <2>11, <2>14, <2>15, <2>16, <2>17, <2>18, <2>19
<1> QED
  BY <1>1, <1>2, <1>3 DEF TreasuryNext

LEMMA FundsNext ==
  ASSUME TransfersType, HoldingsType, MoversType, FundsKept, TreasuryNext
  PROVE  FundsKept'
<1>1. CASE Transfer
  <2>1. PICK m : /\ MoveOf(m, m.kind) /\ transfers' = Append(transfers, m)
                 /\ UNCHANGED <<holdings, moving>>
    BY <1>1, TransferFacts
  <2>2. /\ DOMAIN transfers \subseteq DOMAIN transfers'
        /\ \A k \in DOMAIN transfers : transfers'[k] = transfers[k]
    BY <2>1, OneMore
  <2>3. \A w \in Movers : step[w] = "mark" => transfer[w] \in DOMAIN transfers
    BY DEF MoversType, MoverType
  <2>4. \A w \in Movers : step[w] = "mark" => Moves(w)' = Moves(w)
    BY <2>1, <2>2, <2>3 DEF Moves, moving
  <2>5. settledTransfers \subseteq DOMAIN transfers
    BY DEF HoldingsType
  <2> QED
    BY <2>1, <2>2, <2>3, <2>4, <2>5 DEF FundsKept, holdings, moving
<1>2. CASE CrashMain
  <2>1. /\ step' = [step EXCEPT !["mainConsumer"] = "off"] /\ UNCHANGED <<transfers, holdings, settledTransfers>>
        /\ transfer' = [transfer EXCEPT !["mainConsumer"] = 0]
    BY <1>2 DEF CrashMain
  <2>2. \A w \in Movers : step'[w] = "mark" => step[w] = "mark" /\ transfer'[w] = transfer[w]
    BY <2>1 DEF MoversType
  <2> QED
    BY <2>1, <2>2 DEF FundsKept, holdings, Moves
<1>3. ASSUME NEW w \in Movers,
             \/ StartTransfer(w) \/ SkipDao(w)
             \/ ReadTokens(w) \/ WriteTokens(w) \/ WriteBalanceRow(w)
             \/ LoadNfts(w) \/ PutNfts(w) \/ SaveNfts(w) \/ PurgeNfts(w) \/ CountNfts(w)
             \/ SaveFunds(w) \/ MarkTransfer(w)
      PROVE  FundsKept'
  <2>1. UNCHANGED transfers
    BY <1>3 DEF StartTransfer, SkipDao, ReadTokens, WriteTokens, WriteBalanceRow, LoadNfts, PutNfts,
                SaveNfts, PurgeNfts, CountNfts, SaveFunds, MarkTransfer
  <2>2. ASSUME UNCHANGED <<fundItems, settledTransfers>>,
               \A u \in Movers : step'[u] = "mark" => step[u] = "mark" /\ transfer'[u] = transfer[u]
        PROVE  FundsKept'
    BY <2>1, <2>2 DEF FundsKept, Moves
  <2>3. CASE StartTransfer(w)
    <3>1. PICK k \in DOMAIN transfers \ settledTransfers :
            /\ step' = [step EXCEPT ![w] = IF DaosOf(transfers[k]) = <<>> THEN "funds" ELSE transfers[k].kind]
            /\ transfer' = [transfer EXCEPT ![w] = k]
      BY <2>3 DEF StartTransfer, To
    <3>2. transfers[k].kind \in TransferKinds
      <4>1. transfers[k] \in TransferRecords
        BY DEF TransfersType
      <4> QED
        BY <4>1 DEF TransferRecords
    <3>3. step'[w] # "mark" /\ \A u \in Movers \ {w} : step'[u] = step[u] /\ transfer'[u] = transfer[u]
      BY <3>1, <3>2 DEF MoversType, TransferKinds
    <3>4. UNCHANGED <<fundItems, settledTransfers>>
      BY <2>3 DEF StartTransfer, holdings
    <3> QED
      BY <2>2, <3>3, <3>4
  <2>4. ASSUME NEW s, s # "mark", step' = [step EXCEPT ![w] = s],
               UNCHANGED <<fundItems, transfer, settledTransfers>>
        PROVE  FundsKept'
    <3>1. \A u \in Movers : step'[u] = "mark" => step[u] = "mark" /\ transfer'[u] = transfer[u]
      BY <2>4 DEF MoversType
    <3> QED
      BY <2>2, <2>4, <3>1
  <2>5. ASSUME Onwards(w), step[w] \in TokenSteps \cup NftSteps,
               UNCHANGED <<fundItems, transfer, settledTransfers>>
        PROVE  FundsKept'
    <3>1. MoverType(w)
      BY DEF MoversType
    <3>2. step'[w] \in {"token", "nft", "funds"}
      BY <2>1, <2>5, <3>1, OnwardsType
    <3>3. step' = [step EXCEPT ![w] = IF Len(left[w]) > 1 THEN Moves(w).kind ELSE "funds"]
      BY <2>5 DEF Onwards, To
    <3>4. \A u \in Movers \ {w} : step'[u] = step[u]
      BY <3>3 DEF MoversType
    <3>5. \A u \in Movers : step'[u] = "mark" => step[u] = "mark" /\ transfer'[u] = transfer[u]
      BY <2>5, <3>2, <3>4
    <3> QED
      BY <2>2, <2>5, <3>5
  <2>6. CASE SkipDao(w) \/ WriteBalanceRow(w) \/ CountNfts(w)
    <3>1. Onwards(w) /\ UNCHANGED <<fundItems, transfer, settledTransfers>>
          /\ step[w] \in {"token", "nft", "writeBalance", "count"}
      BY <2>6 DEF SkipDao, WriteBalanceRow, CountNfts, holdings, OnStep
    <3> QED
      BY <2>5, <3>1 DEF TokenSteps, NftSteps, ListedSteps
  <2>7. CASE ReadTokens(w) \/ WriteTokens(w) \/ LoadNfts(w) \/ PutNfts(w) \/ SaveNfts(w) \/ PurgeNfts(w)
    <3>1. UNCHANGED <<fundItems, transfer, settledTransfers>>
      BY <2>7 DEF ReadTokens, WriteTokens, LoadNfts, PutNfts, SaveNfts, PurgeNfts, holdings
    <3>2. \E s \in {"writeTokens", "writeBalance", "putNfts", "saveNfts", "purge", "count"} :
            step' = [step EXCEPT ![w] = s]
      BY <2>7 DEF ReadTokens, WriteTokens, LoadNfts, PutNfts, SaveNfts, PurgeNfts, To
    <3> QED
      BY <2>4, <3>1, <3>2
  <2> DEFINE m == Moves(w)
             k == transfer[w]
  <2>8. MoverType(w)
    BY DEF MoversType
  <2>9. CASE SaveFunds(w)
    <3>1. /\ step[w] = "funds" /\ step' = [step EXCEPT ![w] = "mark"]
          /\ UNCHANGED <<transfer, settledTransfers>>
      BY <2>9 DEF SaveFunds, OnStep, To
    <3>2. fundItems' = IF Moved(m) THEN [fundItems EXCEPT ![FundsOwner(m)] = @ \cup {k}] ELSE fundItems
      BY <2>9 DEF SaveFunds
    <3>3. k \in DOMAIN transfers /\ m = transfers[k]
      BY <2>8, <3>1 DEF MoverType, Moves
    <3>4. Moved(m) => FundsOwner(m) \in Treasuries
      BY DEF Moved, FundsOwner
    <3>5. fundItems = [d \in Treasuries |-> fundItems[d]]
      BY DEF HoldingsType
    <3>6. \A d \in Treasuries : fundItems'[d] = IF Moved(m) /\ d = FundsOwner(m)
                                              THEN fundItems[d] \cup {k} ELSE fundItems[d]
      BY <3>2, <3>4, <3>5
    <3>7. \A d \in Treasuries : \A j \in fundItems'[d] :
            j \in DOMAIN transfers /\ Moved(transfers[j]) /\ FundsOwner(transfers[j]) = d
      <4> SUFFICES ASSUME NEW d \in Treasuries, NEW j \in fundItems'[d]
                   PROVE  j \in DOMAIN transfers /\ Moved(transfers[j]) /\ FundsOwner(transfers[j]) = d
        OBVIOUS
      <4>1. CASE j \in fundItems[d]
        BY <4>1 DEF FundsKept
      <4>2. CASE j \notin fundItems[d]
        <5>1. j = k /\ Moved(m) /\ d = FundsOwner(m)
          BY <3>6, <4>2
        <5> QED
          BY <3>3, <5>1
      <4> QED
        BY <4>1, <4>2
    <3>8. \A d \in Treasuries : fundItems[d] \subseteq fundItems'[d]
      BY <3>6
    <3>9. \A j \in settledTransfers : Moved(transfers[j]) =>
            FundsOwner(transfers[j]) \in Treasuries /\ j \in fundItems'[FundsOwner(transfers[j])]
      <4>1. \A j \in settledTransfers : Moved(transfers[j]) => FundsOwner(transfers[j]) \in Treasuries
        BY DEF Moved, FundsOwner
      <4> QED
        BY <3>8, <4>1 DEF FundsKept
    <3>10. \A u \in Movers : step'[u] = "mark" /\ Moved(Moves(u)) => transfer[u] \in fundItems'[FundsOwner(Moves(u))]
      <4> SUFFICES ASSUME NEW u \in Movers, step'[u] = "mark", Moved(Moves(u))
                   PROVE  transfer[u] \in fundItems'[FundsOwner(Moves(u))]
        OBVIOUS
      <4>1. FundsOwner(Moves(u)) \in Treasuries
        BY DEF Moved, FundsOwner
      <4>2. CASE u = w
        BY <3>6, <4>1, <4>2
      <4>3. CASE u # w
        BY <3>1, <3>8, <4>1, <4>3 DEF FundsKept, MoversType
      <4> QED
        BY <4>2, <4>3
    <3> QED
      BY <2>1, <3>1, <3>7, <3>9, <3>10 DEF FundsKept, Moves
  <2>10. CASE MarkTransfer(w)
    <3>1. /\ step[w] = "mark" /\ step' = [step EXCEPT ![w] = "off"]
          /\ settledTransfers' = settledTransfers \cup {k}
          /\ transfer' = [transfer EXCEPT ![w] = 0] /\ UNCHANGED fundItems
      BY <2>10 DEF MarkTransfer, OnStep, To, holdings
    <3>2. \A u \in Movers : step'[u] = "mark" => step[u] = "mark" /\ transfer'[u] = transfer[u]
      BY <3>1 DEF MoversType
    <3>3. Moved(transfers[k]) => k \in fundItems[FundsOwner(transfers[k])]
      BY <3>1 DEF FundsKept, Moves
    <3> QED
      BY <2>1, <3>1, <3>2, <3>3 DEF FundsKept, Moves
  <2> QED
    BY <1>3, <2>3, <2>6, <2>7, <2>9, <2>10
<1> QED
  BY <1>1, <1>2, <1>3 DEF TreasuryNext

LEMMA DueGrows ==
  ASSUME TransfersType, NEW m, MoveOf(m, m.kind), transfers' = Append(transfers, m), NEW k
  PROVE  /\ \A d, t : TokenDue(d, t, k) => TokenDue(d, t, k)'
         /\ \A h : NftDue(h, k) => NftDue(h, k)'
         /\ k \in DOMAIN transfers => \A d \in {m.from, m.to} :
              /\ m.kind = "token" => TokenDue(d, m.token, k)'
              /\ m.kind = "nft" => NftDue(d, k)'
<1>1. /\ DOMAIN transfers = 1 .. Len(transfers) /\ DOMAIN transfers' = 1 .. Len(transfers) + 1
      /\ \A j \in DOMAIN transfers : transfers'[j] = transfers[j]
      /\ transfers'[Len(transfers) + 1] = m /\ Len(transfers) \in Nat
  BY OneMore
<1>2. DOMAIN transfers \subseteq DOMAIN transfers'
  BY <1>1
<1>3. k \in DOMAIN transfers => Len(transfers) + 1 > k /\ Len(transfers) + 1 \in DOMAIN transfers'
  BY <1>1
<1> QED
  BY <1>1, <1>2, <1>3 DEF TokenDue, NftDue

LEMMA ChainNext ==
  ASSUME TreasuryAssumption, TransfersType, HoldingsType, MoversType, ChainKept, TreasuryNext
  PROVE  ChainKept'
<1>1. CASE Transfer
  <2>1. PICK m : MoveOf(m, m.kind) /\ transfers' = Append(transfers, m)
    BY <1>1, TransferFacts
  <2>2. /\ DOMAIN transfers = 1 .. Len(transfers) /\ DOMAIN transfers' = 1 .. Len(transfers) + 1
        /\ \A k \in DOMAIN transfers : transfers'[k] = transfers[k]
        /\ transfers'[Len(transfers) + 1] = m /\ Chain' = m /\ Len(transfers) \in Nat
    BY <2>1, OneMore
  <2>3. ASSUME NEW k \in DOMAIN transfers', NEW d \in Treasuries, NEW t \in Tokens
        PROVE  transfers'[k].tokens[t][d] = Chain'.tokens[t][d] \/ TokenDue(d, t, k)'
    <3>1. CASE k = Len(transfers) + 1
      BY <2>2, <3>1
    <3>2. CASE k \in DOMAIN transfers
      <4>1. CASE m.tokens[t][d] = Chain.tokens[t][d]
        <5>1. TokenDue(d, t, k) => TokenDue(d, t, k)'
          BY <2>1, DueGrows
        <5> QED
          BY <2>2, <3>2, <4>1, <5>1 DEF ChainKept
      <4>2. CASE m.kind = "token" /\ t = m.token /\ d \in {m.from, m.to}
        BY <2>1, <3>2, <4>2, DueGrows
      <4> QED
        BY <2>1, <4>1, <4>2 DEF MoveOf
    <3> QED
      BY <2>2, <3>1, <3>2
  <2> QED
    BY <2>3 DEF ChainKept
<1>2. CASE UNCHANGED transfers
  BY <1>2 DEF ChainKept, Chain, TokenDue
<1> QED
  BY <1>1, <1>2 DEF TreasuryNext, CrashMain, StartTransfer, SkipDao, ReadTokens, WriteTokens,
                    WriteBalanceRow, LoadNfts, PutNfts, SaveNfts, PurgeNfts, CountNfts, SaveFunds,
                    MarkTransfer

LEMMA AheadNamed ==
  ASSUME NEW w, LeftType(w)
  PROVE  Ahead(w) \subseteq Treasuries \cap {Moves(w).from, Moves(w).to}
<1>1. CASE left[w] = <<>>
  BY <1>1 DEF Ahead
<1>2. CASE \E d \in Treasuries \cap {Moves(w).from, Moves(w).to} : left[w] = <<d>>
  <2>1. PICK d \in Treasuries \cap {Moves(w).from, Moves(w).to} : left[w] = <<d>>
    BY <1>2
  <2>2. DOMAIN <<d>> = {1} /\ <<d>>[1] = d
    OBVIOUS
  <2> QED
    BY <2>1, <2>2 DEF Ahead
<1>3. CASE /\ Moves(w).from \in Treasuries /\ Moves(w).to \in Treasuries
           /\ left[w] = <<Moves(w).from, Moves(w).to>>
  <2> DEFINE a == Moves(w).from
             b == Moves(w).to
  <2>1. DOMAIN <<a, b>> = {1, 2} /\ <<a, b>>[1] = a /\ <<a, b>>[2] = b
    OBVIOUS
  <2> QED
    BY <1>3, <2>1 DEF Ahead
<1> QED
  BY <1>1, <1>2, <1>3 DEF LeftType

LEMMA AheadOfDaos ==
  ASSUME NEW w, NEW m, left[w] = DaosOf(m), m.kind # "near"
  PROVE  Ahead(w) = Treasuries \cap {m.from, m.to}
<1>1. /\ DOMAIN <<>> = {}
      /\ \A a : DOMAIN <<a>> = {1} /\ <<a>>[1] = a
      /\ \A a, b : DOMAIN <<a, b>> = {1, 2} /\ <<a, b>>[1] = a /\ <<a, b>>[2] = b
  OBVIOUS
<1>2. CASE m.from \in Treasuries /\ m.to \in Treasuries
  BY <1>1, <1>2, DaosOfType DEF Ahead
<1>3. CASE m.from \in Treasuries /\ m.to \notin Treasuries
  BY <1>1, <1>3, DaosOfType DEF Ahead
<1>4. CASE m.from \notin Treasuries /\ m.to \in Treasuries
  BY <1>1, <1>4, DaosOfType DEF Ahead
<1>5. CASE m.from \notin Treasuries /\ m.to \notin Treasuries
  BY <1>1, <1>5, DaosOfType DEF Ahead
<1> QED
  BY <1>2, <1>3, <1>4, <1>5

\* A receipt leaves shown what it does not move.
LEMMA KeptByTransfer ==
  ASSUME TreasuryAssumption, TransfersType, HoldingsType, NEW m, MoveOf(m, m.kind),
         transfers' = Append(transfers, m), UNCHANGED holdings,
         budget' = [budget EXCEPT !.transfers = @ - 1],
         NEW k \in DOMAIN transfers, NEW busy
  PROVE  /\ TokensKept(k, busy) => TokensKept(k, busy)'
         /\ NftsKept(k, busy) => NftsKept(k, busy)'
         /\ \A h \in Treasuries, list \in SUBSET Nfts : ListKept(h, list, k) => ListKept(h, list, k)'
<1>1. /\ Chain' = m /\ transfers'[k] = transfers[k] /\ Chain \in TransferRecords /\ m \in TransferRecords
  BY OneMore, ChainType DEF MoveOf
<1>2. /\ \A d, t : TokenDue(d, t, k) => TokenDue(d, t, k)'
      /\ \A h : NftDue(h, k) => NftDue(h, k)'
      /\ \A d \in {m.from, m.to} :
           /\ m.kind = "token" => TokenDue(d, m.token, k)'
           /\ m.kind = "nft" => NftDue(d, k)'
  BY DueGrows
<1>3. ASSUME NEW d \in Treasuries, NEW t \in Tokens, TokenShown(d, t)
      PROVE  TokenShown(d, t)' \/ TokenDue(d, t, k)'
  <2>1. CASE m.tokens[t][d] = Chain.tokens[t][d]
    BY <1>1, <1>3, <2>1 DEF TokenShown, holdings
  <2>2. CASE m.kind = "token" /\ t = m.token /\ d \in {m.from, m.to}
    BY <1>2, <2>2
  <2> QED
    BY <2>1, <2>2 DEF MoveOf
<1>4. TokensKept(k, busy) => TokensKept(k, busy)'
  BY <1>1, <1>2, <1>3 DEF TokensKept
<1>5. ASSUME NEW n \in Nfts, NEW a, a = Chain.owner[n], m.owner[n] # a
      PROVE  NftDue(a, k)' /\ NftDue(m.owner[n], k)'
  <2>1. m.kind = "nft" /\ m.from = a /\ m.to = m.owner[n]
    BY <1>5 DEF MoveOf
  <2> QED
    BY <1>2, <2>1
<1>6. ASSUME NEW h
      PROVE  Owned(h)' = Owned(h) \/ NftDue(h, k)'
  <2>1. CASE \A n \in Nfts : m.owner[n] = h <=> Chain.owner[n] = h
    BY <1>1, <2>1 DEF Owned
  <2>2. CASE \E n \in Nfts : m.owner[n] # Chain.owner[n] /\ h \in {m.owner[n], Chain.owner[n]}
    BY <1>5, <2>2
  <2> QED
    BY <2>1, <2>2
<1>7. budget'.nftDynamo = budget.nftDynamo
  BY DEF HoldingsType, Budgets
<1>8. NftsKept(k, busy) => NftsKept(k, busy)'
  <2> SUFFICES ASSUME NftsKept(k, busy), NEW d \in Treasuries
               PROVE  NftsShown(d)' \/ NftDue(d, k)' \/ (d \in busy /\ transfers'[k].kind = "nft")
    BY DEF NftsKept
  <2>1. CASE NftsShown(d) /\ Owned(d)' = Owned(d)
    BY <1>7, <2>1 DEF NftsShown, holdings
  <2> QED
    BY <1>1, <1>2, <1>6, <2>1 DEF NftsKept
<1>9. ASSUME NEW h \in Treasuries, NEW list \in SUBSET Nfts, ListKept(h, list, k)
      PROVE  ListKept(h, list, k)'
  <2>1. list = Owned(h)' \/ NftDue(h, k)'
    BY <1>2, <1>6, <1>9 DEF ListKept
  <2>2. ASSUME NEW n \in list
        PROVE  m.owner[n] = h \/ NftDue(m.owner[n], k)'
    BY <1>2, <1>5, <1>9 DEF ListKept
  <2> QED
    BY <1>1, <2>1, <2>2 DEF ListKept
<1> QED
  BY <1>4, <1>8, <1>9

\* What holds of the holdings depends on nothing else.
LEMMA HoldingsFrame ==
  ASSUME UNCHANGED <<transfers, balanceItems, balanceRows, nftItems, nftRows, nftCount>>,
         budget'.nftDynamo = budget.nftDynamo
  PROVE  /\ \A d, t : TokenShown(d, t)' <=> TokenShown(d, t)
         /\ \A d : NftsShown(d)' <=> NftsShown(d)
         /\ \A k, busy : TokensKept(k, busy) => TokensKept(k, busy)'
         /\ \A k, busy : NftsKept(k, busy) => NftsKept(k, busy)'
<1>1. \A d, t : TokenShown(d, t)' <=> TokenShown(d, t)
  BY DEF TokenShown, Chain
<1>2. \A d : NftsShown(d)' <=> NftsShown(d)
  BY DEF NftsShown, Owned, Chain
<1>3. \A k : /\ \A d, t : TokenDue(d, t, k)' <=> TokenDue(d, t, k)
             /\ \A h : NftDue(h, k)' <=> NftDue(h, k)
  BY DEF TokenDue, NftDue
<1> QED
  BY <1>1, <1>2, <1>3 DEF TokensKept, NftsKept

\* A receipt after the k-th comes after those before it.
LEMMA DueEarlier ==
  ASSUME TransfersType, NEW k \in DOMAIN transfers, k - 1 \in DOMAIN transfers
  PROVE  /\ \A d, t : TokenDue(d, t, k - 1) <=>
              \/ TokenDue(d, t, k)
              \/ /\ transfers[k].kind = "token" /\ transfers[k].token = t
                 /\ d \in {transfers[k].from, transfers[k].to}
         /\ \A h : NftDue(h, k - 1) <=>
              \/ NftDue(h, k)
              \/ transfers[k].kind = "nft" /\ h \in {transfers[k].from, transfers[k].to}
<1>1. \A j \in DOMAIN transfers : j > k - 1 <=> j = k \/ j > k
  BY DEF TransfersType
<1> QED
  BY <1>1 DEF TokenDue, NftDue

LEMMA DaosElements ==
  ASSUME NEW m, m.kind # "near"
  PROVE  {DaosOf(m)[i] : i \in DOMAIN DaosOf(m)} = Treasuries \cap {m.from, m.to}
<1>1. /\ DOMAIN <<>> = {}
      /\ \A a : DOMAIN <<a>> = {1} /\ <<a>>[1] = a
      /\ \A a, b : DOMAIN <<a, b>> = {1, 2} /\ <<a, b>>[1] = a /\ <<a, b>>[2] = b
  OBVIOUS
<1>2. CASE m.from \in Treasuries /\ m.to \in Treasuries
  BY <1>1, <1>2, DaosOfType
<1>3. CASE m.from \in Treasuries /\ m.to \notin Treasuries
  BY <1>1, <1>3, DaosOfType
<1>4. CASE m.from \notin Treasuries /\ m.to \in Treasuries
  BY <1>1, <1>4, DaosOfType
<1>5. CASE m.from \notin Treasuries /\ m.to \notin Treasuries
  BY <1>1, <1>5, DaosOfType
<1> QED
  BY <1>2, <1>3, <1>4, <1>5

\* One step for the first of the DAOs.
LEMMA HandlingNext ==
  ASSUME TreasuryAssumption, TransfersType, HoldingsType, MoversType, ChainKept, MoversType',
         ~budget.failing,
         NEW c \in Movers, NEW k \in DOMAIN transfers, transfer[c] = k, Handling(c, k),
         UNCHANGED <<transfers, budget, transfer>>,
         \/ ReadTokens(c) \/ WriteTokens(c) \/ WriteBalanceRow(c)
         \/ LoadNfts(c) \/ PutNfts(c) \/ SaveNfts(c) \/ PurgeNfts(c) \/ CountNfts(c)
         \/ SaveFunds(c)
  PROVE  Handling(c, k)' /\ step'[c] # "off"
<1> DEFINE h == Head(left[c])
           m == transfers[k]
<1>1. /\ MoverType(c) /\ Moves(c) = m /\ Moves(c)' = m
      /\ TokensKept(k, Ahead(c)) /\ NftsKept(k, Ahead(c)) /\ DaoKept(c, k)
  BY DEF Handling, Moves, MoversType
<1>2. ASSUME step[c] \in TokenSteps \cup NftSteps
      PROVE  /\ h \in Treasuries /\ LeftType(c) /\ left[c] # <<>> /\ h \in Ahead(c)
             /\ step[c] \in TokenSteps => m.kind = "token" /\ m.token \in Tokens
             /\ step[c] \in NftSteps => m.kind = "nft"
  <2>1. LeftType(c) /\ left[c] # <<>>
        /\ (step[c] \in TokenSteps => m.kind = "token")
        /\ (step[c] \in NftSteps => m.kind = "nft")
    BY <1>1, <1>2 DEF MoverType, TokenSteps, NftSteps, ListedSteps
  <2>2. h \in Treasuries /\ h \in Ahead(c)
    BY <2>1, LeftFacts
  <2> QED
    BY <2>1, <2>2 DEF TransfersType
<1>3. \A d, t, j : TokenDue(d, t, j)' <=> TokenDue(d, t, j)
  BY DEF TokenDue
<1>4. \A d, j : NftDue(d, j)' <=> NftDue(d, j)
  BY DEF NftDue
<1>5. Chain' = Chain /\ \A d : Owned(d)' = Owned(d)
  BY DEF Chain, Owned
<1>6. ASSUME UNCHANGED <<balanceItems, balanceRows>>
      PROVE  \A busy : TokensKept(k, busy) => TokensKept(k, busy)'
  BY <1>3, <1>5, <1>6 DEF TokensKept, TokenShown
<1>7. ASSUME UNCHANGED <<nftItems, nftRows, nftCount>>
      PROVE  \A busy : NftsKept(k, busy) => NftsKept(k, busy)'
  BY <1>4, <1>5, <1>7 DEF NftsKept, NftsShown
<1>8. ASSUME left'[c] = left[c]
      PROVE  Ahead(c)' = Ahead(c)
  BY <1>8 DEF Ahead
<1>9. ASSUME NEW s, step' = [step EXCEPT ![c] = s]
      PROVE  step'[c] = s
  BY <1>9 DEF MoversType
<1>10. ASSUME Onwards(c), step[c] \in TokenSteps \cup NftSteps
       PROVE  /\ Ahead(c) = {h} \cup Ahead(c)' /\ DaoKept(c, k)' /\ step'[c] # "off"
  <2>1. Ahead(c) = {h} \cup Ahead(c)' /\ step'[c] \in {"token", "nft", "funds"}
    BY <1>1, <1>10, OnwardsType
  <2> QED
    BY <2>1 DEF DaoKept, ListedSteps
<1>11. CASE ReadTokens(c)
  <2>1. /\ step[c] = "token" /\ step' = [step EXCEPT ![c] = "writeTokens"]
        /\ got' = [got EXCEPT ![c] = [balance |-> m.tokens[m.token][h], list |-> balanceItems[h]]]
        /\ UNCHANGED <<holdings, left>>
    BY <1>1, <1>11 DEF ReadTokens, OnStep, To
  <2>2. step'[c] = "writeTokens" /\ left'[c] = left[c]
        /\ got'[c] = [balance |-> m.tokens[m.token][h], list |-> balanceItems[h]]
    BY <1>9, <2>1 DEF MoversType
  <2>3. DaoKept(c, k)'
    BY <2>1, <2>2 DEF DaoKept, ListedSteps, holdings
  <2>4. PICK ahead : ahead = Ahead(c)
    OBVIOUS
  <2>5. TokensKept(k, ahead)' /\ NftsKept(k, ahead)'
    BY <1>1, <1>6, <1>7, <2>1, <2>4 DEF holdings
  <2> QED
    BY <1>8, <2>2, <2>3, <2>4, <2>5 DEF Handling
<1>12. CASE WriteTokens(c)
  <2> DEFINE t == m.token
  <2>1. /\ step[c] = "writeTokens" /\ step' = [step EXCEPT ![c] = "writeBalance"]
        /\ balanceItems' = [balanceItems EXCEPT ![h] = [got[c].list EXCEPT ![t] = got[c].balance]]
        /\ UNCHANGED <<balanceRows, nftItems, nftRows, nftCount, left, got>>
    BY <1>1, <1>12 DEF WriteTokens, OnStep, To, NewList
  <2>2. h \in Treasuries /\ h \in Ahead(c) /\ m.kind = "token" /\ t \in Tokens
    BY <1>2, <2>1 DEF TokenSteps
  <2>3. got[c] = [balance |-> m.tokens[t][h], list |-> balanceItems[h]]
    BY <1>1, <2>1 DEF DaoKept
  <2>4. step'[c] = "writeBalance" /\ left'[c] = left[c] /\ got'[c] = got[c]
    BY <1>9, <2>1
  <2>5. balanceItems' = [balanceItems EXCEPT ![h] = [balanceItems[h] EXCEPT ![t] = m.tokens[t][h]]]
    BY <2>1, <2>3
  <2>6. balanceItems \in [Treasuries -> [Tokens -> Int]]
    BY DEF HoldingsType
  <2>7. balanceItems'[h][t] = m.tokens[t][h]
    BY <2>2, <2>5, <2>6
  <2>8. DaoKept(c, k)'
    BY <2>3, <2>4, <2>7 DEF DaoKept, ListedSteps
  <2>9. ASSUME NEW d \in Treasuries, NEW u \in Tokens, ~(d = h /\ u = t)
        PROVE  TokenShown(d, u) => TokenShown(d, u)'
    <3>1. balanceItems'[d][u] = balanceItems[d][u]
      BY <2>5, <2>6, <2>9
    <3> QED
      BY <1>5, <2>1, <3>1 DEF TokenShown
  <2>10. PICK ahead : ahead = Ahead(c)
    OBVIOUS
  <2>11. TokensKept(k, ahead)'
    BY <1>1, <1>3, <2>2, <2>9, <2>10 DEF TokensKept
  <2>12. NftsKept(k, ahead)'
    BY <1>1, <1>7, <2>1, <2>10
  <2> QED
    BY <1>8, <2>4, <2>8, <2>10, <2>11, <2>12 DEF Handling
<1>13. CASE WriteBalanceRow(c)
  <2> DEFINE t == m.token
  <2>1. /\ step[c] = "writeBalance" /\ Onwards(c)
        /\ balanceRows' = [balanceRows EXCEPT ![h] = [@ EXCEPT ![t] = got[c].balance]]
        /\ UNCHANGED <<balanceItems, nftItems, nftRows, nftCount>>
    BY <1>1, <1>13 DEF WriteBalanceRow, OnStep
  <2>2. h \in Treasuries /\ m.kind = "token" /\ t \in Tokens
    BY <1>2, <2>1 DEF TokenSteps
  <2>3. got[c].balance = m.tokens[t][h] /\ balanceItems[h][t] = got[c].balance
    BY <1>1, <2>1 DEF DaoKept
  <2>4. balanceRows \in [Treasuries -> [Tokens -> Int]]
    BY DEF HoldingsType
  <2>5. balanceRows'[h][t] = m.tokens[t][h]
    BY <2>1, <2>2, <2>3, <2>4
  <2>6. ASSUME NEW d \in Treasuries, NEW u \in Tokens, d = h, u = t
        PROVE  TokenShown(d, u)' \/ TokenDue(d, u, k)'
    <3>1. TokenDue(d, u, k) \/ m.tokens[u][d] = Chain.tokens[u][d]
      BY DEF ChainKept
    <3> QED
      BY <1>3, <1>5, <2>1, <2>3, <2>5, <2>6, <3>1 DEF TokenShown
  <2>7. ASSUME NEW d \in Treasuries, NEW u \in Tokens, ~(d = h /\ u = t)
        PROVE  TokenShown(d, u) => TokenShown(d, u)'
    <3>1. balanceRows'[d][u] = balanceRows[d][u]
      BY <2>1, <2>4, <2>7
    <3> QED
      BY <1>5, <2>1, <3>1 DEF TokenShown
  <2>8. Ahead(c) = {h} \cup Ahead(c)' /\ DaoKept(c, k)' /\ step'[c] # "off"
    BY <1>10, <2>1 DEF TokenSteps
  <2>9. PICK ahead, first : ahead = Ahead(c)' /\ first = h
    OBVIOUS
  <2>10. TokensKept(k, {first} \cup ahead) /\ NftsKept(k, {first} \cup ahead)
    BY <1>1, <2>8, <2>9
  <2>11. TokensKept(k, ahead)'
    BY <1>3, <2>6, <2>7, <2>9, <2>10 DEF TokensKept
  <2>12. NftsKept(k, ahead)
    BY <2>2, <2>10 DEF NftsKept
  <2>13. NftsKept(k, ahead)'
    BY <1>7, <2>1, <2>12
  <2> QED
    BY <2>8, <2>9, <2>11, <2>13 DEF Handling
<1>14. CASE SaveFunds(c)
  <2>1. /\ step[c] = "funds" /\ step' = [step EXCEPT ![c] = "mark"]
        /\ UNCHANGED <<balanceItems, balanceRows, nftItems, nftRows, nftCount, left>>
    BY <1>14 DEF SaveFunds, OnStep, To
  <2>2. step'[c] = "mark" /\ left'[c] = left[c]
    BY <1>9, <2>1
  <2>3. DaoKept(c, k)'
    BY <2>2 DEF DaoKept, ListedSteps
  <2>4. PICK ahead : ahead = Ahead(c)
    OBVIOUS
  <2>5. TokensKept(k, ahead)' /\ NftsKept(k, ahead)'
    BY <1>1, <1>6, <1>7, <2>1, <2>4
  <2> QED
    BY <1>8, <2>2, <2>3, <2>4, <2>5 DEF Handling
<1>15. CASE LoadNfts(c)
  <2>1. /\ step[c] = "nft" /\ step' = [step EXCEPT ![c] = "putNfts"]
        /\ got' = [got EXCEPT ![c] = Owned(h)] /\ UNCHANGED <<holdings, left>>
    BY <1>15 DEF LoadNfts, OnStep, To
  <2>2. step'[c] = "putNfts" /\ left'[c] = left[c] /\ got'[c] = Owned(h)
    BY <1>9, <2>1 DEF MoversType
  <2>3. PICK d, list : d = h /\ list = Owned(h)
    OBVIOUS
  <2>4. ListKept(d, list, k)'
    BY <1>5, <2>3 DEF ListKept, Owned
  <2>5. DaoKept(c, k)'
    BY <2>2, <2>3, <2>4 DEF DaoKept, ListedSteps
  <2>6. PICK ahead : ahead = Ahead(c)
    OBVIOUS
  <2>7. TokensKept(k, ahead)' /\ NftsKept(k, ahead)'
    BY <1>1, <1>6, <1>7, <2>1, <2>6 DEF holdings
  <2> QED
    BY <1>8, <2>2, <2>5, <2>6, <2>7 DEF Handling
<1>16. ASSUME step[c] \in ListedSteps
       PROVE  /\ h \in Treasuries /\ h \in Ahead(c) /\ m.kind = "nft" /\ got[c] \subseteq Nfts
              /\ ListKept(h, got[c], k)
  <2>1. got[c] \subseteq Nfts
    BY <1>1, <1>16 DEF MoverType, ListedSteps
  <2>2. ListKept(h, got[c], k)
    BY <1>1, <1>16 DEF DaoKept
  <2> QED
    BY <1>2, <1>16, <2>1, <2>2 DEF NftSteps
<1>17. PICK d0, list, ahead : d0 = h /\ list = got[c] /\ ahead = Ahead(c)
  OBVIOUS
<1>18. ListKept(d0, list, k) => ListKept(d0, list, k)'
  BY <1>4, <1>5 DEF ListKept
<1>19. ASSUME step[c] \in ListedSteps, UNCHANGED <<balanceItems, balanceRows, left, got>>,
              NEW s \in {"saveNfts", "purge", "count"}, step'[c] = s,
              list \subseteq nftItems'[d0],
              s = "purge" => \A n \in list : nftRows'[n] = d0,
              s = "count" => \A n \in Nfts : nftRows'[n] = d0 <=> n \in list,
              \A d \in Treasuries \ {d0} : NftsShown(d) => NftsShown(d)' \/ NftDue(d, k)
       PROVE  Handling(c, k)' /\ step'[c] # "off"
  <2>1. ListKept(d0, list, k)'
    BY <1>16, <1>17, <1>18, <1>19
  <2>2. Head(left[c])' = d0 /\ got'[c] = list
    BY <1>17, <1>19
  <2>3. DaoKept(c, k)'
    BY <1>19, <2>1, <2>2 DEF DaoKept, ListedSteps, ListKept
  <2>4. TokensKept(k, ahead)'
    BY <1>1, <1>6, <1>17, <1>19
  <2>5. NftsKept(k, ahead)'
    BY <1>1, <1>4, <1>16, <1>17, <1>19 DEF NftsKept
  <2> QED
    BY <1>8, <1>17, <1>19, <2>3, <2>4, <2>5 DEF Handling
<1>20. CASE PutNfts(c)
  <2>1. /\ step[c] = "putNfts" /\ step' = [step EXCEPT ![c] = "saveNfts"]
        /\ nftItems' = [nftItems EXCEPT ![d0] = @ \cup list]
        /\ UNCHANGED <<balanceItems, balanceRows, nftRows, nftCount, left, got>>
    BY <1>17, <1>20 DEF PutNfts, OnStep, To
  <2>2. step'[c] = "saveNfts" /\ d0 \in Treasuries /\ step[c] \in ListedSteps
    BY <1>9, <1>16, <1>17, <2>1 DEF ListedSteps
  <2>3. nftItems \in [Treasuries -> SUBSET Nfts]
    BY DEF HoldingsType
  <2>4. list \subseteq nftItems'[d0]
    BY <2>1, <2>2, <2>3
  <2>5. \A d \in Treasuries \ {d0} : nftItems'[d] = nftItems[d]
    BY <2>1, <2>3
  <2>6. \A d \in Treasuries \ {d0} : NftsShown(d) => NftsShown(d)'
    BY <1>5, <2>1, <2>5 DEF NftsShown
  <2> QED
    BY <1>19, <2>1, <2>2, <2>4, <2>6
<1>21. CASE SaveNfts(c)
  <2>1. /\ step[c] = "saveNfts" /\ step' = [step EXCEPT ![c] = "purge"]
        /\ nftRows' = [n \in Nfts |-> IF n \in list THEN d0 ELSE nftRows[n]]
        /\ UNCHANGED <<balanceItems, balanceRows, nftItems, nftCount, left, got>>
    BY <1>17, <1>21 DEF SaveNfts, OnStep, To
  <2>2. /\ step'[c] = "purge" /\ step[c] \in ListedSteps
        /\ d0 \in Treasuries /\ list \subseteq Nfts /\ ListKept(d0, list, k)
    BY <1>9, <1>16, <1>17, <2>1 DEF ListedSteps
  <2>3. list \subseteq nftItems[d0]
    BY <1>1, <1>17, <2>1 DEF DaoKept
  <2>4. ASSUME NEW d \in Treasuries \ {d0}, NftsShown(d), ~NftDue(d, k)
        PROVE  NftsShown(d)'
    <3>1. ASSUME NEW n \in list
          PROVE  nftRows[n] # d
      <4>1. Chain.owner[n] # d
        BY <2>2, <2>4 DEF ListKept
      <4> QED
        BY <2>2, <2>4, <4>1 DEF NftsShown, Owned
    <3>2. \A n \in Nfts : nftRows'[n] = d <=> nftRows[n] = d
      BY <2>1, <3>1
    <3> QED
      BY <1>5, <2>1, <2>4, <3>2 DEF NftsShown
  <2>5. \A n \in list : nftRows'[n] = d0
    BY <2>1, <2>2
  <2> QED
    BY <1>19, <2>1, <2>2, <2>3, <2>4, <2>5
<1>22. CASE PurgeNfts(c)
  <2>1. /\ step[c] = "purge" /\ step' = [step EXCEPT ![c] = "count"]
        /\ nftRows' = [n \in Nfts |-> IF nftRows[n] = d0 /\ n \notin list THEN Absent ELSE nftRows[n]]
        /\ UNCHANGED <<balanceItems, balanceRows, nftItems, nftCount, left, got>>
    BY <1>17, <1>22 DEF PurgeNfts, OnStep, To, Purged
  <2>2. /\ step'[c] = "count" /\ step[c] \in ListedSteps /\ d0 \in Treasuries /\ list \subseteq Nfts
    BY <1>9, <1>16, <1>17, <2>1 DEF ListedSteps
  <2>3. list \subseteq nftItems[d0] /\ \A n \in list : nftRows[n] = d0
    BY <1>1, <1>17, <2>1 DEF DaoKept
  <2>4. \A d \in Treasuries : d # Absent
    BY DEF TreasuryAssumption, Holders
  <2>5. \A n \in Nfts : nftRows'[n] = d0 <=> n \in list
    BY <2>1, <2>2, <2>3, <2>4
  <2>6. ASSUME NEW d \in Treasuries \ {d0}, NftsShown(d)
        PROVE  NftsShown(d)'
    <3>1. \A n \in Nfts : nftRows'[n] = d <=> nftRows[n] = d
      BY <2>1, <2>4
    <3> QED
      BY <1>5, <2>1, <2>6, <3>1 DEF NftsShown
  <2> QED
    BY <1>19, <2>1, <2>2, <2>3, <2>5, <2>6
<1>23. CASE CountNfts(c)
  <2>1. /\ step[c] = "count" /\ Onwards(c)
        /\ nftCount' = [nftCount EXCEPT ![d0] =
                          IF budget.nftDynamo THEN Cardinality(nftItems[d0])
                          ELSE Cardinality({n \in Nfts : nftRows[n] = d0})]
        /\ UNCHANGED <<balanceItems, balanceRows, nftItems, nftRows>>
    BY <1>17, <1>23 DEF CountNfts, OnStep
  <2>2. step[c] \in ListedSteps /\ d0 \in Treasuries /\ m.kind = "nft" /\ ListKept(d0, list, k)
    BY <1>16, <1>17, <2>1 DEF ListedSteps
  <2>3. list \subseteq nftItems[d0] /\ \A n \in Nfts : nftRows[n] = d0 <=> n \in list
    BY <1>1, <1>17, <2>1 DEF DaoKept
  <2>4. nftCount = [d \in Treasuries |-> nftCount[d]]
    BY DEF HoldingsType
  <2>5. NftsShown(d0)' \/ NftDue(d0, k)'
    <3>1. CASE list = Owned(d0)
      <4>1. {n \in Nfts : nftRows[n] = d0} = Owned(d0)
        BY <2>3, <3>1 DEF Owned
      <4>2. nftCount'[d0] = Cardinality(IF budget.nftDynamo THEN nftItems[d0] ELSE Owned(d0))
        BY <2>1, <2>2, <2>4, <4>1
      <4> QED
        BY <1>5, <2>1, <2>3, <3>1, <4>1, <4>2 DEF NftsShown
    <3>2. CASE NftDue(d0, k)
      BY <1>4, <3>2
    <3> QED
      BY <2>2, <3>1, <3>2 DEF ListKept
  <2>6. ASSUME NEW d \in Treasuries \ {d0}, NftsShown(d)
        PROVE  NftsShown(d)'
    <3>1. nftCount'[d] = nftCount[d]
      BY <2>1, <2>4
    <3> QED
      BY <1>5, <2>1, <2>6, <3>1 DEF NftsShown
  <2>7. Ahead(c) = {h} \cup Ahead(c)' /\ DaoKept(c, k)' /\ step'[c] # "off"
    BY <1>10, <2>1 DEF NftSteps, ListedSteps
  <2>8. PICK rest : rest = Ahead(c)'
    OBVIOUS
  <2>9. TokensKept(k, {d0} \cup rest) /\ NftsKept(k, {d0} \cup rest)
    BY <1>1, <1>17, <2>7, <2>8
  <2>10. NftsKept(k, rest)'
    BY <1>4, <2>5, <2>6, <2>9 DEF NftsKept
  <2>11. TokensKept(k, rest)
    BY <2>2, <2>9 DEF TokensKept
  <2>12. TokensKept(k, rest)'
    BY <1>6, <2>1, <2>11
  <2> QED
    BY <2>7, <2>8, <2>10, <2>12 DEF Handling
<1> QED
  BY <1>11, <1>12, <1>13, <1>14, <1>15, <1>20, <1>21, <1>22, <1>23

LEMMA HoldingsNext ==
  ASSUME TreasuryAssumption, TransfersType, HoldingsType, MoversType, ChainKept, HoldingsKept,
         TreasuryNext, TransfersType', MoversType'
  PROVE  HoldingsKept'
<1> DEFINE c == "mainConsumer"
<1>1. /\ budget'.callback = budget.callback /\ budget'.failing = budget.failing
      /\ budget'.nftDynamo = budget.nftDynamo
  BY DEF TreasuryNext, Transfer, CrashMain, StartTransfer, SkipDao, ReadTokens, WriteTokens,
         WriteBalanceRow, LoadNfts, PutNfts, SaveNfts, PurgeNfts, CountNfts, SaveFunds, MarkTransfer,
         HoldingsType, Budgets
<1> SUFFICES ASSUME ~budget.callback, ~budget.failing
             PROVE  /\ step'["walletCallback"] = "off"
                    /\ \E k \in DOMAIN transfers' :
                         IF step'[c] = "off"
                         THEN settledTransfers' = 1 .. k /\ TokensKept(k, {})' /\ NftsKept(k, {})'
                         ELSE /\ settledTransfers' = 1 .. k - 1 /\ transfer'[c] = k
                              /\ Handling(c, k)'
  BY <1>1 DEF HoldingsKept
<1>2. step["walletCallback"] = "off"
  BY DEF HoldingsKept
<1>3. PICK k \in DOMAIN transfers :
        IF step[c] = "off"
        THEN settledTransfers = 1 .. k /\ TokensKept(k, {}) /\ NftsKept(k, {})
        ELSE settledTransfers = 1 .. k - 1 /\ transfer[c] = k /\ Handling(c, k)
  BY DEF HoldingsKept
<1>4. c \in Movers /\ "walletCallback" \in Movers /\ c # "walletCallback" /\ MoverType(c)
  BY DEF MoversType, Movers
<1>5. DOMAIN transfers = 1 .. Len(transfers) /\ Len(transfers) \in Nat /\ k \in Nat /\ k > 0
  BY DEF TransfersType
<1> HIDE DEF c
<1>6. CASE Transfer
  <2>1. PICK m : /\ MoveOf(m, m.kind) /\ transfers' = Append(transfers, m)
                 /\ budget' = [budget EXCEPT !.transfers = @ - 1] /\ UNCHANGED <<holdings, moving>>
    BY <1>6, TransferFacts
  <2>2. /\ DOMAIN transfers \subseteq DOMAIN transfers'
        /\ \A j \in DOMAIN transfers : transfers'[j] = transfers[j]
    BY <2>1, OneMore
  <2>3. UNCHANGED <<step, transfer, left, got, settledTransfers, balanceItems, nftItems, nftRows>>
    BY <2>1 DEF moving, holdings
  <2>4. UNCHANGED holdings
    BY <2>1
  <2>5. ASSUME NEW busy
        PROVE  /\ TokensKept(k, busy) => TokensKept(k, busy)'
               /\ NftsKept(k, busy) => NftsKept(k, busy)'
    BY <2>1, <2>4, KeptByTransfer
  <2>6. CASE step[c] = "off"
    BY <1>2, <1>3, <2>2, <2>3, <2>5, <2>6
  <2>7. CASE step[c] # "off"
    <3>1. settledTransfers' = 1 .. k - 1 /\ transfer'[c] = k /\ Handling(c, k)
      BY <1>3, <2>3, <2>7
    <3>2. PICK ahead : ahead = Ahead(c)
      OBVIOUS
    <3>3. Ahead(c)' = ahead
      BY <2>3, <3>2 DEF Ahead
    <3>4. TokensKept(k, Ahead(c))' /\ NftsKept(k, Ahead(c))'
      BY <2>5, <3>1, <3>2, <3>3 DEF Handling
    <3>5. DaoKept(c, k)'
      <4>1. PICK h, list : h = Head(left[c]) /\ list = got[c]
        OBVIOUS
      <4>2. step[c] \in ListedSteps => h \in Treasuries /\ list \in SUBSET Nfts
        <5>1. step[c] \in ListedSteps => LeftType(c) /\ left[c] # <<>> /\ got[c] \subseteq Nfts
          BY <1>4 DEF MoverType, TokenSteps, NftSteps, ListedSteps
        <5> QED
          BY <4>1, <5>1, LeftFacts
      <4>3. step[c] \in ListedSteps => ListKept(h, list, k)'
        <5>1. step[c] \in ListedSteps => ListKept(h, list, k)
          BY <3>1, <4>1 DEF Handling, DaoKept
        <5> QED
          BY <2>1, <2>4, <4>2, <5>1, KeptByTransfer
      <4>4. step[c] \in ListedSteps => ListKept(Head(left[c]), got[c], k)'
        BY <2>3, <4>1, <4>3
      <4> QED
        BY <2>2, <2>3, <3>1, <4>4 DEF Handling, DaoKept
    <3> QED
      BY <1>2, <2>2, <2>3, <2>7, <3>1, <3>4, <3>5 DEF Handling
  <2> QED
    BY <2>6, <2>7
<1>7. CASE CrashMain
  <2>1. /\ step[c] # "off" /\ step' = [step EXCEPT ![c] = "off"]
        /\ UNCHANGED <<transfers, holdings, settledTransfers>>
    BY <1>7 DEF CrashMain, c
  <2>2. settledTransfers' = 1 .. k - 1 /\ transfer[c] = k /\ Handling(c, k)
    BY <1>3, <2>1
  <2>3. 1 \in settledTransfers
    BY DEF HoldingsType
  <2>4. k - 1 \in DOMAIN transfers
    BY <1>5, <2>1, <2>2, <2>3
  <2>5. Ahead(c) \subseteq {transfers[k].from, transfers[k].to}
    BY <1>4, <2>1, <2>2, AheadNamed DEF MoverType, Moves
  <2>6. TokensKept(k - 1, {}) /\ NftsKept(k - 1, {})
    BY <2>2, <2>4, <2>5, DueEarlier DEF Handling, TokensKept, NftsKept
  <2>7. UNCHANGED <<transfers, balanceItems, balanceRows, nftItems, nftRows, nftCount>>
    BY <2>1 DEF holdings
  <2>8. TokensKept(k - 1, {})' /\ NftsKept(k - 1, {})'
    BY <1>1, <2>6, <2>7, HoldingsFrame
  <2>9. step'[c] = "off" /\ step'["walletCallback"] = "off"
    BY <1>2, <1>4, <2>1 DEF MoversType
  <2> QED
    BY <2>1, <2>2, <2>4, <2>8, <2>9
<1>8. ASSUME NEW w \in Movers,
             \/ StartTransfer(w) \/ SkipDao(w)
             \/ ReadTokens(w) \/ WriteTokens(w) \/ WriteBalanceRow(w)
             \/ LoadNfts(w) \/ PutNfts(w) \/ SaveNfts(w) \/ PurgeNfts(w) \/ CountNfts(w)
             \/ SaveFunds(w) \/ MarkTransfer(w)
      PROVE  /\ step'["walletCallback"] = "off"
             /\ \E j \in DOMAIN transfers' :
                  IF step'[c] = "off"
                  THEN settledTransfers' = 1 .. j /\ TokensKept(j, {})' /\ NftsKept(j, {})'
                  ELSE /\ settledTransfers' = 1 .. j - 1 /\ transfer'[c] = j
                       /\ Handling(c, j)'
  <2>1. w = c
    <3>1. w # "walletCallback"
      BY <1>2, <1>8 DEF StartTransfer, SkipDao, ReadTokens, WriteTokens, WriteBalanceRow, LoadNfts,
                PutNfts, SaveNfts, PurgeNfts, CountNfts, SaveFunds, MarkTransfer, OnStep
    <3> QED
      BY <3>1 DEF Movers, c
  <2>2. UNCHANGED transfers
    BY <1>8 DEF StartTransfer, SkipDao, ReadTokens, WriteTokens, WriteBalanceRow, LoadNfts, PutNfts,
                SaveNfts, PurgeNfts, CountNfts, SaveFunds, MarkTransfer
  <2>3. step'["walletCallback"] = "off"
    <3>1. \E s : step' = [step EXCEPT ![c] = s]
      BY <1>8, <2>1 DEF StartTransfer, SkipDao, ReadTokens, WriteTokens, WriteBalanceRow, LoadNfts,
                PutNfts, SaveNfts, PurgeNfts, CountNfts, SaveFunds, MarkTransfer, To, Onwards
    <3> QED
      BY <1>2, <1>4, <3>1 DEF MoversType
  <2>4. CASE StartTransfer(c)
    <3>1. PICK j \in DOMAIN transfers \ settledTransfers :
            /\ \A i \in 1 .. j - 1 : i \in settledTransfers
            /\ transfer' = [transfer EXCEPT ![c] = j]
            /\ left' = [left EXCEPT ![c] = DaosOf(transfers[j])]
            /\ step' = [step EXCEPT ![c] = IF DaosOf(transfers[j]) = <<>> THEN "funds" ELSE transfers[j].kind]
      BY <2>4 DEF StartTransfer, To, c
    <3>2. step[c] = "off" /\ UNCHANGED <<holdings, got, settledTransfers>>
      BY <2>4 DEF StartTransfer, OnStep
    <3>3. settledTransfers = 1 .. k /\ TokensKept(k, {}) /\ NftsKept(k, {})
      BY <1>3, <3>2
    <3>4. j = k + 1
      <4>1. j \in Nat /\ j > k
        BY <1>5, <3>1, <3>3
      <4>2. ~(j > k + 1)
        <5> SUFFICES ASSUME j > k + 1
                     PROVE  FALSE
          OBVIOUS
        <5>1. k + 1 \in 1 .. j - 1
          BY <1>5, <4>1
        <5> QED
          BY <1>5, <3>1, <3>3, <5>1
      <4> QED
        BY <1>5, <4>1, <4>2
    <3>5. j - 1 = k
      BY <1>5, <3>4
    <3>6. /\ transfer'[c] = j /\ left'[c] = DaosOf(transfers[j])
          /\ step'[c] = IF DaosOf(transfers[j]) = <<>> THEN "funds" ELSE transfers[j].kind
      BY <1>4, <3>1 DEF MoversType
    <3>7. transfers[j].kind \in TransferKinds
      <4>1. transfers[j] \in TransferRecords
        BY <3>1 DEF TransfersType
      <4> QED
        BY <4>1 DEF TransferRecords
    <3>8. PICK ahead : ahead = Ahead(c)'
      OBVIOUS
    <3>9. transfers[j].kind # "near" => ahead = Treasuries \cap {transfers[j].from, transfers[j].to}
      <4>1. ASSUME transfers[j].kind # "near"
            PROVE  ahead = Treasuries \cap {transfers[j].from, transfers[j].to}
        <5>1. PICK m : m = transfers[j]
          OBVIOUS
        <5>2. ahead = {DaosOf(m)[i] : i \in DOMAIN DaosOf(m)}
          BY <3>6, <3>8, <5>1 DEF Ahead
        <5>3. {DaosOf(m)[i] : i \in DOMAIN DaosOf(m)} = Treasuries \cap {m.from, m.to}
          BY <4>1, <5>1, DaosElements
        <5> QED
          BY <5>1, <5>2, <5>3
      <4> QED
        BY <4>1
    <3>10. TokensKept(j, ahead) /\ NftsKept(j, ahead)
      <4>1. \A d, t : TokenDue(d, t, k) =>
              \/ TokenDue(d, t, j)
              \/ /\ transfers[j].kind = "token" /\ transfers[j].token = t
                 /\ d \in {transfers[j].from, transfers[j].to}
        BY <3>1, <3>5, DueEarlier
      <4>2. \A h : NftDue(h, k) =>
              \/ NftDue(h, j)
              \/ transfers[j].kind = "nft" /\ h \in {transfers[j].from, transfers[j].to}
        BY <3>1, <3>5, DueEarlier
      <4> QED
        BY <3>3, <3>9, <4>1, <4>2 DEF TokensKept, NftsKept
    <3>11. UNCHANGED <<transfers, balanceItems, balanceRows, nftItems, nftRows, nftCount>>
      BY <2>2, <3>2 DEF holdings
    <3>12. TokensKept(j, ahead)' /\ NftsKept(j, ahead)'
      BY <1>1, <3>10, <3>11, HoldingsFrame
    <3>13. step'[c] \in {"funds", "token", "nft"}
      BY <3>6, <3>7 DEF TransferKinds, DaosOf
    <3>14. DaoKept(c, j)'
      BY <3>13 DEF DaoKept, ListedSteps
    <3>15. Handling(c, j)'
      BY <3>8, <3>12, <3>14 DEF Handling
    <3>16. settledTransfers' = 1 .. j - 1
      BY <3>2, <3>3, <3>5
    <3> QED
      BY <2>2, <2>3, <3>1, <3>6, <3>13, <3>15, <3>16
  <2>5. ASSUME ~StartTransfer(c)
        PROVE  /\ step[c] # "off" /\ settledTransfers = 1 .. k - 1 /\ transfer[c] = k
               /\ Handling(c, k) /\ Moves(c) = transfers[k]
    <3>1. step[c] # "off"
      BY <1>8, <2>1, <2>5 DEF SkipDao, ReadTokens, WriteTokens, WriteBalanceRow, LoadNfts,
                PutNfts, SaveNfts, PurgeNfts, CountNfts, SaveFunds, MarkTransfer, OnStep
    <3> QED
      BY <1>3, <3>1 DEF Moves
  <2>6. CASE MarkTransfer(c)
    <3>1. /\ step[c] = "mark" /\ step' = [step EXCEPT ![c] = "off"]
          /\ settledTransfers' = settledTransfers \cup {transfer[c]} /\ UNCHANGED holdings
      BY <2>6 DEF MarkTransfer, OnStep, To
    <3>2. settledTransfers = 1 .. k - 1 /\ transfer[c] = k /\ Handling(c, k)
      BY <1>3, <3>1
    <3>3. settledTransfers' = 1 .. k
      BY <1>5, <3>1, <3>2
    <3>4. left[c] = <<>>
      BY <1>4, <3>1 DEF MoverType, TokenSteps, NftSteps, ListedSteps
    <3>5. Ahead(c) = {}
      BY <3>4 DEF Ahead
    <3>6. TokensKept(k, {}) /\ NftsKept(k, {})
      BY <3>2, <3>5 DEF Handling
    <3>7. UNCHANGED <<transfers, balanceItems, balanceRows, nftItems, nftRows, nftCount>>
      BY <2>2, <3>1 DEF holdings
    <3>8. TokensKept(k, {})' /\ NftsKept(k, {})'
      BY <1>1, <3>6, <3>7, HoldingsFrame
    <3>9. step'[c] = "off"
      BY <1>4, <3>1 DEF MoversType
    <3> QED
      BY <2>2, <2>3, <3>3, <3>8, <3>9
  <2>7. ASSUME step'[c] # "off", UNCHANGED <<settledTransfers, transfer>>, ~StartTransfer(c),
               Handling(c, k)'
        PROVE  \E j \in DOMAIN transfers' :
                 IF step'[c] = "off"
                 THEN settledTransfers' = 1 .. j /\ TokensKept(j, {})' /\ NftsKept(j, {})'
                 ELSE /\ settledTransfers' = 1 .. j - 1 /\ transfer'[c] = j
                      /\ Handling(c, j)'
    BY <2>2, <2>5, <2>7
  <2>8. CASE SkipDao(c)
    BY <2>8 DEF SkipDao
  <2>9. CASE ~StartTransfer(c) /\ ~MarkTransfer(c) /\ ~SkipDao(c)
    <3>1. step[c] # "off" /\ transfer[c] = k /\ Handling(c, k) /\ Moves(c) = transfers[k]
          /\ settledTransfers = 1 .. k - 1
      BY <2>5, <2>9
    <3>2. UNCHANGED <<settledTransfers, transfer, budget>>
      BY <1>8, <2>1, <2>9 DEF ReadTokens, WriteTokens, WriteBalanceRow, LoadNfts,
                PutNfts, SaveNfts, PurgeNfts, CountNfts, SaveFunds
    <3>3. Handling(c, k)' /\ step'[c] # "off"
      BY <1>8, <2>1, <2>2, <2>9, <3>1, <3>2, HandlingNext
    <3> QED
      BY <2>3, <2>7, <2>9, <3>2, <3>3
  <2> QED
    BY <1>8, <2>1, <2>4, <2>6, <2>8, <2>9
<1> QED
  BY <1>6, <1>7, <1>8 DEF TreasuryNext

LEMMA LastOf ==
  ASSUME NEW n \in Nat, NEW S \in SUBSET (1 .. n), S # {}
  PROVE  \E e \in S : \A f \in S : f <= e
<1> DEFINE Above(e) == {f \in S : f > e}
           T == {Above(e) : e \in S}
<1>1. IsFiniteSet(S)
  <2>1. IsFiniteSet(1 .. n)
    BY FS_Interval
  <2> QED
    BY <2>1, FS_Subset
<1>2. IsWellFoundedOn(StrictSubsetOrdering(S), SUBSET S)
  BY <1>1, FS_StrictSubsetOrderingWellFounded, FS_FiniteSubsetsOfFinite
<1>3. T \subseteq SUBSET S /\ T # {}
  OBVIOUS
<1>4. PICK x \in T : \A y \in T : ~(<<y, x>> \in StrictSubsetOrdering(S))
  BY <1>2, <1>3, WFMin
<1>5. PICK e \in S : x = Above(e)
  BY <1>4
<1>6. ASSUME NEW f \in S, f > e
      PROVE  FALSE
  <2>1. Above(f) \in T /\ Above(f) \in SUBSET S /\ Above(e) \in SUBSET S
    OBVIOUS
  <2>2. Above(f) \subseteq Above(e)
    <3> SUFFICES ASSUME NEW g \in S, g > f
                 PROVE  g > e
      OBVIOUS
    <3>1. e \in 1 .. n /\ f \in 1 .. n /\ g \in 1 .. n
      OBVIOUS
    <3> QED
      BY <1>6, <3>1
  <2>3. f \in Above(e) /\ f \notin Above(f)
    BY <1>6
  <2>4. <<Above(f), Above(e)>> \in StrictSubsetOrdering(S)
    BY <2>1, <2>2, <2>3 DEF StrictSubsetOrdering
  <2> QED
    BY <1>4, <1>5, <2>1, <2>4
<1> QED
  BY <1>6

LEMMA TreasuryStarts ==
  ASSUME TreasuryAssumption, TreasuryInit
  PROVE  TreasuryInv
<1>1. Fresh \in TransferRecords /\ Fresh.kind = "near"
  BY DEF Fresh, TransferRecords, TransferKinds, Holders
<1>2. transfers = <<Fresh>> /\ DOMAIN transfers = {1} /\ transfers[1] = Fresh /\ Len(transfers) = 1
  BY DEF TreasuryInit
<1>3. Chain = Fresh
  BY <1>2 DEF Chain
<1>4. TransfersType
  <2>1. transfers \in Seq(TransferRecords)
    BY <1>1, <1>2
  <2> QED
    BY <1>1, <1>2, <2>1 DEF TransfersType
<1>5. budget \in Budgets
  BY DEF TreasuryInit, TreasuryAssumption, Budgets, TransferKinds
<1>6. HoldingsType
  BY <1>2, <1>5 DEF TreasuryInit, HoldingsType
<1>7. MoversType
  BY DEF TreasuryInit, MoversType, MoverType
<1>8. FundsKept
  <2>1. ~Moved(Fresh)
    BY DEF Fresh, Moved, TreasuryAssumption
  <2> QED
    BY <1>2, <2>1 DEF TreasuryInit, FundsKept
<1>9. ChainKept
  BY <1>2, <1>3 DEF ChainKept
<1>10. ASSUME NEW d \in Treasuries
       PROVE  NftsShown(d) /\ \A t \in Tokens : TokenShown(d, t)
  <2>1. \A n \in Nfts : nftRows[n] # d
    BY DEF TreasuryInit, TreasuryAssumption, Holders
  <2>2. Owned(d) = {}
    BY <1>3 DEF Owned, Fresh, TreasuryAssumption
  <2>3. nftItems[d] = {} /\ nftCount[d] = 0
    BY DEF TreasuryInit
  <2>4. NftsShown(d)
    BY <2>1, <2>2, <2>3, FS_EmptySet DEF NftsShown
  <2>5. \A t \in Tokens : TokenShown(d, t)
    BY <1>3 DEF TokenShown, Fresh, TreasuryInit
  <2> QED
    BY <2>4, <2>5
<1>11. TokensKept(1, {}) /\ NftsKept(1, {})
  BY <1>10 DEF TokensKept, NftsKept
<1>12. settledTransfers = 1 .. 1 /\ step["mainConsumer"] = "off" /\ step["walletCallback"] = "off"
  BY DEF TreasuryInit, Movers
<1>13. HoldingsKept
  BY <1>2, <1>11, <1>12 DEF HoldingsKept
<1> QED
  BY <1>4, <1>6, <1>7, <1>8, <1>9, <1>13 DEF TreasuryInv

LEMMA TreasuryStutters ==
  ASSUME TreasuryInv, UNCHANGED treasuryVars
  PROVE  TreasuryInv'
<1>1. UNCHANGED <<transfers, balanceItems, balanceRows, nftItems, nftRows, nftCount, fundItems,
                  step, transfer, left, got, settledTransfers, budget>>
  BY DEF treasuryVars, holdings, moving
<1>2. TransfersType' /\ HoldingsType' /\ ChainKept'
  BY <1>1 DEF TreasuryInv, TransfersType, HoldingsType, ChainKept, Chain, TokenDue
<1>3. MoversType' /\ FundsKept'
  BY <1>1 DEF TreasuryInv, MoversType, MoverType, LeftType, Moves, FundsKept
<1>4. HoldingsKept'
  <2>1. /\ \A k, busy : TokensKept(k, busy) => TokensKept(k, busy)'
        /\ \A k, busy : NftsKept(k, busy) => NftsKept(k, busy)'
    BY <1>1, HoldingsFrame
  <2>2. ASSUME NEW k, Handling("mainConsumer", k)
        PROVE  Handling("mainConsumer", k)'
    <3>1. PICK ahead : ahead = Ahead("mainConsumer")
      OBVIOUS
    <3>2. Ahead("mainConsumer")' = ahead
      BY <1>1, <3>1 DEF Ahead
    <3>3. TokensKept(k, ahead)' /\ NftsKept(k, ahead)'
      BY <2>1, <2>2, <3>1 DEF Handling
    <3>4. DaoKept("mainConsumer", k)'
      BY <1>1, <2>2 DEF Handling, DaoKept, ListKept, Owned, Chain, NftDue
    <3> QED
      BY <3>2, <3>3, <3>4 DEF Handling
  <2> SUFFICES ASSUME ~budget.callback, ~budget.failing
               PROVE  /\ step["walletCallback"] = "off"
                      /\ \E k \in DOMAIN transfers :
                           IF step["mainConsumer"] = "off"
                           THEN settledTransfers = 1 .. k /\ TokensKept(k, {})' /\ NftsKept(k, {})'
                           ELSE /\ settledTransfers = 1 .. k - 1 /\ transfer["mainConsumer"] = k
                                /\ Handling("mainConsumer", k)'
    BY <1>1 DEF HoldingsKept
  <2> QED
    BY <2>1, <2>2 DEF TreasuryInv, HoldingsKept
<1> QED
  BY <1>2, <1>3, <1>4 DEF TreasuryInv

\* Whoever handles the receipts, and however often it crashes or fails: stores
\* and workers have their types, the partitions of funds hold the receipts that
\* belong there; and as long as the consumer is alone and no call fails, a
\* balance or the NFTs of a DAO that are not shown as they are on the chain are
\* yet to be moved by a receipt to come, or are being updated
\* (handleTokenUpdate, handleNftUpdate).
THEOREM TreasuryInvariant == TreasurySpec => []TreasuryInv
<1>1. TreasuryInit => TreasuryInv
  BY TreasuryStarts, TreasuryAssumption
<1>2. TreasuryInv /\ [TreasuryNext]_treasuryVars => TreasuryInv'
  BY TreasuryAssumption, TypesNext, FundsNext, ChainNext, HoldingsNext, TreasuryStutters DEF TreasuryInv
<1> QED
  BY <1>1, <1>2, PTL DEF TreasurySpec

\* Once the consumer, which may have crashed any number of times, has handled
\* every receipt and no call has failed, both stores show the balances of the
\* chain and the rows the owners, however far the chain had run ahead of the
\* receipt that was handled (loadBalanceById, loadNFT).
THEOREM HoldingsAlwaysShown == TreasurySpec => []HoldingsShown
<1>1. TreasuryInv => HoldingsShown
  <2> SUFFICES ASSUME TreasuryInv, CaughtUp, ~budget.callback, ~budget.failing, NEW d \in Treasuries
               PROVE  (\A t \in Tokens : TokenShown(d, t)) /\ NftsShown(d)
    BY DEF HoldingsShown, TokenShown, NftsShown
  <2>1. settledTransfers = DOMAIN transfers /\ step["mainConsumer"] = "off"
    BY DEF CaughtUp, Movers
  <2>2. PICK k \in DOMAIN transfers : settledTransfers = 1 .. k /\ TokensKept(k, {}) /\ NftsKept(k, {})
    BY <2>1 DEF TreasuryInv, HoldingsKept
  <2>3. \A j \in DOMAIN transfers : ~(j > k)
    BY <2>1, <2>2 DEF TreasuryInv, TransfersType
  <2>4. (\A t : ~TokenDue(d, t, k)) /\ ~NftDue(d, k)
    BY <2>3 DEF TokenDue, NftDue
  <2> QED
    BY <2>2, <2>4 DEF TokensKept, NftsKept
<1> QED
  BY <1>1, TreasuryInvariant, PTL

\* Whoever handled the receipts, and however often, every daily balance that is
\* not zero is the sum of the transfers so far, for a DAO that had none with
\* another DAO (getDailyBalanceByDaoId, patchDailyBalance).
THEOREM DailyBalancesTrue == TreasurySpec => []DailyBalanceTrue
<1>1. ASSUME TreasuryInv, CaughtUp, NEW d \in Treasuries, NEW t \in Tokens \cup {Absent},
             NEW day \in 1 .. Chain.day
      PROVE  LET own == {k \in DOMAIN transfers :
                           /\ Moved(transfers[k]) /\ transfers[k].token = t
                           /\ d \in {transfers[k].from, transfers[k].to}}
                 sum == Net(d, {k \in own : transfers[k].day <= day})
             IN  (\A k \in own : Outsider \in {transfers[k].from, transfers[k].to}) /\ sum # 0
                   => DailyBalance(d, t)[day] = sum
  <2> DEFINE own == {k \in DOMAIN transfers :
                       /\ Moved(transfers[k]) /\ transfers[k].token = t
                       /\ d \in {transfers[k].from, transfers[k].to}}
             sum == Net(d, {k \in own : transfers[k].day <= day})
             L == Listed(d, t)
             D == {e \in 1 .. day : \E k \in L : transfers[k].day = e}
  <2> SUFFICES ASSUME \A k \in own : Outsider \in {transfers[k].from, transfers[k].to}, sum # 0
               PROVE  DailyBalance(d, t)[day] = sum
    OBVIOUS
  <2>1. Chain.day \in Nat /\ day \in Nat /\ \A k \in DOMAIN transfers : transfers[k].day \in Nat \ {0}
    <3>1. Chain \in TransferRecords /\ \A k \in DOMAIN transfers : transfers[k] \in TransferRecords
      BY <1>1, ChainType DEF TreasuryInv, TransfersType
    <3> QED
      BY <3>1, <1>1 DEF TransferRecords
  <2>2. L = own
    <3>1. \A k \in fundItems[d] : k \in DOMAIN transfers /\ Moved(transfers[k]) /\ FundsOwner(transfers[k]) = d
      BY <1>1 DEF TreasuryInv, FundsKept
    <3>2. ASSUME NEW k \in own
          PROVE  k \in fundItems[d]
      <4>1. k \in settledTransfers /\ Moved(transfers[k])
        BY <1>1 DEF CaughtUp
      <4>2. k \in fundItems[FundsOwner(transfers[k])]
        BY <1>1, <4>1 DEF TreasuryInv, FundsKept
      <4>3. Outsider \in {transfers[k].from, transfers[k].to} /\ d \in {transfers[k].from, transfers[k].to}
        OBVIOUS
      <4>4. FundsOwner(transfers[k]) = d
        BY <4>3, TreasuryAssumption DEF FundsOwner, TreasuryAssumption
      <4> QED
        BY <4>2, <4>4
    <3>3. \A k \in L : k \in own
      BY <3>1 DEF Listed, FundsOwner
    <3> QED
      BY <3>2, <3>3 DEF Listed
  <2>3. L \subseteq DOMAIN transfers
    BY <2>2
  <2> HIDE DEF own, L
  <2>4. sum = Running(d, t, day)
    BY <2>2 DEF Running, L
  <2>5. D # {}
    <3> SUFFICES ASSUME D = {}
                 PROVE  FALSE
      OBVIOUS
    <3>1. \A k \in L : ~(transfers[k].day <= day)
      BY <2>1, <2>3
    <3>2. {k \in L : transfers[k].day <= day} = {}
      BY <3>1
    <3>3. Net(d, {}) = 0
      BY FS_EmptySet DEF Net
    <3> QED
      BY <2>2, <3>2, <3>3
  <2>6. PICK e \in D : \A f \in D : f <= e
    BY <2>1, <2>5, LastOf
  <2>7. Running(d, t, e) = sum
    <3>1. \A k \in L : transfers[k].day <= day <=> transfers[k].day <= e
      <4> SUFFICES ASSUME NEW k \in L
                   PROVE  transfers[k].day <= day <=> transfers[k].day <= e
        OBVIOUS
      <4>1. transfers[k].day \in Nat \ {0} /\ e \in 1 .. day
        BY <2>1, <2>3
      <4>2. transfers[k].day <= day => transfers[k].day \in D
        BY <2>1, <4>1
      <4> QED
        BY <2>1, <2>6, <4>1, <4>2
    <3>2. {k \in L : transfers[k].day <= day} = {k \in L : transfers[k].day <= e}
      BY <3>1
    <3> QED
      BY <2>4, <3>2 DEF Running, L
  <2>8. ValuedDays(d, t, day) \subseteq D /\ e \in ValuedDays(d, t, day)
    BY <2>6, <2>7 DEF ValuedDays, L
  <2>9. \A x \in ValuedDays(d, t, day) : (\A f \in ValuedDays(d, t, day) : f <= x) => x = e
    <3> SUFFICES ASSUME NEW x \in ValuedDays(d, t, day), \A f \in ValuedDays(d, t, day) : f <= x
                 PROVE  x = e
      OBVIOUS
    <3>1. x <= e /\ e <= x
      BY <2>6, <2>8
    <3>2. x \in Nat /\ e \in Nat
      BY <2>1, <2>8
    <3> QED
      BY <3>1, <3>2
  <2>10. (CHOOSE x \in ValuedDays(d, t, day) : \A f \in ValuedDays(d, t, day) : f <= x) = e
    BY <2>6, <2>8, <2>9
  <2>11. DailyBalance(d, t)[day] = Running(d, t, e)
    BY <2>8, <2>10 DEF DailyBalance
  <2> QED
    BY <2>7, <2>11
<1>2. TreasuryInv => DailyBalanceTrue
  BY <1>1 DEF DailyBalanceTrue
<1> QED
  BY <1>2, TreasuryInvariant, PTL

(***************************************************************************)
(* Bounties                                                                *)
(***************************************************************************)
ProposalKinds == {"addBounty", "addDone"}
SavingSteps == {"saveItem", "saveMapping", "saveRow"}

ProposalRecords ==
  [kind : ProposalKinds, bounty : Nat, by : Claimers \cup {Nothing}, open : BOOLEAN]
Claims == [bounty : Nat, by : Claimers, start : Nat]
ContractStates ==
  [proposals : Seq(ProposalRecords), bounties : Seq([proposal : Nat, times : Int]),
   claims : SUBSET Claims]
Entries ==
  [kind : ReceiptKinds, proposal : Nat, bounty : Nat, by : Claimers \cup {Nothing},
   block : Nat, state : ContractStates]

Bounties ==
  [proposal : Nat \cup {Nothing}, times : Int, claims : SUBSET Claims, count : Nat]
BountyItems == [bounty : Bounties, done : SUBSET Nat, archived : BOOLEAN]

\* Each bounty comes from a closed proposal of its own, and the other proposals
\* are about bounties there are.
BountiesKept(proposals, bounties) ==
  /\ \A b \in DOMAIN bounties :
       bounties[b].proposal \in DOMAIN proposals /\ ~proposals[bounties[b].proposal].open
  /\ \A b, c \in DOMAIN bounties : bounties[b].proposal = bounties[c].proposal => b = c

ProposalsKept(proposals, bounties) ==
  \A p \in DOMAIN proposals :
    /\ proposals[p].kind = "addBounty" => proposals[p].bounty = 0
    /\ proposals[p].kind # "addBounty" => proposals[p].bounty \in DOMAIN bounties

ContractKept(s) ==
  /\ BountiesKept(s.proposals, s.bounties) /\ ProposalsKept(s.proposals, s.bounties)
  /\ IsFiniteSet(s.claims) /\ \A c \in s.claims : c.bounty \in DOMAIN s.bounties

ReceiptsType ==
  /\ receipts \in Seq(Entries) /\ Len(receipts) > 0
  /\ \A k \in DOMAIN receipts :
       /\ ContractKept(receipts[k].state)
       /\ receipts[k].bounty \in DOMAIN receipts[k].state.bounties \cup {0}

StoresType ==
  /\ rows \in [DOMAIN rows -> Bounties]
  /\ items \in [DOMAIN items -> BountyItems]
  /\ mapping \in [DOMAIN mapping -> Nat]
  /\ contexts = [p \in DOMAIN contexts |-> contexts[p]]

\* The step of a handler is one of those for the kind of its receipt.
StepFits(w) ==
  /\ at[w] \in {"contextItem", "contextRow"} => Handled(w).kind = "addBounty"
  /\ at[w] \in {"archive", "removeRow"} => IsRemoval(Handled(w))
  /\ at[w] \in {"findDone", "saveDone"} => Handled(w).kind = "addDone"
  /\ at[w] \in {"find"} \cup SavingSteps =>
       /\ Handled(w).kind \in {"approve", "remove", "claim", "giveup"}
       /\ ~IsRemoval(Handled(w))

ReadType(w) ==
  /\ at[w] = "saveDone" => read[w] \in [place : Nat, item : BountyItems]
  /\ at[w] \in SavingSteps =>
       /\ read[w] \in [bounty : Bounties, listed : (SUBSET Nat) \cup {Nothing}]
       /\ read[w].bounty.proposal \in Nat

HandlerType(w) ==
  at[w] # "off" => receipt[w] \in DOMAIN receipts \ {1} /\ StepFits(w) /\ ReadType(w)

ManagerType ==
  at["manager"] # "off" =>
    LET its == read["manager"].items
    IN  its \in [DOMAIN its -> BountyItems] /\ read["manager"].archived \in BOOLEAN

PollerType ==
  at["poller"] # "off" =>
    /\ read["poller"].state \in ContractStates /\ ContractKept(read["poller"].state)
    /\ read["poller"].rows \in [DOMAIN read["poller"].rows -> Bounties]

WorkersType ==
  /\ bounded \in BountyScenarios /\ restarts \in Nat
  /\ at = [w \in BountyWorkers |-> at[w]] /\ receipt = [w \in Handlers |-> receipt[w]]
  /\ read = [w \in BountyWorkers |-> read[w]]
  /\ done \subseteq DOMAIN receipts /\ 1 \in done
  /\ rested \in DOMAIN receipts \cup {0}
  /\ (\A w \in Handlers : HandlerType(w)) /\ ManagerType /\ PollerType

\* What a handler has saved that no other worker overlaps.
SavedAlone(w) ==
  LET bounty == read[w].bounty
      b == Subject(Handled(w))
  IN  /\ at[w] \in {"saveMapping", "saveRow"} =>
           bounty.proposal \in DOMAIN items /\ items[bounty.proposal].bounty = bounty
      /\ at[w] = "saveRow" => b \in DOMAIN mapping /\ mapping[b] = bounty.proposal

LoneKept ==
  /\ \A w \in BountyWorkers : lone = w =>
       at[w] # "off" /\ \A u \in BountyWorkers \ {w} : at[u] = "off"
  /\ \A w \in Handlers : lone = w => SavedAlone(w)
  /\ rested # 0 => \A w \in BountyWorkers : at[w] = "off"
  /\ StoresAgreeOnBounty

-----------------------------------------------------------------------------
\* Receipt i makes a claim of bounty b, and receipt k is that it is given up.
Makes(i, b) == receipts[i].kind = "claim" /\ receipts[i].bounty = b

GivesUp(k, i) ==
  /\ receipts[k].kind = "giveup" /\ receipts[k].bounty = receipts[i].bounty
  /\ receipts[k].by = receipts[i].by /\ k > i
  /\ \A j \in i + 1 .. k - 1 :
       ~(Makes(j, receipts[i].bounty) /\ receipts[j].by = receipts[i].by)

\* What the call of receipt e has changed of state s.
Follows(s, e) ==
  LET t == e.state
      b == e.bounty
  IN  \/ /\ e.kind \in {"addBounty", "addDone", "remove"}
         /\ t.bounties = s.bounties /\ t.claims = s.claims
      \/ /\ IsAddition(e) /\ b = 0
         /\ t.bounties = Append(s.bounties, [proposal |-> e.proposal, times |-> Times])
         /\ t.claims = s.claims
      \/ /\ e.kind = "approve" /\ ~IsAddition(e) /\ b \in DOMAIN s.bounties
         /\ DOMAIN t.bounties = DOMAIN s.bounties
         /\ \A d \in DOMAIN s.bounties :
              /\ t.bounties[d].proposal = s.bounties[d].proposal
              /\ d # b => t.bounties[d] = s.bounties[d]
         /\ t.claims \subseteq s.claims
      \/ /\ e.kind = "claim" /\ b \in DOMAIN s.bounties /\ e.by \in Claimers
         /\ t.bounties = s.bounties
         /\ ClaimsOf(s, b, e.by) = {} /\ t.claims = s.claims \cup {Claim(b, e.by, e.block)}
      \/ /\ e.kind = "giveup" /\ t.bounties = s.bounties
         /\ \E c \in s.claims : c.bounty = b /\ c.by = e.by /\ t.claims = s.claims \ {c}

\* A claim that is open after receipt k is the last one its account has made.
OpenKept(k) ==
  \A c \in receipts[k].state.claims :
    /\ c.start \in 2 .. k /\ Makes(c.start, c.bounty) /\ receipts[c.start].by = c.by
    /\ \A j \in c.start + 1 .. k :
         ~(/\ receipts[j].kind \in {"claim", "giveup"}
           /\ receipts[j].bounty = c.bounty /\ receipts[j].by = c.by)

\* With one receipt in each block, a receipt follows from the one before.
OnePerBlock ==
  bounded.perBlock = 1 =>
    /\ receipts[1].kind = "approve" /\ receipts[1].state \in {Empty, OneBounty}
    /\ \A k \in DOMAIN receipts :
         /\ receipts[k].block = k /\ OpenKept(k)
         /\ k > 1 => Follows(receipts[k - 1].state, receipts[k])
         /\ \A i \in 1 .. k : receipts[i].bounty \in DOMAIN receipts[k].state.bounties \cup {0}

\* What the stores should hold of bounty b after receipt m.
RightBounty(bounty, b, m) ==
  LET s == receipts[m].state
  IN  bounty = Bounty(s.bounties[b].proposal, s.bounties[b].times, Shown(b, m), bounty.count)

BountyKept(b, m) ==
  LET p == receipts[m].state.bounties[b].proposal
  IN  /\ b \in DOMAIN rows /\ RightBounty(rows[b], b, m)
      /\ b \in DOMAIN mapping /\ mapping[b] = p
      /\ p \in DOMAIN items /\ items[p].bounty = rows[b]

\* All bounties but those of set `but` are stored, and no other.
AllKept(m, but) ==
  LET all == DOMAIN receipts[m].state.bounties
  IN  /\ \A b \in all \ but : BountyKept(b, m)
      /\ DOMAIN rows \subseteq all /\ DOMAIN mapping \subseteq all

Saving(m) ==
  LET b == Subject(receipts[m])
  IN  /\ b \in DOMAIN receipts[m].state.bounties
      /\ AllKept(m, {b})
      /\ RightBounty(read["consumer"].bounty, b, m)
      /\ SavedAlone("consumer")

\* The consumer is alone and never interrupted.
Calm == bounded.perBlock = 1 /\ bounded.others = {} /\ restarts = 0

CalmAt(m) ==
  IF at["consumer"] = "off"
  THEN done = 1 .. m /\ AllKept(m, {})
  ELSE /\ m > 1 /\ done = 1 .. m - 1 /\ receipt["consumer"] = m
       /\ IF at["consumer"] \in SavingSteps THEN Saving(m) ELSE AllKept(m - 1, {})
       /\ at["consumer"] = "saveDone" =>
            /\ read["consumer"].place \in DOMAIN items
            /\ read["consumer"].item = items[read["consumer"].place]

CalmKept ==
  Calm =>
    /\ \A w \in BountyWorkers \ {"consumer"} : at[w] = "off"
    /\ at["consumer"] # "off" => receipt["consumer"] \notin failed
    /\ failed = {} => \E m \in DOMAIN receipts : CalmAt(m)

BountyInv ==
  /\ ReceiptsType /\ StoresType /\ WorkersType
  /\ LoneKept /\ OnePerBlock /\ CalmKept
\* The calls of the contract: what their receipts hold, and that the contract
\* stays as it should be.
LEMMA ClosedFacts ==
  ASSUME NEW s \in ContractStates, ContractKept(s), NEW p \in DOMAIN s.proposals
  PROVE  LET t == Closed(s, p) IN
         /\ t \in ContractStates /\ ContractKept(t)
         /\ t.bounties = s.bounties /\ t.claims = s.claims
         /\ ~t.proposals[p].open
         /\ DOMAIN t.proposals = DOMAIN s.proposals
         /\ \A q \in DOMAIN s.proposals :
              /\ t.proposals[q].kind = s.proposals[q].kind
              /\ t.proposals[q].bounty = s.proposals[q].bounty
<1> DEFINE t == Closed(s, p)
           closed == [s.proposals[p] EXCEPT !.open = FALSE]
           ps == [s.proposals EXCEPT ![p] = closed]
<1>1. /\ s.proposals \in Seq(ProposalRecords)
      /\ s.bounties \in Seq([proposal : Nat, times : Int]) /\ s.claims \in SUBSET Claims
      /\ s = [proposals |-> s.proposals, bounties |-> s.bounties, claims |-> s.claims]
  BY DEF ContractStates
<1>2. t = [proposals |-> ps, bounties |-> s.bounties, claims |-> s.claims]
  <2>1. \A q : [s EXCEPT !.proposals = q] =
                [proposals |-> q, bounties |-> s.bounties, claims |-> s.claims]
    BY <1>1
  <2>2. t = [s EXCEPT !.proposals = ps]
    BY DEF Closed
  <2> QED BY <2>1, <2>2, Zenon
<1>3. ps \in Seq(ProposalRecords) /\ DOMAIN ps = DOMAIN s.proposals
  <2>1. s.proposals[p] \in ProposalRecords
    BY <1>1
  <2>2. closed \in ProposalRecords
    BY <2>1 DEF ProposalRecords
  <2> QED BY <1>1, <2>2
<1>4. /\ ~ps[p].open
      /\ \A q \in DOMAIN s.proposals :
           /\ ps[q].kind = s.proposals[q].kind /\ ps[q].bounty = s.proposals[q].bounty
           /\ ~s.proposals[q].open => ~ps[q].open
  <2>1. \A q \in DOMAIN s.proposals : s.proposals[q] \in ProposalRecords
    BY <1>1
  <2> QED BY <2>1, <1>1 DEF ProposalRecords
<1> HIDE DEF ps
<1>5. t \in ContractStates
  BY <1>1, <1>2, <1>3 DEF ContractStates
<1>6. ContractKept(t)
  BY <1>2, <1>3, <1>4, SMTT(30) DEF ContractKept, BountiesKept, ProposalsKept
<1> QED BY <1>2, <1>3, <1>4, <1>5, <1>6

LEMMA ProposeFacts ==
  ASSUME NEW s \in ContractStates, ContractKept(s), NEW kind \in ProposalKinds,
         NEW b \in Nat, NEW u \in Claimers \cup {Nothing},
         kind = "addBounty" => b = 0, kind # "addBounty" => b \in DOMAIN s.bounties
  PROVE  LET t == Propose(s, kind, b, u) IN
         /\ t \in ContractStates /\ ContractKept(t)
         /\ t.bounties = s.bounties /\ t.claims = s.claims
<1> DEFINE t == Propose(s, kind, b, u)
           new == [kind |-> kind, bounty |-> b, by |-> u, open |-> TRUE]
           ps == Append(s.proposals, new)
<1>1. /\ s.proposals \in Seq(ProposalRecords)
      /\ s.bounties \in Seq([proposal : Nat, times : Int]) /\ s.claims \in SUBSET Claims
      /\ s = [proposals |-> s.proposals, bounties |-> s.bounties, claims |-> s.claims]
  BY DEF ContractStates
<1>2. t = [proposals |-> ps, bounties |-> s.bounties, claims |-> s.claims]
  <2>1. \A q : [s EXCEPT !.proposals = q] =
                [proposals |-> q, bounties |-> s.bounties, claims |-> s.claims]
    BY <1>1
  <2>2. t = [s EXCEPT !.proposals = ps]
    BY Zenon DEF Propose
  <2> QED BY <2>1, <2>2, Zenon
<1>3. new \in ProposalRecords
  BY DEF ProposalRecords
<1>4. /\ ps \in Seq(ProposalRecords) /\ DOMAIN ps = 1 .. Len(s.proposals) + 1
      /\ ps[Len(s.proposals) + 1] = new
      /\ \A q \in DOMAIN s.proposals : q \in DOMAIN ps /\ ps[q] = s.proposals[q]
  BY <1>1, <1>3
<1> HIDE DEF ps
<1>5. t \in ContractStates
  BY <1>1, <1>2, <1>4 DEF ContractStates
<1>6. ContractKept(t)
  <2>1. DOMAIN ps = DOMAIN s.proposals \cup {Len(s.proposals) + 1}
    BY <1>1, <1>4
  <2>2. new.kind = kind /\ new.bounty = b
    OBVIOUS
  <2> HIDE DEF new
  <2>3. DOMAIN s.proposals \subseteq DOMAIN ps
    BY <2>1
  <2>4. \A q \in DOMAIN ps :
          /\ ps[q].kind = "addBounty" => ps[q].bounty = 0
          /\ ps[q].kind # "addBounty" => ps[q].bounty \in DOMAIN s.bounties
    BY <1>4, <2>1, <2>2 DEF ContractKept, BountiesKept, ProposalsKept
  <2>5. \A d \in DOMAIN s.bounties :
          /\ s.bounties[d].proposal \in DOMAIN ps
          /\ ~ps[s.bounties[d].proposal].open
    BY <1>4, <2>3 DEF ContractKept, BountiesKept, ProposalsKept
  <2> HIDE DEF t
  <2> QED BY <1>2, <2>4, <2>5 DEF ContractKept, BountiesKept, ProposalsKept
<1> QED BY <1>2, <1>5, <1>6

LEMMA StateExcept ==
  ASSUME NEW s \in ContractStates, NEW x, NEW y
  PROVE  /\ [s EXCEPT !.bounties = x] =
              [proposals |-> s.proposals, bounties |-> x, claims |-> s.claims]
         /\ [s EXCEPT !.bounties = x, !.claims = y] =
              [proposals |-> s.proposals, bounties |-> x, claims |-> y]
<1>1. s = [proposals |-> s.proposals, bounties |-> s.bounties, claims |-> s.claims]
  BY DEF ContractStates
<1>2. [s EXCEPT !.bounties = x] =
        [proposals |-> s.proposals, bounties |-> x, claims |-> s.claims]
  BY <1>1
<1>3. [s EXCEPT !.bounties = x, !.claims = y] = [[s EXCEPT !.bounties = x] EXCEPT !.claims = y]
  BY Zenon
<1>4. [[proposals |-> s.proposals, bounties |-> x, claims |-> s.claims] EXCEPT !.claims = y] =
        [proposals |-> s.proposals, bounties |-> x, claims |-> y]
  OBVIOUS
<1> QED BY <1>2, <1>3, <1>4, Zenon

LEMMA ApprovedFacts ==
  ASSUME NEW s \in ContractStates, ContractKept(s), NEW p \in DOMAIN s.proposals,
         s.proposals[p].open, Times \in Nat
  PROVE  LET t == Approved(s, p)
             b == s.proposals[p].bounty
         IN
         /\ t \in ContractStates /\ ContractKept(t)
         /\ t.proposals[p].kind = s.proposals[p].kind
         /\ s.proposals[p].kind = "addBounty" =>
              /\ b = 0
              /\ t.bounties = Append(s.bounties, [proposal |-> p, times |-> Times])
              /\ t.claims = s.claims
         /\ s.proposals[p].kind # "addBounty" =>
              /\ b \in DOMAIN s.bounties /\ DOMAIN t.bounties = DOMAIN s.bounties
              /\ \A d \in DOMAIN s.bounties :
                   /\ t.bounties[d].proposal = s.bounties[d].proposal
                   /\ d # b => t.bounties[d] = s.bounties[d]
              /\ t.claims \subseteq s.claims
<1> DEFINE t == Approved(s, p)
           u == Closed(s, p)
           b == s.proposals[p].bounty
           Added == [proposal : Nat, times : Int]
<1>1. /\ u \in ContractStates /\ ContractKept(u)
      /\ u.bounties = s.bounties /\ u.claims = s.claims
      /\ ~u.proposals[p].open
      /\ DOMAIN u.proposals = DOMAIN s.proposals
      /\ \A q \in DOMAIN s.proposals :
           /\ u.proposals[q].kind = s.proposals[q].kind
           /\ u.proposals[q].bounty = s.proposals[q].bounty
  BY ClosedFacts
<1> HIDE DEF u
<1>2. /\ s.proposals \in Seq(ProposalRecords) /\ u.proposals \in Seq(ProposalRecords)
      /\ s.bounties \in Seq(Added) /\ s.claims \in SUBSET Claims
      /\ \A d \in DOMAIN s.bounties : s.bounties[d] \in Added
  <2>1. /\ s.proposals \in Seq(ProposalRecords)
        /\ s.bounties \in Seq(Added) /\ s.claims \in SUBSET Claims
    BY DEF ContractStates
  <2>2. u.proposals \in Seq(ProposalRecords)
    <3>1. u \in ContractStates
      BY <1>1
    <3> QED BY <3>1 DEF ContractStates
  <2>3. \A d \in DOMAIN s.bounties : s.bounties[d] \in Added
    <3> HIDE DEF Added
    <3> QED BY <2>1
  <2> QED BY <2>1, <2>2, <2>3
<1>6. /\ \A x, y : [u EXCEPT !.bounties = x, !.claims = y] =
                  [proposals |-> u.proposals, bounties |-> x, claims |-> y]
      /\ \A x : [u EXCEPT !.bounties = x] =
               [proposals |-> u.proposals, bounties |-> x, claims |-> u.claims]
  <2>1. u \in ContractStates
    BY <1>1
  <2> QED BY <2>1, StateExcept
<1>3. s.proposals[p] \in ProposalRecords /\ p \in Nat
  BY <1>2
<1>4. CASE s.proposals[p].kind = "addBounty"
  <2> DEFINE new == [proposal |-> p, times |-> Times]
             bs == Append(s.bounties, new)
  <2>1. t = [u EXCEPT !.bounties = Append(@, new)]
    BY <1>4, Zenon DEF Approved, u
  <2>2. t = [proposals |-> u.proposals, bounties |-> bs, claims |-> u.claims]
    BY <1>1, <1>6, <2>1, Zenon
  <2>3. new \in Added /\ new.proposal = p
    BY <1>3
  <2>4. /\ bs \in Seq(Added) /\ DOMAIN bs = DOMAIN s.bounties \cup {Len(s.bounties) + 1}
        /\ bs[Len(s.bounties) + 1] = new
        /\ \A d \in DOMAIN s.bounties : d # Len(s.bounties) + 1 /\ bs[d] = s.bounties[d]
    BY <1>2, <2>3, SMTT(30)
  <2>5. t \in ContractStates
    BY <2>2, <2>4, <1>1 DEF ContractStates
  <2>6. \A d \in DOMAIN s.bounties : s.bounties[d].proposal # p
    BY DEF ContractKept, BountiesKept, ProposalsKept
  <2> HIDE DEF bs, new, u, t
  <2>7. /\ \A d \in DOMAIN bs :
             /\ bs[d].proposal \in DOMAIN u.proposals
             /\ ~u.proposals[bs[d].proposal].open
    BY <1>1, <2>3, <2>4 DEF ContractKept, BountiesKept, ProposalsKept
  <2>8. \A d, e \in DOMAIN bs : bs[d].proposal = bs[e].proposal => d = e
    BY <2>3, <2>4, <2>6 DEF ContractKept, BountiesKept, ProposalsKept
  <2>9. ContractKept(t)
    <3>1. t.proposals = u.proposals /\ t.bounties = bs /\ t.claims = s.claims
      BY <1>1, <2>2
    <3>2. ProposalsKept(u.proposals, s.bounties)
      BY <1>1 DEF ContractKept
    <3>3. DOMAIN s.bounties \subseteq DOMAIN bs
      BY <2>4
    <3>4. ProposalsKept(u.proposals, bs)
      BY <3>2, <3>3 DEF ProposalsKept
    <3>5. BountiesKept(u.proposals, bs)
      BY <2>7, <2>8 DEF BountiesKept
    <3>6. IsFiniteSet(s.claims) /\ \A c \in s.claims : c.bounty \in DOMAIN bs
      BY <3>3 DEF ContractKept
    <3> QED BY <3>1, <3>4, <3>5, <3>6 DEF ContractKept
  <2>10. b = 0
    BY <1>4 DEF ContractKept, ProposalsKept
  <2>11. t.bounties = bs /\ t.claims = s.claims /\ t.proposals[p].kind = s.proposals[p].kind
    BY <1>1, <2>2
  <2>12. bs = Append(s.bounties, [proposal |-> p, times |-> Times])
    BY DEF bs, new
  <2> HIDE DEF b
  <2> QED BY <1>4, <2>5, <2>9, <2>10, <2>11, <2>12 DEF t, b
<1>5. CASE s.proposals[p].kind # "addBounty"
  <2> DEFINE paid == [s.bounties[b] EXCEPT !.times = @ - 1]
             bs == [s.bounties EXCEPT ![b] = paid]
             cs == s.claims \ {CHOOSE c \in ClaimsOf(s, b, s.proposals[p].by) : TRUE}
  <2>1. t = [u EXCEPT !.bounties = [u.bounties EXCEPT ![b] = paid],
                      !.claims = u.claims \ {CHOOSE c \in ClaimsOf(s, b, s.proposals[p].by) : TRUE}]
    BY <1>5, Zenon DEF Approved, u
  <2>2. t = [proposals |-> u.proposals, bounties |-> bs, claims |-> cs]
    <3>1. bs = [u.bounties EXCEPT ![b] = paid] /\ cs = u.claims \ {CHOOSE c \in ClaimsOf(s, b, s.proposals[p].by) : TRUE}
      BY <1>1
    <3> HIDE DEF t, paid, bs, cs
    <3> QED BY <1>6, <2>1, <3>1, ZenonT(40)
  <2>3. b \in DOMAIN s.bounties
    <3>1. s.proposals[p].kind = "addDone"
      BY <1>3, <1>5 DEF ProposalRecords, ProposalKinds
    <3> QED BY <3>1 DEF ContractKept, BountiesKept, ProposalsKept
  <2>4. s.bounties[b] \in Added
    BY <1>2, <2>3
  <2>5. paid \in Added /\ paid.proposal = s.bounties[b].proposal
    <3>1. s.bounties[b].times - 1 \in Int
      BY <2>4
    <3> QED BY <2>4, <3>1
  <2>6. /\ bs \in Seq(Added) /\ DOMAIN bs = DOMAIN s.bounties
        /\ \A d \in DOMAIN s.bounties :
             bs[d].proposal = s.bounties[d].proposal /\ (d # b => bs[d] = s.bounties[d])
    <3> HIDE DEF paid, b
    <3> QED BY <1>2, <2>3, <2>5, SMTT(30)
  <2>7. cs \subseteq s.claims /\ cs \in SUBSET Claims
    BY <1>2
  <2> HIDE DEF cs, bs, paid, u, t
  <2>8. t \in ContractStates
    BY <2>2, <2>6, <2>7, <1>1, <1>2 DEF ContractStates
  <2>9. IsFiniteSet(cs)
    <3>1. IsFiniteSet(s.claims)
      BY DEF ContractKept
    <3> QED BY <2>7, <3>1, FS_Subset
  <2>10. ContractKept(t)
    <3>1. /\ t.proposals = u.proposals /\ t.bounties = bs /\ t.claims = cs
      BY <2>2
    <3>2. \A q \in DOMAIN u.proposals : 
            /\ u.proposals[q].kind = "addBounty" => u.proposals[q].bounty = 0
            /\ u.proposals[q].kind # "addBounty" => u.proposals[q].bounty \in DOMAIN bs
      BY <1>1, <2>6 DEF ContractKept, BountiesKept, ProposalsKept
    <3>3. \A d \in DOMAIN bs :
            bs[d].proposal \in DOMAIN u.proposals /\ ~u.proposals[bs[d].proposal].open
      <4>1. BountiesKept(u.proposals, s.bounties)
        BY <1>1 DEF ContractKept
      <4> QED BY <2>6, <4>1 DEF BountiesKept
    <3>4. \A d, e \in DOMAIN bs : bs[d].proposal = bs[e].proposal => d = e
      BY <2>6 DEF ContractKept, BountiesKept, ProposalsKept
    <3>5. \A c \in cs : c.bounty \in DOMAIN bs
      BY <2>6, <2>7 DEF ContractKept, BountiesKept, ProposalsKept
    <3> QED BY <2>9, <3>1, <3>2, <3>3, <3>4, <3>5 DEF ContractKept, BountiesKept, ProposalsKept
  <2> QED BY <1>1, <1>5, <2>2, <2>3, <2>6, <2>7, <2>8, <2>10 DEF t
<1> QED BY <1>4, <1>5

\* Receipt e is one of the calls that state s accepts.
CallOf(s, block, e) ==
  LET n == Len(s.proposals)
      Bs == DOMAIN s.bounties
      Free == {f \in Bs \X Claimers :
                 /\ NumberOfClaims(s, f[1]) < s.bounties[f[1]].times
                 /\ ClaimsOf(s, f[1], f[2]) = {}}
  IN  \/ e = Entry("addBounty", n + 1, 0, Nothing, block, Propose(s, "addBounty", 0, Nothing))
      \/ \E b \in Bs, u \in {c.by : c \in s.claims} :
           e = Entry("addDone", n + 1, b, u, block, Propose(s, "addDone", b, u))
      \/ \E p \in 1 .. n :
           /\ s.proposals[p].open
           /\ e = Entry("approve", p, s.proposals[p].bounty, s.proposals[p].by, block,
                        Approved(s, p))
      \/ \E p \in 1 .. n :
           /\ s.proposals[p].open
           /\ e = Entry("remove", p, s.proposals[p].bounty, s.proposals[p].by, block,
                        Closed(s, p))
      \/ \E f \in Free :
           e = Entry("claim", 0, f[1], f[2], block,
                     [s EXCEPT !.claims = @ \cup {Claim(f[1], f[2], block)}])
      \/ \E c \in s.claims :
           e = Entry("giveup", 0, c.bounty, c.by, block, [s EXCEPT !.claims = @ \ {c}])

LEMMA CallCases ==
  ASSUME NEW s, NEW block, NEW e \in Calls(s, block)
  PROVE  CallOf(s, block, e)
<1> DEFINE n == Len(s.proposals)
           Bs == DOMAIN s.bounties
           Free == {f \in Bs \X Claimers : /\ NumberOfClaims(s, f[1]) < s.bounties[f[1]].times
                                           /\ ClaimsOf(s, f[1], f[2]) = {}}
<1> DEFINE Open(p) == s.proposals[p].open
           Payable(p) == s.proposals[p].kind = "addDone" =>
                           ClaimsOf(s, s.proposals[p].bounty, s.proposals[p].by) # {}
           A1 == {Entry("addBounty", n + 1, 0, Nothing, block, Propose(s, "addBounty", 0, Nothing))}
           A2 == {Entry("addDone", n + 1, b, u, block, Propose(s, "addDone", b, u)) :
                    b \in Bs, u \in {c.by : c \in s.claims}}
           A3 == {Entry("approve", p, s.proposals[p].bounty, s.proposals[p].by, block,
                        Approved(s, p)) : p \in {q \in 1 .. n : Open(q) /\ Payable(q)}}
           A4 == {Entry("remove", p, s.proposals[p].bounty, s.proposals[p].by, block,
                        Closed(s, p)) : p \in {q \in 1 .. n : Open(q)}}
           A5 == {Entry("claim", 0, f[1], f[2], block,
                        [s EXCEPT !.claims = @ \cup {Claim(f[1], f[2], block)}]) : f \in Free}
           A6 == {Entry("giveup", 0, c.bounty, c.by, block, [s EXCEPT !.claims = @ \ {c}]) :
                    c \in s.claims}
           All == A1 \cup A2 \cup A3 \cup A4 \cup A5 \cup A6
<1>1. Calls(s, block) = {x \in All : x.kind \in bounded.kinds /\ x.proposal <= MaxProposals}
  BY DEF Calls
<1> HIDE DEF A1, A2, A3, A4, A5, A6
<1>2. e \in A1 \/ e \in A2 \/ e \in A3 \/ e \in A4 \/ e \in A5 \/ e \in A6
  BY <1>1
<1>3. CASE e \in A1
  BY <1>3 DEF A1, CallOf
<1>4. CASE e \in A2
  BY <1>4 DEF A2, CallOf
<1>5. CASE e \in A3
  BY <1>5 DEF A3, CallOf
<1>6. CASE e \in A4
  BY <1>6 DEF A4, CallOf
<1>7. CASE e \in A5
  BY <1>7 DEF A5, CallOf
<1>8. CASE e \in A6
  BY <1>8 DEF A6, CallOf
<1> QED BY <1>2, <1>3, <1>4, <1>5, <1>6, <1>7, <1>8

LEMMA CallFacts ==
  ASSUME NEW s \in ContractStates, ContractKept(s), NEW block \in Nat,
         NEW e \in Calls(s, block), Times \in Nat
  PROVE  /\ e \in Entries /\ ContractKept(e.state) /\ Follows(s, e) /\ e.block = block
         /\ e.bounty \in DOMAIN e.state.bounties \cup {0}
<1> DEFINE n == Len(s.proposals)
           Bs == DOMAIN s.bounties
           Free == {f \in Bs \X Claimers : /\ NumberOfClaims(s, f[1]) < s.bounties[f[1]].times
                                           /\ ClaimsOf(s, f[1], f[2]) = {}}
           Good(x) == /\ x \in Entries /\ ContractKept(x.state) /\ Follows(s, x)
                      /\ x.block = block /\ x.bounty \in DOMAIN x.state.bounties \cup {0}
<1>1. /\ s.proposals \in Seq(ProposalRecords) /\ n \in Nat /\ DOMAIN s.proposals = 1 .. n
      /\ s.bounties \in Seq([proposal : Nat, times : Int]) /\ s.claims \in SUBSET Claims
      /\ IsFiniteSet(s.claims) /\ Bs \subseteq Nat \ {0}
  BY DEF ContractStates, ContractKept
<1>2. \A p \in 1 .. n : s.proposals[p] \in ProposalRecords
  BY <1>1
<1>3. CallOf(s, block, e)
  BY CallCases
<1> DEFINE States(x) == [s EXCEPT !.claims = x]
<1>4. ASSUME NEW x \in SUBSET Claims, IsFiniteSet(x), \A c \in x : c.bounty \in Bs
      PROVE  /\ States(x) \in ContractStates /\ ContractKept(States(x))
             /\ States(x).bounties = s.bounties /\ States(x).claims = x
  <2>1. s = [proposals |-> s.proposals, bounties |-> s.bounties, claims |-> s.claims]
    BY DEF ContractStates
  <2>2. States(x) = [proposals |-> s.proposals, bounties |-> s.bounties, claims |-> x]
    BY <2>1
  <2> HIDE DEF States
  <2> QED BY <1>1, <1>4, <2>2 DEF ContractStates, ContractKept
<1> HIDE DEF States
<1>5. ASSUME e = Entry("addBounty", n + 1, 0, Nothing, block, Propose(s, "addBounty", 0, Nothing))
      PROVE  Good(e)
  <2> DEFINE t == Propose(s, "addBounty", 0, Nothing)
  <2>1. /\ t \in ContractStates /\ ContractKept(t)
        /\ t.bounties = s.bounties /\ t.claims = s.claims
    BY ProposeFacts DEF ProposalKinds
  <2> HIDE DEF t
  <2>2. e = [kind |-> "addBounty", proposal |-> n + 1, bounty |-> 0, by |-> Nothing,
             block |-> block, state |-> t]
    BY <1>5, Zenon DEF Entry, t
  <2> QED BY <1>1, <2>1, <2>2 DEF Entries, ReceiptKinds, Follows
<1>6. ASSUME NEW b \in Bs, NEW u \in {c.by : c \in s.claims},
             e = Entry("addDone", n + 1, b, u, block, Propose(s, "addDone", b, u))
      PROVE  Good(e)
  <2> DEFINE t == Propose(s, "addDone", b, u)
  <2>1. u \in Claimers /\ b \in Nat
    BY <1>1 DEF Claims
  <2>2. /\ t \in ContractStates /\ ContractKept(t)
        /\ t.bounties = s.bounties /\ t.claims = s.claims
    BY <2>1, ProposeFacts DEF ProposalKinds
  <2> HIDE DEF t
  <2>3. e = [kind |-> "addDone", proposal |-> n + 1, bounty |-> b, by |-> u,
             block |-> block, state |-> t]
    BY <1>6, Zenon DEF Entry, t
  <2> QED BY <1>1, <2>1, <2>2, <2>3 DEF Entries, ReceiptKinds, Follows
<1>7. ASSUME NEW p \in 1 .. n, s.proposals[p].open,
             e = Entry("approve", p, s.proposals[p].bounty, s.proposals[p].by, block,
                       Approved(s, p))
      PROVE  Good(e)
  <2> DEFINE t == Approved(s, p)
             b == s.proposals[p].bounty
  <2>1. /\ t \in ContractStates /\ ContractKept(t)
        /\ t.proposals[p].kind = s.proposals[p].kind
        /\ s.proposals[p].kind = "addBounty" =>
             /\ b = 0
             /\ t.bounties = Append(s.bounties, [proposal |-> p, times |-> Times])
             /\ t.claims = s.claims
        /\ s.proposals[p].kind # "addBounty" =>
             /\ b \in DOMAIN s.bounties /\ DOMAIN t.bounties = DOMAIN s.bounties
             /\ \A d \in DOMAIN s.bounties :
                  /\ t.bounties[d].proposal = s.bounties[d].proposal
                  /\ d # b => t.bounties[d] = s.bounties[d]
             /\ t.claims \subseteq s.claims
    BY <1>1, <1>7, ApprovedFacts
  <2> HIDE DEF t
  <2>2. e = [kind |-> "approve", proposal |-> p, bounty |-> b, by |-> s.proposals[p].by,
             block |-> block, state |-> t]
    BY <1>7, Zenon DEF Entry, t
  <2>3. b \in Nat /\ s.proposals[p].by \in Claimers \cup {Nothing} /\ p \in Nat
    BY <1>1, <1>2 DEF ProposalRecords
  <2>4. e \in Entries
    BY <2>1, <2>2, <2>3 DEF Entries, ReceiptKinds
  <2>5. IsAddition(e) <=> s.proposals[p].kind = "addBounty"
    BY <2>1, <2>2 DEF IsAddition
  <2> QED BY <1>1, <2>1, <2>2, <2>4, <2>5 DEF Follows
<1>8. ASSUME NEW p \in 1 .. n, s.proposals[p].open,
             e = Entry("remove", p, s.proposals[p].bounty, s.proposals[p].by, block,
                       Closed(s, p))
      PROVE  Good(e)
  <2> DEFINE t == Closed(s, p)
  <2>1. /\ t \in ContractStates /\ ContractKept(t)
        /\ t.bounties = s.bounties /\ t.claims = s.claims
    BY <1>1, ClosedFacts
  <2> HIDE DEF t
  <2>2. e = [kind |-> "remove", proposal |-> p, bounty |-> s.proposals[p].bounty,
             by |-> s.proposals[p].by, block |-> block, state |-> t]
    BY <1>8, Zenon DEF Entry, t
  <2>3. /\ s.proposals[p].bounty \in Nat /\ s.proposals[p].by \in Claimers \cup {Nothing}
        /\ p \in Nat
    BY <1>1, <1>2 DEF ProposalRecords
  <2>4. s.proposals[p].bounty \in DOMAIN s.bounties \cup {0}
    BY <1>1 DEF ContractKept, ProposalsKept
  <2> QED BY <1>1, <2>1, <2>2, <2>3, <2>4 DEF Entries, ReceiptKinds, Follows
<1>9. ASSUME NEW f \in Free,
             e = Entry("claim", 0, f[1], f[2], block,
                       [s EXCEPT !.claims = @ \cup {Claim(f[1], f[2], block)}])
      PROVE  Good(e)
  <2> DEFINE c == Claim(f[1], f[2], block)
             x == s.claims \cup {c}
  <2>1. f[1] \in Bs /\ f[2] \in Claimers /\ ClaimsOf(s, f[1], f[2]) = {}
    OBVIOUS
  <2>2. c \in Claims /\ c.bounty = f[1]
    BY <1>1, <2>1 DEF Claim, Claims
  <2>3. x \in SUBSET Claims /\ IsFiniteSet(x) /\ \A d \in x : d.bounty \in Bs
    BY <1>1, <2>1, <2>2, FS_AddElement DEF ContractKept
  <2> HIDE DEF x, c
  <2>4. /\ States(x) \in ContractStates /\ ContractKept(States(x))
        /\ States(x).bounties = s.bounties /\ States(x).claims = x
    BY <2>3, <1>4
  <2>5. e = [kind |-> "claim", proposal |-> 0, bounty |-> f[1], by |-> f[2], block |-> block,
             state |-> States(x)]
    BY <1>9, Zenon DEF Entry, States, x, c
  <2> QED BY <1>1, <2>1, <2>4, <2>5 DEF Entries, ReceiptKinds, Follows, x, c
<1>10. ASSUME NEW c \in s.claims,
              e = Entry("giveup", 0, c.bounty, c.by, block, [s EXCEPT !.claims = @ \ {c}])
       PROVE  Good(e)
  <2> DEFINE x == s.claims \ {c}
  <2>1. c.bounty \in Bs /\ c.by \in Claimers
    BY <1>1 DEF Claims, ContractKept
  <2>2. x \in SUBSET Claims /\ IsFiniteSet(x) /\ \A d \in x : d.bounty \in Bs
    BY <1>1, FS_RemoveElement DEF ContractKept
  <2> HIDE DEF x
  <2>4. /\ States(x) \in ContractStates /\ ContractKept(States(x))
        /\ States(x).bounties = s.bounties /\ States(x).claims = x
    BY <2>2, <1>4
  <2>5. e = [kind |-> "giveup", proposal |-> 0, bounty |-> c.bounty, by |-> c.by,
             block |-> block, state |-> States(x)]
    BY <1>10, Zenon DEF Entry, States, x
  <2> QED BY <1>1, <2>1, <2>4, <2>5 DEF Entries, ReceiptKinds, Follows, x
<1> QED BY <1>3, <1>5, <1>6, <1>7, <1>8, <1>9, <1>10, Zenon DEF CallOf

-----------------------------------------------------------------------------
\* Earlier receipts stay.
Extends(old, new) == \A k \in DOMAIN old : k \in DOMAIN new /\ new[k] = old[k]

LEMMA EntryType ==
  ASSUME ReceiptsType, NEW k \in DOMAIN receipts
  PROVE  /\ receipts[k] \in Entries /\ receipts[k].state \in ContractStates
         /\ ContractKept(receipts[k].state) /\ k \in Nat \ {0}
         /\ Len(receipts) \in DOMAIN receipts /\ DOMAIN receipts = 1 .. Len(receipts)
<1>1. receipts \in Seq(Entries) /\ Len(receipts) > 0
  BY DEF ReceiptsType
<1>2. receipts[k] \in Entries
  BY <1>1
<1> QED BY <1>1, <1>2 DEF Entries, ReceiptsType

LEMMA BountiesGrow ==
  ASSUME NEW s \in ContractStates, NEW e \in Entries, Follows(s, e)
  PROVE  DOMAIN s.bounties \subseteq DOMAIN e.state.bounties
<1>1. s.bounties \in Seq([proposal : Nat, times : Int])
  BY DEF ContractStates
<1>2. [proposal |-> e.proposal, times |-> Times] \in [proposal : Nat, times : Int]
  BY BountyAssumption DEF Entries
<1>3. \/ e.state.bounties = s.bounties
      \/ DOMAIN e.state.bounties = DOMAIN s.bounties
      \/ e.state.bounties = Append(s.bounties, [proposal |-> e.proposal, times |-> Times])
  BY DEF Follows
<1> QED BY <1>1, <1>2, <1>3

\* One more receipt follows from the last.
LEMMA OneMoreReceipt ==
  ASSUME ReceiptsType, OnePerBlock, bounded.perBlock = 1,
         NEW e, e \in Calls(ChainNow, Height + 1), receipts' = Append(receipts, e),
         bounded' = bounded
  PROVE  OnePerBlock'
<1>0. PICK n : n = Len(receipts)
  OBVIOUS
<1> DEFINE s == receipts[n].state
<1>1. /\ receipts \in Seq(Entries) /\ n \in Nat \ {0} /\ DOMAIN receipts = 1 .. n
      /\ n \in DOMAIN receipts
  BY <1>0 DEF ReceiptsType
<1>2. /\ receipts[1].kind = "approve" /\ receipts[1].state \in {Empty, OneBounty}
      /\ \A k \in 1 .. n : /\ receipts[k].block = k /\ OpenKept(k)
                           /\ k > 1 => Follows(receipts[k - 1].state, receipts[k])
                           /\ \A i \in 1 .. k :
                                receipts[i].bounty \in DOMAIN receipts[k].state.bounties \cup {0}
  BY <1>1 DEF OnePerBlock
<1>3. s \in ContractStates /\ ContractKept(s) /\ Height = n /\ ChainNow = s
  BY <1>0, <1>1, <1>2, EntryType DEF Height, ChainNow
<1>4. /\ e \in Entries /\ Follows(s, e) /\ e.block = n + 1
      /\ e.bounty \in DOMAIN e.state.bounties \cup {0}
  BY <1>1, <1>3, CallFacts, BountyAssumption
<1>5. /\ DOMAIN receipts' = 1 .. n + 1 /\ receipts'[n + 1] = e
      /\ \A k \in 1 .. n : receipts'[k] = receipts[k]
  BY <1>0, <1>1, <1>4
<1>6. ASSUME NEW k \in 1 .. n
      PROVE  OpenKept(k)'
  <2>1. \A c \in receipts[k].state.claims : c.start \in 2 .. k
    BY <1>2 DEF OpenKept
  <2> QED BY <1>1, <1>2, <1>5, <2>1 DEF OpenKept, Makes
<1>7. OpenKept(n + 1)'
  <2> SUFFICES ASSUME NEW c \in e.state.claims
               PROVE  /\ c.start \in 2 .. n + 1
                      /\ receipts'[c.start].kind = "claim"
                      /\ receipts'[c.start].bounty = c.bounty
                      /\ receipts'[c.start].by = c.by
                      /\ \A j \in c.start + 1 .. n + 1 :
                           ~(/\ receipts'[j].kind \in {"claim", "giveup"}
                             /\ receipts'[j].bounty = c.bounty /\ receipts'[j].by = c.by)
    BY <1>5 DEF OpenKept, Makes
  <2>1. OpenKept(n)
    BY <1>1, <1>2
  <2>2. ASSUME c \in s.claims,
               ~(e.kind \in {"claim", "giveup"} /\ e.bounty = c.bounty /\ e.by = c.by)
        PROVE  /\ c.start \in 2 .. n + 1
               /\ receipts'[c.start].kind = "claim"
               /\ receipts'[c.start].bounty = c.bounty
               /\ receipts'[c.start].by = c.by
               /\ \A j \in c.start + 1 .. n + 1 :
                    ~(/\ receipts'[j].kind \in {"claim", "giveup"}
                      /\ receipts'[j].bounty = c.bounty /\ receipts'[j].by = c.by)
    <3>1. /\ c.start \in 2 .. n /\ Makes(c.start, c.bounty) /\ receipts[c.start].by = c.by
          /\ \A j \in c.start + 1 .. n :
               ~(/\ receipts[j].kind \in {"claim", "giveup"}
                 /\ receipts[j].bounty = c.bounty /\ receipts[j].by = c.by)
      BY <2>1, <2>2 DEF OpenKept
    <3> QED BY <1>1, <1>5, <2>2, <3>1 DEF Makes
  <2>3. CASE e.kind \in {"addBounty", "addDone", "remove", "approve"}
    <3>1. e.state.claims \subseteq s.claims
      BY <1>4, <2>3 DEF Follows
    <3> QED BY <2>2, <2>3, <3>1
  <2>4. CASE e.kind = "claim"
    <3>1. /\ ClaimsOf(s, e.bounty, e.by) = {}
          /\ e.state.claims = s.claims \cup {Claim(e.bounty, e.by, e.block)}
      BY <1>4, <2>4 DEF Follows, IsAddition
    <3>2. CASE c = Claim(e.bounty, e.by, e.block)
      BY <1>1, <1>4, <1>5, <2>4, <3>2 DEF Claim
    <3>3. CASE c \in s.claims
      BY <2>2, <3>1, <3>3 DEF ClaimsOf
    <3> QED BY <3>1, <3>2, <3>3
  <2>5. CASE e.kind = "giveup"
    <3>1. PICK d \in s.claims : d.bounty = e.bounty /\ d.by = e.by /\ e.state.claims = s.claims \ {d}
      BY <1>4, <2>5 DEF Follows, IsAddition
    <3>2. c \in s.claims /\ c # d
      BY <3>1
    <3>3. ASSUME c.bounty = d.bounty, c.by = d.by
          PROVE  FALSE
      <4>1. /\ c.start \in 2 .. n /\ Makes(c.start, c.bounty) /\ receipts[c.start].by = c.by
            /\ d.start \in 2 .. n /\ Makes(d.start, d.bounty) /\ receipts[d.start].by = d.by
            /\ \A j \in c.start + 1 .. n :
                 ~(/\ receipts[j].kind \in {"claim", "giveup"}
                   /\ receipts[j].bounty = c.bounty /\ receipts[j].by = c.by)
            /\ \A j \in d.start + 1 .. n :
                 ~(/\ receipts[j].kind \in {"claim", "giveup"}
                   /\ receipts[j].bounty = d.bounty /\ receipts[j].by = d.by)
        BY <2>1, <3>2 DEF OpenKept
      <4>2. c.start = d.start
        <5>1. ~(c.start < d.start)
          BY <1>1, <3>3, <4>1 DEF Makes
        <5>2. ~(d.start < c.start)
          BY <1>1, <3>3, <4>1 DEF Makes
        <5> QED BY <1>1, <4>1, <5>1, <5>2
      <4>3. c \in Claims /\ d \in Claims
        BY <1>3, <3>2 DEF ContractStates
      <4> QED BY <3>2, <3>3, <4>2, <4>3 DEF Claims
    <3> QED BY <2>2, <3>1, <3>2, <3>3
  <2>6. e.kind \in ReceiptKinds
    BY <1>4 DEF Entries
  <2> QED BY <2>3, <2>4, <2>5, <2>6 DEF ReceiptKinds
<1>10. DOMAIN s.bounties \subseteq DOMAIN e.state.bounties
  BY <1>3, <1>4, BountiesGrow
<1>8. \A k \in DOMAIN receipts' :
        /\ receipts'[k].block = k /\ OpenKept(k)'
        /\ k > 1 => Follows(receipts'[k - 1].state, receipts'[k])
        /\ \A i \in 1 .. k : receipts'[i].bounty \in DOMAIN receipts'[k].state.bounties \cup {0}
  <2> SUFFICES ASSUME NEW k \in 1 .. n + 1
               PROVE  /\ receipts'[k].block = k /\ OpenKept(k)'
                      /\ k > 1 => Follows(receipts'[k - 1].state, receipts'[k])
                      /\ \A i \in 1 .. k :
                           receipts'[i].bounty \in DOMAIN receipts'[k].state.bounties \cup {0}
    BY <1>5
  <2>1. CASE k \in 1 .. n
    <3>1. (k > 1 => k - 1 \in 1 .. n) /\ 1 .. k \subseteq 1 .. n
      BY <1>1, <2>1
    <3> QED BY <1>2, <1>5, <1>6, <2>1, <3>1
  <2>2. CASE k = n + 1
    <3>1. k - 1 = n /\ n \in 1 .. n /\ 1 .. k = (1 .. n) \cup {n + 1}
      BY <1>1, <2>2
    <3>2. \A i \in 1 .. k : receipts'[i].bounty \in DOMAIN e.state.bounties \cup {0}
      BY <1>2, <1>4, <1>5, <1>10, <3>1
    <3> QED BY <1>4, <1>5, <1>7, <2>2, <3>1, <3>2
  <2> QED BY <1>1, <2>1, <2>2
<1>9. receipts'[1] = receipts[1]
  BY <1>1, <1>5
<1> QED BY <1>2, <1>8, <1>9 DEF OnePerBlock, Follows, OpenKept, Makes

LEMMA BlockCloses ==
  ASSUME ReceiptsType, OnePerBlock, bounded \in BountyScenarios, CloseBlock
  PROVE  ReceiptsType' /\ OnePerBlock' /\ Extends(receipts, receipts')
<1>1. /\ receipts \in Seq(Entries) /\ Len(receipts) \in Nat \ {0}
      /\ Len(receipts) \in DOMAIN receipts
  BY DEF ReceiptsType
<1>2. bounded' = bounded
  BY DEF CloseBlock, limits
<1>3. PICK e \in Calls(ChainNow, Height + 1) :
        \/ receipts' = Append(receipts, e)
        \/ /\ bounded.perBlock = 2
           /\ \E f \in Calls(e.state, Height + 1) :
                receipts' = Append(Append(receipts, [e EXCEPT !.state = f.state]), f)
  BY Zenon DEF CloseBlock
<1>4. ChainNow \in ContractStates /\ ContractKept(ChainNow) /\ Height \in Nat
  BY <1>1, EntryType DEF ChainNow, Height, Entries
<1>5. /\ e \in Entries /\ ContractKept(e.state) /\ e.bounty \in DOMAIN e.state.bounties \cup {0}
      /\ e.state \in ContractStates
  <2>1. Height + 1 \in Nat /\ Times \in Nat
    BY <1>4, BountyAssumption
  <2>2. e \in Entries /\ ContractKept(e.state) /\ e.bounty \in DOMAIN e.state.bounties \cup {0}
    BY <1>4, <2>1, CallFacts
  <2> QED BY <2>2 DEF Entries
<1>6. CASE receipts' = Append(receipts, e)
  <2>1. ReceiptsType' /\ Extends(receipts, receipts')
    BY <1>1, <1>5, <1>6 DEF ReceiptsType, Extends
  <2>2. OnePerBlock'
    <3>1. CASE bounded.perBlock = 1
      BY <1>2, <1>6, <3>1, OneMoreReceipt
    <3>2. CASE bounded.perBlock # 1
      BY <1>2, <3>2 DEF OnePerBlock
    <3> QED BY <3>1, <3>2
  <2> QED BY <2>1, <2>2
<1>7. ASSUME NEW f \in Calls(e.state, Height + 1), bounded.perBlock = 2,
             receipts' = Append(Append(receipts, [e EXCEPT !.state = f.state]), f)
      PROVE  ReceiptsType' /\ OnePerBlock' /\ Extends(receipts, receipts')
  <2> DEFINE d == [e EXCEPT !.state = f.state]
             one == Append(receipts, d)
  <2>1. Height + 1 \in Nat /\ Times \in Nat
    BY <1>4, BountyAssumption
  <2>2. /\ f \in Entries /\ ContractKept(f.state) /\ Follows(e.state, f)
        /\ f.bounty \in DOMAIN f.state.bounties \cup {0}
    BY <1>5, <2>1, CallFacts
  <2>3. f.state \in ContractStates
    BY <2>2 DEF Entries
  <2>4. d \in Entries /\ d.state = f.state /\ d.bounty = e.bounty
    BY <1>5, <2>3 DEF Entries
  <2>5. DOMAIN e.state.bounties \subseteq DOMAIN f.state.bounties
    BY <1>5, <2>2, BountiesGrow
  <2> HIDE DEF d
  <2>6. /\ one \in Seq(Entries) /\ Len(one) = Len(receipts) + 1 /\ one[Len(receipts) + 1] = d
        /\ \A k \in DOMAIN receipts : one[k] = receipts[k]
    BY <1>1, <2>4
  <2> HIDE DEF one
  <2>7. /\ receipts' \in Seq(Entries) /\ Len(receipts') = Len(receipts) + 2
        /\ receipts'[Len(receipts) + 2] = f
        /\ \A k \in DOMAIN one : receipts'[k] = one[k]
    BY <1>1, <1>7, <2>2, <2>6 DEF one, d
  <2>8. Extends(receipts, receipts') /\ receipts'[Len(receipts) + 1] = d
    BY <1>1, <2>6, <2>7 DEF Extends
  <2>9. \A k \in DOMAIN receipts' :
          /\ ContractKept(receipts'[k].state)
          /\ receipts'[k].bounty \in DOMAIN receipts'[k].state.bounties \cup {0}
    <3> SUFFICES ASSUME NEW k \in DOMAIN receipts'
                 PROVE  /\ ContractKept(receipts'[k].state)
                        /\ receipts'[k].bounty \in DOMAIN receipts'[k].state.bounties \cup {0}
      OBVIOUS
    <3>1. CASE k \in DOMAIN receipts
      BY <2>8, <3>1 DEF Extends, ReceiptsType
    <3>2. CASE k = Len(receipts) + 1
      BY <1>5, <2>2, <2>4, <2>5, <2>8, <3>2
    <3>3. CASE k = Len(receipts) + 2
      BY <2>2, <2>7, <3>3
    <3> QED BY <1>1, <2>7, <3>1, <3>2, <3>3
  <2> QED BY <1>2, <1>7, <2>7, <2>8, <2>9 DEF ReceiptsType, OnePerBlock
<1> QED BY <1>3, <1>6, <1>7

-----------------------------------------------------------------------------
\* The types of what is read and saved.
Savings == [bounty : Bounties, listed : (SUBSET Nat) \cup {Nothing}]

LEMMA NotListed == Nothing \in (SUBSET Nat) \cup {Nothing}
BY Zenon

LEMMA BountyType ==
  ASSUME NEW p \in Nat \cup {Nothing}, NEW times \in Int, NEW claims \in SUBSET Claims,
         NEW count \in Nat
  PROVE  Bounty(p, times, claims, count) \in Bounties
BY DEF Bounty, Bounties

LEMMA CountType ==
  ASSUME NEW s \in ContractStates, ContractKept(s), NEW b
  PROVE  NumberOfClaims(s, b) \in Nat
<1>1. IsFiniteSet(s.claims) /\ {c \in s.claims : c.bounty = b} \in SUBSET s.claims
  BY DEF ContractKept
<1> QED BY <1>1, FS_Subset, FS_CardinalityType DEF NumberOfClaims

LEMMA ToSaveType ==
  ASSUME NEW r \in Entries, ContractKept(r.state), NEW found \in Savings,
         r.kind \in {"claim", "giveup"} \/ r.bounty \in DOMAIN r.state.bounties
  PROVE  /\ ToSave(r, found) \in Savings
         /\ ToSave(r, found).bounty.proposal = found.bounty.proposal
<1> DEFINE s == r.state
           b == r.bounty
           f == found.bounty
<1>1. /\ s \in ContractStates /\ b \in Nat /\ f \in Bounties
      /\ found.listed \in (SUBSET Nat) \cup {Nothing}
  BY DEF Entries, Savings
<1>2. /\ s.claims \in SUBSET Claims /\ s.bounties \in Seq([proposal : Nat, times : Int])
      /\ f.claims \in SUBSET Claims /\ f.proposal \in Nat \cup {Nothing} /\ f.times \in Int
  BY <1>1 DEF ContractStates, Bounties
<1>3. NumberOfClaims(s, b) \in Nat
  BY <1>1, CountType
<1>4. Merged(f.claims, ClaimsOf(s, b, r.by)) \in SUBSET Claims
  BY <1>2 DEF Merged, ClaimsOf
<1>5. CASE r.kind \in {"claim", "giveup"}
  <2>1. ToSave(r, found) = [bounty |-> Claimed(f, r), listed |-> Nothing]
    BY <1>5 DEF ToSave
  <2> DEFINE dropped == IF r.kind = "giveup" THEN LastClaims(f.claims, r.by, r.block) ELSE {}
             ids == {c.start : c \in dropped}
             cs == {c \in Merged(f.claims, ClaimsOf(s, b, r.by)) : c.start \notin ids}
  <2>2. Claimed(f, r) = Bounty(f.proposal, f.times, cs, NumberOfClaims(s, b))
    BY Zenon DEF Claimed
  <2>3. cs \in SUBSET Claims
    <3> HIDE DEF ids
    <3> QED BY <1>4
  <2> HIDE DEF cs, f, b, s
  <2>4. Claimed(f, r) \in Bounties
    BY <1>2, <1>3, <2>2, <2>3, BountyType
  <2>5. Claimed(f, r).proposal = f.proposal
    BY <2>2 DEF Bounty
  <2> QED BY <2>1, <2>4, <2>5, NotListed DEF Savings, f
<1>6. CASE r.kind \notin {"claim", "giveup"}
  <2>1. ToSave(r, found) = [bounty |-> Paid(f, r), listed |-> found.listed]
    BY <1>6 DEF ToSave
  <2>2. Paid(f, r) = Bounty(f.proposal, s.bounties[b].times,
                            Merged(f.claims, ClaimsOf(s, b, r.by)), NumberOfClaims(s, b))
    BY Zenon DEF Paid
  <2>3. s.bounties[b].times \in Int
    <3>1. b \in DOMAIN s.bounties
      BY <1>6
    <3> DEFINE Added == [proposal : Nat, times : Int]
    <3>2. s.bounties[b] \in Added
      <4> HIDE DEF Added, s, b
      <4>1. s.bounties \in Seq(Added)
        BY <1>2 DEF Added
      <4> QED BY <3>1, <4>1
    <3> QED BY <3>2
  <2> HIDE DEF f, b, s
  <2>4. Paid(f, r) \in Bounties
    BY <1>2, <1>3, <1>4, <2>2, <2>3, BountyType
  <2>5. Paid(f, r).proposal = f.proposal
    BY <2>2 DEF Bounty
  <2> QED BY <1>1, <2>1, <2>4, <2>5 DEF Savings, f
<1> QED BY <1>5, <1>6

LEMMA FoundType ==
  ASSUME StoresType, NEW b, IsStored(b)
  PROVE  FoundBounty(b) \in Savings
<1>1. CASE bounded.bountyDynamo
  <2>1. mapping[b] \in DOMAIN items
    BY <1>1 DEF IsStored, HasItem
  <2>2. ItemOf(b) \in BountyItems
    BY <2>1 DEF ItemOf, StoresType
  <2> QED BY <1>1, <2>2 DEF FoundBounty, Savings, BountyItems
<1>2. CASE ~bounded.bountyDynamo
  <2>1. rows[b] \in Bounties
    BY <1>2 DEF IsStored, StoresType
  <2> QED BY <1>2, <2>1, NotListed DEF FoundBounty, Savings
<1> QED BY <1>1, <1>2

\* What a handler of receipt r saves of the bounty it is about.
SavesOf(r) ==
  IF IsAddition(r) THEN [bounty |-> Bounty(r.proposal, Times, {}, 0), listed |-> Nothing]
  ELSE ToSave(r, FoundBounty(Subject(r)))

LEMMA SavesType ==
  ASSUME ReceiptsType, StoresType, NEW k \in DOMAIN receipts,
         Subject(receipts[k]) # 0,
         IsStored(Subject(receipts[k])) <=> ~IsAddition(receipts[k]),
         SavesOf(receipts[k]).bounty.proposal # Nothing
  PROVE  /\ SavesOf(receipts[k]) \in Savings /\ SavesOf(receipts[k]).bounty.proposal \in Nat
<1> DEFINE r == receipts[k]
<1>1. /\ r \in Entries /\ ContractKept(r.state) /\ r.bounty \in DOMAIN r.state.bounties \cup {0}
  BY EntryType DEF ReceiptsType
<1>2. r.proposal \in Nat
  BY <1>1 DEF Entries
<1> HIDE DEF r
<1>3. CASE IsAddition(r)
  <2> DEFINE new == Bounty(r.proposal, Times, {}, 0)
  <2>1. new \in Bounties /\ new.proposal = r.proposal
    <3>1. Times \in Int /\ {} \in SUBSET Claims /\ 0 \in Nat
      BY BountyAssumption
    <3>2. new \in Bounties
      BY <1>2, <3>1, BountyType, Zenon
    <3> QED BY <3>2 DEF Bounty
  <2> HIDE DEF new
  <2>2. SavesOf(r) = [bounty |-> new, listed |-> Nothing]
    BY <1>3 DEF SavesOf, new
  <2> QED BY <1>2, <2>1, <2>2, NotListed DEF Savings, r
<1>4. CASE ~IsAddition(r)
  <2>1. SavesOf(r) = ToSave(r, FoundBounty(Subject(r))) /\ Subject(r) = r.bounty
    BY <1>4 DEF SavesOf, Subject
  <2>2. SavesOf(r) \in Savings
    BY <1>1, <1>4, <2>1, FoundType, ToSaveType DEF r
  <2> QED BY <2>2 DEF Savings, Bounties, r
<1> QED BY <1>3, <1>4

-----------------------------------------------------------------------------
\* The steps of a worker leave the others as they are.
OnlyMoves(w) ==
  /\ \A u \in BountyWorkers \ {w} : at'[u] = at[u] /\ read'[u] = read[u]
  /\ \A u \in Handlers \ {w} : receipt'[u] = receipt[u]
  /\ at' = [u \in BountyWorkers |-> at'[u]] /\ receipt' = [u \in Handlers |-> receipt'[u]]
  /\ read' = [u \in BountyWorkers |-> read'[u]]

LEMMA SameHandler ==
  ASSUME NEW w \in Handlers, HandlerType(w), Extends(receipts, receipts'),
         at'[w] = at[w], read'[w] = read[w], receipt'[w] = receipt[w]
  PROVE  HandlerType(w)'
<1>1. CASE at[w] = "off"
  BY <1>1 DEF HandlerType
<1>2. CASE at[w] # "off"
  <2>1. /\ receipt[w] \in DOMAIN receipts \ {1} /\ StepFits(w) /\ ReadType(w)
    BY <1>2 DEF HandlerType
  <2>2. /\ receipt'[w] \in DOMAIN receipts' \ {1}
        /\ receipts'[receipt'[w]] = receipts[receipt[w]]
    BY <2>1 DEF Extends
  <2>3. StepFits(w)'
    BY <2>1, <2>2 DEF StepFits, Handled, IsRemoval
  <2>4. ReadType(w)'
    BY <2>1 DEF ReadType
  <2> QED BY <2>2, <2>3, <2>4 DEF HandlerType
<1> QED BY <1>1, <1>2

LEMMA OthersType ==
  ASSUME WorkersType, NEW w, OnlyMoves(w), Extends(receipts, receipts'),
         bounded' = bounded, restarts' \in Nat,
         done' \subseteq DOMAIN receipts' /\ 1 \in done',
         rested' \in DOMAIN receipts' \cup {0},
         w \in Handlers => HandlerType(w)', w = "manager" => ManagerType',
         w = "poller" => PollerType'
  PROVE  WorkersType'
<1>1. \A u \in Handlers : HandlerType(u)'
  <2> SUFFICES ASSUME NEW u \in Handlers
               PROVE  HandlerType(u)'
    OBVIOUS
  <2>1. CASE u = w
    BY <2>1
  <2>2. CASE u # w
    <3>1. at'[u] = at[u] /\ read'[u] = read[u] /\ receipt'[u] = receipt[u]
      BY <2>2 DEF OnlyMoves, BountyWorkers
    <3> QED BY <3>1, SameHandler DEF WorkersType
  <2> QED BY <2>1, <2>2
<1>2. ManagerType'
  <2>1. CASE w # "manager"
    BY <2>1 DEF WorkersType, ManagerType, OnlyMoves, BountyWorkers
  <2> QED BY <2>1
<1>3. PollerType'
  <2>1. CASE w # "poller"
    BY <2>1 DEF WorkersType, PollerType, OnlyMoves, BountyWorkers
  <2> QED BY <2>1
<1> QED BY <1>1, <1>2, <1>3 DEF WorkersType, OnlyMoves

LEMMA SameReceipts == receipts' = receipts => Extends(receipts, receipts')
BY DEF Extends

LEMMA StopsType ==
  ASSUME WorkersType, NEW w \in BountyWorkers, NEW ok \in BOOLEAN, Stops(w, ok),
         receipts' = receipts, bounded' = bounded, restarts' \in Nat, at[w] # "off"
  PROVE  WorkersType' /\ OnlyMoves(w) /\ at'[w] = "off"
<1>1. /\ OnlyMoves(w) /\ at'[w] = "off"
  BY DEF Stops, WorkersType, OnlyMoves
<1>2. w \in Handlers => receipt[w] \in DOMAIN receipts
  BY DEF WorkersType, HandlerType
<1>3. /\ done' \subseteq DOMAIN receipts' /\ 1 \in done'
      /\ rested' \in DOMAIN receipts' \cup {0}
  BY <1>2 DEF Stops, WorkersType
<1>4. /\ w \in Handlers => HandlerType(w)'
      /\ w = "manager" => ManagerType' 
      /\ w = "poller" => PollerType'
  BY <1>1 DEF HandlerType, ManagerType, PollerType
<1> QED BY <1>1, <1>3, <1>4, SameReceipts, OthersType

LEMMA GoesType ==
  ASSUME WorkersType, NEW w \in BountyWorkers, NEW label, NEW x, Goes(w, label),
         receipts' = receipts, bounded' = bounded, restarts' \in Nat, UNCHANGED <<receipt, done>>,
         read' = [read EXCEPT ![w] = x],
         w \in Handlers => HandlerType(w)', w = "manager" => ManagerType',
         w = "poller" => PollerType'
  PROVE  WorkersType' /\ OnlyMoves(w)
<1>1. OnlyMoves(w)
  BY DEF Goes, WorkersType, OnlyMoves
<1> QED BY <1>1, SameReceipts, OthersType DEF Goes, WorkersType

LEMMA UpsertStays ==
  ASSUME NEW f, NEW S, f \in [DOMAIN f -> S], NEW k, NEW v \in S
  PROVE  Upsert(f, k, v) \in [DOMAIN Upsert(f, k, v) -> S]
BY DEF Upsert

LEMMA OverStays ==
  ASSUME NEW f, NEW g, NEW S, f \in [DOMAIN f -> S], g \in [DOMAIN g -> S]
  PROVE  Over(f, g) \in [DOMAIN Over(f, g) -> S]
BY DEF Over

LEMMA HandlerTyped ==
  ASSUME ReceiptsType, StoresType, WorkersType, NEW w \in Handlers, Handler(w)
  PROVE  StoresType' /\ WorkersType'
<1>1. /\ w \in BountyWorkers /\ HandlerType(w)
      /\ at = [u \in BountyWorkers |-> at[u]] /\ read = [u \in BountyWorkers |-> read[u]]
      /\ receipt = [u \in Handlers |-> receipt[u]]
  BY DEF WorkersType, BountyWorkers
<1>2. receipts' = receipts /\ bounded' = bounded /\ restarts' \in Nat
  BY Zenon DEF Handler, SaveContextItem, SaveContextRow, ArchiveItem, RemoveContextRow,
     FindDone, SaveDone, FindBounty, SaveItem, SaveMapping, SaveRow, limits, onChain, WorkersType
<1>3. at[w] # "off" => /\ receipt[w] \in DOMAIN receipts \ {1} /\ StepFits(w) /\ ReadType(w)
                       /\ Handled(w) \in Entries
  BY EntryType DEF WorkersType, HandlerType, Handled
<1>4. Handled(w).proposal \in Nat => {Handled(w).proposal} \in SUBSET Nat
  OBVIOUS
<1>5. CASE SaveContextItem(w)
  <2>1. /\ at' = [at EXCEPT ![w] = "contextRow"] /\ at[w] = "contextItem"
        /\ read' = read /\ receipt' = receipt
    BY <1>5 DEF SaveContextItem, Goes, IsAt
  <2>2. HandlerType(w)'
    BY <1>1, <1>2, <1>3, <2>1 DEF HandlerType, StepFits, ReadType, Handled, SavingSteps
  <2>3. WorkersType'
    BY <1>1, <1>2, <1>5, <2>1, <2>2, GoesType DEF SaveContextItem, Handlers
  <2>4. ContextItem \in BountyItems
    BY DEF ContextItem, NoBounty, BountyItems, Bounties, Bounty
  <2>5. StoresType'
    BY <1>5, <2>4, UpsertStays DEF SaveContextItem, StoresType, WithContext
  <2> QED BY <2>3, <2>5
<1>6. CASE SaveContextRow(w)
  <2>1. WorkersType'
    BY <1>1, <1>2, <1>6, StopsType DEF SaveContextRow, IsAt
  <2>2. StoresType'
    BY <1>6 DEF SaveContextRow, StoresType, Upsert
  <2> QED BY <2>1, <2>2
<1>7. CASE ArchiveItem(w)
  <2>1. /\ at' = [at EXCEPT ![w] = "removeRow"] /\ at[w] = "archive"
        /\ read' = read /\ receipt' = receipt
    BY <1>7 DEF ArchiveItem, Goes, IsAt
  <2>2. HandlerType(w)'
    BY <1>1, <1>2, <1>3, <2>1 DEF HandlerType, StepFits, ReadType, Handled, SavingSteps
  <2>3. WorkersType'
    BY <1>1, <1>2, <1>7, <2>1, <2>2, GoesType DEF ArchiveItem, Handlers
  <2>4. ContextItem \in BountyItems
    BY DEF ContextItem, NoBounty, BountyItems, Bounties, Bounty
  <2>5. \A i \in BountyItems : [i EXCEPT !.archived = TRUE] \in BountyItems
    BY DEF BountyItems
  <2>6. StoresType'
    <3> DEFINE p == Handled(w).proposal
               i == IF p \in DOMAIN items THEN items[p] ELSE ContextItem
               j == [i EXCEPT !.archived = TRUE]
    <3>1. i \in BountyItems
      BY <2>4 DEF StoresType
    <3>2. j \in BountyItems
      BY <2>5, <3>1
    <3>3. items' = Upsert(items, p, j)
      BY <1>7 DEF ArchiveItem
    <3> HIDE DEF p, j
    <3>4. items' \in [DOMAIN items' -> BountyItems]
      BY <3>2, <3>3, UpsertStays DEF StoresType
    <3> QED BY <1>7, <3>4 DEF ArchiveItem, StoresType
  <2> QED BY <2>3, <2>6
<1>8. CASE RemoveContextRow(w)
  <2>1. WorkersType'
    BY <1>1, <1>2, <1>8, StopsType DEF RemoveContextRow, IsAt
  <2>2. StoresType'
    BY <1>8 DEF RemoveContextRow, StoresType
  <2> QED BY <2>1, <2>2
<1>9. CASE FindDone(w)
  <2>1. StoresType' /\ at[w] = "findDone"
    BY <1>9 DEF FindDone, StoresType, stored, IsAt
  <2>2. CASE Stops(w, FALSE) \/ Stops(w, TRUE)
    BY <1>1, <1>2, <2>1, <2>2, StopsType
  <2>3. CASE ~(Stops(w, FALSE) \/ Stops(w, TRUE))
    <3> DEFINE b == Handled(w).bounty
               x == [place |-> mapping[b], item |-> ItemOf(b)]
    <3>1. /\ HasItem(b) /\ read' = [read EXCEPT ![w] = x] /\ Goes(w, "saveDone")
          /\ UNCHANGED <<receipt, done>>
      BY <1>9, <2>3 DEF FindDone
    <3>2. x \in [place : Nat, item : BountyItems]
      BY <3>1 DEF HasItem, ItemOf, StoresType
    <3> HIDE DEF b, x
    <3>3. at' = [at EXCEPT ![w] = "saveDone"]
      BY <3>1 DEF Goes
    <3>4. HandlerType(w)'
      BY <1>1, <1>2, <1>3, <2>1, <3>1, <3>2, <3>3
         DEF HandlerType, StepFits, ReadType, Handled, SavingSteps
    <3>5. WorkersType'
      BY <1>1, <1>2, <3>1, <3>4, GoesType DEF Handlers
    <3> QED BY <2>1, <3>5
  <2> QED BY <2>2, <2>3
<1>10. CASE SaveDone(w)
  <2>1. WorkersType'
    BY <1>1, <1>2, <1>10, StopsType DEF SaveDone, IsAt
  <2> DEFINE i == [read[w].item EXCEPT !.done = @ \cup {Handled(w).proposal}]
  <2>2. read[w].item \in BountyItems /\ Handled(w).proposal \in Nat
    BY <1>3, <1>10 DEF SaveDone, IsAt, ReadType, Entries
  <2>3. i \in BountyItems
    <3>1. read[w].item.done \cup {Handled(w).proposal} \in SUBSET Nat
      BY <2>2 DEF BountyItems
    <3> QED BY <2>2, <3>1 DEF BountyItems
  <2> HIDE DEF i
  <2>4. items' = Upsert(items, read[w].place, i)
    BY <1>10, Zenon DEF SaveDone, i
  <2>5. items' \in [DOMAIN items' -> BountyItems]
    BY <2>3, <2>4, UpsertStays DEF StoresType
  <2>6. StoresType'
    BY <1>10, <2>5 DEF SaveDone, StoresType
  <2> QED BY <2>1, <2>6
<1>11. CASE FindBounty(w)
  <2>1. StoresType' /\ at[w] = "find"
    BY <1>11 DEF FindBounty, StoresType, stored, IsAt
  <2>2. CASE \E found \in BOOLEAN : Stops(w, found)
    BY <1>1, <1>2, <2>1, <2>2, StopsType
  <2>3. CASE ~\E found \in BOOLEAN : Stops(w, found)
    <3> DEFINE r == Handled(w)
    <3>1. /\ Subject(r) # 0 /\ (IsStored(Subject(r)) <=> ~IsAddition(r))
          /\ SavesOf(r).bounty.proposal # Nothing
          /\ read' = [read EXCEPT ![w] = SavesOf(r)] /\ Goes(w, "saveItem")
          /\ UNCHANGED <<receipt, done>>
      BY <1>11, <2>3 DEF FindBounty, SavesOf
    <3>2. SavesOf(r) \in Savings /\ SavesOf(r).bounty.proposal \in Nat
      BY <1>3, <2>1, <3>1, SavesType DEF Handled
    <3> HIDE DEF r
    <3>3. at' = [at EXCEPT ![w] = "saveItem"]
      BY <3>1 DEF Goes
    <3>4. HandlerType(w)'
      BY <1>1, <1>2, <1>3, <2>1, <3>1, <3>2, <3>3
         DEF HandlerType, StepFits, ReadType, Handled, SavingSteps, Savings
    <3>5. WorkersType'
      BY <1>1, <1>2, <3>1, <3>4, GoesType DEF Handlers
    <3> QED BY <2>1, <3>5
  <2> QED BY <2>2, <2>3
<1>12. CASE SaveItem(w)
  <2>1. /\ at' = [at EXCEPT ![w] = "saveMapping"] /\ at[w] = "saveItem"
        /\ read' = read /\ receipt' = receipt
    BY <1>12 DEF SaveItem, Goes, IsAt
  <2>2. HandlerType(w)'
    BY <1>1, <1>2, <1>3, <2>1 DEF HandlerType, StepFits, ReadType, Handled, SavingSteps
  <2>3. WorkersType'
    BY <1>1, <1>2, <1>12, <2>1, <2>2, GoesType DEF SaveItem, Handlers
  <2> DEFINE p == read[w].bounty.proposal
             i == [bounty |-> read[w].bounty, archived |-> FALSE,
                   done |-> IF read[w].listed # Nothing THEN read[w].listed ELSE DoneOf(p)]
  <2>4. /\ read[w].bounty \in Bounties /\ read[w].listed \in (SUBSET Nat) \cup {Nothing}
    BY <1>3, <2>1 DEF ReadType, SavingSteps
  <2>5. DoneOf(p) \in SUBSET Nat
    BY DEF DoneOf, StoresType, BountyItems
  <2>6. i \in BountyItems
    BY <2>4, <2>5 DEF BountyItems
  <2>7. items' = Upsert(items, p, i)
    BY <1>12, Zenon DEF SaveItem, WithBounty
  <2> HIDE DEF i, p
  <2>8. items' \in [DOMAIN items' -> BountyItems]
    BY <2>6, <2>7, UpsertStays DEF StoresType
  <2>9. StoresType'
    BY <1>12, <2>8 DEF SaveItem, StoresType
  <2> QED BY <2>3, <2>9
<1>13. CASE SaveMapping(w)
  <2>1. /\ at' = [at EXCEPT ![w] = "saveRow"] /\ at[w] = "saveMapping"
        /\ read' = read /\ receipt' = receipt
    BY <1>13 DEF SaveMapping, Goes, IsAt
  <2>2. HandlerType(w)'
    BY <1>1, <1>2, <1>3, <2>1 DEF HandlerType, StepFits, ReadType, Handled, SavingSteps
  <2>3. WorkersType'
    BY <1>1, <1>2, <1>13, <2>1, <2>2, GoesType DEF SaveMapping, Handlers
  <2>4. read[w].bounty.proposal \in Nat
    BY <1>3, <2>1 DEF ReadType, SavingSteps
  <2>5. mapping' \in [DOMAIN mapping' -> Nat]
    BY <1>13, <2>4, UpsertStays DEF SaveMapping, StoresType
  <2>6. StoresType'
    BY <1>13, <2>5 DEF SaveMapping, StoresType
  <2> QED BY <2>3, <2>6
<1>14. CASE SaveRow(w)
  <2>1. WorkersType'
    BY <1>1, <1>2, <1>14, StopsType DEF SaveRow, IsAt
  <2>2. read[w].bounty \in Bounties
    BY <1>3, <1>14 DEF ReadType, SavingSteps, SaveRow, IsAt
  <2>3. rows' \in [DOMAIN rows' -> Bounties]
    BY <1>14, <2>2, UpsertStays DEF SaveRow, StoresType
  <2>4. StoresType'
    BY <1>14, <2>3 DEF SaveRow, StoresType
  <2> QED BY <2>1, <2>4
<1> QED BY <1>5, <1>6, <1>7, <1>8, <1>9, <1>10, <1>11, <1>12, <1>13, <1>14 DEF Handler

LEMMA StartsTyped ==
  ASSUME ReceiptsType, StoresType, WorkersType, NEW w \in Handlers, StartHandler(w)
  PROVE  StoresType' /\ WorkersType'
<1>1. /\ w \in BountyWorkers /\ at = [u \in BountyWorkers |-> at[u]]
      /\ read = [u \in BountyWorkers |-> read[u]] /\ receipt = [u \in Handlers |-> receipt[u]]
  BY DEF WorkersType, BountyWorkers
<1>2. PICK k \in DOMAIN receipts \ done :
        /\ Starts(w, FirstStep(receipts[k])) /\ receipt' = [receipt EXCEPT ![w] = k]
  BY DEF StartHandler
<1>3. /\ receipts' = receipts /\ bounded' = bounded /\ restarts' \in Nat /\ read' = read /\ done' = done
      /\ StoresType' /\ rested' = 0
  BY <1>2, ZenonT(40) DEF StartHandler, onChain, stored, limits, StoresType, Starts, WorkersType
<1>4. at' = [at EXCEPT ![w] = FirstStep(receipts[k])]
  BY <1>2 DEF Starts
<1>5. OnlyMoves(w)
  BY <1>1, <1>2, <1>3, <1>4 DEF OnlyMoves
<1>6. HandlerType(w)'
  <2>1. k # 1 /\ receipt'[w] = k /\ at'[w] = FirstStep(receipts[k])
    BY <1>1, <1>2, <1>4 DEF WorkersType
  <2>2. receipts[k].kind \in ReceiptKinds
    BY EntryType DEF Entries
  <2>3. StepFits(w)'
    BY <1>3, <2>1, <2>2
       DEF StepFits, FirstStep, Handled, IsRemoval, SavingSteps, ReceiptKinds
  <2>4. ReadType(w)'
    BY <2>1 DEF ReadType, FirstStep, SavingSteps
  <2> QED BY <1>3, <2>1, <2>3, <2>4 DEF HandlerType
<1>7. /\ done' \subseteq DOMAIN receipts' /\ 1 \in done' /\ rested' \in DOMAIN receipts' \cup {0}
  BY <1>3 DEF WorkersType
<1>8. w # "manager" /\ w # "poller"
  BY DEF Handlers
<1> QED BY <1>3, <1>5, <1>6, <1>7, <1>8, SameReceipts, OthersType

LEMMA CrashTyped ==
  ASSUME StoresType, WorkersType, CrashConsumer
  PROVE  StoresType' /\ WorkersType' /\ OnlyMoves("consumer")
<1>1. /\ at = [u \in BountyWorkers |-> at[u]]
      /\ read = [u \in BountyWorkers |-> read[u]] /\ receipt = [u \in Handlers |-> receipt[u]]
      /\ "consumer" \in Handlers /\ "consumer" \in BountyWorkers
  BY DEF WorkersType, BountyWorkers, Handlers
<1>2. /\ receipts' = receipts /\ bounded' = bounded /\ done' = done /\ rested' = rested
      /\ StoresType'
  BY Zenon DEF CrashConsumer, onChain, stored, StoresType
<1>6. restarts' \in Nat
  BY DEF CrashConsumer, WorkersType
<1>3. OnlyMoves("consumer") /\ at'["consumer"] = "off"
  BY <1>1 DEF OnlyMoves, CrashConsumer
<1>4. HandlerType("consumer")'
  BY <1>3 DEF HandlerType
<1>5. /\ done' \subseteq DOMAIN receipts' /\ 1 \in done' /\ rested' \in DOMAIN receipts' \cup {0}
  BY <1>2 DEF WorkersType
<1> QED BY <1>2, <1>3, <1>4, <1>5, <1>6, SameReceipts, OthersType

LEMMA ManagerTyped ==
  ASSUME StoresType, WorkersType, QueryItems \/ PutItems \/ UpdateContexts
  PROVE  StoresType' /\ WorkersType' /\ OnlyMoves("manager")
<1>1. /\ at = [u \in BountyWorkers |-> at[u]]
      /\ read = [u \in BountyWorkers |-> read[u]] /\ receipt = [u \in Handlers |-> receipt[u]]
      /\ "manager" \notin Handlers /\ "manager" \in BountyWorkers
  BY DEF WorkersType, BountyWorkers, Handlers
<1>2. receipts' = receipts /\ bounded' = bounded /\ restarts' \in Nat
  BY Zenon DEF QueryItems, PutItems, UpdateContexts, onChain, limits, WorkersType
<1>3. CASE QueryItems
  <2>1. PICK p \in DOMAIN contexts, flag \in BOOLEAN :
          read' = [read EXCEPT !["manager"] =
            [proposal |-> p, archived |-> flag,
             items |-> IF HasItem(p) /\ ItemOf(p).bounty # NoBounty
                       THEN [q \in {mapping[p]} |-> items[q]] ELSE <<>>]]
    BY <1>3 DEF QueryItems
  <2>2. read'["manager"].items = IF HasItem(p) /\ ItemOf(p).bounty # NoBounty
                                 THEN [q \in {mapping[p]} |-> items[q]] ELSE <<>>
    BY <1>1, <2>1
  <2>3. ManagerType'
    <3>1. read'["manager"].archived \in BOOLEAN
      BY <1>1, <2>1
    <3> QED BY <2>2, <3>1 DEF ManagerType, StoresType, HasItem
  <2>4. /\ UNCHANGED <<receipt, done>> /\ rested' = 0 /\ StoresType'
        /\ at' = [at EXCEPT !["manager"] = "putItems"]
    BY <1>3, Zenon DEF QueryItems, Starts, stored, StoresType
  <2>5. OnlyMoves("manager")
    BY <1>1, <2>1, <2>4 DEF OnlyMoves
  <2>6. /\ done' \subseteq DOMAIN receipts' /\ 1 \in done'
        /\ rested' \in DOMAIN receipts' \cup {0}
    BY <1>2, <2>4 DEF WorkersType
  <2> QED BY <1>1, <1>2, <2>3, <2>4, <2>5, <2>6, SameReceipts, OthersType
<1>4. CASE PutItems
  <2>1. /\ at' = [at EXCEPT !["manager"] = "updateRows"] /\ at["manager"] = "putItems"
        /\ read' = read /\ UNCHANGED <<receipt, done>>
    BY <1>4 DEF PutItems, Goes, IsAt
  <2>2. ManagerType'
    BY <1>1, <2>1 DEF ManagerType, WorkersType
  <2>3. WorkersType' /\ OnlyMoves("manager")
    BY <1>1, <1>2, <1>4, <2>1, <2>2, GoesType DEF PutItems
  <2> DEFINE its == read["manager"].items
             put == [p \in DOMAIN its |-> [its[p] EXCEPT !.archived = read["manager"].archived]]
  <2>4. its \in [DOMAIN its -> BountyItems]
    BY <2>1 DEF WorkersType, ManagerType
  <2>5. put \in [DOMAIN put -> BountyItems]
    <3>1. \A i \in BountyItems : [i EXCEPT !.archived = read["manager"].archived] \in BountyItems
      <4>1. read["manager"].archived \in BOOLEAN
        BY <2>1 DEF WorkersType, ManagerType
      <4> QED BY <4>1 DEF BountyItems
    <3> QED BY <2>4, <3>1
  <2>6. items' = Over(items, put)
    BY <1>4 DEF PutItems
  <2> HIDE DEF put
  <2>7. items' \in [DOMAIN items' -> BountyItems]
    BY <2>5, <2>6, OverStays DEF StoresType
  <2>8. StoresType'
    BY <1>4, <2>7 DEF PutItems, StoresType
  <2> QED BY <2>3, <2>8
<1>5. CASE UpdateContexts
  <2>1. WorkersType' /\ OnlyMoves("manager")
    BY <1>1, <1>2, <1>5, StopsType DEF UpdateContexts, IsAt
  <2>2. StoresType'
    BY <1>5 DEF UpdateContexts, StoresType
  <2> QED BY <2>1, <2>2
<1> QED BY <1>3, <1>4, <1>5

LEMMA PollerTyped ==
  ASSUME ReceiptsType, StoresType, WorkersType, LoadBounties \/ SaveBounties
  PROVE  StoresType' /\ WorkersType' /\ OnlyMoves("poller")
<1>1. /\ at = [u \in BountyWorkers |-> at[u]]
      /\ read = [u \in BountyWorkers |-> read[u]] /\ receipt = [u \in Handlers |-> receipt[u]]
      /\ "poller" \notin Handlers /\ "poller" \in BountyWorkers
  BY DEF WorkersType, BountyWorkers, Handlers
<1>2. receipts' = receipts /\ bounded' = bounded /\ restarts' \in Nat
  BY Zenon DEF LoadBounties, SaveBounties, onChain, limits, WorkersType
<1>3. CASE LoadBounties
  <2>1. /\ read' = [read EXCEPT !["poller"] = [state |-> ChainNow, rows |-> rows]]
        /\ at' = [at EXCEPT !["poller"] = "saveBounties"]
        /\ UNCHANGED <<receipt, done>> /\ rested' = 0 /\ StoresType'
    BY <1>3, Zenon DEF LoadBounties, Starts, stored, StoresType
  <2>2. read'["poller"].state = ChainNow /\ read'["poller"].rows = rows
    BY <1>1, <2>1
  <2>3. ChainNow \in ContractStates /\ ContractKept(ChainNow)
    BY EntryType DEF ChainNow, ReceiptsType
  <2>4. PollerType'
    BY <2>2, <2>3 DEF PollerType, StoresType
  <2>5. OnlyMoves("poller")
    BY <1>1, <2>1 DEF OnlyMoves
  <2>6. /\ done' \subseteq DOMAIN receipts' /\ 1 \in done'
        /\ rested' \in DOMAIN receipts' \cup {0}
    BY <1>2, <2>1 DEF WorkersType
  <2> QED BY <1>1, <1>2, <2>1, <2>4, <2>5, <2>6, SameReceipts, OthersType
<1>4. CASE SaveBounties
  <2>1. WorkersType' /\ OnlyMoves("poller")
    BY <1>1, <1>2, <1>4, StopsType DEF SaveBounties, IsAt
  <2> DEFINE s == read["poller"].state
             old == read["poller"].rows
             ProposalOf(b) == IF b \in DOMAIN rows THEN rows[b].proposal ELSE Nothing
             new == [b \in DOMAIN s.bounties |->
                       [Aggregated(old, s, b) EXCEPT !.proposal = ProposalOf(b)]]
  <2>2. s \in ContractStates /\ ContractKept(s) /\ old \in [DOMAIN old -> Bounties]
    BY <1>4 DEF SaveBounties, IsAt, WorkersType, PollerType
  <2>3. ASSUME NEW b \in DOMAIN s.bounties
        PROVE  [Aggregated(old, s, b) EXCEPT !.proposal = ProposalOf(b)] \in Bounties
    <3> DEFINE known == IF b \in DOMAIN old THEN old[b] ELSE NoBounty
               cs == Merged(known.claims, {c \in s.claims : c.bounty = b})
    <3>1. known \in Bounties
      BY <2>2 DEF NoBounty, Bounty, Bounties
    <3>2. known.claims \in SUBSET Claims /\ known.proposal \in Nat \cup {Nothing}
      <4> HIDE DEF known
      <4> QED BY <3>1 DEF Bounties
    <3>3. Aggregated(old, s, b) =
            Bounty(known.proposal, s.bounties[b].times, cs, NumberOfClaims(s, b))
      BY Zenon DEF Aggregated
    <3>4. s.bounties \in Seq([proposal : Nat, times : Int]) /\ s.claims \in SUBSET Claims
      BY <2>2 DEF ContractStates
    <3>5. s.bounties[b].times \in Int
      <4> DEFINE Added == [proposal : Nat, times : Int]
      <4>1. s.bounties[b] \in Added
        <5> HIDE DEF Added, s
        <5>1. s.bounties \in Seq(Added)
          BY <3>4 DEF Added
        <5> QED BY <5>1
      <4> QED BY <4>1
    <3> HIDE DEF known
    <3>6. cs \in SUBSET Claims
      BY <3>2, <3>4 DEF Merged
    <3>7. NumberOfClaims(s, b) \in Nat
      BY <2>2, CountType
    <3> HIDE DEF cs, s, old
    <3>8. Aggregated(old, s, b) \in Bounties
      BY <3>2, <3>3, <3>5, <3>6, <3>7, BountyType
    <3>9. ProposalOf(b) \in Nat \cup {Nothing}
      BY DEF StoresType, Bounties
    <3> HIDE DEF ProposalOf
    <3> QED BY <3>8, <3>9 DEF Bounties
  <2>4. new \in [DOMAIN new -> Bounties]
    <3> HIDE DEF ProposalOf, old, s
    <3> QED BY <2>3
  <2>5. rows' = Over(rows, new)
    BY <1>4, Zenon DEF SaveBounties
  <2> HIDE DEF new
  <2>6. rows' \in [DOMAIN rows' -> Bounties]
    BY <2>4, <2>5, OverStays DEF StoresType
  <2>7. StoresType'
    BY <1>4, <2>6 DEF SaveBounties, StoresType
  <2> QED BY <2>1, <2>7
<1> QED BY <1>3, <1>4

-----------------------------------------------------------------------------
\* What StoresAgreeOnBounty says of one receipt.
AgreedFor(k) ==
  receipts[k].kind \in {"approve", "claim", "giveup"} /\ ~IsAddition(receipts[k]) =>
    LET b == Subject(receipts[k])
    IN  b # 0 /\ IsStored(b) =>
          b \in DOMAIN rows /\ HasItem(b) /\ ItemOf(b).bounty = rows[b]

LEMMA LoneStops ==
  ASSUME LoneKept, WorkersType, NEW w \in BountyWorkers, NEW ok \in BOOLEAN, Stops(w, ok),
         at[w] # "off", NEW k, k = receipt[w],
         w \in Handlers /\ ok /\ lone = w => AgreedFor(k)'
  PROVE  LoneKept'
<1>1. \A u \in BountyWorkers \ {w} : lone # u
  BY DEF LoneKept
<1>2. \A u \in BountyWorkers : lone' # u
  BY <1>1, BountyAssumption DEF Stops
<1>3. rested = 0
  BY DEF LoneKept
<1>4. rested' # 0 => w \in Handlers /\ ok /\ lone = w /\ rested' = receipt[w]
  BY <1>3 DEF Stops
<1>5. rested' # 0 => \A u \in BountyWorkers : at'[u] = "off"
  BY <1>4 DEF LoneKept, Stops, WorkersType
<1>6. StoresAgreeOnBounty'
  <2>1. CASE rested' = 0
    BY <2>1 DEF StoresAgreeOnBounty
  <2>2. CASE rested' # 0
    <3>1. AgreedFor(k)' /\ rested' = k
      BY <1>4, <2>2
    <3> QED BY <3>1 DEF StoresAgreeOnBounty, AgreedFor
  <2> QED BY <2>1, <2>2
<1> QED BY <1>2, <1>5, <1>6 DEF LoneKept, Handlers, BountyWorkers

LEMMA LoneGoes ==
  ASSUME LoneKept, WorkersType, NEW w \in BountyWorkers, NEW label, Goes(w, label),
         at[w] # "off", label # "off",
         lone = w /\ w \in Handlers => SavedAlone(w)'
  PROVE  LoneKept'
<1>1. \A u \in BountyWorkers \ {w} : lone # u
  BY DEF LoneKept
<1>2. rested' = 0 /\ lone' = lone
  BY DEF LoneKept, Goes
<1>3. \A u \in BountyWorkers : lone' = u =>
        at'[u] # "off" /\ \A v \in BountyWorkers \ {u} : at'[v] = "off"
  BY <1>1, <1>2 DEF LoneKept, Goes, WorkersType
<1>4. \A u \in Handlers : lone' = u => SavedAlone(u)'
  <2> SUFFICES ASSUME NEW u \in Handlers, lone' = u
               PROVE  SavedAlone(u)'
    OBVIOUS
  <2>1. u = w
    BY <1>1, <1>2 DEF Handlers, BountyWorkers
  <2> QED BY <1>2, <2>1
<1>5. StoresAgreeOnBounty'
  BY <1>2 DEF StoresAgreeOnBounty
<1> QED BY <1>2, <1>3, <1>4, <1>5 DEF LoneKept

LEMMA LoneStarts ==
  ASSUME LoneKept, WorkersType, NEW w \in BountyWorkers, NEW label, Starts(w, label),
         label \notin {"off", "saveMapping", "saveRow"}
  PROVE  LoneKept'
<1>1. rested' = 0 /\ at' = [at EXCEPT ![w] = label]
  BY DEF Starts
<1>2. \A u \in BountyWorkers : lone' = u => u = w /\ \A v \in BountyWorkers : at[v] = "off"
  BY BountyAssumption DEF Starts
<1>3. at'[w] = label /\ \A v \in BountyWorkers \ {w} : at'[v] = at[v]
  BY <1>1 DEF WorkersType
<1>4. StoresAgreeOnBounty'
  BY <1>1 DEF StoresAgreeOnBounty
<1>5. \A u \in Handlers : lone' = u => SavedAlone(u)'
  <2> SUFFICES ASSUME NEW u \in Handlers, lone' = u
               PROVE  SavedAlone(u)'
    OBVIOUS
  <2>1. at'[u] = label
    BY <1>2, <1>3 DEF Handlers, BountyWorkers
  <2> QED BY <2>1 DEF SavedAlone
<1> QED BY <1>1, <1>2, <1>3, <1>4, <1>5 DEF LoneKept

\* What a handler saves in the item and in the mapping.
LEMMA SavedItem ==
  ASSUME WorkersType, NEW w \in Handlers, SaveItem(w)
  PROVE  SavedAlone(w)'
<1>1. /\ read' = read /\ at'[w] = "saveMapping"
  BY DEF SaveItem, Goes, WorkersType, BountyWorkers
<1> DEFINE p == read[w].bounty.proposal
           i == [bounty |-> read[w].bounty, archived |-> FALSE,
                 done |-> IF read[w].listed # Nothing THEN read[w].listed ELSE DoneOf(p)]
<1>2. items' = Upsert(items, p, i)
  BY Zenon DEF SaveItem, WithBounty
<1>3. p \in DOMAIN items' /\ items'[p] = i
  BY <1>2 DEF Upsert
<1>4. i.bounty = read[w].bounty
  OBVIOUS
<1> HIDE DEF i
<1> QED BY <1>1, <1>3, <1>4 DEF SavedAlone

LEMMA SavedMapping ==
  ASSUME WorkersType, NEW w \in Handlers, SaveMapping(w), SavedAlone(w), receipts' = receipts
  PROVE  SavedAlone(w)'
<1>1. UNCHANGED <<read, receipt, items>> /\ at[w] = "saveMapping" /\ at'[w] = "saveRow"
  BY DEF SaveMapping, Goes, IsAt, WorkersType, BountyWorkers
<1> DEFINE b == Subject(Handled(w))
           p == read[w].bounty.proposal
<1>2. mapping' = Upsert(mapping, b, p)
  BY DEF SaveMapping
<1>3. b \in DOMAIN mapping' /\ mapping'[b] = p /\ b = b'
  BY <1>1, <1>2 DEF Upsert, Handled
<1>4. p \in DOMAIN items /\ items[p].bounty = read[w].bounty
  BY <1>1 DEF SavedAlone
<1> QED BY <1>1, <1>3, <1>4 DEF SavedAlone

LEMMA LoneHandler ==
  ASSUME ReceiptsType, StoresType, WorkersType, LoneKept, NEW w \in Handlers, Handler(w)
  PROVE  LoneKept'
<1>1. /\ w \in BountyWorkers /\ HandlerType(w)
      /\ at = [u \in BountyWorkers |-> at[u]] /\ read = [u \in BountyWorkers |-> read[u]]
      /\ receipt = [u \in Handlers |-> receipt[u]]
  BY DEF WorkersType, BountyWorkers
<1>2. receipts' = receipts /\ bounded' = bounded
  BY Zenon DEF Handler, SaveContextItem, SaveContextRow, ArchiveItem, RemoveContextRow,
     FindDone, SaveDone, FindBounty, SaveItem, SaveMapping, SaveRow, limits, onChain
<1>3. at[w] # "off" => StepFits(w)
  BY <1>1 DEF HandlerType
<1>4. PICK k : k = receipt[w]
  OBVIOUS
<1>5. at[w] # "off" => k \in DOMAIN receipts /\ Handled(w) = receipts[k]
  BY <1>1, <1>4 DEF HandlerType, Handled
\* A receipt of another kind.
<1>6. ASSUME receipts[k].kind \notin {"approve", "claim", "giveup"}
      PROVE  AgreedFor(k)'
  BY <1>2, <1>6 DEF AgreedFor
<1>7. CASE SaveContextItem(w) \/ ArchiveItem(w)
  <2>1. PICK label \in {"contextRow", "removeRow"} : Goes(w, label)
    BY <1>7 DEF SaveContextItem, ArchiveItem
  <2>2. at[w] # "off" /\ at'[w] = label
    BY <1>1, <1>7, <2>1 DEF SaveContextItem, ArchiveItem, IsAt, Goes
  <2>3. SavedAlone(w)'
    BY <2>1, <2>2 DEF SavedAlone
  <2> QED BY <1>1, <2>1, <2>2, <2>3, LoneGoes
<1>8. CASE SaveContextRow(w) \/ RemoveContextRow(w) \/ SaveDone(w)
  <2>1. /\ Stops(w, TRUE) /\ at[w] \in {"contextRow", "removeRow", "saveDone"}
    BY <1>8 DEF SaveContextRow, RemoveContextRow, SaveDone, IsAt
  <2>2. receipts[k].kind \in {"addBounty", "remove", "addDone"}
    BY <1>3, <1>5, <2>1 DEF StepFits, IsRemoval
  <2> QED BY <1>1, <1>4, <1>6, <2>1, <2>2, LoneStops
<1>9. CASE FindDone(w)
  <2>1. at[w] = "findDone" /\ receipts[k].kind = "addDone"
    BY <1>3, <1>5, <1>9 DEF FindDone, IsAt, StepFits
  <2>2. CASE Stops(w, FALSE) \/ Stops(w, TRUE)
    BY <1>1, <1>4, <1>6, <2>1, <2>2, LoneStops
  <2>3. CASE Goes(w, "saveDone")
    <3>1. at'[w] = "saveDone"
      BY <1>1, <2>3 DEF Goes
    <3>2. SavedAlone(w)'
      BY <3>1 DEF SavedAlone
    <3> QED BY <1>1, <2>1, <2>3, <3>2, LoneGoes
  <2> QED BY <1>9, <2>2, <2>3 DEF FindDone
<1>10. CASE FindBounty(w)
  <2>1. at[w] = "find" /\ Handled(w) = receipts[k]
    BY <1>5, <1>10 DEF FindBounty, IsAt
  <2>2. CASE Stops(w, FALSE)
    BY <1>1, <1>4, <2>1, <2>2, LoneStops
  <2>3. ASSUME Stops(w, TRUE),
               Subject(receipts[k]) = 0
               \/ (IsStored(Subject(receipts[k])) <=> IsAddition(receipts[k]))
        PROVE  LoneKept'
    <3>1. /\ UNCHANGED <<rows, items, mapping>>
      BY <1>10 DEF FindBounty, stored
    <3>2. AgreedFor(k)'
      BY <1>2, <2>3, <3>1 DEF AgreedFor, IsStored, HasItem
    <3> QED BY <1>1, <1>4, <2>1, <2>3, <3>2, LoneStops
  <2>4. CASE Goes(w, "saveItem")
    <3>1. at'[w] = "saveItem"
      BY <1>1, <2>4 DEF Goes
    <3>2. SavedAlone(w)'
      BY <3>1 DEF SavedAlone
    <3> QED BY <1>1, <2>1, <2>4, <3>2, LoneGoes
  <2> QED BY <1>10, <2>1, <2>2, <2>3, <2>4 DEF FindBounty
<1>11. CASE SaveItem(w)
  <2>1. Goes(w, "saveMapping") /\ at[w] = "saveItem"
    BY <1>11 DEF SaveItem, IsAt
  <2> QED BY <1>1, <1>11, <2>1, SavedItem, LoneGoes
<1>12. CASE SaveMapping(w)
  <2>1. Goes(w, "saveRow") /\ at[w] = "saveMapping"
    BY <1>12 DEF SaveMapping, IsAt
  <2>2. lone = w => SavedAlone(w)'
    BY <1>2, <1>12, SavedMapping DEF LoneKept
  <2> QED BY <1>1, <2>1, <2>2, LoneGoes
<1>13. CASE SaveRow(w)
  <2>1. Stops(w, TRUE) /\ at[w] = "saveRow" /\ UNCHANGED <<items, mapping>>
    BY <1>13 DEF SaveRow, IsAt
  <2> DEFINE b == Subject(receipts[k])
             bounty == read[w].bounty
  <2>2. rows' = Upsert(rows, b, bounty)
    BY <1>5, <1>13, <2>1 DEF SaveRow
  <2>3. b \in DOMAIN rows' /\ rows'[b] = bounty
    BY <2>2 DEF Upsert
  <2>4. lone = w => /\ bounty.proposal \in DOMAIN items /\ items[bounty.proposal].bounty = bounty
                    /\ b \in DOMAIN mapping /\ mapping[b] = bounty.proposal
    BY <1>5, <2>1 DEF LoneKept, SavedAlone
  <2>5. lone = w => AgreedFor(k)'
    BY <1>2, <2>1, <2>3, <2>4 DEF AgreedFor, HasItem, ItemOf
  <2> QED BY <1>1, <1>4, <2>1, <2>5, LoneStops
<1> QED BY <1>7, <1>8, <1>9, <1>10, <1>11, <1>12, <1>13 DEF Handler

LEMMA LoneNext ==
  ASSUME ReceiptsType, StoresType, WorkersType, OnePerBlock, LoneKept, BountyNext
  PROVE  LoneKept'
<1>1. CASE CloseBlock
  <2>1. Extends(receipts, receipts') /\ bounded' = bounded
    BY <1>1, BlockCloses DEF WorkersType, CloseBlock, limits
  <2>2. UNCHANGED <<rows, contexts, items, mapping, at, receipt, read, done, failed, lone, rested>>
    BY <1>1, Zenon DEF CloseBlock, stored, working
  <2>3. ASSUME NEW w \in Handlers, lone = w
        PROVE  SavedAlone(w)'
    <3>1. at[w] # "off" /\ SavedAlone(w)
      BY <2>3 DEF LoneKept, Handlers, BountyWorkers
    <3>2. Handled(w)' = Handled(w)
      BY <2>1, <2>2, <3>1 DEF WorkersType, HandlerType, Extends, Handled
    <3> QED BY <2>2, <3>1, <3>2 DEF SavedAlone
  <2>4. StoresAgreeOnBounty'
    <3>1. CASE rested = 0
      BY <2>2, <3>1 DEF StoresAgreeOnBounty
    <3>2. CASE rested # 0
      <4>1. receipts'[rested'] = receipts[rested]
        BY <2>1, <2>2, <3>2 DEF WorkersType, Extends
      <4> QED BY <2>1, <2>2, <4>1 DEF LoneKept, StoresAgreeOnBounty, IsStored, HasItem, ItemOf
    <3> QED BY <3>1, <3>2
  <2> QED BY <2>2, <2>3, <2>4 DEF LoneKept
<1>2. ASSUME NEW w \in Handlers, StartHandler(w)
      PROVE  LoneKept'
  <2>1. PICK k \in DOMAIN receipts : Starts(w, FirstStep(receipts[k]))
    BY <1>2 DEF StartHandler
  <2>2. FirstStep(receipts[k]) \notin {"off", "saveMapping", "saveRow"}
    BY DEF FirstStep
  <2> QED BY <2>1, <2>2, LoneStarts DEF Handlers, BountyWorkers
<1>3. ASSUME NEW w \in Handlers, Handler(w)
      PROVE  LoneKept'
  BY <1>3, LoneHandler
<1>4. CASE CrashConsumer
  <2>1. rested = 0 /\ rested' = rested
    BY <1>4 DEF CrashConsumer, LoneKept, BountyWorkers, Handlers
  <2>2. \A u \in BountyWorkers : lone' # u
    BY <1>4, BountyAssumption DEF CrashConsumer, LoneKept, BountyWorkers, Handlers
  <2>3. StoresAgreeOnBounty'
    BY <2>1 DEF StoresAgreeOnBounty
  <2> QED BY <2>1, <2>2, <2>3 DEF LoneKept, BountyWorkers
<1>5. CASE QueryItems \/ LoadBounties
  <2>1. PICK w \in {"manager", "poller"}, label \in {"putItems", "saveBounties"} : Starts(w, label)
    BY <1>5 DEF QueryItems, LoadBounties
  <2> QED BY <2>1, LoneStarts DEF BountyWorkers
<1>6. CASE PutItems
  <2>1. Goes("manager", "updateRows") /\ at["manager"] = "putItems"
    BY <1>6 DEF PutItems, IsAt
  <2> QED BY <2>1, LoneGoes DEF BountyWorkers, Handlers
<1>7. CASE UpdateContexts \/ SaveBounties
  <2>1. PICK w \in {"manager", "poller"} : Stops(w, TRUE) /\ at[w] # "off"
    BY <1>7 DEF UpdateContexts, SaveBounties, IsAt
  <2>2. w \in BountyWorkers /\ w \notin Handlers
    BY DEF BountyWorkers, Handlers
  <2>3. PICK k : k = receipt[w]
    OBVIOUS
  <2> QED BY <2>1, <2>2, <2>3, LoneStops
<1> QED BY <1>1, <1>2, <1>3, <1>4, <1>5, <1>6, <1>7 DEF BountyNext

-----------------------------------------------------------------------------
\* Claims by the receipt that makes them.
MadeBy(b, i) == Claim(b, receipts[i].by, i)

LEMMA ShownBy ==
  ASSUME ReceiptsType, OnePerBlock, bounded.perBlock = 1, NEW m \in DOMAIN receipts, NEW b
  PROVE  \A c : c \in Shown(b, m) <=>
           \E i \in 1 .. m : Makes(i, b) /\ c = MadeBy(b, i) /\ \A k \in 1 .. m : ~GivesUp(k, i)
<1> DEFINE of == {k \in 1 .. m : receipts[k].bounty = b}
           made == {Claim(b, receipts[k].by, receipts[k].block) :
                      k \in {k \in of : receipts[k].kind = "claim"}}
           Given(c) == \E k \in of :
                  /\ receipts[k].kind = "giveup" /\ receipts[k].by = c.by
                  /\ receipts[k].block > c.start
                  /\ \A d \in made : d.by = c.by /\ d.start < receipts[k].block
                                       => d.start <= c.start
<1>1. m \in Nat \ {0} /\ \A k \in 1 .. m : k \in DOMAIN receipts /\ receipts[k].block = k
  BY EntryType DEF OnePerBlock
<1>2. \A c : c \in made <=> \E i \in 1 .. m : Makes(i, b) /\ c = MadeBy(b, i)
  BY <1>1 DEF Makes, MadeBy
<1>3. \A i : MadeBy(b, i).by = receipts[i].by /\ MadeBy(b, i).start = i
  BY DEF MadeBy, Claim
<1> HIDE DEF made
<1>4. ASSUME NEW i \in 1 .. m, Makes(i, b)
      PROVE  Given(MadeBy(b, i)) <=> \E k \in 1 .. m : GivesUp(k, i)
  <2>1. ASSUME NEW k \in of, receipts[k].kind = "giveup", receipts[k].by = receipts[i].by,
               receipts[k].block > i,
               \A d \in made : d.by = receipts[i].by /\ d.start < receipts[k].block => d.start <= i
        PROVE  GivesUp(k, i)
    <3>1. k \in 1 .. m /\ receipts[k].block = k /\ receipts[k].bounty = receipts[i].bounty
      BY <1>1, <1>4 DEF Makes
    <3>2. ASSUME NEW j \in i + 1 .. k - 1, Makes(j, receipts[i].bounty),
                 receipts[j].by = receipts[i].by
          PROVE  FALSE
      <4>1. j \in 1 .. m /\ Makes(j, b) /\ i \in Nat /\ k \in Nat
        BY <1>1, <1>4, <3>1, <3>2 DEF Makes
      <4>2. MadeBy(b, j) \in made
        BY <1>2, <4>1
      <4> QED BY <1>3, <2>1, <3>1, <3>2, <4>1, <4>2
    <3> QED BY <1>1, <2>1, <3>1, <3>2 DEF GivesUp
  <2>2. ASSUME NEW k \in 1 .. m, GivesUp(k, i)
        PROVE  Given(MadeBy(b, i))
    <3>1. /\ k \in of /\ receipts[k].kind = "giveup" /\ receipts[k].by = receipts[i].by
          /\ receipts[k].block = k /\ k > i /\ receipts[i].bounty = b
      BY <1>1, <1>4, <2>2 DEF GivesUp, Makes
    <3>2. ASSUME NEW d \in made, d.by = receipts[i].by, d.start < k
          PROVE  d.start <= i
      <4>1. PICK j \in 1 .. m : Makes(j, b) /\ d = MadeBy(b, j)
        BY <1>2
      <4>2. receipts[j].by = receipts[i].by /\ j < k /\ d.start = j
        BY <1>3, <3>2, <4>1
      <4>3. ~(j \in i + 1 .. k - 1)
        BY <2>2, <3>1, <4>1, <4>2 DEF GivesUp
      <4> QED BY <1>1, <4>1, <4>2, <4>3
    <3> QED BY <1>3, <3>1, <3>2
  <2> QED BY <1>3, <2>1, <2>2
<1>5. Shown(b, m) = made \ {c \in made : Given(c)}
  BY DEF Shown, made
<1> HIDE DEF Given
<1>6. ASSUME NEW c
      PROVE  c \in Shown(b, m) <=>
               \E i \in 1 .. m : Makes(i, b) /\ c = MadeBy(b, i) /\ \A k \in 1 .. m : ~GivesUp(k, i)
  BY <1>2, <1>4, <1>5
<1> QED BY <1>6

\* A receipt that neither makes nor gives up a claim of the bounty.
LEMMA ShownStays ==
  ASSUME ReceiptsType, OnePerBlock, bounded.perBlock = 1, NEW m \in DOMAIN receipts, m > 1,
         NEW b, ~(receipts[m].kind \in {"claim", "giveup"} /\ receipts[m].bounty = b)
  PROVE  Shown(b, m) = Shown(b, m - 1)
<1>1. m \in Nat /\ m - 1 \in DOMAIN receipts /\ 1 .. m = (1 .. m - 1) \cup {m}
  BY EntryType
<1>2. ~Makes(m, b)
  BY DEF Makes
<1>3. \A i \in 1 .. m : Makes(i, b) => ~GivesUp(m, i)
  BY DEF Makes, GivesUp
<1>4. ASSUME NEW c
      PROVE  c \in Shown(b, m) <=> c \in Shown(b, m - 1)
  <2>1. c \in Shown(b, m) <=>
          \E i \in 1 .. m : Makes(i, b) /\ c = MadeBy(b, i) /\ \A k \in 1 .. m : ~GivesUp(k, i)
    BY ShownBy
  <2>2. c \in Shown(b, m - 1) <=>
          \E i \in 1 .. m - 1 :
            Makes(i, b) /\ c = MadeBy(b, i) /\ \A k \in 1 .. m - 1 : ~GivesUp(k, i)
    BY <1>1, ShownBy
  <2> QED BY <1>1, <1>2, <1>3, <2>1, <2>2
<1> QED BY <1>4

LEMMA ShownMore ==
  ASSUME ReceiptsType, OnePerBlock, bounded.perBlock = 1, NEW m \in DOMAIN receipts, m > 1,
         NEW b, Makes(m, b)
  PROVE  Shown(b, m) = Shown(b, m - 1) \cup {MadeBy(b, m)}
<1>1. m \in Nat /\ m - 1 \in DOMAIN receipts /\ 1 .. m = (1 .. m - 1) \cup {m}
  BY EntryType
<1>2. \A i \in 1 .. m : ~GivesUp(m, i)
  BY DEF Makes, GivesUp
<1>3. \A k \in 1 .. m : ~GivesUp(k, m)
  BY <1>1 DEF GivesUp
<1>4. ASSUME NEW c
      PROVE  c \in Shown(b, m) <=> c \in Shown(b, m - 1) \/ c = MadeBy(b, m)
  <2>1. c \in Shown(b, m) <=>
          \E i \in 1 .. m : Makes(i, b) /\ c = MadeBy(b, i) /\ \A k \in 1 .. m : ~GivesUp(k, i)
    BY ShownBy
  <2>2. c \in Shown(b, m - 1) <=>
          \E i \in 1 .. m - 1 :
            Makes(i, b) /\ c = MadeBy(b, i) /\ \A k \in 1 .. m - 1 : ~GivesUp(k, i)
    BY <1>1, ShownBy
  <2> QED BY <1>1, <1>2, <1>3, <2>1, <2>2
<1> QED BY <1>4

\* The claim given up is the open one of the account, which is shown, and is the
\* last of the account that is.
LEMMA ShownLess ==
  ASSUME ReceiptsType, OnePerBlock, bounded.perBlock = 1, NEW m \in DOMAIN receipts, m > 1,
         receipts[m].kind = "giveup"
  PROVE  LET b == receipts[m].bounty
             u == receipts[m].by
         IN  \E c \in Shown(b, m - 1) :
               /\ Shown(b, m) = Shown(b, m - 1) \ {c}
               /\ LastClaims(Shown(b, m - 1), u, m) = {c}
               /\ \A d \in Shown(b, m - 1) : d.start = c.start => d = c
<1> DEFINE b == receipts[m].bounty
           u == receipts[m].by
           s == receipts[m - 1].state
<1>1. m \in Nat /\ m - 1 \in DOMAIN receipts /\ 1 .. m = (1 .. m - 1) \cup {m} /\ m - 1 \in Nat \ {0}
  BY EntryType
<1>2. Follows(s, receipts[m]) /\ OpenKept(m - 1)
  BY <1>1 DEF OnePerBlock
<1>3. PICK c \in s.claims : c.bounty = b /\ c.by = u
  BY <1>2 DEF Follows, IsAddition
<1>4. /\ c.start \in 2 .. m - 1 /\ Makes(c.start, b) /\ receipts[c.start].by = u
      /\ \A j \in c.start + 1 .. m - 1 :
           ~(/\ receipts[j].kind \in {"claim", "giveup"}
             /\ receipts[j].bounty = b /\ receipts[j].by = u)
  BY <1>2, <1>3 DEF OpenKept
<1>5. c = MadeBy(b, c.start)
  <2>1. c \in Claims
    BY <1>1, <1>3, EntryType DEF ContractStates
  <2> QED BY <1>3, <1>4, <2>1 DEF MadeBy, Claim, Claims
<1>6. \A i : MadeBy(b, i).by = receipts[i].by /\ MadeBy(b, i).start = i
  BY DEF MadeBy, Claim
<1>7. \A k \in 1 .. m - 1 : ~GivesUp(k, c.start)
  BY <1>1, <1>4 DEF GivesUp, Makes
<1>8. c.start \in 1 .. m - 1
  BY <1>1, <1>4
<1>9. \A d : d \in Shown(b, m - 1) <=>
          \E i \in 1 .. m - 1 :
            Makes(i, b) /\ d = MadeBy(b, i) /\ \A k \in 1 .. m - 1 : ~GivesUp(k, i)
  BY <1>1, ShownBy
<1>10. c \in Shown(b, m - 1)
  BY <1>4, <1>5, <1>7, <1>8, <1>9
<1>11. ASSUME NEW i \in 1 .. m, Makes(i, b)
       PROVE  GivesUp(m, i) <=> i = c.start
  <2>1. ASSUME GivesUp(m, i)
        PROVE  i = c.start
    <3>1. receipts[i].by = u /\ i < m
      BY <1>1, <2>1 DEF GivesUp
    <3>2. ~(i \in c.start + 1 .. m - 1)
      BY <1>4, <1>11, <3>1 DEF Makes
    <3>3. ~(c.start \in i + 1 .. m - 1)
      BY <1>4, <1>11, <2>1 DEF GivesUp, Makes
    <3> QED BY <1>1, <1>8, <3>1, <3>2, <3>3
  <2>2. GivesUp(m, c.start)
    <3>1. \A j \in c.start + 1 .. m - 1 : ~(Makes(j, b) /\ receipts[j].by = u)
      BY <1>4 DEF Makes
    <3> QED BY <1>1, <1>4, <1>8, <3>1 DEF GivesUp, Makes
  <2> QED BY <2>1, <2>2
<1>12. ~Makes(m, b)
  BY DEF Makes
<1>13. Shown(b, m) = Shown(b, m - 1) \ {c}
  <2> SUFFICES ASSUME NEW d
               PROVE  d \in Shown(b, m) <=> d \in Shown(b, m - 1) /\ d # c
    OBVIOUS
  <2>1. d \in Shown(b, m) <=>
          \E i \in 1 .. m : Makes(i, b) /\ d = MadeBy(b, i) /\ \A k \in 1 .. m : ~GivesUp(k, i)
    BY ShownBy
  <2>2. \A i \in 1 .. m : MadeBy(b, i) = c <=> i = c.start
    BY <1>5, <1>6
  <2> HIDE DEF b, u, s
  <2> QED BY <1>1, <1>9, <1>11, <1>12, <2>1, <2>2
<1>14. \A d \in Shown(b, m - 1) : d.start = c.start => d = c
  BY <1>5, <1>6, <1>9
<1>15. \A d \in Shown(b, m - 1) : d.start \in 1 .. m - 1 /\ (d.by = u => d.start <= c.start)
  <2> SUFFICES ASSUME NEW d \in Shown(b, m - 1)
               PROVE  d.start \in 1 .. m - 1 /\ (d.by = u => d.start <= c.start)
    OBVIOUS
  <2>1. PICK i \in 1 .. m - 1 : Makes(i, b) /\ d = MadeBy(b, i)
    BY <1>9
  <2>2. receipts[i].by = u => ~(i \in c.start + 1 .. m - 1)
    BY <1>4, <2>1 DEF Makes
  <2> QED BY <1>1, <1>6, <1>8, <2>1, <2>2
<1>16. LastClaims(Shown(b, m - 1), u, m) = {c}
  <2> HIDE DEF b, u, s
  <2>1. c.by = u /\ c.start < m /\ c.start \in Nat
    BY <1>1, <1>3, <1>8
  <2>2. \A d \in Shown(b, m - 1) : d.start \in Nat /\ (d.by = u => d.start <= c.start)
    BY <1>1, <1>15
  <2> QED BY <1>10, <1>14, <2>1, <2>2 DEF LastClaims
<1> QED BY <1>10, <1>13, <1>14, <1>16

-----------------------------------------------------------------------------
\* What one more receipt leaves to be done.
LEMMA OpenShown ==
  ASSUME ReceiptsType, OnePerBlock, bounded.perBlock = 1, NEW k \in DOMAIN receipts,
         NEW c \in receipts[k].state.claims
  PROVE  c \in Shown(c.bounty, k)
<1>1. /\ c.start \in 2 .. k /\ Makes(c.start, c.bounty) /\ receipts[c.start].by = c.by
      /\ \A j \in c.start + 1 .. k :
           ~(/\ receipts[j].kind \in {"claim", "giveup"}
             /\ receipts[j].bounty = c.bounty /\ receipts[j].by = c.by)
  BY DEF OnePerBlock, OpenKept
<1>2. k \in Nat /\ c \in Claims
  BY EntryType DEF ContractStates
<1>3. c = MadeBy(c.bounty, c.start)
  BY <1>1, <1>2 DEF MadeBy, Claim, Claims
<1>4. \A i \in 1 .. k : ~GivesUp(i, c.start)
  BY <1>1, <1>2 DEF GivesUp, Makes
<1>5. c.start \in 1 .. k
  BY <1>1, <1>2
<1> QED BY <1>1, <1>3, <1>4, <1>5, ShownBy

LEMMA ShownStarts ==
  ASSUME ReceiptsType, OnePerBlock, bounded.perBlock = 1, NEW m \in DOMAIN receipts, NEW b,
         NEW c \in Shown(b, m)
  PROVE  c.start \in 1 .. m
<1>1. PICK i \in 1 .. m : c = MadeBy(b, i)
  BY ShownBy
<1> QED BY <1>1 DEF MadeBy, Claim

LEMMA AdditionSubject ==
  ASSUME ReceiptsType, OnePerBlock, bounded.perBlock = 1, NEW m \in DOMAIN receipts, m > 1,
         IsAddition(receipts[m])
  PROVE  LET b == Subject(receipts[m])
             s == receipts[m - 1].state.bounties
             t == receipts[m].state.bounties
         IN  /\ b # 0 /\ b \notin DOMAIN s /\ DOMAIN t = DOMAIN s \cup {b}
             /\ \A d \in DOMAIN s : t[d] = s[d]
             /\ t[b] = [proposal |-> receipts[m].proposal, times |-> Times]
             /\ Shown(b, m) = {}
<1> DEFINE s == receipts[m - 1].state.bounties
           t == receipts[m].state.bounties
           new == [proposal |-> receipts[m].proposal, times |-> Times]
           Added == [proposal : Nat, times : Int]
<1>1. m \in Nat /\ m - 1 \in DOMAIN receipts /\ receipts[m] \in Entries
  BY EntryType
<1>2. s \in Seq(Added)
  BY <1>1, EntryType DEF ContractStates
<1>3. t = Append(s, new)
  <2>1. Follows(receipts[m - 1].state, receipts[m])
    BY DEF OnePerBlock
  <2>2. receipts[m].kind = "approve"
    BY DEF IsAddition
  <2> QED BY <2>1, <2>2 DEF Follows
<1>4. new \in Added /\ new.times = Times
  BY <1>1, BountyAssumption DEF Entries
<1>5. PICK n \in Nat : n = Len(s)
  BY <1>2
<1> HIDE DEF Added, new
<1>6. /\ DOMAIN s = 1 .. n /\ DOMAIN t = 1 .. n + 1 /\ t[n + 1] = new
      /\ \A d \in 1 .. n : t[d] = s[d]
  BY <1>2, <1>3, <1>4, <1>5
<1>7. Subject(receipts[m]) = n + 1
  <2> DEFINE same == {b \in DOMAIN t : t[b].times = Times}
             last == CHOOSE b \in same : \A c \in same : c <= b
  <2>1. n + 1 \in same /\ same \subseteq 1 .. n + 1
    BY <1>4, <1>6
  <2>2. \A c \in same : c <= n + 1
    BY <2>1
  <2> HIDE DEF same, s, t
  <2>3. last \in same /\ \A c \in same : c <= last
    BY <2>1, <2>2
  <2>4. last = n + 1
    <3> HIDE DEF last
    <3>1. last \in 1 .. n + 1 /\ n + 1 <= last
      BY <2>1, <2>3
    <3> QED BY <3>1
  <2>5. LastBounty(receipts[m].state) = IF same = {} THEN 0 ELSE last
    BY DEF LastBounty, same, t
  <2> QED BY <2>1, <2>4, <2>5 DEF Subject
<1>8. Shown(n + 1, m) = {}
  <2>1. \A i \in 1 .. m - 1 : receipts[i].bounty \in DOMAIN s \cup {0}
    BY <1>1 DEF OnePerBlock
  <2>2. \A i \in 1 .. m - 1 : receipts[i].bounty # n + 1
    BY <1>6, <2>1
  <2>3. \A i \in 1 .. m : ~Makes(i, n + 1)
    BY <1>1, <2>2 DEF Makes, IsAddition
  <2> QED BY <2>3, ShownBy
<1> HIDE DEF s, t
<1> QED BY <1>6, <1>7, <1>8 DEF s, t, new

\* A bounty that the receipt is not about stays as it is stored.
LEMMA KeptOn ==
  ASSUME NEW m, NEW b, BountyKept(b, m - 1), Shown(b, m) = Shown(b, m - 1),
         receipts[m].state.bounties[b] = receipts[m - 1].state.bounties[b]
  PROVE  BountyKept(b, m)
BY DEF BountyKept, RightBounty

LEMMA QuietKept ==
  ASSUME ReceiptsType, OnePerBlock, bounded.perBlock = 1, NEW m \in DOMAIN receipts, m > 1,
         receipts[m].kind \in {"addBounty", "addDone", "remove"}, AllKept(m - 1, {})
  PROVE  AllKept(m, {})
<1>1. receipts[m].state.bounties = receipts[m - 1].state.bounties
  BY DEF OnePerBlock, Follows, IsAddition
<1>2. ASSUME NEW b
      PROVE  Shown(b, m) = Shown(b, m - 1)
  BY ShownStays
<1>3. \A b \in DOMAIN receipts[m].state.bounties : BountyKept(b, m)
  BY <1>1, <1>2, KeptOn DEF AllKept
<1> QED BY <1>1, <1>3 DEF AllKept

\* What the handler saves of its bounty is right, and the others are kept.
LEMMA SavesRight ==
  ASSUME ReceiptsType, OnePerBlock, bounded.perBlock = 1, NEW m \in DOMAIN receipts, m > 1,
         receipts[m].kind \in {"approve", "remove", "claim", "giveup"},
         AllKept(m - 1, {}), Subject(receipts[m]) # 0,
         IsStored(Subject(receipts[m])) <=> ~IsAddition(receipts[m])
  PROVE  LET b == Subject(receipts[m])
         IN  /\ b \in DOMAIN receipts[m].state.bounties /\ AllKept(m, {b})
             /\ RightBounty(SavesOf(receipts[m]).bounty, b, m)
<1> DEFINE r == receipts[m]
           b == Subject(r)
           s == receipts[m - 1].state
           t == r.state
<1>1. /\ m \in Nat /\ m - 1 \in DOMAIN receipts /\ r \in Entries /\ Follows(s, r)
      /\ r.block = m /\ 1 .. m = (1 .. m - 1) \cup {m}
  BY EntryType DEF OnePerBlock
<1>2. CASE IsAddition(r)
  <2>1. /\ b # 0 /\ b \notin DOMAIN s.bounties /\ DOMAIN t.bounties = DOMAIN s.bounties \cup {b}
        /\ \A d \in DOMAIN s.bounties : t.bounties[d] = s.bounties[d]
        /\ t.bounties[b] = [proposal |-> r.proposal, times |-> Times]
        /\ Shown(b, m) = {}
    BY <1>2, AdditionSubject
  <2>2. SavesOf(r).bounty = Bounty(r.proposal, Times, {}, 0)
    BY <1>2 DEF SavesOf
  <2>3. RightBounty(SavesOf(r).bounty, b, m)
    BY <2>1, <2>2 DEF RightBounty, Bounty
  <2>4. ASSUME NEW d \in DOMAIN t.bounties \ {b}
        PROVE  BountyKept(d, m)
    <3>1. d \in DOMAIN s.bounties /\ t.bounties[d] = s.bounties[d]
      BY <2>1
    <3>2. Shown(d, m) = Shown(d, m - 1)
      BY <1>2, ShownStays DEF IsAddition
    <3> QED BY <3>1, <3>2, KeptOn DEF AllKept
  <2> QED BY <2>1, <2>3, <2>4 DEF AllKept
<1>3. CASE ~IsAddition(r)
  <2>1. b = r.bounty /\ IsStored(b)
    BY <1>3 DEF Subject
  <2>2. b \in DOMAIN s.bounties
    BY <2>1 DEF IsStored, HasItem, AllKept
  <2>3. BountyKept(b, m - 1)
    BY <2>2 DEF AllKept
  <2> DEFINE f == FoundBounty(b).bounty
             old == Shown(b, m - 1)
  <2>4. f = rows[b]
    BY <2>3 DEF FoundBounty, ItemOf, BountyKept
  <2>5. /\ f.proposal = s.bounties[b].proposal /\ f.times = s.bounties[b].times
        /\ f.claims = old
    BY <2>3, <2>4 DEF BountyKept, RightBounty, Bounty
  <2>6. /\ DOMAIN t.bounties = DOMAIN s.bounties
        /\ t.bounties[b].proposal = s.bounties[b].proposal
        /\ \A d \in DOMAIN s.bounties : d # b => t.bounties[d] = s.bounties[d]
    BY <1>1, <1>3, <2>1, <2>2 DEF Follows
  <2>7. ASSUME NEW d \in DOMAIN t.bounties \ {b}
        PROVE  BountyKept(d, m)
    <3>1. d \in DOMAIN s.bounties /\ t.bounties[d] = s.bounties[d]
      BY <2>6
    <3>2. Shown(d, m) = Shown(d, m - 1)
      BY <2>1, ShownStays
    <3> QED BY <3>1, <3>2, KeptOn DEF AllKept
  <2>8. AllKept(m, {b})
    BY <2>6, <2>7 DEF AllKept
  <2>9. SavesOf(r) = ToSave(r, FoundBounty(b))
    BY <1>3 DEF SavesOf
  <2> DEFINE loaded == ClaimsOf(t, r.bounty, r.by)
             saved == SavesOf(r).bounty
  <2>10. CASE r.kind \in {"approve", "remove"}
    <3>1. saved = Paid(f, r)
      BY <2>9, <2>10 DEF ToSave
    <3>2. Shown(b, m) = old
      BY <2>10, ShownStays
    <3>3. loaded \subseteq old
      BY <2>1, <3>2, OpenShown DEF ClaimsOf
    <3>4. Merged(f.claims, loaded) = old
      BY <2>5, <3>3 DEF Merged
    <3>5. saved = Bounty(f.proposal, t.bounties[b].times, old, NumberOfClaims(t, r.bounty))
      BY <2>1, <3>1, <3>4 DEF Paid
    <3>6. RightBounty(saved, b, m)
      BY <2>5, <2>6, <3>2, <3>5 DEF RightBounty, Bounty
    <3> QED BY <2>2, <2>6, <2>8, <3>6
  <2> DEFINE dropped == IF r.kind = "giveup" THEN LastClaims(f.claims, r.by, r.block) ELSE {}
             ids == {c.start : c \in dropped}
             kept == {c \in Merged(f.claims, loaded) : c.start \notin ids}
  <2>11. ASSUME r.kind \in {"claim", "giveup"}, kept = Shown(b, m)
         PROVE  RightBounty(saved, b, m)
    <3>1. saved = Claimed(f, r)
      BY <2>9, <2>11 DEF ToSave
    <3>2. Claimed(f, r) = Bounty(f.proposal, f.times, kept, NumberOfClaims(t, r.bounty))
      BY Zenon DEF Claimed
    <3>3. t.bounties = s.bounties
      BY <1>1, <1>3, <2>11 DEF Follows
    <3> HIDE DEF kept, f
    <3> QED BY <2>5, <2>11, <3>1, <3>2, <3>3 DEF RightBounty, Bounty
  <2>12. CASE r.kind = "claim"
    <3>1. /\ ClaimsOf(s, b, r.by) = {} /\ t.claims = s.claims \cup {Claim(b, r.by, r.block)}
      BY <1>1, <2>1, <2>12 DEF Follows, IsAddition
    <3>2. MadeBy(b, m) = Claim(b, r.by, r.block)
      BY <1>1 DEF MadeBy
    <3>3. loaded = {MadeBy(b, m)}
      BY <2>1, <3>1, <3>2 DEF ClaimsOf, Claim
    <3>4. Shown(b, m) = old \cup {MadeBy(b, m)}
      BY <2>1, <2>12, ShownMore DEF Makes
    <3>5. \A d \in old : d.start # m
      BY <1>1, ShownStarts
    <3>6. MadeBy(b, m).start = m
      BY DEF MadeBy, Claim
    <3> HIDE DEF loaded, old, f
    <3>7. Merged(f.claims, loaded) = old \cup {MadeBy(b, m)}
      BY <2>5, <3>3, <3>5, <3>6 DEF Merged
    <3>8. ids = {}
      BY <2>12
    <3>9. kept = Shown(b, m)
      <4> HIDE DEF ids
      <4> QED BY <3>4, <3>7, <3>8
    <3> QED BY <2>2, <2>6, <2>8, <2>11, <2>12, <3>9
  <2>13. CASE r.kind = "giveup"
    <3>1. PICK c \in old : /\ Shown(b, m) = old \ {c}
                           /\ LastClaims(old, r.by, m) = {c}
                           /\ \A d \in old : d.start = c.start => d = c
      BY <2>1, <2>13, ShownLess
    <3>2. ASSUME NEW d \in loaded
          PROVE  FALSE
      <4>1. d \in t.claims /\ d.bounty = r.bounty /\ d.by = r.by
        BY DEF ClaimsOf
      <4>2. /\ d.start \in 2 .. m /\ Makes(d.start, d.bounty)
            /\ \A j \in d.start + 1 .. m :
                 ~(/\ receipts[j].kind \in {"claim", "giveup"}
                   /\ receipts[j].bounty = d.bounty /\ receipts[j].by = d.by)
        BY <4>1 DEF OnePerBlock, OpenKept
      <4>3. d.start # m
        BY <2>13, <4>2 DEF Makes
      <4>4. m \in d.start + 1 .. m
        BY <1>1, <4>2, <4>3
      <4> QED BY <2>13, <4>1, <4>2, <4>4
    <3>3. loaded = {}
      BY <3>2
    <3> HIDE DEF loaded, old, f
    <3>4. Merged(f.claims, loaded) = old
      BY <2>5, <3>3 DEF Merged
    <3>5. ids = {c.start}
      BY <1>1, <2>5, <2>13, <3>1
    <3>6. kept = Shown(b, m)
      <4> HIDE DEF ids
      <4> QED BY <3>1, <3>4, <3>5
    <3> QED BY <2>2, <2>6, <2>8, <2>11, <2>13, <3>6
  <2> QED BY <2>10, <2>12, <2>13
<1> QED BY <1>2, <1>3

-----------------------------------------------------------------------------
\* The consumer alone.
LEMMA ShownSame ==
  ASSUME ReceiptsType, Extends(receipts, receipts'), NEW m \in DOMAIN receipts, NEW b
  PROVE  Shown(b, m)' = Shown(b, m)
<1>1. \A k \in 1 .. m : receipts'[k] = receipts[k]
  BY EntryType DEF Extends
<1> DEFINE of == {k \in 1 .. m : receipts[k].bounty = b}
           of2 == {k \in 1 .. m : receipts'[k].bounty = b}
           claims == {k \in of : receipts[k].kind = "claim"}
           made == {Claim(b, receipts[k].by, receipts[k].block) : k \in claims}
           made2 == {Claim(b, receipts'[k].by, receipts'[k].block) :
                       k \in {k \in of2 : receipts'[k].kind = "claim"}}
           given == {c \in made : \E k \in of :
                       /\ receipts[k].kind = "giveup" /\ receipts[k].by = c.by
                       /\ receipts[k].block > c.start
                       /\ \A d \in made : d.by = c.by /\ d.start < receipts[k].block
                                            => d.start <= c.start}
           given2 == {c \in made2 : \E k \in of2 :
                       /\ receipts'[k].kind = "giveup" /\ receipts'[k].by = c.by
                       /\ receipts'[k].block > c.start
                       /\ \A d \in made2 : d.by = c.by /\ d.start < receipts'[k].block
                                             => d.start <= c.start}
<1>2. of2 = of /\ \A k \in of : receipts'[k] = receipts[k]
  BY <1>1
<1> HIDE DEF of, of2
<1>3. made2 = made
  BY <1>2
<1> HIDE DEF made, made2
<1>4. given2 = given
  BY <1>2, <1>3
<1>5. Shown(b, m) = made \ given
  BY DEF Shown, made, of
<1>6. Shown(b, m)' = made2 \ given2
  BY DEF Shown, made2, of2
<1> QED BY <1>3, <1>4, <1>5, <1>6

\* Bounties that a step leaves in the stores.
LEMMA KeptFrame ==
  ASSUME ReceiptsType, Extends(receipts, receipts'), NEW m \in DOMAIN receipts, NEW but,
         AllKept(m, but),
         LET s == receipts[m].state
         IN  /\ DOMAIN rows' \subseteq DOMAIN s.bounties
             /\ DOMAIN mapping' \subseteq DOMAIN s.bounties
             /\ \A b \in DOMAIN s.bounties \ but :
                  /\ b \in DOMAIN rows => b \in DOMAIN rows' /\ rows'[b] = rows[b]
                  /\ b \in DOMAIN mapping => b \in DOMAIN mapping' /\ mapping'[b] = mapping[b]
                  /\ LET p == s.bounties[b].proposal
                     IN  p \in DOMAIN items => /\ p \in DOMAIN items'
                                               /\ items'[p].bounty = items[p].bounty
  PROVE  AllKept(m, but)'
<1>1. receipts'[m] = receipts[m]
  BY DEF Extends
<1>2. ASSUME NEW b \in DOMAIN receipts[m].state.bounties \ but
      PROVE  BountyKept(b, m)'
  <2>1. Shown(b, m)' = Shown(b, m)
    BY ShownSame
  <2>2. BountyKept(b, m)
    BY DEF AllKept
  <2> QED BY <1>1, <2>1, <2>2 DEF BountyKept, RightBounty
<1> QED BY <1>1, <1>2 DEF AllKept

LEMMA ItemsFrame ==
  ASSUME ReceiptsType, Extends(receipts, receipts'), NEW m \in DOMAIN receipts, NEW but,
         AllKept(m, but), UNCHANGED <<rows, mapping>>,
         \A p \in DOMAIN items : p \in DOMAIN items' /\ items'[p].bounty = items[p].bounty
  PROVE  AllKept(m, but)'
BY KeptFrame DEF AllKept

\* A receipt that is not skipped when the stores hold all bounties.
LEMMA NotSkipped ==
  ASSUME ReceiptsType, OnePerBlock, bounded.perBlock = 1, NEW m \in DOMAIN receipts, m > 1,
         receipts[m].kind \in {"approve", "claim", "giveup"}, AllKept(m - 1, {})
  PROVE  /\ Subject(receipts[m]) # 0
         /\ IsStored(Subject(receipts[m])) <=> ~IsAddition(receipts[m])
<1> DEFINE r == receipts[m]
           b == Subject(r)
           s == receipts[m - 1].state
<1>1. /\ m - 1 \in DOMAIN receipts /\ s \in ContractStates /\ ContractKept(s) /\ Follows(s, r)
  BY EntryType DEF OnePerBlock
<1>2. CASE IsAddition(r)
  <2>1. b # 0 /\ b \notin DOMAIN s.bounties
    BY <1>2, AdditionSubject
  <2>2. ~IsStored(b)
    BY <2>1 DEF IsStored, HasItem, AllKept
  <2> QED BY <1>2, <2>1, <2>2
<1>3. CASE ~IsAddition(r)
  <2>1. b \in DOMAIN s.bounties
    BY <1>1, <1>3 DEF Subject, Follows, ContractKept
  <2>2. b # 0
    BY <1>1, <2>1 DEF ContractStates
  <2>3. IsStored(b)
    BY <2>1 DEF AllKept, BountyKept, IsStored, HasItem
  <2> QED BY <1>3, <2>2, <2>3
<1> QED BY <1>2, <1>3

\* The consumer ends a receipt with the stores as they should be, and goes on.
LEMMA CalmStops ==
  ASSUME WorkersType, NEW m \in DOMAIN receipts, m > 1, m \in Nat, done = 1 .. m - 1,
         receipt["consumer"] = m, Stops("consumer", TRUE), receipts' = receipts, AllKept(m, {})'
  PROVE  CalmAt(m)'
<1>1. at'["consumer"] = "off" /\ done' = 1 .. m
  <2>1. 1 .. m = (1 .. m - 1) \cup {m}
    OBVIOUS
  <2> QED BY <2>1 DEF Stops, WorkersType, Handlers, BountyWorkers
<1> QED BY <1>1 DEF CalmAt

LEMMA CalmGoes ==
  ASSUME WorkersType, NEW m \in DOMAIN receipts, m > 1, done = 1 .. m - 1,
         receipt["consumer"] = m, NEW label, Goes("consumer", label),
         UNCHANGED <<done, receipt>>, label # "off",
         IF label \in SavingSteps THEN Saving(m)' ELSE AllKept(m - 1, {})',
         label = "saveDone" => /\ read'["consumer"].place \in DOMAIN items'
                               /\ read'["consumer"].item = items'[read'["consumer"].place]
  PROVE  CalmAt(m)'
<1>1. at'["consumer"] = label
  BY DEF Goes, WorkersType, BountyWorkers, Handlers
<1> QED BY <1>1 DEF CalmAt

\* More receipts leave it so.
LEMMA CalmFrame ==
  ASSUME ReceiptsType, Extends(receipts, receipts'), NEW m \in DOMAIN receipts, CalmAt(m),
         UNCHANGED <<rows, items, mapping, at, receipt, read, done>>
  PROVE  CalmAt(m)'
<1>1. ASSUME NEW k \in DOMAIN receipts, NEW but, AllKept(k, but)
      PROVE  AllKept(k, but)'
  BY <1>1, ItemsFrame
<1>2. receipts'[m] = receipts[m] /\ m \in Nat
  BY EntryType DEF Extends
<1>3. CASE at["consumer"] = "off"
  BY <1>1, <1>3 DEF CalmAt
<1>4. CASE at["consumer"] # "off"
  <2>1. m - 1 \in DOMAIN receipts /\ receipt["consumer"] = m
    BY <1>4, EntryType DEF CalmAt
  <2>2. Handled("consumer")' = Handled("consumer")
    BY <1>2, <2>1 DEF Handled
  <2>3. SavedAlone("consumer") => SavedAlone("consumer")'
    BY <2>2 DEF SavedAlone
  <2>4. Saving(m) => Saving(m)'
    <3> SUFFICES ASSUME Saving(m) PROVE Saving(m)'
      OBVIOUS
    <3>0. PICK b : b = Subject(receipts[m])
      OBVIOUS
    <3>1. /\ b \in DOMAIN receipts[m].state.bounties /\ AllKept(m, {b})'
          /\ RightBounty(read["consumer"].bounty, b, m) /\ SavedAlone("consumer")'
      BY <1>1, <2>3, <3>0 DEF Saving
    <3>2. Shown(b, m)' = Shown(b, m)
      BY ShownSame
    <3>3. RightBounty(read["consumer"].bounty, b, m)'
      BY <1>2, <3>1, <3>2 DEF RightBounty
    <3> QED BY <1>2, <3>0, <3>1, <3>3 DEF Saving
  <2>5. AllKept(m - 1, {}) => AllKept(m - 1, {})'
    BY <1>1, <2>1
  <2> QED BY <1>4, <2>4, <2>5 DEF CalmAt
<1> QED BY <1>3, <1>4

LEMMA CalmHandler ==
  ASSUME ReceiptsType, StoresType, WorkersType, OnePerBlock, bounded.perBlock = 1,
         NEW m \in DOMAIN receipts, CalmAt(m), receipt["consumer"] \notin failed,
         Handler("consumer"), failed' = {}
  PROVE  CalmAt(m)'
<1> DEFINE w == "consumer"
           r == receipts[m]
           s == receipts[m - 1].state
<1>1. /\ w \in Handlers /\ w \in BountyWorkers /\ HandlerType(w) /\ m \in Nat
      /\ at = [u \in BountyWorkers |-> at[u]] /\ read = [u \in BountyWorkers |-> read[u]]
  BY EntryType DEF WorkersType, BountyWorkers, Handlers
<1>2. receipts' = receipts /\ bounded' = bounded /\ at[w] # "off"
  BY Zenon DEF Handler, SaveContextItem, SaveContextRow, ArchiveItem, RemoveContextRow,
     FindDone, SaveDone, FindBounty, SaveItem, SaveMapping, SaveRow, limits, onChain, IsAt
<1>3. /\ m > 1 /\ done = 1 .. m - 1 /\ receipt[w] = m
      /\ IF at[w] \in SavingSteps THEN Saving(m) ELSE AllKept(m - 1, {})
      /\ at[w] = "saveDone" => /\ read[w].place \in DOMAIN items
                               /\ read[w].item = items[read[w].place]
  BY <1>2 DEF CalmAt
<1>4. /\ StepFits(w) /\ ReadType(w) /\ Handled(w) = r /\ m - 1 \in DOMAIN receipts
      /\ Extends(receipts, receipts') /\ r \in Entries
  BY <1>1, <1>2, <1>3, EntryType, SameReceipts DEF HandlerType, Handled
<1>5. ~Stops(w, FALSE)
  BY <1>1 DEF Stops
\* The steps of a receipt that changes no bounty.
<1>6. CASE SaveContextItem(w) \/ ArchiveItem(w)
  <2>1. PICK label \in {"contextRow", "removeRow"} : Goes(w, label)
    BY <1>6 DEF SaveContextItem, ArchiveItem
  <2>2. at[w] \notin SavingSteps /\ UNCHANGED <<done, receipt, rows, mapping>>
    BY <1>6 DEF SaveContextItem, ArchiveItem, IsAt, SavingSteps
  <2>3. \A p \in DOMAIN items : p \in DOMAIN items' /\ items'[p].bounty = items[p].bounty
    <3>1. CASE SaveContextItem(w)
      BY <3>1 DEF SaveContextItem, WithContext, Upsert
    <3>2. CASE ArchiveItem(w)
      <4> DEFINE p == r.proposal
                 i == IF p \in DOMAIN items THEN items[p] ELSE ContextItem
                 j == [i EXCEPT !.archived = TRUE]
      <4>1. items' = Upsert(items, p, j)
        BY <1>4, <3>2, Zenon DEF ArchiveItem
      <4>2. p \in DOMAIN items => j.bounty = items[p].bounty
        BY DEF StoresType, BountyItems
      <4> HIDE DEF j, p
      <4> QED BY <4>1, <4>2 DEF Upsert
    <3> QED BY <1>6, <3>1, <3>2
  <2>4. AllKept(m - 1, {})'
    BY <1>3, <1>4, <2>2, <2>3, ItemsFrame
  <2> QED BY <1>3, <2>1, <2>2, <2>4, CalmGoes DEF SavingSteps
<1>7. ASSUME Stops(w, TRUE), r.kind \in {"addBounty", "addDone", "remove"},
             at[w] \notin SavingSteps, UNCHANGED <<rows, mapping>>,
             \A p \in DOMAIN items : p \in DOMAIN items' /\ items'[p].bounty = items[p].bounty
      PROVE  CalmAt(m)'
  <2>1. AllKept(m, {})
    BY <1>3, <1>7, QuietKept
  <2>2. AllKept(m, {})'
    BY <1>4, <1>7, <2>1, ItemsFrame
  <2> QED BY <1>1, <1>2, <1>3, <1>7, <2>2, CalmStops
<1>8. CASE SaveContextRow(w) \/ RemoveContextRow(w)
  BY <1>4, <1>7, <1>8
     DEF SaveContextRow, RemoveContextRow, IsAt, SavingSteps, StepFits, IsRemoval
<1>9. CASE FindDone(w)
  <2>1. at[w] = "findDone" /\ at[w] \notin SavingSteps /\ UNCHANGED stored
    BY <1>9 DEF FindDone, IsAt, SavingSteps
  <2>2. UNCHANGED <<rows, mapping, items>>
    BY <2>1 DEF stored
  <2>3. CASE Stops(w, TRUE)
    BY <1>4, <1>7, <2>1, <2>2, <2>3 DEF StepFits
  <2>4. CASE ~Stops(w, TRUE)
    <3> DEFINE b == r.bounty
               x == [place |-> mapping[b], item |-> ItemOf(b)]
    <3>1. /\ HasItem(b) /\ read' = [read EXCEPT ![w] = x] /\ Goes(w, "saveDone")
          /\ UNCHANGED <<receipt, done>>
      BY <1>4, <1>5, <1>9, <2>4 DEF FindDone
    <3>2. read'[w] = x /\ x.place \in DOMAIN items /\ x.item = items[x.place]
      BY <1>1, <3>1 DEF HasItem, ItemOf
    <3>3. AllKept(m - 1, {})'
      BY <1>3, <1>4, <2>1, <2>2, ItemsFrame
    <3> HIDE DEF x
    <3> QED BY <1>3, <2>2, <3>1, <3>2, <3>3, CalmGoes DEF SavingSteps
  <2> QED BY <2>3, <2>4
<1>10. CASE SaveDone(w)
  <2>1. at[w] = "saveDone" /\ at[w] \notin SavingSteps /\ UNCHANGED <<rows, mapping>>
        /\ Stops(w, TRUE)
    BY <1>10 DEF SaveDone, IsAt, SavingSteps
  <2> DEFINE q == read[w].place
             i == [read[w].item EXCEPT !.done = @ \cup {r.proposal}]
  <2>2. q \in DOMAIN items /\ read[w].item = items[q] /\ read[w].item \in BountyItems
    BY <1>3, <1>4, <2>1 DEF ReadType
  <2>3. items' = Upsert(items, q, i)
    BY <1>4, <1>10, Zenon DEF SaveDone
  <2>4. i.bounty = items[q].bounty
    BY <2>2 DEF BountyItems
  <2> HIDE DEF i, q
  <2>5. \A p \in DOMAIN items : p \in DOMAIN items' /\ items'[p].bounty = items[p].bounty
    BY <2>3, <2>4 DEF Upsert
  <2> QED BY <1>4, <1>7, <2>1, <2>5 DEF StepFits
\* The steps of a receipt about a bounty.
<1>0. PICK b : b = Subject(r)
  OBVIOUS
<1>11. CASE FindBounty(w)
  <2>1. at[w] = "find" /\ at[w] \notin SavingSteps /\ UNCHANGED stored
    BY <1>11 DEF FindBounty, IsAt, SavingSteps
  <2>2. UNCHANGED <<rows, mapping, items>>
    BY <2>1 DEF stored
  <2>3. r.kind \in {"approve", "remove", "claim", "giveup"}
    BY <1>4, <2>1 DEF StepFits
  <2>4. CASE Subject(r) = 0 \/ (IsStored(Subject(r)) <=> IsAddition(r))
    <3>1. r.kind = "remove" /\ ~IsAddition(r)
      BY <1>3, <2>1, <2>3, <2>4, NotSkipped DEF IsAddition
    <3>2. (IsAddition(r) => Subject(r) \in DOMAIN rows) = TRUE
      BY <3>1
    <3>3. Stops(w, TRUE)
      BY <1>4, <1>11, <2>4, <3>2 DEF FindBounty
    <3> QED BY <1>7, <2>1, <2>2, <3>1, <3>3
  <2>5. CASE ~(Subject(r) = 0 \/ (IsStored(Subject(r)) <=> IsAddition(r)))
    <3>1. /\ read' = [read EXCEPT ![w] = SavesOf(r)] /\ Goes(w, "saveItem")
          /\ UNCHANGED <<receipt, done>>
      BY <1>4, <1>5, <1>11, <2>5 DEF FindBounty, SavesOf
    <3>2. /\ b \in DOMAIN r.state.bounties /\ AllKept(m, {b})
          /\ RightBounty(SavesOf(r).bounty, b, m)
      BY <1>0, <1>3, <2>1, <2>3, <2>5, SavesRight
    <3>3. read'[w] = SavesOf(r) /\ at'[w] = "saveItem"
      BY <1>1, <3>1 DEF Goes
    <3>4. AllKept(m, {b})'
      BY <1>4, <2>2, <3>2, ItemsFrame
    <3>5. RightBounty(read[w].bounty, b, m)'
      <4>1. Shown(b, m)' = Shown(b, m)
        BY <1>4, ShownSame
      <4> QED BY <1>2, <3>2, <3>3, <4>1 DEF RightBounty
    <3>6. SavedAlone(w)'
      BY <3>3 DEF SavedAlone
    <3>7. Saving(m)'
      BY <1>0, <1>2, <3>2, <3>4, <3>5, <3>6 DEF Saving
    <3> QED BY <1>3, <3>1, <3>7, CalmGoes DEF SavingSteps
  <2> QED BY <2>4, <2>5
<1>12. ASSUME at[w] \in SavingSteps
       PROVE  /\ b \in DOMAIN r.state.bounties /\ AllKept(m, {b})
              /\ RightBounty(read[w].bounty, b, m) /\ SavedAlone(w)
              /\ read[w].bounty.proposal = r.state.bounties[b].proposal
              /\ \A d \in DOMAIN r.state.bounties \ {b} :
                   r.state.bounties[d].proposal # read[w].bounty.proposal
              /\ DOMAIN rows \subseteq DOMAIN r.state.bounties
              /\ DOMAIN mapping \subseteq DOMAIN r.state.bounties
  <2>1. /\ b \in DOMAIN r.state.bounties /\ AllKept(m, {b})
        /\ RightBounty(read[w].bounty, b, m) /\ SavedAlone(w)
    BY <1>0, <1>3, <1>12 DEF Saving
  <2>2. read[w].bounty.proposal = r.state.bounties[b].proposal
    BY <2>1 DEF RightBounty, Bounty
  <2>3. BountiesKept(r.state.proposals, r.state.bounties)
    BY EntryType DEF ContractKept
  <2>4. \A d \in DOMAIN r.state.bounties \ {b} :
          r.state.bounties[d].proposal # read[w].bounty.proposal
    BY <2>1, <2>2, <2>3 DEF BountiesKept
  <2> QED BY <2>1, <2>2, <2>4 DEF AllKept
<1>13. ASSUME at[w] \in SavingSteps, UNCHANGED <<receipt, done, read>>, SavedAlone(w)',
              AllKept(m, {b})', NEW label \in SavingSteps, Goes(w, label)
       PROVE  CalmAt(m)'
  <2>1. RightBounty(read[w].bounty, b, m)'
    <3>1. Shown(b, m)' = Shown(b, m)
      BY <1>4, ShownSame
    <3> QED BY <1>2, <1>12, <1>13, <3>1 DEF RightBounty
  <2>2. Saving(m)'
    BY <1>0, <1>2, <1>12, <1>13, <2>1 DEF Saving
  <2> QED BY <1>3, <1>13, <2>2, CalmGoes DEF SavingSteps
<1>14. CASE SaveItem(w)
  <2>1. /\ Goes(w, "saveMapping") /\ at[w] \in SavingSteps /\ SavedAlone(w)'
        /\ UNCHANGED <<receipt, done, read, rows, mapping>>
    BY <1>1, <1>14, SavedItem DEF SaveItem, IsAt, SavingSteps
  <2>2. PICK i : items' = Upsert(items, read[w].bounty.proposal, i)
    BY <1>14, Zenon DEF SaveItem, WithBounty
  <2>3. \A d \in DOMAIN r.state.bounties \ {b} :
          LET p == r.state.bounties[d].proposal
          IN  p \in DOMAIN items => p \in DOMAIN items' /\ items'[p] = items[p]
    BY <1>12, <2>1, <2>2 DEF Upsert
  <2>4. AllKept(m, {b})'
    BY <1>4, <1>12, <2>1, <2>3, KeptFrame
  <2> QED BY <1>13, <2>1, <2>4 DEF SavingSteps
<1>15. CASE SaveMapping(w)
  <2>1. /\ Goes(w, "saveRow") /\ at[w] \in SavingSteps
        /\ UNCHANGED <<receipt, done, read, rows, items>>
        /\ mapping' = Upsert(mapping, b, read[w].bounty.proposal)
    BY <1>0, <1>4, <1>15 DEF SaveMapping, IsAt, SavingSteps
  <2>2. SavedAlone(w)'
    BY <1>1, <1>2, <1>12, <1>15, <2>1, SavedMapping
  <2>3. /\ DOMAIN mapping' = DOMAIN mapping \cup {b}
        /\ \A d \in DOMAIN mapping : d # b => mapping'[d] = mapping[d]
    BY <2>1 DEF Upsert
  <2>4. AllKept(m, {b})'
    BY <1>4, <1>12, <2>1, <2>3, KeptFrame
  <2> QED BY <1>13, <2>1, <2>2, <2>4 DEF SavingSteps
<1>16. CASE SaveRow(w)
  <2> DEFINE bounty == read[w].bounty
  <2>1. /\ Stops(w, TRUE) /\ at[w] \in SavingSteps /\ at[w] = "saveRow"
        /\ UNCHANGED <<mapping, items>> /\ rows' = Upsert(rows, b, bounty)
    BY <1>0, <1>4, <1>16 DEF SaveRow, IsAt, SavingSteps
  <2>2. /\ DOMAIN rows' = DOMAIN rows \cup {b} /\ rows'[b] = bounty
        /\ \A d \in DOMAIN rows : d # b => rows'[d] = rows[d]
    BY <2>1 DEF Upsert
  <2>3. /\ bounty.proposal \in DOMAIN items /\ items[bounty.proposal].bounty = bounty
        /\ b \in DOMAIN mapping /\ mapping[b] = bounty.proposal
    BY <1>0, <1>4, <1>12, <2>1 DEF SavedAlone
  <2>4. AllKept(m, {b})'
    BY <1>4, <1>12, <2>1, <2>2, KeptFrame
  <2>5. BountyKept(b, m)'
    <3>1. Shown(b, m)' = Shown(b, m)
      BY <1>4, ShownSame
    <3> QED BY <1>2, <1>12, <2>1, <2>2, <2>3, <3>1 DEF BountyKept, RightBounty
  <2>6. AllKept(m, {})'
    BY <2>4, <2>5 DEF AllKept
  <2> QED BY <1>1, <1>2, <1>3, <2>1, <2>6, CalmStops
<1> QED BY <1>6, <1>8, <1>9, <1>10, <1>11, <1>14, <1>15, <1>16 DEF Handler

LEMMA CalmNext ==
  ASSUME ReceiptsType, StoresType, WorkersType, OnePerBlock, CalmKept, BountyNext
  PROVE  CalmKept'
<1> SUFFICES ASSUME Calm'
             PROVE  /\ \A w \in BountyWorkers \ {"consumer"} : at'[w] = "off"
                    /\ at'["consumer"] # "off" => receipt'["consumer"] \notin failed'
                    /\ failed' = {} => \E m \in DOMAIN receipts' : CalmAt(m)'
  BY DEF CalmKept
<1>1. /\ bounded' = bounded /\ restarts \in Nat /\ (restarts' = restarts \/ restarts' = restarts + 1)
  BY Zenon DEF BountyNext, CloseBlock, StartHandler, Handler, SaveContextItem, SaveContextRow,
     ArchiveItem, RemoveContextRow, FindDone, SaveDone, FindBounty, SaveItem, SaveMapping,
     SaveRow, CrashConsumer, QueryItems, PutItems, UpdateContexts, LoadBounties, SaveBounties,
     limits, WorkersType
<1>2. Calm /\ bounded.others = {} /\ bounded.perBlock = 1 /\ restarts' = restarts
  BY <1>1 DEF Calm
<1>3. /\ \A w \in BountyWorkers \ {"consumer"} : at[w] = "off"
      /\ at["consumer"] # "off" => receipt["consumer"] \notin failed
      /\ failed = {} => \E m \in DOMAIN receipts : CalmAt(m)
  BY <1>2 DEF CalmKept
<1>4. /\ "consumer" \in Handlers /\ \A w \in {"consumer", "callback", "manager", "poller"} : w \in BountyWorkers
      /\ at = [u \in BountyWorkers |-> at[u]] /\ receipt = [u \in Handlers |-> receipt[u]]
      /\ at["callback"] = "off" /\ at["manager"] = "off" /\ at["poller"] = "off"
      /\ \A w \in Handlers : w = "consumer" \/ w = "callback"
  BY <1>3 DEF Handlers, BountyWorkers, WorkersType
<1>5. CASE CloseBlock
  <2>1. Extends(receipts, receipts')
    BY <1>5, BlockCloses DEF WorkersType
  <2>2. UNCHANGED <<rows, contexts, items, mapping, at, receipt, read, done, failed>>
    BY <1>5, Zenon DEF CloseBlock, stored, working
  <2>3. ASSUME NEW m \in DOMAIN receipts, CalmAt(m)
        PROVE  CalmAt(m)'
    BY <2>1, <2>2, <2>3, CalmFrame
  <2> QED BY <1>3, <2>1, <2>2, <2>3 DEF Extends
<1>6. CASE StartHandler("consumer")
  <2>1. PICK k \in DOMAIN receipts \ done :
          /\ k \notin failed /\ \A j \in 1 .. k - 1 : j \in done \cup failed
          /\ Starts("consumer", FirstStep(receipts[k]))
          /\ receipt' = [receipt EXCEPT !["consumer"] = k]
    BY <1>6 DEF StartHandler
  <2>2. UNCHANGED <<receipts, rows, mapping, items, read, done, failed>>
    BY <1>6, Zenon DEF StartHandler, onChain, stored
  <2>3. /\ at' = [at EXCEPT !["consumer"] = FirstStep(receipts[k])] /\ at["consumer"] = "off"
        /\ receipt'["consumer"] = k
    BY <1>4, <2>1 DEF Starts
  <2>4. /\ \A w \in BountyWorkers \ {"consumer"} : at'[w] = "off"
        /\ at'["consumer"] = FirstStep(receipts[k])
    BY <1>3, <1>4, <2>3
  <2>5. ASSUME failed = {}
        PROVE  CalmAt(k)'
    <3>1. PICK m \in DOMAIN receipts : CalmAt(m)
      BY <1>3, <2>5
    <3>2. done = 1 .. m /\ AllKept(m, {})
      BY <2>3, <3>1 DEF CalmAt
    <3>3. k \in Nat \ {0} /\ m \in Nat \ {0}
      BY EntryType
    <3>4. k = m + 1
      <4>1. k \notin 1 .. m /\ \A j \in 1 .. k - 1 : j \in 1 .. m
        BY <2>1, <2>5, <3>2
      <4>2. ~(k > m + 1)
        <5> SUFFICES ASSUME k > m + 1
                     PROVE  FALSE
          OBVIOUS
        <5>1. m + 1 \in 1 .. k - 1 /\ m + 1 \notin 1 .. m
          BY <3>3
        <5> QED BY <4>1, <5>1
      <4> QED BY <3>3, <4>1, <4>2
    <3>5. AllKept(m, {})'
      BY <2>2, <3>2, SameReceipts, ItemsFrame
    <3>6. m = k - 1 /\ k > 1
      BY <3>3, <3>4
    <3>7. FirstStep(receipts[k]) \notin SavingSteps \cup {"off", "saveDone"}
      BY DEF FirstStep, SavingSteps
    <3> QED BY <2>2, <2>3, <2>4, <3>2, <3>5, <3>6, <3>7 DEF CalmAt
  <2> QED BY <2>1, <2>2, <2>3, <2>4, <2>5
<1>7. CASE Handler("consumer")
  <2>1. receipts' = receipts /\ at["consumer"] # "off"
    BY <1>7, Zenon DEF Handler, SaveContextItem, SaveContextRow, ArchiveItem, RemoveContextRow,
       FindDone, SaveDone, FindBounty, SaveItem, SaveMapping, SaveRow, onChain, IsAt
  <2>2. \/ \E label : Goes("consumer", label) /\ UNCHANGED <<receipt, failed>>
        \/ \E ok \in BOOLEAN : Stops("consumer", ok)
    BY <1>7 DEF Handler, SaveContextItem, SaveContextRow, ArchiveItem, RemoveContextRow,
       FindDone, SaveDone, FindBounty, SaveItem, SaveMapping, SaveRow
  <2>3. /\ \A w \in BountyWorkers \ {"consumer"} : at'[w] = "off"
        /\ at'["consumer"] # "off" => receipt' = receipt /\ failed' = failed
    <3>1. CASE \E label : Goes("consumer", label) /\ UNCHANGED <<receipt, failed>>
      BY <1>3, <1>4, <3>1 DEF Goes
    <3>2. CASE \E ok \in BOOLEAN : Stops("consumer", ok)
      BY <1>3, <1>4, <3>2 DEF Stops
    <3> QED BY <2>2, <3>1, <3>2
  <2>4. failed' = {} => failed = {}
    <3>1. CASE \E label : Goes("consumer", label) /\ UNCHANGED <<receipt, failed>>
      BY <3>1
    <3>2. CASE \E ok \in BOOLEAN : Stops("consumer", ok)
      BY <1>3, <1>4, <2>1, <3>2 DEF Stops
    <3> QED BY <2>2, <3>1, <3>2
  <2>5. ASSUME failed' = {}
        PROVE  \E m \in DOMAIN receipts' : CalmAt(m)'
    <3>1. PICK m \in DOMAIN receipts : CalmAt(m)
      BY <1>3, <2>4, <2>5
    <3>2. CalmAt(m)'
      BY <1>2, <1>3, <1>7, <2>1, <2>5, <3>1, CalmHandler
    <3> QED BY <2>1, <3>2
  <2> QED BY <1>3, <2>1, <2>3, <2>5
<1>8. ~(StartHandler("callback") \/ QueryItems \/ LoadBounties)
  BY <1>2 DEF StartHandler, QueryItems, LoadBounties
<1>9. ~(Handler("callback") \/ PutItems \/ UpdateContexts \/ SaveBounties)
  BY <1>4 DEF Handler, SaveContextItem, SaveContextRow, ArchiveItem, RemoveContextRow,
     FindDone, SaveDone, FindBounty, SaveItem, SaveMapping, SaveRow, PutItems, UpdateContexts,
     SaveBounties, IsAt
<1>10. ~CrashConsumer
  BY <1>1, <1>2 DEF CrashConsumer
<1> QED BY <1>4, <1>5, <1>6, <1>7, <1>8, <1>9, <1>10 DEF BountyNext

-----------------------------------------------------------------------------
LEMMA FirstState ==
  /\ Empty \in ContractStates /\ ContractKept(Empty)
  /\ OneBounty \in ContractStates /\ ContractKept(OneBounty)
  /\ DOMAIN Empty.bounties = {} /\ DOMAIN OneBounty.bounties = {1}
  /\ OneBounty.bounties[1] = [proposal |-> 1, times |-> Times]
  /\ Empty.claims = {} /\ OneBounty.claims = {}
<1> DEFINE p == [kind |-> "addBounty", bounty |-> 0, by |-> Nothing, open |-> FALSE]
           b == [proposal |-> 1, times |-> Times]
           Added == [proposal : Nat, times : Int]
<1>1. p \in ProposalRecords /\ b \in Added
  BY BountyAssumption DEF ProposalRecords, ProposalKinds
<1>2. p.kind = "addBounty" /\ p.bounty = 0 /\ ~p.open /\ b.proposal = 1
  OBVIOUS
<1> HIDE DEF p, b, Added
<1>3. <<p>> \in Seq(ProposalRecords) /\ <<b>> \in Seq(Added) /\ <<>> \in Seq(Added)
      /\ <<>> \in Seq(ProposalRecords)
  BY <1>1
<1>4. {} \in SUBSET Claims /\ IsFiniteSet({})
  BY FS_EmptySet
<1>5. OneBounty = [proposals |-> <<p>>, bounties |-> <<b>>, claims |-> {}]
  BY DEF OneBounty, p, b
<1>6. Empty = [proposals |-> <<>>, bounties |-> <<>>, claims |-> {}]
  BY DEF Empty
<1>7. OneBounty \in ContractStates /\ Empty \in ContractStates
  BY <1>3, <1>4, <1>5, <1>6 DEF ContractStates, Added
<1>8. /\ ContractKept(Empty) /\ DOMAIN Empty.bounties = {}
  BY <1>4, <1>6 DEF ContractKept, BountiesKept, ProposalsKept
<1>9. DOMAIN <<p>> = {1} /\ DOMAIN <<b>> = {1} /\ <<p>>[1] = p /\ <<b>>[1] = b
  OBVIOUS
<1>10. ContractKept(OneBounty)
  BY <1>2, <1>4, <1>5, <1>9 DEF ContractKept, BountiesKept, ProposalsKept
<1> QED BY <1>5, <1>6, <1>7, <1>8, <1>9, <1>10 DEF b

LEMMA BountyStarts == BountyInit => BountyInv
<1> SUFFICES ASSUME BountyInit
             PROVE  BountyInv
  OBVIOUS
<1> DEFINE m == bounded.migrated
           s == IF m THEN OneBounty ELSE Empty
           first == Bounty(1, Times, {}, 0)
           one == IF m THEN {1} ELSE {}
           e == Entry("approve", 1, 0, Nothing, 1, s)
           item == [ContextItem EXCEPT !.bounty = first]
<1>1. /\ receipts = <<e>> /\ rows = [b \in one |-> first] /\ mapping = [b \in one |-> 1]
      /\ contexts = [p \in one |-> FALSE] /\ items = [p \in one |-> item]
      /\ at = [w \in BountyWorkers |-> "off"] /\ receipt = [w \in Handlers |-> 0]
      /\ read = [w \in BountyWorkers |-> Nothing]
      /\ done = {1} /\ failed = {} /\ lone = Nothing /\ rested = 0 /\ restarts = 0
      /\ bounded \in BountyScenarios
  BY Zenon DEF BountyInit
<1>2. /\ s \in ContractStates /\ ContractKept(s) /\ s \in {Empty, OneBounty}
      /\ DOMAIN s.bounties = one /\ s.claims = {}
      /\ \A b \in one : s.bounties[b] = [proposal |-> 1, times |-> Times]
  BY FirstState
<1>3. /\ e \in Entries /\ e.state = s /\ e.kind = "approve" /\ e.bounty = 0 /\ e.block = 1
  BY <1>2 DEF Entry, Entries, ReceiptKinds
<1>4. first \in Bounties /\ first.claims = {} /\ first.times = Times /\ first.proposal = 1
  BY BountyAssumption DEF Bounty, Bounties
<1>5. item \in BountyItems /\ item.bounty = first
  BY <1>4 DEF ContextItem, BountyItems
<1> HIDE DEF s, e, item
<1>6. receipts \in Seq(Entries) /\ Len(receipts) = 1 /\ receipts[1] = e /\ DOMAIN receipts = {1}
  BY <1>1, <1>3
<1>7. ReceiptsType
  BY <1>2, <1>3, <1>6 DEF ReceiptsType
<1>8. StoresType
  <2> HIDE DEF first, one
  <2> QED BY <1>1, <1>4, <1>5 DEF StoresType
<1>9. WorkersType
  BY <1>1, <1>6 DEF WorkersType, HandlerType, ManagerType, PollerType, Handlers, BountyWorkers
<1>10. LoneKept
  BY <1>1, BountyAssumption DEF LoneKept, StoresAgreeOnBounty, Handlers, BountyWorkers
<1>11. OnePerBlock
  BY <1>2, <1>3, <1>6 DEF OnePerBlock, OpenKept
<1>12. CalmKept
  <2> SUFFICES ASSUME bounded.perBlock = 1
               PROVE  CalmAt(1)
    BY <1>1, <1>6 DEF CalmKept, Calm, BountyWorkers
  <2>1. \A b : Shown(b, 1) = {}
    <3>1. \A b, i : i \in 1 .. 1 => ~Makes(i, b)
      BY <1>3, <1>6 DEF Makes
    <3> QED BY <1>6, <1>7, <1>11, <3>1, ShownBy
  <2>2. ASSUME NEW b \in one
        PROVE  BountyKept(b, 1)
    <3>1. receipts[1].state.bounties[b] = [proposal |-> 1, times |-> Times] /\ b = 1
      BY <1>2, <1>3, <1>6
    <3>2. rows[b] = first /\ mapping[b] = 1 /\ items[1].bounty = first
      BY <1>1, <1>5, <3>1
    <3> QED BY <1>1, <2>1, <3>1, <3>2, SMTT(30) DEF BountyKept, RightBounty, Bounty
  <2>3. AllKept(1, {})
    BY <1>1, <1>2, <1>3, <1>6, <2>2 DEF AllKept
  <2>4. at["consumer"] = "off" /\ done = 1 .. 1
    BY <1>1 DEF BountyWorkers, Handlers
  <2> QED BY <2>3, <2>4 DEF CalmAt
<1> QED BY <1>7, <1>8, <1>9, <1>10, <1>11, <1>12 DEF BountyInv

LEMMA BountyStutters == BountyInv /\ UNCHANGED bountyVars => BountyInv'
<1> SUFFICES ASSUME BountyInv, UNCHANGED bountyVars
             PROVE  BountyInv'
  OBVIOUS
<1>1. /\ receipts' = receipts /\ bounded' = bounded
      /\ UNCHANGED <<rows, contexts, items, mapping, at, receipt, read>>
      /\ UNCHANGED <<done, failed, lone, rested, restarts>>
  BY Zenon DEF bountyVars, onChain, stored, working, limits
<1>2. /\ ReceiptsType /\ StoresType /\ WorkersType /\ LoneKept /\ OnePerBlock /\ CalmKept
  BY DEF BountyInv
<1>3. ReceiptsType' /\ StoresType'
  BY <1>1, <1>2 DEF ReceiptsType, StoresType
<1>4. WorkersType'
  <2>1. OnlyMoves("nobody")
    BY <1>1, <1>2 DEF OnlyMoves, WorkersType
  <2> QED BY <1>1, <1>2, <2>1, SameReceipts, OthersType DEF WorkersType, Handlers
<1>5. LoneKept'
  <2>1. \A w : SavedAlone(w)' <=> SavedAlone(w)
    BY <1>1 DEF SavedAlone, Handled
  <2>2. StoresAgreeOnBounty' <=> StoresAgreeOnBounty
    BY <1>1 DEF StoresAgreeOnBounty, IsStored, HasItem, ItemOf
  <2> QED BY <1>1, <1>2, <2>1, <2>2 DEF LoneKept
<1>6. OnePerBlock'
  BY <1>1, <1>2 DEF OnePerBlock, OpenKept, Makes
<1>7. CalmKept'
  <2>1. ASSUME NEW m \in DOMAIN receipts, NEW but, AllKept(m, but)
        PROVE  AllKept(m, but)'
    BY <1>1, <1>2, <2>1, SameReceipts, ItemsFrame
  <2>2. ASSUME NEW m \in DOMAIN receipts, CalmAt(m)
        PROVE  CalmAt(m)'
    BY <1>1, <1>2, <2>2, SameReceipts, CalmFrame
  <2> QED BY <1>1, <1>2, <2>2 DEF CalmKept, Calm
<1> QED BY <1>3, <1>4, <1>5, <1>6, <1>7 DEF BountyInv

\* Whatever handlers, managers and polls have done to the bounties, the records
\* keep their types, an approved bounty has a proposal of its own, and a worker
\* that nobody overlaps knows what it has saved.
THEOREM BountyInvariant == BountySpec => []BountyInv
<1>1. BountyInit => BountyInv
  BY BountyStarts
<1>2. BountyInv /\ [BountyNext]_bountyVars => BountyInv'
  <2> SUFFICES ASSUME BountyInv, [BountyNext]_bountyVars
               PROVE  BountyInv'
    OBVIOUS
  <2>1. CASE UNCHANGED bountyVars
    BY <2>1, BountyStutters
  <2>2. CASE BountyNext
    <3>1. /\ ReceiptsType /\ StoresType /\ WorkersType /\ LoneKept /\ OnePerBlock /\ CalmKept
      BY DEF BountyInv
    <3>2. LoneKept' /\ CalmKept'
      BY <2>2, <3>1, LoneNext, CalmNext
    <3>3. CASE CloseBlock
      <4>1. ReceiptsType' /\ OnePerBlock' /\ Extends(receipts, receipts')
        BY <3>1, <3>3, BlockCloses DEF WorkersType
      <4>2. /\ UNCHANGED <<rows, contexts, items, mapping, at, receipt, read, done, rested>>
            /\ bounded' = bounded /\ restarts' = restarts
        BY <3>3, Zenon DEF CloseBlock, stored, working, limits
      <4>3. StoresType'
        BY <3>1, <4>2 DEF StoresType
      <4>4. OnlyMoves("nobody")
        BY <3>1, <4>2 DEF OnlyMoves, WorkersType
      <4>5. /\ done' \subseteq DOMAIN receipts' /\ 1 \in done'
            /\ rested' \in DOMAIN receipts' \cup {0}
        BY <3>1, <4>1, <4>2 DEF WorkersType, Extends
      <4>6. WorkersType'
        BY <3>1, <4>1, <4>2, <4>4, <4>5, OthersType DEF WorkersType, Handlers
      <4> QED BY <3>2, <4>1, <4>3, <4>6 DEF BountyInv
    <3>4. ASSUME ~CloseBlock
          PROVE  receipts' = receipts /\ bounded' = bounded
      BY <2>2, <3>4, Zenon DEF BountyNext, StartHandler, Handler, SaveContextItem,
         SaveContextRow, ArchiveItem, RemoveContextRow, FindDone, SaveDone, FindBounty,
         SaveItem, SaveMapping, SaveRow, CrashConsumer, QueryItems, PutItems, UpdateContexts,
         LoadBounties, SaveBounties, limits, onChain
    <3>5. ASSUME ~CloseBlock
          PROVE  ReceiptsType' /\ OnePerBlock'
      BY <3>1, <3>4, <3>5 DEF ReceiptsType, OnePerBlock, OpenKept, Makes
    <3>6. ASSUME ~CloseBlock
          PROVE  StoresType' /\ WorkersType'
      BY <2>2, <3>1, <3>6, HandlerTyped, StartsTyped, CrashTyped, ManagerTyped, PollerTyped
         DEF BountyNext
    <3> QED BY <3>2, <3>3, <3>5, <3>6 DEF BountyInv
  <2> QED BY <2>1, <2>2
<1> QED BY <1>1, <1>2, PTL DEF BountySpec

\* A handler that no other worker overlapped leaves row and item of its bounty
\* the same, whatever crashes, stale writes or polls had done to them.
THEOREM BountiesAlwaysAgree == BountySpec => []StoresAgreeOnBounty
<1>1. BountyInv => StoresAgreeOnBounty
  BY DEF BountyInv, LoneKept
<1> QED BY <1>1, BountyInvariant, PTL

\* The consumer alone stores exactly the claims made and not given up, for every
\* number of accounts, bounties and receipts.
THEOREM ClaimsAlwaysExact == BountySpec => []ClaimsExact
<1>1. BountyInv => ClaimsExact
  <2> SUFFICES ASSUME BountyInv, Calm, at["consumer"] = "off", failed = {}
               PROVE  LET last == Cardinality(done)
                      IN  \A b \in DOMAIN receipts[last].state.bounties :
                            /\ b \in DOMAIN rows
                            /\ rows[b].claims = Shown(b, last)
                            /\ rows[b].times = receipts[last].state.bounties[b].times
    BY DEF ClaimsExact, Calm
  <2>1. PICK m \in DOMAIN receipts : done = 1 .. m /\ AllKept(m, {})
    BY DEF BountyInv, CalmKept, CalmAt
  <2>2. m \in Nat
    BY EntryType DEF BountyInv
  <2>3. Cardinality(done) = m
    BY <2>1, <2>2, FS_Interval
  <2>4. \A b \in DOMAIN receipts[m].state.bounties :
          /\ b \in DOMAIN rows
          /\ rows[b].claims = Shown(b, m)
          /\ rows[b].times = receipts[m].state.bounties[b].times
    <3> SUFFICES ASSUME NEW b \in DOMAIN receipts[m].state.bounties
                 PROVE  /\ b \in DOMAIN rows
                        /\ rows[b].claims = Shown(b, m)
                        /\ rows[b].times = receipts[m].state.bounties[b].times
      OBVIOUS
    <3>1. b \in DOMAIN rows /\ RightBounty(rows[b], b, m)
      BY <2>1 DEF AllKept, BountyKept
    <3>2. \A p, t, cs, n : /\ Bounty(p, t, cs, n).times = t
                           /\ Bounty(p, t, cs, n).claims = cs
      BY DEF Bounty
    <3>3. PICK n : rows[b] = Bounty(receipts[m].state.bounties[b].proposal,
                                    receipts[m].state.bounties[b].times, Shown(b, m), n)
      BY <3>1 DEF RightBounty
    <3> QED BY <3>1, <3>2, <3>3
  <2> QED BY <2>3, <2>4, Zenon
<1> QED BY <1>1, BountyInvariant, PTL
=============================================================================

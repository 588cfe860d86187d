---------------------------- MODULE BountyRecords ----------------------------
(***************************************************************************)
(* The bounties of one DAO.  A proposal adds a bounty; once it is approved *)
(* the contract gives the bounty an id of its own.  Accounts claim it and  *)
(* give claims up; a proposal that one of them is done pays the claim.     *)
(*                                                                         *)
(* PostgreSQL keeps a row for the bounty under its id and a context under  *)
(* the id of the proposal.  DynamoDB keeps one item under the id of the    *)
(* proposal, and a mapping from the id of the bounty to it.  Handlers read *)
(* the bounty in the store of the feature flag, load the claims of the     *)
(* signer at the block of the receipt, and save the whole bounty to both.  *)
(*                                                                         *)
(* The consumer handles receipts in order and repeats one after a crash;   *)
(* the wallet callback handles one it is asked to; managers archive        *)
(* contexts; the aggregator writes what the chain says to PostgreSQL.      *)
(***************************************************************************)
EXTENDS Integers, Sequences, FiniteSets, StoreWrites

CONSTANTS
  Claimers,        \* accounts that claim bounties
  MaxProposals,    \* bound: proposals of the DAO
  Times,           \* how often a bounty may be done
  Nothing,         \* no account, proposal or worker
  BountyScenarios  \* bounds: what happens at most in one behaviour

ProposalIds == 1 .. MaxProposals
BountyIds == ProposalIds      \* both are written <dao>-<number>
Handlers == {"consumer", "callback"}
BountyWorkers == Handlers \cup {"manager", "poller"}
ReceiptKinds == {"addBounty", "addDone", "approve", "remove", "claim", "giveup"}

ASSUME BountyAssumption ==
  /\ MaxProposals \in Nat \ {0} /\ Times \in Nat \ {0}
  /\ Nothing \notin BountyWorkers
  /\ BountyScenarios \subseteq
       [bountyDynamo : BOOLEAN,   \* the feature flag of that name
        migrated : BOOLEAN,       \* whether a bounty is stored at first
        kinds : SUBSET ReceiptKinds,
        receipts : Nat,
        perBlock : 1 .. 2,        \* receipts of the DAO in one block
        others : SUBSET {"callback", "manager", "poller"},
        restarts : Nat]           \* crashes of the consumer

VARIABLES
  receipts,   \* the receipts, each with the state its block leaves
  rows, contexts,      \* PostgreSQL
  items, mapping,      \* DynamoDB
  at,         \* what each worker does next
  receipt,    \* the receipt a handler handles
  read,       \* what a worker has read
  done,       \* the receipts that are marked as handled
  failed,     \* the receipts whose handler failed
  lone, rested,        \* history: the worker no other has overlapped, and the
                       \* receipt whose handler ran alone and last, or 0
  bounded,    \* the scenario
  restarts

onChain == receipts
stored == <<rows, contexts, items, mapping>>
working == <<at, receipt, read, done, failed, lone, rested>>
limits == <<bounded, restarts>>
bountyVars == <<onChain, stored, working, limits>>

-----------------------------------------------------------------------------
(* The contract                                                            *)

\* A claim is known by the block it was made in: buildBountyClaimId takes the
\* DAO, the bounty and the start time, and not the account.
Claim(b, u, block) == [bounty |-> b, by |-> u, start |-> block]

Empty == [proposals |-> <<>>, bounties |-> <<>>, claims |-> {}]

OneBounty ==
  [proposals |-> <<[kind |-> "addBounty", bounty |-> 0, by |-> Nothing, open |-> FALSE]>>,
   bounties |-> <<[proposal |-> 1, times |-> Times]>>, claims |-> {}]

ChainNow == receipts[Len(receipts)].state
Height == receipts[Len(receipts)].block

NumberOfClaims(s, b) == Cardinality({c \in s.claims : c.bounty = b})
ClaimsOf(s, b, u) == {c \in s.claims : c.bounty = b /\ c.by = u}

Propose(s, kind, b, u) ==
  [s EXCEPT !.proposals =
     Append(@, [kind |-> kind, bounty |-> b, by |-> u, open |-> TRUE])]

Closed(s, p) ==
  LET closed == [s.proposals[p] EXCEPT !.open = FALSE]
  IN  [s EXCEPT !.proposals = [@ EXCEPT ![p] = closed]]

\* An approved proposal adds its bounty, or pays the claim of its receiver.
Approved(s, p) ==
  LET proposal == s.proposals[p]
      paid == [s.bounties[proposal.bounty] EXCEPT !.times = @ - 1]
  IN  IF proposal.kind = "addBounty"
      THEN [Closed(s, p) EXCEPT !.bounties = Append(@, [proposal |-> p, times |-> Times])]
      ELSE [Closed(s, p) EXCEPT
              !.bounties = [@ EXCEPT ![proposal.bounty] = paid],
              !.claims = @ \ {CHOOSE c \in ClaimsOf(s, proposal.bounty, proposal.by) :
                                TRUE}]

Entry(kind, p, b, u, block, s) ==
  [kind |-> kind, proposal |-> p, bounty |-> b, by |-> u, block |-> block, state |-> s]

\* The calls state s accepts in a block.  An account has one open claim of a
\* bounty at most.
Calls(s, block) ==
  LET n == Len(s.proposals)
      Bs == DOMAIN s.bounties
      Open(p) == s.proposals[p].open
      Payable(p) == s.proposals[p].kind = "addDone" =>
                      ClaimsOf(s, s.proposals[p].bounty, s.proposals[p].by) # {}
      Free == {f \in Bs \X Claimers : /\ NumberOfClaims(s, f[1]) < s.bounties[f[1]].times
                                      /\ ClaimsOf(s, f[1], f[2]) = {}}
  IN  {e \in
        {Entry("addBounty", n + 1, 0, Nothing, block, Propose(s, "addBounty", 0, Nothing))}
        \cup {Entry("addDone", n + 1, b, u, block, Propose(s, "addDone", b, u)) :
                b \in Bs, u \in {c.by : c \in s.claims}}
        \cup {Entry("approve", p, s.proposals[p].bounty, s.proposals[p].by, block,
                    Approved(s, p)) : p \in {q \in 1 .. n : Open(q) /\ Payable(q)}}
        \cup {Entry("remove", p, s.proposals[p].bounty, s.proposals[p].by, block,
                    Closed(s, p)) : p \in {q \in 1 .. n : Open(q)}}
        \cup {Entry("claim", 0, f[1], f[2], block,
                    [s EXCEPT !.claims = @ \cup {Claim(f[1], f[2], block)}]) : f \in Free}
        \cup {Entry("giveup", 0, c.bounty, c.by, block, [s EXCEPT !.claims = @ \ {c}]) :
                c \in s.claims} :
       /\ e.kind \in bounded.kinds
       /\ e.proposal <= MaxProposals}

\* A block closes, with a receipt or two: a handler asks for the state at its end.
CloseBlock ==
  /\ \E e \in Calls(ChainNow, Height + 1) :
       \/ /\ Len(receipts) + 1 <= bounded.receipts
          /\ receipts' = Append(receipts, e)
       \/ /\ bounded.perBlock = 2 /\ Len(receipts) + 2 <= bounded.receipts
          /\ \E f \in Calls(e.state, Height + 1) :
               receipts' = Append(Append(receipts, [e EXCEPT !.state = f.state]), f)
  /\ UNCHANGED <<stored, working, limits>>

-----------------------------------------------------------------------------
(* Rows and items                                                          *)

\* What the columns of a bounty hold; `proposal` is Nothing in a row that the
\* aggregator has created.
Bounty(p, times, claims, count) ==
  [proposal |-> p, times |-> times, claims |-> claims, count |-> count]

NoBounty == Bounty(Nothing, 0, {}, 0)

\* The item of a context holds no bounty yet.
ContextItem == [bounty |-> NoBounty, done |-> {}, archived |-> FALSE]

\* bountyContextService.create
WithContext(p) ==
  IF p \in DOMAIN items THEN items ELSE Upsert(items, p, ContextItem)

\* The proposals the item of p lists as done.
DoneOf(p) == IF p \in DOMAIN items THEN items[p].done ELSE {}

\* Mutant: the claims of the item are kept.
WithMoreClaims(p, bounty, listed) ==
  Upsert(items, p,
    [bounty |-> IF p \in DOMAIN items
                THEN [bounty EXCEPT !.claims = @ \cup items[p].bounty.claims] ELSE bounty,
     archived |-> FALSE, done |-> DoneOf(p)])

\* mapBountyDtoToBountyModel: the flag is cleared, the list of done proposals
\* is left alone unless the bounty was read in DynamoDB.
WithBounty(p, bounty, listed) ==
  Upsert(items, p, [bounty |-> bounty, archived |-> FALSE,
                    done |-> IF listed # Nothing THEN listed ELSE DoneOf(p)])

\* getByBountyId
HasItem(b) == b \in DOMAIN mapping /\ mapping[b] \in DOMAIN items
ItemOf(b) == items[mapping[b]]

\* findById: what a handler reads of bounty b.
IsStored(b) == IF bounded.bountyDynamo THEN HasItem(b) ELSE b \in DOMAIN rows

FoundBounty(b) ==
  IF bounded.bountyDynamo
  THEN [bounty |-> ItemOf(b).bounty, listed |-> ItemOf(b).done]
  ELSE [bounty |-> rows[b], listed |-> Nothing]

\* arrayUniqueBy keeps the first claim of an id, which is the stored one.
Merged(old, new) == old \cup {c \in new : \A d \in old : d.start # c.start}

\* Mutant: the first claim of the account.
FirstClaims(claims, u, block) ==
  {c \in claims : /\ c.by = u /\ c.start < block
                  /\ \A d \in claims : d.by = u => d.start >= c.start}

\* findLastClaim: of the account, before the block.
LastClaims(claims, u, block) ==
  {c \in claims : /\ c.by = u /\ c.start < block
                  /\ \A d \in claims : d.by = u /\ d.start < block => d.start <= c.start}

\* castClaimBounty: the number of claims is loaded, `times` stays as it was read.
Claimed(bounty, r) ==
  LET loaded == ClaimsOf(r.state, r.bounty, r.by)
      dropped == IF r.kind = "giveup" THEN LastClaims(bounty.claims, r.by, r.block) ELSE {}
      ids == {c.start : c \in dropped}
  IN  Bounty(bounty.proposal, bounty.times,
             {c \in Merged(bounty.claims, loaded) : c.start \notin ids},
             NumberOfClaims(r.state, r.bounty))

\* castDoneBounty: `times` is loaded as well.
Paid(bounty, r) ==
  Bounty(bounty.proposal, r.state.bounties[r.bounty].times,
         Merged(bounty.claims, ClaimsOf(r.state, r.bounty, r.by)),
         NumberOfClaims(r.state, r.bounty))

\* findLastBounty: the last bounty with the data of the proposal.  All bounties
\* of the model have the same data, but for the times left.
LastBounty(s) ==
  LET same == {b \in DOMAIN s.bounties : s.bounties[b].times = Times}
  IN  IF same = {} THEN 0 ELSE CHOOSE b \in same : \A c \in same : c <= b

-----------------------------------------------------------------------------
(* Bookkeeping                                                             *)

IsAt(w, label) == at[w] = label
Goes(w, label) == at' = [at EXCEPT ![w] = label] /\ UNCHANGED <<lone, rested>>

Starts(w, label) ==
  /\ at[w] = "off"
  /\ at' = [at EXCEPT ![w] = label]
  /\ lone' = IF \A u \in BountyWorkers : at[u] = "off" THEN w ELSE Nothing
  /\ rested' = 0

Stops(w, wasDone) ==
  /\ at' = [at EXCEPT ![w] = "off"]
  /\ read' = [read EXCEPT ![w] = Nothing]
  /\ lone' = IF lone = w THEN Nothing ELSE lone
  /\ IF w \in Handlers
     THEN /\ receipt' = [receipt EXCEPT ![w] = 0]
          /\ done' = IF wasDone THEN done \cup {receipt[w]} ELSE done
          /\ failed' = IF wasDone THEN failed \ {receipt[w]}
                       ELSE failed \cup {receipt[w]}
          /\ rested' = IF wasDone /\ lone = w THEN receipt[w] ELSE 0
     ELSE UNCHANGED <<receipt, done, failed, rested>>

Handled(w) == receipts[receipt[w]]

BountyInit ==
  /\ bounded \in BountyScenarios
  /\ LET m == bounded.migrated
         first == Bounty(1, Times, {}, 0)
         one == IF m THEN {1} ELSE {}
     IN  /\ receipts = <<Entry("approve", 1, 0, Nothing, 1, IF m THEN OneBounty ELSE Empty)>>
         /\ rows = [b \in one |-> first]
         /\ contexts = [p \in one |-> FALSE]
         /\ items = [p \in one |-> [ContextItem EXCEPT !.bounty = first]]
         /\ mapping = [b \in one |-> 1]
  /\ at = [w \in BountyWorkers |-> "off"]
  /\ receipt = [w \in Handlers |-> 0]
  /\ read = [w \in BountyWorkers |-> Nothing]
  /\ done = {1} /\ failed = {} /\ lone = Nothing /\ rested = 0
  /\ restarts = 0

-----------------------------------------------------------------------------
(* Handlers                                                                *)

IsAddition(r) == r.kind = "approve" /\ r.state.proposals[r.proposal].kind = "addBounty"
IsRemoval(r) == r.kind = "remove" /\ r.state.proposals[r.proposal].kind = "addBounty"

FirstStep(r) ==
  IF r.kind = "addBounty" THEN "contextItem"
  ELSE IF r.kind = "addDone" THEN "findDone"
  ELSE IF IsRemoval(r) THEN "archive"
  ELSE "find"

\* The consumer takes the next receipt that is not marked or failed; the wallet
\* callback takes any that is not marked.
StartHandler(w) ==
  /\ w = "callback" => "callback" \in bounded.others
  /\ \E k \in DOMAIN receipts \ done :
       /\ w = "consumer" => k \notin failed /\ \A j \in 1 .. k - 1 : j \in done \cup failed
       /\ Starts(w, FirstStep(receipts[k]))
       /\ receipt' = [receipt EXCEPT ![w] = k]
  /\ UNCHANGED <<onChain, stored, read, done, failed, limits>>

SaveContextItem(w) ==
  /\ IsAt(w, "contextItem")
  /\ items' = WithContext(Handled(w).proposal)
  /\ Goes(w, "contextRow")
  /\ UNCHANGED <<onChain, rows, contexts, mapping, receipt, read, done, failed, limits>>

SaveContextRow(w) ==
  /\ IsAt(w, "contextRow")
  /\ contexts' = IF Handled(w).proposal \in DOMAIN contexts THEN contexts
                 ELSE Upsert(contexts, Handled(w).proposal, FALSE)
  /\ Stops(w, TRUE)
  /\ UNCHANGED <<onChain, rows, items, mapping, limits>>

\* bountyContextService.remove
ArchiveItem(w) ==
  /\ IsAt(w, "archive")
  /\ LET p == Handled(w).proposal
     IN  items' = Upsert(items, p, [(IF p \in DOMAIN items THEN items[p] ELSE ContextItem)
                                      EXCEPT !.archived = TRUE])
  /\ Goes(w, "removeRow")
  /\ UNCHANGED <<onChain, rows, contexts, mapping, receipt, read, done, failed, limits>>

RemoveContextRow(w) ==
  /\ IsAt(w, "removeRow")
  /\ contexts' = [p \in DOMAIN contexts \ {Handled(w).proposal} |-> contexts[p]]
  /\ Stops(w, TRUE)
  /\ UNCHANGED <<onChain, rows, items, mapping, limits>>

\* addBountyDoneProposalId reads the item and writes all of it back; it throws
\* when there is none.
FindDone(w) ==
  LET b == Handled(w).bounty
  IN  /\ IsAt(w, "findDone")
      /\ IF ~HasItem(b) THEN Stops(w, FALSE)
         ELSE IF Handled(w).proposal \in ItemOf(b).done THEN Stops(w, TRUE)
         ELSE /\ read' = [read EXCEPT ![w] = [place |-> mapping[b], item |-> ItemOf(b)]]
              /\ Goes(w, "saveDone")
              /\ UNCHANGED <<receipt, done, failed>>
      /\ UNCHANGED <<onChain, stored, limits>>

SaveDone(w) ==
  /\ IsAt(w, "saveDone")
  /\ items' = Upsert(items, read[w].place,
                     [read[w].item EXCEPT !.done = @ \cup {Handled(w).proposal}])
  /\ Stops(w, TRUE)
  /\ UNCHANGED <<onChain, rows, contexts, mapping, limits>>

\* What the handler saves of the bounty it has found.
ToSave(r, found) ==
  [bounty |-> IF r.kind \in {"claim", "giveup"} THEN Claimed(found.bounty, r)
              ELSE Paid(found.bounty, r),
   listed |-> IF r.kind \in {"claim", "giveup"} THEN Nothing ELSE found.listed]

\* The bounty a receipt is about: an approved one is looked for by its data.
Subject(r) == IF IsAddition(r) THEN LastBounty(r.state) ELSE r.bounty

\* A bounty that is not stored is skipped, except when it is to be added; one that
\* was added is indexed from its row, and throws when it has none.  The number of
\* the proposal is parsed from the row, and throws when it has none.
FindBounty(w) ==
  LET r == Handled(w)
      saves == IF IsAddition(r)
               THEN [bounty |-> Bounty(r.proposal, Times, {}, 0), listed |-> Nothing]
               ELSE ToSave(r, FoundBounty(Subject(r)))
  IN  /\ IsAt(w, "find")
      /\ IF Subject(r) = 0 THEN Stops(w, TRUE)
         ELSE IF IsStored(Subject(r)) <=> IsAddition(r)
           THEN Stops(w, IsAddition(r) => Subject(r) \in DOMAIN rows)
         ELSE IF saves.bounty.proposal = Nothing THEN Stops(w, FALSE)
         ELSE /\ read' = [read EXCEPT ![w] = saves]
              /\ Goes(w, "saveItem")
              /\ UNCHANGED <<receipt, done, failed>>
      /\ UNCHANGED <<onChain, stored, limits>>

\* bountyService.create
SaveItem(w) ==
  /\ IsAt(w, "saveItem")
  /\ items' = WithBounty(read[w].bounty.proposal, read[w].bounty, read[w].listed)
  /\ Goes(w, "saveMapping")
  /\ UNCHANGED <<onChain, rows, contexts, mapping, receipt, read, done, failed, limits>>

SaveMapping(w) ==
  /\ IsAt(w, "saveMapping")
  /\ mapping' = Upsert(mapping, Subject(Handled(w)), read[w].bounty.proposal)
  /\ Goes(w, "saveRow")
  /\ UNCHANGED <<onChain, rows, contexts, items, receipt, read, done, failed, limits>>

\* The claims of the row are replaced by those that are saved.
SaveRow(w) ==
  /\ IsAt(w, "saveRow")
  /\ rows' = Upsert(rows, Subject(Handled(w)), read[w].bounty)
  /\ Stops(w, TRUE)
  /\ UNCHANGED <<onChain, contexts, items, mapping, limits>>

CrashConsumer ==
  /\ restarts < bounded.restarts
  /\ at["consumer"] # "off"
  /\ restarts' = restarts + 1
  /\ at' = [at EXCEPT !["consumer"] = "off"]
  /\ read' = [read EXCEPT !["consumer"] = Nothing]
  /\ receipt' = [receipt EXCEPT !["consumer"] = 0]
  /\ lone' = IF lone = "consumer" THEN Nothing ELSE lone
  /\ UNCHANGED <<onChain, stored, done, failed, rested, bounded>>

-----------------------------------------------------------------------------
(* updateMany of apps/api, for the context of one proposal                 *)

\* The filter compares the ids asked for, which are those of proposals, with
\* the ids of the items, which are those of bounties.
QueryItems ==
  /\ "manager" \in bounded.others
  /\ Starts("manager", "putItems")
  /\ \E p \in DOMAIN contexts, flag \in BOOLEAN :
       read' = [read EXCEPT !["manager"] =
         [proposal |-> p, archived |-> flag,
          items |-> IF HasItem(p) /\ ItemOf(p).bounty # NoBounty
                    THEN [q \in {mapping[p]} |-> items[q]] ELSE <<>>]]
  /\ UNCHANGED <<onChain, stored, receipt, done, failed, limits>>

PutItems ==
  LET asked == read["manager"]
  IN  /\ IsAt("manager", "putItems")
      /\ items' = Over(items, [p \in DOMAIN asked.items |->
                                 [asked.items[p] EXCEPT !.archived = asked.archived]])
      /\ Goes("manager", "updateRows")
      /\ UNCHANGED <<onChain, rows, contexts, mapping, receipt, read, done, failed, limits>>

UpdateContexts ==
  LET asked == read["manager"]
  IN  /\ IsAt("manager", "updateRows")
      /\ contexts' = [contexts EXCEPT ![asked.proposal] = asked.archived]
      /\ Stops("manager", TRUE)
      /\ UNCHANGED <<onChain, rows, items, mapping, limits>>

-----------------------------------------------------------------------------
(* aggregateBountiesByDao                                                  *)

\* The bounties and claims of the moment, and the rows as they are.
LoadBounties ==
  /\ "poller" \in bounded.others
  /\ Starts("poller", "saveBounties")
  /\ read' = [read EXCEPT !["poller"] = [state |-> ChainNow, rows |-> rows]]
  /\ UNCHANGED <<onChain, stored, receipt, done, failed, limits>>

\* castBounty: claims are added to those of the row; a new row has no proposal.
Aggregated(old, s, b) ==
  LET known == IF b \in DOMAIN old THEN old[b] ELSE NoBounty
  IN  Bounty(known.proposal, s.bounties[b].times,
             Merged(known.claims, {c \in s.claims : c.bounty = b}), NumberOfClaims(s, b))

SaveBounties ==
  LET got == read["poller"]
      ProposalOf(b) == IF b \in DOMAIN rows THEN rows[b].proposal ELSE Nothing
  IN  /\ IsAt("poller", "saveBounties")
      /\ rows' = Over(rows, [b \in DOMAIN got.state.bounties |->
                               [Aggregated(got.rows, got.state, b) EXCEPT
                                  !.proposal = ProposalOf(b)]])
      /\ Stops("poller", TRUE)
      /\ UNCHANGED <<onChain, contexts, items, mapping, limits>>

-----------------------------------------------------------------------------
Handler(w) ==
  \/ SaveContextItem(w) \/ SaveContextRow(w)
  \/ ArchiveItem(w) \/ RemoveContextRow(w)
  \/ FindDone(w) \/ SaveDone(w)
  \/ FindBounty(w) \/ SaveItem(w) \/ SaveMapping(w) \/ SaveRow(w)

BountyNext ==
  \/ CloseBlock
  \/ \E w \in Handlers : StartHandler(w) \/ Handler(w)
  \/ CrashConsumer
  \/ QueryItems \/ PutItems \/ UpdateContexts
  \/ LoadBounties \/ SaveBounties

BountySpec == BountyInit /\ [][BountyNext]_bountyVars

-----------------------------------------------------------------------------
(* Properties                                                              *)

\* A handler that no other worker overlapped leaves row and item of its bounty
\* with the same claims, number of claims and times, whatever crashes, stale
\* writes or polls had done to them (bounty.service.ts:37).
StoresAgreeOnBounty ==
  rested # 0 /\ receipts[rested].kind \in {"approve", "claim", "giveup"}
             /\ ~IsAddition(receipts[rested]) =>
    LET b == Subject(receipts[rested])
    IN  b # 0 /\ IsStored(b) =>
          b \in DOMAIN rows /\ HasItem(b) /\ ItemOf(b).bounty = rows[b]

\* The claims a bounty should show: all that were made, but for those given up.
\* A claim that was paid stays.
Shown(b, last) ==
  LET of == {k \in 1 .. last : receipts[k].bounty = b}
      made == {Claim(b, receipts[k].by, receipts[k].block) :
                 k \in {k \in of : receipts[k].kind = "claim"}}
      given == {c \in made : \E k \in of :
                  /\ receipts[k].kind = "giveup" /\ receipts[k].by = c.by
                  /\ receipts[k].block > c.start
                  /\ \A d \in made : d.by = c.by /\ d.start < receipts[k].block
                                       => d.start <= c.start}
  IN  made \ given

\* With the consumer alone, never interrupted, and one receipt in each block,
\* the claims that are stored are exactly those made and not given up, with the
\* times that are left: a payment removes none, a claim given up is the last one
\* of the account (transaction-action-handler.service.ts:1007).
ClaimsExact ==
  LET calm == bounded.perBlock = 1 /\ bounded.others = {} /\ restarts = 0
      last == Cardinality(done)
  IN  calm /\ at["consumer"] = "off" /\ failed = {} =>
        \A b \in DOMAIN receipts[last].state.bounties :
          /\ b \in DOMAIN rows
          /\ rows[b].claims = Shown(b, last)
          /\ rows[b].times = receipts[last].state.bounties[b].times
=============================================================================

# Greenfield challenger: TLA+ models and proofs

The challenger watches the Greenfield chain for challenges of storage providers,
verifies the challenged data, votes, collects the votes of the other challengers
and attests the result on the chain. It is one Go process: `App.Start`
(`app/app.go`) runs ten goroutines that share a MySQL database and an executor
with cached chain values. Nothing but the `status` column of a row hands an event
from one goroutine to the next.

## Inventory

| component | state | operations | talks to |
|---|---|---|---|
| tables and DAOs (`db/`) | `blocks`, `events` (status, verify result), `votes` | inserts, selects by status and hash, blind updates; two transactions | all goroutines |
| executor (`executor/executor.go`) | cached height, validators, heartbeat interval | refresh loops, remote queries | chain, vote pool, storage providers |
| client selection (`executor/client.go`) | height per RPC client | pick the highest client | executor |
| monitor (`monitor/`) | none between polls | poll the next block, save it with its events | chain, tables |
| verifier (`verifier/`) | LRU of ids, deduplication interval, a shared `err` | fetch, one goroutine per event, retries, update | chain, storage provider, tables |
| vote broadcaster (`vote/vote_broadcaster.go`) | LRU of own votes | sign, save, send | tables, vote pool |
| vote collector (`vote/vote_collector.go`) | none between passes | query the pool, validate, save | vote pool, tables |
| vote collator (`vote/vote_collator.go`) | none between passes | count votes, update | tables |
| tx submitter (`submitter/`) | LRU of event hashes, end of our turn, attempts | wait for the turn, aggregate, submit, update | chain, tables |
| attest monitor (`attest/`) | known ids, query count | query attested ids, one goroutine per id, update | chain, tables |
| wiper, metrics, alert, config, logging, main | - | start-up and reporting | - |

What is hard here: the goroutines work on rows they fetched earlier and write
without a condition; database writes can fail or be committed although they report
an error; the process can stop at any step and only the tables survive; the
verifier's `err` is shared between goroutines without a lock; caches (heights,
validators, the heartbeat interval, event hashes, own votes) are stale when used; the
validator set and our turn to submit change under the goroutines; every remote call
first chooses a node by heights that concurrent calls write without a lock.

What makes the parts correct: the monitor skips no block (`NoGap`,
`NoMissedEvent`); a result is written once (`ResultIsFinal`) and we vote for no
other (`NoEquivocation`, `SavedBeforeBroadcast`); one goroutine at a time holds an
event (`OneStageAtATime`, `StatusAdvances`, `RowsAreHashable`); saved votes are
genuine (`SavedVotesAreGenuine`) and enough is more than two thirds
(`EnoughIsTwoThirds`); an attestation signs the row's result and passes the chain's
check (`AttestationsSignResult`, `AttestationsPassCheck`); attest marks are true
(`AttestedIsTruthful`) and are set in the end (`AttestedIsMarked`); and blocks, events
and votes get through (`EveryBlockIsSaved`, `EveryEventIsProcessed`, `HeartbeatIsVoted`,
`SavedVoteIsBroadcast`, `MismatchIsSubmitted`). Of the challenges of an object one is not
dismissed as a duplicate (`DuplicateHasOriginal`). A remote call goes to a node that
answers (`ReturnsAnAnsweringClient`, `ReturnsTheHighest`) and is not blocked by those
that do not (`EveryCallReturns`). `PROJECT.json` lists the hazards,
each at its line, with the properties that would catch it.

## Modules

`Tables` is extended by `Executor`, that by `VoteUtil` (the pool and the pure
helpers), and these by one module per goroutine. `Challenger` extends them all,
interleaves their steps, adds crash and restart and the environment, and states
the properties. `Contract` is the abstract specification that `Challenger`
implements. `Clients` stands alone: what the other modules see of it is that
the node that answers may lag. `MCChallenger` and `MCClients` have the values for
TLC. The theorems are in `ChallengerProofs` (types), `SafetyProofs` (extends it: the
safety of the pipeline), `EvidenceProofs` (extends that: votes, attestations, marks,
duplicates), `RefinementProofs` and `QuorumProofs` (each extends `EvidenceProofs`: the
refinement; counting), `ContractProofs` (what the contract implies by itself) and
`ClientsProofs`.

| module | code | state and actions |
|---|---|---|
| `Tables` | `db/dao`, `db/model` | `blocks`, `status`, `verifyResult`, `votes`; one operator per DAO method. Columns that never change are functions of the challenge id. `Outcomes` of a write: `ok`, `fail` (nothing stored), `lost` (stored, error reported). |
| `Executor` | `executor/executor.go` | `height`, `validators`, `heartbeatInterval` and their loops; `chainHeight`, `chainValidators` and `chainHeartbeat` are the chain's. The failure of a remote call is a disjunct under `RpcFaults`. `MaxLag` is how far the answering node may be behind. |
| `VoteUtil` | `vote/util.go`, `vote/vote_signer.go` | hash, signature check, aggregation, the two-thirds test; `pool`. |
| `Monitor` | `monitor/monitor.go` | `nextHeight`; `CalNextHeight`, then `Poll`. `MalformedBlocks` are the blocks with an event that does not parse: a poll of one fails every time. |
| `Verifier` | `verifier/hash_verifier.go` | `verLoop`, `verEvents`, `verCurrent`, `verErr`, per event `verTask` and `verTries`, the cache, the interval; the loop's reads of `err` are separate steps. |
| `Broadcaster` | `vote/vote_broadcaster.go` | `bcEvents`, `bcSending`, `cachedLocalVote`; fetch, vote for one event, send. |
| `Collector` | `vote/vote_collector.go` | `colVotes`, `colValidators`, `colSaving`; query, check one vote, save it. |
| `Collator` | `vote/vote_collator.go` | `clEvents`, `clEnough`; fetch, count for one event, update it. |
| `Submitter` | `submitter/tx_submitter.go` | `subLoop` and the data of the event being submitted; `txs` are the attestations a node has accepted. |
| `AttestMonitor` | `attest/attest_monitor.go` | known ids, `queryCount`, per event `amTask`; query, read a row, update it. |
| `Challenger` | `app/app.go` | `XStep` is goroutine X; `Crash` restarts all but the tables. |
| `Contract` | - | what the process promises: `result`, `saved`, `sent`, `submitted`. |
| `Clients` | `executor/client.go` | per call of `GetClient` its place, its locals and one `getter` per client; the shared `Height`. Reading `c.Height` to compare and reading it again to assign are separate steps. |

Steps. One action is what a goroutine does up to the next point where another can
observe or disturb it: a database statement, a remote call with an effect, a read
of shared memory. The read of the cached height is one step with the query that
uses it, since heights are only compared with expiry. An error path that
changes nothing is a stuttering step and has no action of its own. Sleeps, logging
and metrics are left out.

Data. An event hash is the pair of challenge and result (chain id, object and
addresses are fixed by the challenge). A vote carries the key that really signed
it, an aggregate is the set of keys in it, and the bitset the set of keys it
stands for. The root hash is the storage provider's answer `match`, `mismatch`,
`unreadable` or `error`. LRU caches are sets that evict some entry when full.
A value that may be absent is a set with at most one element.

Definitions commented "Mutation of X" are faulty variants of X that no
specification uses: putting one in X's place must violate the property that
`PROJECT.json` pairs it with.

## Runs

All runs but `clients` use `MCChallenger`, each with the configuration of its name, and
check for deadlock. `Running` selects the goroutines, so that each question gets the faults
and the number of events it needs.

| run | question | bounds |
|---|---|---|
| `deduplication` | is there an original behind a duplicate, and is every event processed? | four events of two objects in two blocks, one with a challenger, interval 0, 1 or 2, a cache of two entries, two goroutines at a time, shared `err`, panics, lost database answers; fair |
| `verifier` | are blocks and events saved without gap, is a result final, do we equivocate; types and retries | heights to 4, lag 1, the last block malformed, two events that expire a block after theirs, one of them a heartbeat, all faults and answers, two attempts, caches of one entry, crashes |
| `pipeline` | one stage at a time; two thirds and the invariant behind it; valid attestations | one event, three validators, disagreeing peers, a forged vote, failing remote calls, crashes |
| `rotation` | are votes genuine and attestations for the right result? | both results, two validator sets that share us, stale caches, a peer that votes for either result, forged votes in its name and ours, a vote of a key that is never a validator |
| `faults` | the inductive invariants; saved before sent; true marks, advancing status; the contract | both results, every fault of database and submission, crashes, other challengers attest, the chain forgets, `queryCount` passes its maximum |
| `liveness` | is a vote sent, a mismatch submitted, and a heartbeat challenge voted for? | one event, either result, two validators, heartbeat interval 1 or 2, rejections, turns that end; fair |
| `recovery` | are all blocks saved in the end, is an attested event marked? | heights to 3, lag 1, the last block malformed, one event, database failures and lost answers, crashes, other challengers attest, the chain forgets, `queryCount` passes its maximum; fair with recovery |
| `clients` | which client does `GetClient` return, and does it return? | two clients, two concurrent callers that call again and again, node heights 0, 1 and 2, timeouts; fair |

Bounds. The status of an event depends on the other events only through the
batches, the caches and deduplication: two events make a batch, a full cache (size 1) and
a duplicate, four make a duplicate of a duplicate and one of another object. Two validators are
the fewest for which our vote alone is not enough. With two, as with three, the code's
`> len * 2 / 3` asks for all but rounds differently (2 * 2 / 3 is 1, 2 * 3 / 3 is exactly 2, so
that `>=` would be wrong); four, where not all are needed, is left to the proofs. Events that
expire a block after theirs, of heights that go further, are new, at the boundary and
expired. In `liveness` the height stays at 1: its properties promise nothing of an event that has
expired, and a height that stays below the expiry is the hard case. The malformed block is
the last one, because the monitor never gets past it. An interval of 0 is what the verifier
has when the first query of it fails.
`MaxSubmitAttempts` is 1 and `MaxQueryCount` 1 instead of 5 and 3000: below, at
and above the limit all occur. `RtyAttemNum` is the code's 2, or 1 where retries
do not matter (the comment at `hash_verifier.go:155` says "up to 5 times"; the constant
is 2). `queryCount` stops counting one above its maximum, where its value
no longer matters. Two clients whose heights may be equal, rise and fall, one of which may have
no block, and two callers, give every order of the writes and reads of a shared height; the proofs cover
larger numbers.

Four runs show a disagreement between the code and what the repository says of
it (`findings` in `PROJECT.json`):

- `validator_change`: the collator counts all saved votes, those of former
  validators too, against two thirds of the current number.
- `nil_dereference`: `err` becomes nil between `if err != nil` and `err.Error()`.
- `duplicate_vote`: if our vote is already in the table (the collector took it from
  the pool, where an earlier deployment or a second instance left it), the
  transaction that sets `SelfVoted` is rolled back every time.
- `unprocessed_duplicate`: an event is dismissed as a duplicate when any row of its object is
  in the interval, also one that nothing has been done for yet, where the comment asks for
  one that "has been processed recently". What does hold is `DuplicateHasOriginal`: behind the
  duplicates is one that is not dismissed.

## The contract

`Contract` leaves out goroutines, statuses, caches, faults and restarts. It has four
variables and five actions: find a result for a challenge, once; save our vote for it;
adopt a vote of an earlier deployment that is in the pool; send a saved vote for a result
that was found; submit a found result we have a saved vote for. `Promise` in `Challenger` is the refinement mapping:
`result` is the column, `saved` and `sent` are the hashes of our votes in table and
pool, `submitted` the challenge and result of the attestations. `KeepsContract` says that
every step of the process is one of these actions or a stutter; the run `faults`
checks it and `Contracted` proves it. It rules out what no single invariant does: a result that is replaced, a
vote that leaves the table, a vote sent and saved in one step, two votes or two
attestations that appear at once. What it comes to is `Honest`: whatever was submitted or
sent is saved (or was in the pool before the start), and every submission, and every vote
since the start, is of the one result found for its challenge.

## Fairness

`Fairness` in `Challenger`: every goroutine is weakly fair, each goroutine of the
verifier by itself, since the Go runtime schedules them and all sleeps are bounded;
a panicking process is restarted. The loops of the executor are separate goroutines and
each is fair by itself. Strong fairness is assumed of the chain only:
among our turns to submit some last long enough to fetch and submit an event, and
a node does not reject every attempt. Nothing is assumed of peers: the property
on submission starts when their votes are in the pool. The runs
`deduplication` and `liveness` are without writes that really fail, without remote
faults and without crashes, because the code does leave events behind on them (a failed
verification is cached, a vote whose broadcast fails is not sent again).

`Recovery` is for what the code does try again and again, from its tables: a poll, the
attest monitor's read and update. Such an attempt does
not fail, or meet a crash, every time (strong fairness of the successful step). The run
`recovery` uses it, with faults and crashes. It assumes nothing of a block that does not
parse: its poll has no successful step, the monitor stays there, and `EveryBlockIsSaved`
promises only the blocks before it.

`AttestedIsMarked` is about an event that the chain keeps in its list of attested ids. The list
is bounded (`ForgetAttested`), and an id becomes known before its row is marked
(`attest_monitor.go:47`): when the read or the update fails, or the row is overwritten, the next
attempt comes only when the known ids are dropped, and if the chain has dropped the id by then the event
is never marked. The run has such behaviours; the property does not promise the mark in them.

In `Clients` the goroutines of a call are weakly fair: the Go runtime schedules them
and `GetStatus` ends within its timeout of a second. Nothing is assumed of the nodes, and
nobody needs to start a call.

## Proofs

TLAPS proves, for every value of the constants that satisfies the named
assumptions (any number of challenges, validators, heights and peers' votes, any
combination of faults):

- `TypeCorrectness`: `Spec => []TypeOK`. In particular the verifier's retries stay
  below `RtyAttemNum` and the submitter's attempts end one above
  `MaxSubmitAttempts`.
- `Safety`: `Spec => []SafetyInv`, from which follow `NoGap`, `NoMissedEvent`,
  `NoEquivocation`, `SavedBeforeBroadcast`, `OneStageAtATime`, `RowsAreHashable`
  and the action properties `ResultIsFinal` and `StatusAdvances`.
- `Evidence`: `Spec => []EvidenceInv`, from which follow `SavedVotesAreGenuine`,
  `AttestationsSignResult`, `AttestedIsTruthful` and `DuplicateHasOriginal`.
- `Contracted`: `Spec => KeepsContract`, the refinement of `Contract`.
- `ContractIsHonest`: `Contract`'s `Spec => []Honest`, if "Unknown" is no result. Inductive
  with the type of `result`: a found result is not replaced, so a vote for it stays one.
  `HonestChallenger` carries it over to the process: `Spec => []Promise!Honest`.
- `Quorum`: `Spec => [](FixedValidators => QuorumInv)`, from which follow, under the same
  hypothesis, `EnoughIsTwoThirds` and `AttestationsPassCheck`; and
  `CollationCountsValidators`: with fixed validators also the property that the run
  `validator_change` violates.
- `ClientsInvariance`: `Spec => []ClientsInv` for any clients, callers and heights, from
  which follow `ReturnsAnAnsweringClient` and `ReturnsTheHighest`.

None of the pipeline's properties is inductive alone. `SafetyInv` adds what a goroutine may rely on
while it holds a row that it fetched earlier:

- `MonitorInv`: a poll is for the block after the last saved one.
- `VerifierInv`: when the loop fetches, no goroutine of the last batch is left
  (`wg.Wait`); the rows still in the batch and those being verified are disjoint, have no
  result, and are unprocessed unless attested.
- `ResultInv`: rows before verification have no result, rows after it have one.
- `RowsInv`: each row held by broadcaster, collator or submitter has the result of
  the table and the status it was selected by, or one the attest monitor set.
  A row is thus determined by its id, and a goroutine that writes to one leaves
  the others it holds alone.
- `VotesInv`: saved votes are genuine, what the collector holds is from the pool,
  and our votes that are sent or cached are saved.
- `OneStageAtATime`: needed because attested rows can be held by anyone; a new row
  is only fetched at a status that nobody else's rows can have.

The crucial steps: a result is written only by a goroutine whose row has none;
the attest monitor's marks are never selected, so an overwritten mark brings the
event back only to where its goroutine already was; and the "Duplicate" path
of the broadcaster sends a vote that is in the table, because a saved vote with
our key is genuine and hence the very vote being sent.

`EvidenceInv` is about what a goroutine acts on after the row it saw may have changed. Each
part says where the evidence is, and the proof is that it is there when the goroutine first
acts on it and is never taken back: blocks, rows, votes, the pool, attestations and the
chain's attested challenges only grow, and results are final (`Grows`, from `SafetyInv`).

- `GenuineInv`: the key of a vote that is saved or about to be is ours or a validator's of some
  set the chain has had, since the collector checked it against one.
- `SignedInv`: our vote for the row's result is saved behind every status from `SelfVoted` on
  and behind every row that collator and submitter hold (also when the attest monitor has
  marked the row meanwhile); an entry of `cachedEventHash` is the hash of the row as it is now;
  an attestation signs that hash with saved votes, ours among them.
- `AttestedInv`: an id the attest monitor works on is attested; `Submitted` and a decision for
  `SelfAttested` have an accepted attestation behind them; the submitter marks a row only
  when the attestation in its hands is the accepted one of that row.
- `DuplicateInv`: a goroutine that is about to mark a duplicate, or has, found a predecessor.
  `DuplicateHasOriginal` follows with no further induction over steps: the predecessor has a
  smaller id, and the least id among the rows of an object (`LeastNumber`) has no predecessor.

Two lemmas carry these proofs: `StatusWriters`, who writes which status and what it holds then,
and `HeldSources` with `AttestationSources`, where held rows, cached hashes and attestations
come from. With them no invariant needs a proof per action.

The refinement maps a write of the verifier to `Verify` (its row has no result), a committed
save of the broadcaster to `SaveOwn`, a send to `Send` (the vote is saved, or it was in the pool
before), a save of the collector to a stutter, unless it is a vote of our key from an earlier
deployment, then `Adopt`; and an accepted attestation to `Submit`, where `SignedInv` says that
the vote it needs is saved. All else, crashes included, stutters.

`FixedValidators` says that `ValidatorSets` has one member and this challenger's key is in it.
Both are needed: the code counts rows of the votes table, so votes of former validators
count (`validator_change`), and so does our own vote, which the broadcaster saves without asking
whether we are a validator. `QuorumInv` then says that the votes counted once stay enough,
for the row wherever it is held and for the attestation built from it. Its core is
`VotesAreCounted` (an aggregate holds the keys that really signed, the bitset the keys the votes
name, which `BitsAreVoters` shows to agree for genuine votes of validators): genuine votes for one hash differ in their keys, so `len(votes)` is at most the
number of voters (an injection); `TwoThirds` is the integer division of the code:
`n > (2 * m) \div 3` implies `3 * n > 2 * m`.

`ClientsInv` speaks of the answers a call has used (received and compared). `GettersInv`
follows a goroutine's answer from the node to the channel; `ChoiceInv` says that the chosen
client is one whose answer is used, or that only answers of `EmptyNodes` are used and `maxHeight`
is still 0, so that the first positive height wins whatever it is by then. `EmptyNodes` are the nodes
that may have no block: a height of 0 is not greater than `maxHeight`, so if only such nodes
answer, `GetClient` may return `clients[0]` although it is down, and
`ReturnsAnAnsweringClient` promises nothing. `AloneInv` that while no
other call is pending the shared heights are this call's answers.

Only model-checked: the liveness properties (`EveryBlockIsSaved`, `EveryEventIsProcessed`,
`SavedVoteIsBroadcast`, `MismatchIsSubmitted`, `AttestedIsMarked`, `HeartbeatIsVoted`,
`EveryCallReturns`), which need fairness and `ENABLED`, out of the prover's reach. Every
invariant and every action property of a passing run is proved.

## Not modelled

- The wiper: `DBWipeLoop` is never started.
- Metrics, alerts, logging, configuration and `main`: no effect on the state.
- The largest height is promised only to a call that no other overlaps: when calls overlap,
  `GetClient` may compare heights that belong to different moments and return a
  node that lags. The other modules allow for it (`MaxLag`).
- The strings of event attributes and the root hash computation. Which blocks do not parse is a
  constant; panics on malformed answers (hex, index out of range) are crashes, which `Crash`
  covers.
- The positions of validators in the bitset: a bitset names keys.
- Nonce, gas and fee of a submission.

## Plan

1. Done: tables, executor, the seven goroutines, their composition, client selection,
   safety and liveness runs, the contract as a refinement.
2. Done: every invariant and action property of the passing runs, and the refinement, proved; what the
   contract implies, proved for it and for the process.
3. Prove further: safety facts that the liveness properties rest on (an event that is not
   finished is selected by some goroutine).
4. Model further: several challengers over one chain and pool; positions in the bitset.

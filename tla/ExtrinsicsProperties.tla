------------------------ MODULE ExtrinsicsProperties ------------------------
(***************************************************************************)
(* What Extrinsics promises its callers.                                   *)
(***************************************************************************)
EXTENDS Extrinsics

\* "This allows for correct nonce management in-case of async context when
\* gathering co-routines" (async_substrate.py:3562): however the calls overlap,
\* fail or are repeated, the cache gives each nonce once, in order, with no gap.
CachedNoncesFollow ==
  \A i, j \in DOMAIN given : i < j => given[j] = given[i] + (j - i)

\* A signature is over a block that stays on the chain for good, although the
\* era, its block and the signature are asked for one after the other while the
\* chain forks and is finalised (async_substrate.py:3285, 3114-3116): unless
\* somebody had looked that number up before its block was final, whose answer
\* get_block_hash remembers.
SignatureStands ==
  \A x \in DOMAIN xts : OnChain(xts[x].block) \/ xts[x].block.number \in early

\* Caches are "applied only on methods whose results cannot change -- such as
\* the block hash for a given block number" (README.md:64-65): what get_block_hash
\* remembers of a number is the hash of the block that has it.
HashesCannotChange ==
  \A n \in LookedUp : hashes[n] # Unasked => hashes[n] = HashOf(n)

\* A receipt "finalized" names a finalised block of the best chain with the
\* extrinsic in it; one for inclusion names a block that had it
\* (async_substrate.py:4217-4240), whatever forks, losses and usurpers there are.
ReceiptIsTrue ==
  \A t \in Task : At(t, "receipt") /\ call[t].wait # "nothing" =>
    /\ [block |-> call[t].block, xt |-> call[t].xt] \in made
    /\ call[t].wait = "finality" =>
         /\ call[t].block.number <= final
         /\ chain[call[t].block.number + 1].xt = call[t].xt

\* A nonce that nobody fills keeps the extrinsics after it out of every block.
Gap(t) == \E n \in Account..(call[t].nonce - 1) : \A x \in pool : xts[x].nonce # n

\* A submission that waits ends with a receipt or an error
\* (async_substrate.py:4184-4249), unless a gap in the nonces holds it up or
\* its subscription was lost before its first notification.
SubmissionEnds ==
  \A t \in Task : At(t, "watching") ~> (~At(t, "watching") \/ Gap(t) \/ Best = Height)
=============================================================================

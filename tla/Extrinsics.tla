------------------------------ MODULE Extrinsics ------------------------------
(***************************************************************************)
(* Extrinsics of one account: the nonce, the signature, the submission and *)
(* its watch, against a node with a transaction pool, forks, finality and  *)
(* runtime upgrades.  One asynchronous interface shared by tasks, or a     *)
(* synchronous one with a single caller.                                   *)
(*                                                                         *)
(* A caller takes a nonce from get_account_next_index (through its cache   *)
(* or past it), or lets create_signed_extrinsic read the account; signs;   *)
(* submits; and waits for nothing, for a block or for finality.            *)
(***************************************************************************)
EXTENDS Integers, Sequences, FiniteSets, SequencesExt

CONSTANTS
  Task,      \* the callers
  Plans,     \* the ways in which they make an extrinsic and wait for it
  LookedUp,  \* the blocks that somebody else looks up by their numbers
  Period,    \* of a mortal era
  Height,    \* bound on the blocks
  Calls,     \* bound on the extrinsics
  Troubles   \* bound on forks, upgrades, errors, drops and lost connections

Source == {"cache", "rpc", "account"}
Wait == {"nothing", "block", "finality"}

NoTask == "no task"

ASSUME ExtrinsicsAssumption ==
  /\ NoTask \notin Task
  /\ Plans \subseteq [source : Source, wait : Wait, mortal : BOOLEAN]
  /\ Period \in Nat \ {0} /\ Height \in Nat \ {0, 1, 2}
  /\ LookedUp \subseteq 0..Height
  /\ Calls \in Nat /\ Troubles \in Nat

VARIABLES
  async,     \* which of the two classes
  nonces,    \* _nonces of the account
  lock,      \* _lock: the task that holds it
  hashes,    \* what get_block_hash remembers of each number
  early,     \* history: numbers looked up by others before their block was final
  call,      \* the calls in progress
  given,     \* history: the nonces that the cache has given out
  xts,       \* the extrinsics signed
  chain,     \* the node: the blocks of its best chain, the first is number 0
  final,     \* the node: the number of the last finalised block
  pool,      \* the node: its transaction pool
  spec,      \* the node: the version of its runtime
  made,      \* history: the blocks
  left       \* what remains of the bounds

memo == <<hashes, early>>
node == <<chain, final, pool, spec, made>>
vars == <<async, memo, nonces, lock, call, given, xts, node, left>>

NoNonce == -1
Unasked == -1
NoHash == -2
NoBlock == [number |-> 0, tag |-> 0]
Block(number) == [number |-> number, tag |-> chain[number + 1].tag]
Best == Len(chain) - 1

NoCall == [pc |-> "idle", source |-> "rpc", wait |-> "nothing", mortal |-> FALSE,
           nonce |-> 0, runtime |-> 0, current |-> 0, xt |-> 0, msgs |-> <<>>,
           heard |-> FALSE, block |-> NoBlock]
Ended == {"idle", "receipt", "raised", "forgotten"}

\* What the account has on the best chain, and the next index over the pool.
Account == Cardinality({i \in DOMAIN chain : chain[i].xt # 0})
IsNextIndex(n) ==
  /\ \A x \in pool : xts[x].nonce # n
  /\ \A m \in Account..(n - 1) : \E x \in pool : xts[x].nonce = m

Init ==
  /\ async \in BOOLEAN
  /\ nonces = NoNonce /\ lock = NoTask /\ given = <<>> /\ xts = <<>>
  /\ hashes = [n \in 0..Height |-> Unasked] /\ early = {}
  /\ call = [t \in Task |-> NoCall]
  /\ chain = [i \in 1..3 |-> [tag |-> 0, xt |-> 0]]
  /\ final = 1 /\ pool = {} /\ spec = 0
  /\ made = {}
  /\ left = [calls |-> Calls, troubles |-> Troubles]

Put(t, c) == call' = [call EXCEPT ![t] = c]
At(t, pc) == call[t].pc = pc
Go(t, pc) == Put(t, [call[t] EXCEPT !.pc = pc])
Raises(t) == /\ left.troubles > 0 /\ left' = [left EXCEPT !.troubles = @ - 1]
             /\ Go(t, "raised")
-----------------------------------------------------------------------------
(***************************************************************************)
(* The nonce.                                                              *)
(***************************************************************************)
Begin(t, plan) ==
  /\ call[t].pc \in Ended
  /\ left.calls > 0 /\ left' = [left EXCEPT !.calls = @ - 1]
  /\ ~async => plan.source # "cache" /\ \A u \in Task : call[u].pc \in Ended
  /\ Put(t, [NoCall EXCEPT !.source = plan.source, !.wait = plan.wait,
                            !.mortal = plan.mortal, !.pc =
              CASE plan.source = "cache" -> "lock"
                [] plan.source = "rpc" -> "ask"
                [] plan.source = "account" -> "create"])
  /\ UNCHANGED <<async, memo, nonces, lock, given, xts, node>>

MutCacheMiss(t) ==
  /\ At(t, "lock") /\ lock = NoTask /\ nonces = NoNonce
  /\ Go(t, "fetch")
  /\ UNCHANGED <<async, memo, nonces, lock, given, xts, node, left>>

\* Under the lock: nothing is cached, the node is asked.
CacheMiss(t) ==
  /\ At(t, "lock") /\ lock = NoTask /\ nonces = NoNonce
  /\ lock' = t /\ Go(t, "fetch")
  /\ UNCHANGED <<async, memo, nonces, given, xts, node, left>>

\* Under the lock: the nonce cached, plus one.
CacheHit(t) ==
  /\ At(t, "lock") /\ lock = NoTask /\ nonces # NoNonce
  /\ nonces' = nonces + 1
  /\ given' = Append(given, nonces')
  /\ Put(t, [call[t] EXCEPT !.pc = "create", !.nonce = nonces'])
  /\ UNCHANGED <<async, memo, lock, xts, node, left>>

\* account_nextIndex answers the task that holds the lock; an error is raised
\* and leaves nothing cached.
Fetched(t) ==
  /\ At(t, "fetch")
  /\ lock' = NoTask
  /\ \/ \E n \in Account..(Account + Calls) :
          /\ IsNextIndex(n)
          /\ nonces' = n
          /\ given' = Append(given, n)
          /\ Put(t, [call[t] EXCEPT !.pc = "create", !.nonce = n])
          /\ UNCHANGED left
     \/ Raises(t) /\ UNCHANGED <<nonces, given>>
  /\ UNCHANGED <<async, memo, xts, node>>

\* use_cache=False, and the synchronous method: the node's answer as it is.
Asked(t) ==
  /\ At(t, "ask")
  /\ \E n \in Account..(Account + Calls) :
       IsNextIndex(n) /\ Put(t, [call[t] EXCEPT !.pc = "create", !.nonce = n])
  /\ UNCHANGED <<async, memo, nonces, lock, given, xts, node, left>>
-----------------------------------------------------------------------------
(***************************************************************************)
(* create_signed_extrinsic.                                                *)
(***************************************************************************)

\* init_runtime(): the runtime of the chain's head.
Create(t) ==
  /\ At(t, "create")
  /\ Put(t, [call[t] EXCEPT !.runtime = spec,
               !.pc = IF call[t].source = "account" THEN "account" ELSE "era"])
  /\ UNCHANGED <<async, memo, nonces, lock, given, xts, node, left>>

\* get_account_nonce: what the best block says, whatever the pool holds.
AccountNonce(t) ==
  /\ async /\ At(t, "account")
  /\ Put(t, [call[t] EXCEPT !.nonce = Account, !.pc = "era"])
  /\ UNCHANGED <<async, memo, nonces, lock, given, xts, node, left>>

\* Its runtime_call loads the runtime of the head as self.runtime.
SyncAccountNonce(t) ==
  /\ ~async /\ At(t, "account")
  /\ Put(t, [call[t] EXCEPT !.nonce = Account, !.runtime = spec, !.pc = "era"])
  /\ UNCHANGED <<async, memo, nonces, lock, given, xts, node, left>>

MutEra(t) ==
  /\ At(t, "era")
  /\ Put(t, [call[t] EXCEPT !.current = Best, !.pc = "payload"])
  /\ UNCHANGED <<async, memo, nonces, lock, given, xts, node, left>>

\* The era starts from the last finalised block.
Era(t) ==
  /\ At(t, "era")
  /\ Put(t, [call[t] EXCEPT !.current = final, !.pc = "payload"])
  /\ UNCHANGED <<async, memo, nonces, lock, given, xts, node, left>>

\* chain_getBlockHash: among the blocks with that number, the tag tells which.
HashOf(n) == IF n <= Best THEN chain[n + 1].tag ELSE NoHash

\* get_block_hash answers what it remembers, or asks the node and remembers the
\* answer; that there is no such block only lru_cache, the synchronous one's,
\* remembers.
GetBlockHash(n) == IF hashes[n] # Unasked THEN hashes[n] ELSE HashOf(n)
Remember(rows, n) ==
  IF rows[n] # Unasked \/ (async /\ HashOf(n) = NoHash) THEN rows
  ELSE [rows EXCEPT ![n] = HashOf(n)]

\* Somebody else looks a block up; the rows are shared.  Asynchronously, one
\* that does not exist yet leaves nothing behind.
LookUp(n) ==
  /\ hashes[n] = Unasked
  /\ IF async THEN n <= Best ELSE \A u \in Task : call[u].pc \in Ended
  /\ hashes' = Remember(hashes, n)
  /\ early' = IF n > final THEN early \cup {n} ELSE early
  /\ UNCHANGED <<async, nonces, lock, call, given, xts, node, left>>

\* What is signed with, beside the nonce and the runtime of the encoding: the
\* block the era begins in, or the first block, which is looked up in any case.
\* Without a hash the payload cannot be encoded.
Birth(c) == IF c.mortal THEN (c.current \div Period) * Period ELSE 0
Sign(t) ==
  LET n == Birth(call[t])
  IN /\ hashes' = Remember(Remember(hashes, 0), n)
     /\ \/ GetBlockHash(n) = NoHash /\ Go(t, "raised") /\ UNCHANGED xts
        \/ /\ GetBlockHash(n) # NoHash
           /\ xts' = Append(xts, [nonce |-> call[t].nonce, runtime |-> call[t].runtime,
                                  block |-> [number |-> n, tag |-> GetBlockHash(n)]])
           /\ Put(t, [call[t] EXCEPT !.pc = "signed", !.xt = Len(xts) + 1])

\* generate_signature_payload, for the runtime that the extrinsic is encoded
\* with.
Payload(t) ==
  /\ async /\ At(t, "payload")
  /\ Sign(t)
  /\ UNCHANGED <<async, early, nonces, lock, given, node, left>>

\* The synchronous one takes self.runtime for both.
SyncPayload(t) ==
  /\ ~async /\ At(t, "payload")
  /\ Sign(t)
  /\ UNCHANGED <<async, early, nonces, lock, given, node, left>>
-----------------------------------------------------------------------------
(***************************************************************************)
(* submit_extrinsic.                                                       *)
(***************************************************************************)
Submit(t) ==
  /\ At(t, "signed")
  /\ Go(t, "sent")
  /\ UNCHANGED <<async, memo, nonces, lock, given, xts, node, left>>

\* The tasks that watch these extrinsics hear of it.
Told(c, ids, m) ==
  IF c.xt \in ids /\ c.wait # "nothing" /\ c.pc \in {"answered", "watching"}
  THEN [c EXCEPT !.msgs = Append(@, m), !.heard = TRUE] ELSE c
Message(kind, block) == [kind |-> kind, block |-> block]
Tell(ids, kind, block) ==
  call' = [t \in Task |-> Told(call[t], ids, Message(kind, block))]

OnChain(block) == block.number <= Best /\ block = Block(block.number)
Valid(x) == xts[x].runtime = spec /\ OnChain(xts[x].block)
Known(x) == x \in pool \/ \E i \in DOMAIN chain : chain[i].xt = x

\* The node takes the extrinsic into its pool, in the place of one with the
\* same nonce if that pays less, or answers with an error.
Received(t) ==
  /\ At(t, "sent")
  /\ LET x == call[t].xt
         same == {y \in pool : xts[y].nonce = xts[x].nonce}
     IN IF Known(x) \/ ~Valid(x) \/ xts[x].nonce < Account
        THEN Go(t, "refused") /\ UNCHANGED <<pool, left>>
        ELSE \/ /\ same = {} /\ UNCHANGED left
                /\ pool' = pool \cup {x}
                /\ Go(t, "answered")
             \/ /\ same # {} /\ UNCHANGED <<pool, left>>
                /\ Go(t, "refused")
             \/ /\ same # {} /\ left.troubles > 0
                /\ left' = [left EXCEPT !.troubles = @ - 1]
                /\ pool' = (pool \ same) \cup {x}
                /\ call' = [u \in Task |->
                     IF u = t THEN [call[t] EXCEPT !.pc = "answered"]
                     ELSE Told(call[u], same, Message("usurped", NoBlock))]
  /\ UNCHANGED <<async, memo, nonces, lock, given, xts, chain, final, spec, made>>

\* The first response: the hash of the extrinsic, which is all there is to
\* wait for, or the id of the subscription, or an error, which is raised.
Answer(t) ==
  /\ \/ At(t, "refused") /\ Go(t, "raised")
     \/ /\ At(t, "answered")
        /\ Go(t, IF call[t].wait = "nothing" THEN "receipt" ELSE "watching")
  /\ UNCHANGED <<async, memo, nonces, lock, given, xts, node, left>>

Failure == {"usurped", "retracted", "finalitytimeout", "dropped", "invalid"}

MutHandle(m, wait) ==
  CASE m.kind \in Failure -> "raised"
    [] m.kind = "finalized" /\ wait = "finality" -> "receipt"
    [] m.kind = "inblock" -> "receipt"
    [] OTHER -> "watching"

MutHandleDropped(m, wait) ==
  CASE m.kind \in Failure \ {"dropped"} -> "raised"
    [] m.kind = "finalized" /\ wait = "finality" -> "receipt"
    [] m.kind = "inblock" /\ wait = "block" -> "receipt"
    [] OTHER -> "watching"

\* result_handler.
Handle(m, wait) ==
  CASE m.kind \in Failure -> "raised"
    [] m.kind = "finalized" /\ wait = "finality" -> "receipt"
    [] m.kind = "inblock" /\ wait = "block" -> "receipt"
    [] OTHER -> "watching"

Hear(t) ==
  /\ async /\ At(t, "watching") /\ call[t].msgs # <<>>
  /\ LET m == Head(call[t].msgs)
     IN Put(t, [call[t] EXCEPT !.msgs = Tail(@), !.block = m.block,
                               !.pc = Handle(m, call[t].wait)])
  /\ UNCHANGED <<async, memo, nonces, lock, given, xts, node, left>>

\* The synchronous handler makes its unwatch request, and waits for the answer,
\* within the request it handles.
SyncHear(t) ==
  /\ ~async /\ At(t, "watching") /\ call[t].msgs # <<>>
  /\ LET m == Head(call[t].msgs)
         verdict == Handle(m, call[t].wait)
     IN Put(t, [call[t] EXCEPT !.msgs = Tail(@), !.block = m.block,
                  !.pc = CASE verdict = "receipt" -> "unwatch"
                           [] verdict = "raised" -> "unwatch to raise"
                           [] OTHER -> "watching"])
  /\ UNCHANGED <<async, memo, nonces, lock, given, xts, node, left>>

Unwatched(t) ==
  /\ \/ At(t, "unwatch") /\ Go(t, "receipt")
     \/ At(t, "unwatch to raise") /\ Go(t, "raised")
  /\ UNCHANGED <<async, memo, nonces, lock, given, xts, node, left>>
-----------------------------------------------------------------------------
(***************************************************************************)
(* A lost connection.                                                      *)
(***************************************************************************)
OnConnection == {"fetch", "ask", "create", "account", "era", "payload",
                 "sent", "refused", "answered", "watching"}

\* Asynchronous: with the queue of a subscription that has been heard, nothing
\* is sent again and every call raises.  Otherwise the requests are sent again,
\* and a subscription whose id has come is forgotten by node and handler.
Lose ==
  /\ async /\ left.troubles > 0 /\ left' = [left EXCEPT !.troubles = @ - 1]
  /\ LET open == \E t \in Task : call[t].pc \in {"answered", "watching"} /\ call[t].heard
     IN /\ call' = [t \in Task |->
             [call[t] EXCEPT !.msgs = <<>>, !.heard = FALSE, !.pc =
                CASE open /\ @ \in OnConnection -> "raised"
                  [] ~open /\ @ = "watching" -> "forgotten"
                  [] ~open /\ @ \in {"refused", "answered"} -> "sent"
                  [] OTHER -> @]]
        /\ lock' = IF open THEN NoTask ELSE lock
  /\ UNCHANGED <<async, memo, nonces, given, xts, node>>

\* Synchronous: all is sent again on a new connection, the extrinsic too, of
\* which the node may know already (Troubles is less than max_retries).
SyncLose(t) ==
  /\ ~async /\ call[t].pc \in {"refused", "answered", "watching"}
  /\ left.troubles > 0 /\ left' = [left EXCEPT !.troubles = @ - 1]
  /\ Put(t, [call[t] EXCEPT !.pc = "sent", !.msgs = <<>>, !.heard = FALSE])
  /\ UNCHANGED <<async, memo, nonces, lock, given, xts, node>>
-----------------------------------------------------------------------------
(***************************************************************************)
(* The node.                                                               *)
(***************************************************************************)
Author ==
  /\ Best < Height
  /\ \E x \in pool :
       /\ xts[x].nonce = Account
       /\ chain' = Append(chain, [tag |-> Last(chain).tag, xt |-> x])
       /\ pool' = pool \ {x}
       /\ LET block == [number |-> Len(chain), tag |-> chain'[Len(chain')].tag]
          IN /\ made' = made \cup {[block |-> block, xt |-> x]}
             /\ Tell({x}, "inblock", block)
  /\ UNCHANGED <<async, memo, nonces, lock, given, xts, final, spec, left>>

Finalise ==
  /\ final < Best /\ final' = final + 1
  /\ Tell({chain[final + 2].xt} \ {0}, "finalized", Block(final + 1))
  /\ UNCHANGED <<async, memo, nonces, lock, given, xts, chain, pool, spec, made, left>>

\* Another fork becomes the best chain: the extrinsics return to the pool.
Fork(cut) ==
  /\ left.troubles > 0 /\ left' = [left EXCEPT !.troubles = @ - 1]
  /\ LET lost == {chain[i].xt : i \in (cut + 2)..Len(chain)} \ {0}
     IN /\ chain' = [i \in DOMAIN chain |-> IF i <= cut + 1 THEN chain[i]
                       ELSE [tag |-> chain[i].tag + 1, xt |-> 0]]
        /\ pool' = pool \cup lost
        /\ Tell(lost, "retracted", NoBlock)
  /\ UNCHANGED <<async, memo, nonces, lock, given, xts, final, spec, made>>

\* An upgrade makes invalid what was signed for the runtime before.
Upgrade ==
  /\ left.troubles > 0 /\ left' = [left EXCEPT !.troubles = @ - 1]
  /\ spec' = spec + 1
  /\ pool' = {}
  /\ Tell(pool, "invalid", NoBlock)
  /\ UNCHANGED <<async, memo, nonces, lock, given, xts, chain, final, made>>

Discard(x) ==
  /\ left.troubles > 0 /\ left' = [left EXCEPT !.troubles = @ - 1]
  /\ pool' = pool \ {x}
  /\ Tell({x}, "dropped", NoBlock)
  /\ UNCHANGED <<async, memo, nonces, lock, given, xts, chain, final, spec, made>>

TaskStep(t) ==
  \/ CacheMiss(t) \/ CacheHit(t) \/ Fetched(t) \/ Asked(t)
  \/ Create(t) \/ AccountNonce(t) \/ SyncAccountNonce(t) \/ Era(t)
  \/ Payload(t) \/ SyncPayload(t)
  \/ Submit(t) \/ Received(t) \/ Answer(t)
  \/ Hear(t) \/ SyncHear(t) \/ Unwatched(t)

Next ==
  \/ \E t \in Task : TaskStep(t) \/ SyncLose(t)
  \/ \E t \in Task, plan \in Plans : Begin(t, plan)
  \/ \E n \in LookedUp : LookUp(n)
  \/ Lose \/ Author \/ Finalise \/ Upgrade
  \/ \E cut \in final..(Best - 1) : Fork(cut)
  \/ \E x \in pool : Discard(x)

\* Tasks go on, and the node makes blocks of what is ready and finalises them.
Spec == /\ Init /\ [][Next]_vars
        /\ \A t \in Task : WF_vars(TaskStep(t))
        /\ WF_vars(Author) /\ WF_vars(Finalise)
=============================================================================

------------------------------ MODULE Receipt ------------------------------
(***************************************************************************)
(* The receipt of a submitted extrinsic, AsyncExtrinsicReceipt and its     *)
(* synchronous twin: an object filled lazily from the events of the block. *)
(* Tasks that hold the same asynchronous receipt read its properties       *)
(* concurrently; each await of a node call lets the others run.            *)
(*                                                                         *)
(* block is what the chain says and never changes.  An event has the index *)
(* of the extrinsic it belongs to (-1 for none), a kind, the amount it     *)
(* pays and the dispatch error it carries.  None is -1 for a number and    *)
(* "none" elsewhere.                                                       *)
(***************************************************************************)
EXTENDS Integers, Sequences, FiniteSets, SequencesExt

CONSTANTS
  Task,      \* the tasks that read an asynchronous receipt
  Caller,    \* the caller of a synchronous receipt
  Block,     \* the blocks a receipt may be about
  Reads,     \* bound on the reads of a behaviour
  Faults     \* bound on the node calls that fail

\* at: where the block has our extrinsic; asked: the index in an identifier.
\* A block has an extrinsic at least, the one that sets its time; the receipt of
\* an empty block, which goes on without an index, is left out.
Event == [idx : Nat \cup {-1}, pay : Nat,
          kind : {"success", "failed", "rejected", "undecrypted", "paid",
                  "deposit", "other"},
          error : {"absent", "module", "named", "unnamed"}]

ASSUME ReceiptAssumption ==
  /\ Caller \notin Task
  /\ \A b \in Block : /\ b.events \in Seq(Event) /\ b.size \in Nat \ {0}
                      /\ b.at \in Nat \cup {-1} /\ b.asked \in Nat
  /\ Reads \in Nat
  /\ Faults \in Nat

VARIABLES
  block,     \* the block: its events, how many extrinsics, which is ours
  receipt,   \* the attributes of the receipt
  list,      \* the list object each reader made for __triggered_events
  pc, op,    \* where each reader is, in which property
  local,     \* its list, its place in it and the flags of process_events
  answer,    \* how its last read ended
  current,   \* synchronous interface: self.runtime is the one of this block
  mixed,     \* history: readers overlapped, or a node call failed
  reads, faults

vars == <<block, receipt, list, pc, op, local, answer, current, mixed,
          reads, faults>>

Reader == Task \cup {Caller}
Op == {"events", "success", "message", "weight", "fee", "identifier"}
Away == {"locating", "fetching", "resolving", "numbering"}

NewReceipt(async, hashed, numbered, idx) ==
  [async |-> async, hashed |-> hashed, numbered |-> numbered, idx |-> idx,
   events |-> {}, success |-> "none", message |-> "none", weight |-> "none",
   fee |-> -1]

\* From "number-index"; the node may not know the block.
FromIdentifier(idx, known) == NewReceipt(TRUE, known, TRUE, idx)
SyncFromIdentifier(idx, known) == NewReceipt(FALSE, known, TRUE, idx)

\* submit_extrinsic knows the block only if it waited for the inclusion.
Submitted(async, waited) == NewReceipt(async, waited, FALSE, -1)

Init ==
  /\ block \in Block
  /\ \E yes, async \in BOOLEAN :
       receipt \in {Submitted(async, yes),
                    IF async THEN FromIdentifier(block.asked, yes)
                             ELSE SyncFromIdentifier(block.asked, yes)}
  /\ list = [t \in Reader |-> <<>>]
  /\ pc = [t \in Reader |-> "idle"]
  /\ op = [t \in Reader |-> "success"]
  /\ local = [t \in Reader |-> [of |-> t, pos |-> 0, possible |-> FALSE,
                                paid |-> FALSE, last |-> FALSE]]
  /\ answer = [t \in Reader |-> "none"]
  /\ current = TRUE
  /\ mixed = FALSE
  /\ reads = Reads
  /\ faults = Faults
-----------------------------------------------------------------------------
(***************************************************************************)
(* utils/receipt.py and the loop of process_events, on a pair of the       *)
(* receipt and the local variables of the call.                            *)
(***************************************************************************)

IsSuccess(e) == e.kind = "success"
IsFailure(e) == e.kind \in {"failed", "rejected", "undecrypted"}

PaidAt(events) == {n \in DOMAIN events : events[n].kind = "paid"}

MutFeePaid(events) ==
  IF PaidAt(events) = {} THEN <<0, FALSE>>
  ELSE <<events[Max(PaidAt(events))].pay, FALSE>>

\* The last TransactionFeePaid event; only without one do deposits count.
FeePaid(events) ==
  IF PaidAt(events) = {} THEN <<0, FALSE>>
  ELSE <<events[Max(PaidAt(events))].pay, TRUE>>

Deposited(e) == IF e.kind = "deposit" THEN e.pay ELSE 0

\* A module error has its name in the metadata of a runtime.
IsModuleError(e) == e.kind \in {"failed", "rejected"} /\ e.error = "module"

\* A dispatch error that is not one of the four known has no message: None.
SystemMessage(e) == IF e.error = "named" THEN "System" ELSE "none"

FailureMessage(e, before) ==
  CASE e.kind = "undecrypted" -> "MevShield"
    [] e.kind # "undecrypted" /\ e.error = "absent" -> before
    [] OTHER -> SystemMessage(e)

FailureWeight(e, before) == IF e.kind = "undecrypted" THEN before ELSE "failure"
SuccessWeight(e) == "success"

Fails(s, e) ==
  [s EXCEPT !.loc.possible = FALSE, !.rec.success = "no",
            !.rec.weight = FailureWeight(e, @)]

HandleEvent(s, e) ==
  CASE IsSuccess(e) ->
         [s EXCEPT !.loc.possible = TRUE, !.rec.weight = SuccessWeight(e)]
    [] IsFailure(e) ->
         [Fails(s, e) EXCEPT !.rec.message = FailureMessage(e, @)]
    [] OTHER ->
         IF s.loc.paid THEN s ELSE [s EXCEPT !.rec.fee = @ + Deposited(e)]

\* A module error gets the name that some runtime has for it.
Handle(s, e, name) ==
  IF IsModuleError(e) THEN [Fails(s, e) EXCEPT !.rec.message = name]
  ELSE HandleEvent(s, e)

\* The loop after so many events, from where it stands.
After(s, events, name) ==
  LET after[n \in 0..Len(events)] ==
        IF n <= s.loc.pos THEN s ELSE Handle(after[n - 1], events[n], name)
  IN after

MutConclude(s) == IF s.loc.possible THEN [s EXCEPT !.rec.success = "yes"] ELSE s

\* After the loop: success needs that no message has been set.
Conclude(s) ==
  IF s.loc.possible /\ s.rec.message = "none"
  THEN [s EXCEPT !.rec.success = "yes"] ELSE s

\* Before the loop, on the list __triggered_events refers to.
Enter(rec, lists, last) ==
  LET of  == CHOOSE t \in rec.events : TRUE
      fee == FeePaid(lists[of])
  IN [rec |-> IF lists[of] = <<>> THEN rec ELSE [rec EXCEPT !.fee = fee[1]],
      loc |-> [of |-> of, pos |-> 0, possible |-> FALSE, paid |-> fee[2],
               last |-> last]]

\* The loop from where it stands to its end, or to the next module error,
\* where it suspends: then pos is the place of that event.
Loop(s, lists) ==
  LET events == lists[s.loc.of]
      next   == {n \in s.loc.pos + 1 .. Len(events) : IsModuleError(events[n])}
      stop   == CHOOSE n \in next : \A m \in next : n <= m
      after  == After(s, events, "block")
  IN IF next = {}
     THEN [Conclude(after[Len(events)]) EXCEPT !.loc.pos = -1]
     ELSE [Fails(after[stop - 1], events[stop]) EXCEPT !.loc.pos = stop]

Suspended(s) == s.loc.pos # -1

\* error_message runs process_events again unless is_success said True.
Again(o, s) ==
  ~Suspended(s) /\ o = "message" /\ ~s.loc.last /\ s.rec.success # "yes"

Process(o, s, lists) ==
  LET one == Loop(s, lists)
  IN IF Again(o, one) THEN Loop(Enter(one.rec, lists, TRUE), lists) ELSE one
-----------------------------------------------------------------------------
(***************************************************************************)
(* The properties of the asynchronous receipt.                             *)
(***************************************************************************)

Goto(t, place) == pc' = [pc EXCEPT ![t] = place]
End(t, how) == Goto(t, "idle") /\ answer' = [answer EXCEPT ![t] = how]
Await(t, place) == Goto(t, place) /\ answer' = [answer EXCEPT ![t] = "none"]

\* What a read finds already known: it returns at once.
Known(o) ==
  CASE o = "events"  -> receipt.events # {}
    [] o = "success" -> receipt.success # "none"
    [] o = "message" -> receipt.message # "none" \/ receipt.success = "yes"
    [] o = "weight"  -> receipt.weight # "none"
    [] o = "fee"     -> receipt.fee # -1
    [] o = "identifier" -> receipt.numbered /\ receipt.idx # -1

\* process_events with the list in hand, up to its next suspension.
Continue(t, o, s, lists) ==
  LET done == Process(o, s, lists)
  IN /\ receipt' = done.rec
     /\ local' = [local EXCEPT ![t] = done.loc]
     /\ IF Suspended(done)
        THEN Await(t, "resolving")
        ELSE End(t, "returned")

\* In error_message with the verdict already False only one pass is left.
LastPass(o) == o # "message" \/ receipt.success = "no"

\* __triggered_events = [] comes before the await of get_events.
StartList(t, rec) ==
  /\ receipt' = [rec EXCEPT !.events = {t}]
  /\ list' = [list EXCEPT ![t] = <<>>]
  /\ Await(t, "fetching")

\* triggered_events, for the property itself and for process_events.
TriggeredEvents(t, o) ==
  \/ /\ receipt.events # {} /\ o # "events"
     /\ Continue(t, o, Enter(receipt, list, LastPass(o)), list)
     /\ UNCHANGED list
  \/ /\ receipt.events = {} /\ receipt.hashed /\ receipt.idx = -1
     /\ Await(t, "locating")
     /\ UNCHANGED <<receipt, list, local>>
  \/ /\ receipt.events = {} /\ receipt.hashed /\ receipt.idx # -1
     /\ StartList(t, receipt)
     /\ UNCHANGED local
  \/ /\ receipt.events = {} /\ ~receipt.hashed
     /\ End(t, "raised")
     /\ UNCHANGED <<receipt, list, local>>

\* get_extrinsic_identifier.
Identifier(t) ==
  /\ \/ ~receipt.hashed /\ End(t, "raised")
     \/ receipt.hashed /\ ~receipt.numbered /\ Await(t, "numbering")
     \/ receipt.hashed /\ receipt.numbered /\ Await(t, "locating")
  /\ UNCHANGED <<receipt, list, local>>

Overlap(t) == mixed \/ \E u \in Task \ {t} : pc[u] \in Away

Read(t, o) ==
  /\ receipt.async /\ pc[t] = "idle"
  /\ reads > 0 /\ reads' = reads - 1
  /\ op' = [op EXCEPT ![t] = o]
  /\ mixed' = Overlap(t)
  /\ \/ Known(o) /\ End(t, "returned") /\ UNCHANGED <<receipt, list, local>>
     \/ ~Known(o) /\ o # "identifier" /\ TriggeredEvents(t, o)
     \/ ~Known(o) /\ o = "identifier" /\ Identifier(t)
  /\ UNCHANGED <<block, current, faults>>

\* The number of the block lands.
Numbered(t) ==
  /\ pc[t] = "numbering"
  /\ receipt' = [receipt EXCEPT !.numbered = TRUE]
  /\ IF receipt.idx = -1
     THEN Await(t, "locating") ELSE End(t, "returned")
  /\ UNCHANGED <<block, list, op, local, current, mixed, reads, faults>>

\* The first extrinsic of the block with the hash; none is ExtrinsicNotFound.
GetExtrinsicIndex == {block.at} \ {-1}

IndexFound == IF receipt.idx # -1 THEN {receipt.idx} ELSE GetExtrinsicIndex

\* retrieve_extrinsic, and extrinsic_idx: the block lands.
RetrieveExtrinsic(t) ==
  /\ pc[t] = "locating"
  /\ LET found == {i \in IndexFound : i < block.size}
         known == IF IndexFound = {} THEN receipt
                  ELSE [receipt EXCEPT !.idx = CHOOSE i \in IndexFound : TRUE]
     IN \/ found = {} /\ receipt' = known /\ End(t, "raised") /\ UNCHANGED list
        \/ /\ found # {} /\ op[t] = "identifier"
           /\ receipt' = known /\ End(t, "returned") /\ UNCHANGED list
        \/ /\ found # {} /\ op[t] # "identifier"
           /\ StartList(t, known)
  /\ UNCHANGED <<block, op, local, current, mixed, reads, faults>>

EventsOf(all, idx) ==
  LET mine[n \in 0..Len(all)] ==
        IF n = 0 THEN <<>>
        ELSE IF all[n].idx = idx THEN Append(mine[n - 1], all[n]) ELSE mine[n - 1]
  IN mine[Len(all)]

\* get_events lands; the events are appended to whatever list the receipt
\* refers to by now.
EventsArrive(t) ==
  /\ pc[t] = "fetching"
  /\ LET of    == CHOOSE u \in receipt.events : TRUE
         lists == [list EXCEPT ![of] = @ \o EventsOf(block.events, receipt.idx)]
     IN /\ list' = lists
        /\ IF op[t] = "events"
           THEN End(t, "returned") /\ UNCHANGED <<receipt, local>>
           ELSE Continue(t, op[t], Enter(receipt, lists, LastPass(op[t])), lists)
  /\ UNCHANGED <<block, op, current, mixed, reads, faults>>

\* _resolve_module_error_message: the runtime of the block lands.
ResolveModuleError(t) ==
  /\ pc[t] = "resolving"
  /\ Continue(t, op[t], [rec |-> [receipt EXCEPT !.message = "block"],
                         loc |-> local[t]], list)
  /\ UNCHANGED <<block, list, op, current, mixed, reads, faults>>

\* The node call a reader awaits fails, and its exception reaches the reader.
CallFails(t) ==
  /\ pc[t] \in Away
  /\ faults > 0 /\ faults' = faults - 1
  /\ mixed' = TRUE
  /\ End(t, "raised")
  /\ UNCHANGED <<block, receipt, list, op, local, current, reads>>
-----------------------------------------------------------------------------
(***************************************************************************)
(* The synchronous receipt: a read runs to its end.  Module errors are     *)
(* named by the runtime the interface has loaded last.                     *)
(***************************************************************************)

SyncResolveModuleError(now) == IF now THEN "block" ELSE "other"

SyncProcessEvents(rec, events, now) ==
  LET fee   == FeePaid(events)
      start == [rec |-> [rec EXCEPT !.fee = fee[1]],
                loc |-> [of |-> Caller, pos |-> 0, possible |-> FALSE,
                         paid |-> fee[2], last |-> FALSE]]
      after == After(start, events, SyncResolveModuleError(now))
  IN IF events = <<>> THEN rec ELSE Conclude(after[Len(events)]).rec

\* What a property leaves behind once the events are there; error_message may
\* go over them twice.
SyncProperty(o, rec, events, now) ==
  LET one == SyncProcessEvents(rec, events, now)
  IN CASE o = "events" -> rec
       [] o = "message" /\ ~LastPass(o) /\ one.success # "yes" ->
            SyncProcessEvents(one, events, now)
       [] OTHER -> one

SyncRetrieveExtrinsic ==
  IF receipt.idx # -1 THEN {receipt.idx}
  ELSE {i \in GetExtrinsicIndex : receipt.hashed /\ i < block.size}

\* A read of triggered_events and of all that rests on it; get_events loads the
\* runtime of the block, unless it fails after the list has been set to [].
SyncTriggeredEvents(o, fails) ==
  IF receipt.events # {}
  THEN /\ ~fails
       /\ receipt' = SyncProperty(o, receipt, list[Caller], current)
       /\ End(Caller, "returned")
       /\ UNCHANGED <<list, current>>
  ELSE \/ /\ SyncRetrieveExtrinsic = {} \/ ~receipt.hashed
          /\ ~fails /\ End(Caller, "raised")
          /\ UNCHANGED <<receipt, list, current>>
       \/ \E i \in SyncRetrieveExtrinsic :
            LET events == IF fails THEN <<>> ELSE EventsOf(block.events, i)
                rec    == [receipt EXCEPT !.idx = i, !.events = {Caller}]
            IN /\ receipt.hashed
               /\ list' = [list EXCEPT ![Caller] = events]
               /\ receipt' = SyncProperty(o, rec, events, TRUE)
               /\ current' = (~fails \/ current)
               /\ End(Caller, IF fails THEN "raised" ELSE "returned")

SyncIdentifier ==
  LET numbered == receipt.numbered \/ receipt.hashed
      found    == numbered /\ SyncRetrieveExtrinsic # {}
  IN /\ receipt' = [receipt EXCEPT
           !.numbered = numbered,
           !.idx = IF found THEN CHOOSE i \in SyncRetrieveExtrinsic : TRUE ELSE @]
     /\ End(Caller, IF found THEN "returned" ELSE "raised")
     /\ UNCHANGED <<list, current>>

SyncRead(o) ==
  /\ ~receipt.async
  /\ reads > 0 /\ reads' = reads - 1
  /\ op' = [op EXCEPT ![Caller] = o]
  /\ \/ /\ Known(o)
        /\ End(Caller, "returned")
        /\ UNCHANGED <<receipt, list, current, mixed, faults>>
     \/ /\ ~Known(o) /\ o # "identifier"
        /\ \/ SyncTriggeredEvents(o, FALSE) /\ UNCHANGED <<mixed, faults>>
           \/ /\ faults > 0 /\ faults' = faults - 1 /\ mixed' = TRUE
              /\ SyncTriggeredEvents(o, TRUE)
     \/ /\ ~Known(o) /\ o = "identifier"
        /\ SyncIdentifier /\ UNCHANGED <<mixed, faults>>
  /\ UNCHANGED <<block, local>>

\* Another call of the same interface loads the runtime of another block.
Elsewhere ==
  /\ ~receipt.async /\ current
  /\ current' = FALSE
  /\ UNCHANGED <<block, receipt, list, pc, op, local, answer, mixed, reads, faults>>
-----------------------------------------------------------------------------
Next ==
  \/ \E t \in Task :
       \/ \E o \in Op : Read(t, o)
       \/ Numbered(t)
       \/ RetrieveExtrinsic(t)
       \/ EventsArrive(t)
       \/ ResolveModuleError(t)
       \/ CallFails(t)
  \/ \E o \in Op : SyncRead(o)
  \/ Elsewhere

Spec == Init /\ [][Next]_vars
-----------------------------------------------------------------------------
(***************************************************************************)
(* What the receipt promises.                                              *)
(***************************************************************************)

Mine == EventsOf(block.events, receipt.idx)
Succeeded == \E e \in Range(Mine) : IsSuccess(e)
Failed    == \E e \in Range(Mine) : IsFailure(e)

\* A failure with a message, and one that sets the message to None.
HasMessage(e) ==
  IsFailure(e) /\ (IsModuleError(e) \/ FailureMessage(e, "none") # "none")
LosesMessage(e) ==
  IsFailure(e) /\ ~IsModuleError(e) /\ FailureMessage(e, "block") = "none"

\* The failure has a message, by the last event that says anything of it.
Named == \E n \in DOMAIN Mine :
           /\ HasMessage(Mine[n])
           /\ \A m \in DOMAIN Mine : n < m => ~LosesMessage(Mine[m])

\* The chain's verdict on the extrinsic, once its index is known.
Verdict == IF Failed THEN "no" ELSE IF Succeeded THEN "yes" ELSE "none"

\* The fee by the chain's events, without the code's loop.
Deposits(events) ==
  LET sum[n \in 0..Len(events)] ==
        IF n = 0 THEN 0
        ELSE sum[n - 1] + (IF events[n].kind = "deposit" THEN events[n].pay ELSE 0)
  IN sum

TotalFee ==
  LET paid == PaidAt(Mine)
  IN IF paid # {} THEN Mine[CHOOSE n \in paid : \A m \in paid : m <= n].pay
     ELSE Deposits(Mine)[Len(Mine)]

\* Rejected with no message, or None for the last of them, and successful.
Overlooked == Failed /\ Succeeded /\ ~Named

\* While reads of one receipt do not overlap and no node call fails, whatever
\* their order, the verdict and the fee they return are the chain's.
SequentialReadsAgree ==
  ~mixed /\ (\A t \in Reader : pc[t] = "idle") =>
    \A t \in Reader : answer[t] = "returned" =>
      /\ op[t] = "success" /\ ~Overlooked => receipt.success = Verdict
      /\ op[t] = "fee" /\ Mine # <<>> => receipt.fee = TotalFee

\* Even when reads overlap and calls fail, is_success is True only for an
\* extrinsic that succeeded, and whose failure events leave no message.
TrueIsSuccess ==
  receipt.success = "yes" => Succeeded /\ ~Named

\* A verdict given to one reader is not taken back for another.
VerdictStands ==
  [][\A v \in {"yes", "no"} :
       receipt.success = v /\ ~Overlooked => receipt'.success = v]_vars

\* is_success: "Returns `True` if `ExtrinsicSuccess` event is triggered, `False`
\* in case of `ExtrinsicFailed`".
VerdictGiven ==
  \A t \in Task :
    answer[t] = "returned" /\ op[t] = "success" /\ faults = Faults
      => receipt.success # "none" \/ Verdict = "none"
=============================================================================

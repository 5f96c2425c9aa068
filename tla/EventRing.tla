----------------------------- MODULE EventRing -----------------------------
(***************************************************************************)
(* The external notification ring of a context: any thread posts with      *)
(* lvkw_events_post, the primary thread drains it from the pump with       *)
(* _lvkw_notification_ring_dispatch_all (common/context/context.c).        *)
(*                                                                         *)
(* One action per access to memory the threads share.  The three counters  *)
(* are uint32_t in the code and only ever incremented, so the model keeps  *)
(* the number of increments and takes the 32-bit view (U32) wherever the   *)
(* code computes with the stored value: the difference tested against the  *)
(* capacity, the slot index, the comparison of the CAS and of the spin.    *)
(*                                                                         *)
(* The two loads of push may execute in either order: the load of          *)
(* reserve_tail is relaxed and the acquire load of head after it does not  *)
(* hold it back.                                                           *)
(*                                                                         *)
(* A callback may pump, and the clipboard of X11 does: drains nest.  An    *)
(* inner drain begins at the head that the outer one has not moved yet,    *)
(* and the outer one stores its own head over that of the inner when it    *)
(* ends.                                                                   *)
(***************************************************************************)
EXTENDS Integers, FiniteSets, Sequences

CONSTANTS
  Producers,   \* threads that call lvkw_events_post
  Primary,     \* the thread that pumps; it may post too, also from a callback
  Types,       \* event types a program may post (LVKW_EVENT_TYPE_USER_0..3)
  Capacity,    \* ring->capacity, 64 in the code
  Modulus,     \* 2^32: the counters are uint32_t
  MaxPosts,    \* bound: calls of lvkw_events_post per thread
  MaxDrains    \* bound: drains open at once

ASSUME CapacityAssumption ==
  /\ Capacity \in Nat \ {0}
  /\ Modulus \in Nat
  /\ Capacity < Modulus
  /\ \E k \in 1 .. Modulus : Modulus = k * Capacity

ASSUME ThreadAssumption ==
  /\ Primary \in Producers
  /\ MaxPosts \in Nat \ {0}
  /\ MaxDrains \in Nat \ {0}

VARIABLES
  reserve_tail,  \* ring->reserve_tail: slots reserved so far
  tail,          \* ring->tail: slots committed so far
  head,          \* ring->head: slots released, as the drain that ended last says
  slots,         \* ring->buffer
  event_mask,    \* ctx->prv.event_mask
  pc,            \* where each thread is in lvkw_events_post
  msg,           \* the message of the call in progress
  seenTail,      \* push's local reserve_tail, Unread before the load
  seenHead,      \* push's local head, Unread before the load
  posts,         \* how many calls each thread has begun (identifies messages)
  depth,         \* drains open, one inside the callback of another
  cur,           \* local head of the drain at each depth
  stop,          \* its local tail
  appRuns,       \* the primary thread runs code of the application: outside
                 \* every drain, or in the callback of the innermost
  taken,         \* history: messages some drain has read
  repeating,     \* history: a drain has begun inside the callback of another
  delivered      \* history: the message of the latest callback

producerVars == <<pc, msg, seenTail, seenHead, posts>>
consumerVars == <<depth, cur, stop, appRuns, taken, repeating, delivered>>
vars == <<reserve_tail, tail, head, slots, event_mask, producerVars,
          consumerVars>>

Unread == -1
SlotIndex == 0 .. Capacity - 1
Messages == [from : Producers, nr : 1 .. MaxPosts, type : Types]
NoMessage == [from |-> Primary, nr |-> 0, type |-> "none"]

\* The value a uint32_t holds after n increments, or after a subtraction.
U32(n) == n % Modulus

\* &ring->buffer[counter % ring->capacity]
Slot(n) == U32(n) % Capacity

Depths == 1 .. MaxDrains

\* The application may call the library on thread p.
MayCall(p) ==
  /\ pc[p] = "idle"
  /\ p = Primary => appRuns

----------------------------------------------------------------------------
(* lvkw_events_post and _lvkw_notification_ring_push, thread p.            *)

\* The call begins: a type the mask excludes returns at once (LVKW_SUCCESS),
\* any other goes on to push.
Post(p, t) ==
  /\ MayCall(p)
  /\ posts[p] < MaxPosts
  /\ posts' = [posts EXCEPT ![p] = @ + 1]
  /\ IF t \in event_mask
       THEN /\ pc' = [pc EXCEPT ![p] = "load"]
            /\ msg' = [msg EXCEPT ![p] =
                         [from |-> p, nr |-> posts[p] + 1, type |-> t]]
       ELSE UNCHANGED <<pc, msg>>
  /\ UNCHANGED <<reserve_tail, tail, head, slots, event_mask, seenTail,
                 seenHead, consumerVars>>

LoadReserveTail(p) ==
  /\ pc[p] = "load"
  /\ seenTail[p] = Unread
  /\ seenTail' = [seenTail EXCEPT ![p] = reserve_tail]
  /\ UNCHANGED <<reserve_tail, tail, head, slots, event_mask, pc, msg,
                 seenHead, posts, consumerVars>>

LoadHead(p) ==
  /\ pc[p] = "load"
  /\ seenHead[p] = Unread
  /\ seenHead' = [seenHead EXCEPT ![p] = head]
  /\ UNCHANGED <<reserve_tail, tail, head, slots, event_mask, pc, msg,
                 seenTail, posts, consumerVars>>

Loaded(p) ==
  /\ pc[p] = "load"
  /\ seenTail[p] # Unread
  /\ seenHead[p] # Unread

\* Mutant: the capacity test is off by one.
LooksFullOffByOne(p) == U32(seenTail[p] - seenHead[p]) > Capacity

\* if (reserve_tail - head >= ring->capacity), in uint32_t
LooksFull(p) == U32(seenTail[p] - seenHead[p]) >= Capacity

\* Mutant: a refused post gives back a slot it never took.
RejectRollsBack(p) ==
  /\ Loaded(p)
  /\ LooksFull(p)
  /\ reserve_tail' = head - 1
  /\ pc' = [pc EXCEPT ![p] = "idle"]
  /\ seenTail' = [seenTail EXCEPT ![p] = Unread]
  /\ seenHead' = [seenHead EXCEPT ![p] = Unread]
  /\ UNCHANGED <<tail, head, slots, event_mask, msg, posts, consumerVars>>

\* push returns false, lvkw_events_post LVKW_ERROR.
Reject(p) ==
  /\ Loaded(p)
  /\ LooksFull(p)
  /\ pc' = [pc EXCEPT ![p] = "idle"]
  /\ seenTail' = [seenTail EXCEPT ![p] = Unread]
  /\ seenHead' = [seenHead EXCEPT ![p] = Unread]
  /\ UNCHANGED <<reserve_tail, tail, head, slots, event_mask, msg, posts,
                 consumerVars>>

\* Scheduling assumption of the algorithm: neither a thread between its loads
\* and its CAS nor a callback of the pump lasts while so many slots are reserved
\* that the 32-bit counter comes round to the value that was loaded.
NoStallAcrossWrap(n) ==
  /\ n - head < Modulus
  /\ \A d \in 1 .. depth : n - cur[d] < Modulus
  /\ \A q \in Producers :
       /\ seenTail[q] # Unread => n - seenTail[q] < Modulus
       /\ seenHead[q] # Unread => n - seenHead[q] < Modulus

\* The compare-and-swap of reserve_tail succeeds.
Reserve(p) ==
  /\ Loaded(p)
  /\ ~LooksFull(p)
  /\ U32(seenTail[p]) = U32(reserve_tail)
  /\ NoStallAcrossWrap(reserve_tail + 1)
  /\ reserve_tail' = reserve_tail + 1
  /\ pc' = [pc EXCEPT ![p] = "write"]
  /\ seenHead' = [seenHead EXCEPT ![p] = Unread]
  /\ UNCHANGED <<tail, head, slots, event_mask, msg, seenTail, posts,
                 consumerVars>>

\* The compare-and-swap fails, because the counter moved or spuriously (it is
\* the weak form): the loop starts again with two fresh loads.
Retry(p) ==
  /\ Loaded(p)
  /\ ~LooksFull(p)
  /\ seenTail' = [seenTail EXCEPT ![p] = Unread]
  /\ seenHead' = [seenHead EXCEPT ![p] = Unread]
  /\ UNCHANGED <<reserve_tail, tail, head, slots, event_mask, pc, msg, posts,
                 consumerVars>>

\* The reserved slot is filled.
Write(p) ==
  /\ pc[p] = "write"
  /\ slots' = [slots EXCEPT ![Slot(seenTail[p])] = msg[p]]
  /\ pc' = [pc EXCEPT ![p] = "commit"]
  /\ UNCHANGED <<reserve_tail, tail, head, event_mask, msg, seenTail,
                 seenHead, posts, consumerVars>>

\* Mutant: a thread publishes without waiting for the earlier slots.
CommitWithoutSpin(p) ==
  /\ pc[p] = "commit"
  /\ tail' = seenTail[p] + 1
  /\ pc' = [pc EXCEPT ![p] = "idle"]
  /\ seenTail' = [seenTail EXCEPT ![p] = Unread]
  /\ UNCHANGED <<reserve_tail, head, slots, event_mask, msg, seenHead, posts,
                 consumerVars>>

\* Mutant: the commit forgets to move tail.
CommitKeepsTail(p) ==
  /\ pc[p] = "commit"
  /\ U32(tail) = U32(seenTail[p])
  /\ pc' = [pc EXCEPT ![p] = "idle"]
  /\ seenTail' = [seenTail EXCEPT ![p] = Unread]
  /\ UNCHANGED <<reserve_tail, tail, head, slots, event_mask, msg, seenHead,
                 posts, consumerVars>>

\* The spin ends when every earlier slot is committed; the slot is published.
Commit(p) ==
  /\ pc[p] = "commit"
  /\ U32(tail) = U32(seenTail[p])
  /\ tail' = tail + 1
  /\ pc' = [pc EXCEPT ![p] = "idle"]
  /\ seenTail' = [seenTail EXCEPT ![p] = Unread]
  /\ UNCHANGED <<reserve_tail, head, slots, event_mask, msg, seenHead, posts,
                 consumerVars>>

----------------------------------------------------------------------------
(* _lvkw_notification_ring_dispatch_all, the primary thread.  A callback   *)
(* is one step with the read of its slot; what the callback calls (posts,  *)
(* mask updates, another drain) are the steps of Primary until the next    *)
(* step of its drain.                                                      *)

\* Mutant: the batch is released before its messages are dispatched.
BeginDispatchReleases ==
  /\ MayCall(Primary)
  /\ depth < MaxDrains
  /\ depth' = depth + 1
  /\ cur' = [cur EXCEPT ![depth + 1] = head]
  /\ stop' = [stop EXCEPT ![depth + 1] = tail]
  /\ appRuns' = FALSE
  /\ repeating' = (repeating \/ depth > 0)
  /\ head' = tail
  /\ UNCHANGED <<reserve_tail, tail, slots, event_mask, producerVars, taken,
                 delivered>>

BeginDispatch ==
  /\ MayCall(Primary)
  /\ depth < MaxDrains
  /\ depth' = depth + 1
  /\ cur' = [cur EXCEPT ![depth + 1] = head]
  /\ stop' = [stop EXCEPT ![depth + 1] = tail]
  /\ appRuns' = FALSE
  /\ repeating' = (repeating \/ depth > 0)
  /\ UNCHANGED <<reserve_tail, tail, head, slots, event_mask, producerVars,
                 taken, delivered>>

\* What the plain reads of a slot may return: the message in it, mixed with
\* that of a thread which is filling it.
Mixed(a, b) ==
  [from : {a.from, b.from}, nr : {a.nr, b.nr}, type : {a.type, b.type}]
Readable(n) ==
  LET writers == {p \in Producers : pc[p] = "write" /\ Slot(seenTail[p]) = Slot(n)}
  IN  {slots[Slot(n)]} \union
        UNION {Mixed(slots[Slot(n)], msg[p]) : p \in writers}

\* _lvkw_dispatch_event: the mask is tested again, with its present value.
Dispatch ==
  /\ pc[Primary] = "idle"
  /\ depth > 0
  /\ U32(cur[depth]) # U32(stop[depth])
  /\ \E m \in Readable(cur[depth]) :
       /\ appRuns' = (m.type \in event_mask)
       /\ delivered' = IF m.type \in event_mask THEN <<m>> ELSE delivered
  /\ cur' = [cur EXCEPT ![depth] = @ + 1]
  /\ taken' = IF cur[depth] = taken THEN taken + 1 ELSE taken
  /\ UNCHANGED <<reserve_tail, tail, head, slots, event_mask, producerVars,
                 depth, stop, repeating>>

\* All slots of the batch are released at once.  The head stored is that of
\* this drain, whatever a drain inside it has stored.
EndDispatch ==
  /\ pc[Primary] = "idle"
  /\ depth > 0
  /\ U32(cur[depth]) = U32(stop[depth])
  /\ head' = cur[depth]
  /\ depth' = depth - 1
  /\ cur' = [cur EXCEPT ![depth] = 0]
  /\ stop' = [stop EXCEPT ![depth] = 0]
  /\ appRuns' = TRUE
  /\ UNCHANGED <<reserve_tail, tail, slots, event_mask, producerVars, taken,
                 repeating, delivered>>

\* lvkw_context_update with LVKW_CONTEXT_ATTR_EVENT_MASK.
SetMask(m) ==
  /\ MayCall(Primary)
  /\ event_mask' = m
  /\ UNCHANGED <<reserve_tail, tail, head, slots, producerVars, consumerVars>>

----------------------------------------------------------------------------
Init ==
  /\ reserve_tail = 0
  /\ tail = 0
  /\ head = 0
  /\ slots = [i \in SlotIndex |-> NoMessage]
  /\ event_mask = Types
  /\ pc = [p \in Producers |-> "idle"]
  /\ msg = [p \in Producers |-> NoMessage]
  /\ seenTail = [p \in Producers |-> Unread]
  /\ seenHead = [p \in Producers |-> Unread]
  /\ posts = [p \in Producers |-> 0]
  /\ depth = 0
  /\ cur = [d \in Depths |-> 0]
  /\ stop = [d \in Depths |-> 0]
  /\ appRuns = TRUE
  /\ taken = 0
  /\ repeating = FALSE
  /\ delivered = <<>>

PushStep(p) ==
  \/ LoadReserveTail(p)
  \/ LoadHead(p)
  \/ Reject(p)
  \/ Reserve(p)
  \/ Retry(p)
  \/ Write(p)
  \/ Commit(p)

Pump == BeginDispatch \/ Dispatch \/ EndDispatch

Next ==
  \/ \E p \in Producers, t \in Types : Post(p, t)
  \/ \E p \in Producers : PushStep(p)
  \/ Pump
  \/ \E m \in SUBSET Types : SetMask(m)

Spec == Init /\ [][Next]_vars

\* The scheduling the code relies on: a thread inside push keeps running, a
\* CAS that can succeed again and again succeeds, and the application pumps.
PushFairness(p) ==
  /\ WF_vars(LoadReserveTail(p) \/ LoadHead(p) \/ Reject(p) \/ Write(p)
              \/ Commit(p) \/ (seenTail[p] # reserve_tail /\ Retry(p)))
  /\ SF_vars(Reserve(p))

FairSpec ==
  /\ Spec
  /\ \A p \in Producers : PushFairness(p)
  /\ WF_vars(Pump)

----------------------------------------------------------------------------
TypeOK ==
  /\ reserve_tail \in Nat
  /\ tail \in Nat
  /\ head \in Nat
  /\ slots \in [SlotIndex -> Messages \union {NoMessage}]
  /\ event_mask \in SUBSET Types
  /\ pc \in [Producers -> {"idle", "load", "write", "commit"}]
  /\ msg \in [Producers -> Messages \union {NoMessage}]
  /\ seenTail \in [Producers -> Nat \union {Unread}]
  /\ seenHead \in [Producers -> Nat \union {Unread}]
  /\ posts \in [Producers -> 0 .. MaxPosts]
  /\ depth \in 0 .. MaxDrains
  /\ cur \in [Depths -> Nat]
  /\ stop \in [Depths -> Nat]
  /\ appRuns \in BOOLEAN
  /\ taken \in Nat
  /\ repeating \in BOOLEAN
  /\ delivered \in {<<>>} \union {<<m>> : m \in Messages}

\* The ring never overruns: however posts, drains inside the callbacks of
\* drains and the wrapping of the counters interleave, at most Capacity
\* messages are reserved that no drain has read, although head goes back when
\* an outer drain ends.  A violation would let a producer overwrite a message
\* that nobody has seen.
NoOverrun ==
  /\ head <= taken
  /\ taken <= tail
  /\ tail <= reserve_tail
  /\ reserve_tail - taken <= Capacity

\* The slot a thread is about to fill is its own: no other thread fills the
\* same slot, and its message, if it has one, has been read (slot->type,
\* slot->window and slot->payload are plain memory).  A drain that reads it
\* again is another matter (HandedOutOnce).
SlotExclusive ==
  \A p \in Producers : pc[p] = "write" =>
    /\ \A q \in Producers \ {p} :
         pc[q] \in {"write", "commit"} => Slot(seenTail[q]) # Slot(seenTail[p])
    /\ \A n \in taken .. tail - 1 : Slot(n) # Slot(seenTail[p])

\* What a drain may read has been written: the buffer comes from the allocator
\* uninitialised, and a slot counted by tail before its writer is done would
\* hand garbage to the callback.
CommittedIsWritten ==
  \A n \in 0 .. tail - 1 : slots[Slot(n)] \in Messages

\* The message in position n of the stream of reservations: still with its
\* producer until it is written, then in its slot.
MessageAt(n) ==
  LET writers == {p \in Producers : pc[p] = "write" /\ seenTail[p] = n}
  IN  IF writers # {} THEN msg[CHOOSE p \in writers : TRUE] ELSE slots[Slot(n)]

\* The messages no drain has read.
Pending == [i \in 1 .. reserve_tail - taken |-> MessageAt(taken + i - 1)]

Queue == INSTANCE EventQueue
           WITH queue <- Pending, mask <- event_mask, again <- repeating,
                Limit <- Capacity

\* Refinement: the ring, drained in batches by one thread and filled by many,
\* is a bounded queue.  No accepted post is lost, overtaken by a later one or
\* handed out with another's contents the first time; and none is handed out
\* twice unless a callback pumps.
RingIsQueue == Queue!Spec

\* Progress: every call of lvkw_events_post returns.
PostReturns == \A p \in Producers : pc[p] # "idle" ~> pc[p] = "idle"

\* Progress: the pump takes every accepted post, so that the ring is empty again
\* once the threads pause.
AcceptedIsDrained == reserve_tail > head ~> reserve_tail = head

\* Both: no post is held up for ever, neither in its call nor in the ring.
PostsGetThrough == PostReturns /\ AcceptedIsDrained

\* "queued in a lock-free notification ring" and "dispatched by the primary
\* thread during the next lvkw_events_pump call" (events_and_input.md): a
\* message handed to the callback is one that has not been before.  Not so when
\* the callback pumps.
HandedOutOnce == [][delivered' # delivered => taken' # taken]_vars

\* "return false; // Queue full" (context.c): a post is refused only if the
\* ring has been filled, which takes at least Capacity reservations.
RefusedOnlyIfFilled ==
  [][\A p \in Producers :
       pc[p] = "load" /\ pc'[p] = "idle" => reserve_tail >= Capacity]_vars
============================================================================

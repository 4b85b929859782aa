--------------------------- MODULE RingBufferFixed ---------------------------
(***************************************************************************)
(* gnb_ring_buffer_fixed.c as its two users drive it: one thread pushes    *)
(* (the primary worker, gnb_primary_worker.c) and one thread pops (the     *)
(* node, index, index service or packet filter worker).  Neither takes a   *)
(* lock.  A push is three separate things - ask for the block at tail_idx, *)
(* copy a frame into it, submit - and so is a pop, so the two threads are  *)
(* both inside the block array most of the time; only the values of        *)
(* head_idx and tail_idx keep them out of each other's block.              *)
(*                                                                         *)
(* Each access to head_idx, tail_idx or one part of a block is one step,   *)
(* seen at once and in order by the other thread: the code has neither     *)
(* atomics nor barriers, so this is the machine of a build that keeps the  *)
(* order of stores (x86, and a compiler that does not move them).          *)
(***************************************************************************)
EXTENDS Naturals, Sequences

CONSTANTS
  Frame,          \* the frames received from the socket
  NoFrame,        \* a block part never written (memset in _init)
  BlockNumMask    \* block_num_mask, one less than the number of blocks

(* The header asks for a mask of the form 2^k - 1, k in 2..16; then        *)
(* "x & mask" is "x % (mask + 1)", which is all that is used below.        *)
ASSUME MaskAssumption == BlockNumMask \in Nat \ {0}
ASSUME FrameAssumption == NoFrame \notin Frame

BlockNum == BlockNumMask + 1
Blocks == 0 .. BlockNumMask

(* The parts of a gnb_worker_queue_data_t that are copied one at a time:   *)
(* the sender's address and the payload.                                   *)
Part == {"node_addr", "payload"}

VARIABLES
  head_idx, tail_idx, blocks,   \* gnb_ring_buffer_fixed_t
  frame,      \* the frame the producer is copying
  filled,     \* the parts it has copied; meaningful while pushing
  pushing,    \* the producer is between _push and _push_submit
  refused,    \* flips with every frame dropped because _push returned NULL
  popping,    \* the consumer is between _pop and _pop_submit
  seen,       \* the parts of the block its handler has read so far
  handled     \* the frame of the last completed handler

ringVars == <<head_idx, tail_idx, blocks>>
producerVars == <<frame, filled, pushing, refused>>
consumerVars == <<popping, seen, handled>>
vars == <<head_idx, tail_idx, blocks, frame, filled, pushing, refused,
          popping, seen, handled>>

IncUnwrapped(i) == i + 1   \* faulty variant: the mask forgotten

Inc(i) == (i + 1) % BlockNum

Unread == [p \in Part |-> NoFrame]

Init ==
  /\ head_idx = 0
  /\ tail_idx = 0
  /\ blocks = [i \in Blocks |-> [p \in Part |-> NoFrame]]
  /\ frame = NoFrame
  /\ filled = {}
  /\ pushing = FALSE
  /\ refused = FALSE
  /\ popping = FALSE
  /\ seen = Unread
  /\ handled = << >>

-----------------------------------------------------------------------------
(* The producer.                                                           *)

(* Faulty variant: the test for a full ring forgotten.                     *)
PushUnguarded(f) ==
  /\ ~pushing
  /\ pushing' = TRUE
  /\ frame' = f
  /\ filled' = {}
  /\ UNCHANGED <<head_idx, tail_idx, blocks, refused, popping, seen, handled>>

(* gnb_ring_buffer_fixed_push returns the block at tail_idx.               *)
Push(f) ==
  /\ ~pushing
  /\ Inc(tail_idx) # head_idx
  /\ pushing' = TRUE
  /\ frame' = f
  /\ filled' = {}
  /\ UNCHANGED <<head_idx, tail_idx, blocks, refused, popping, seen, handled>>

(* gnb_ring_buffer_fixed_push returns NULL and the frame is dropped.       *)
PushFull ==
  /\ ~pushing
  /\ Inc(tail_idx) = head_idx
  /\ refused' = ~refused
  /\ UNCHANGED <<head_idx, tail_idx, blocks, frame, filled, pushing,
                 popping, seen, handled>>

(* One memcpy (or the recvfrom) into the block at tail_idx.                *)
Fill(p) ==
  /\ pushing
  /\ p \notin filled
  /\ blocks' = [blocks EXCEPT ![tail_idx][p] = frame]
  /\ filled' = filled \cup {p}
  /\ UNCHANGED <<head_idx, tail_idx, frame, pushing, refused,
                 popping, seen, handled>>

(* Faulty variant: submitted before everything is copied.                  *)
PushSubmitEarly ==
  /\ pushing
  /\ tail_idx' = Inc(tail_idx)
  /\ pushing' = FALSE
  /\ filled' = {}
  /\ frame' = NoFrame
  /\ UNCHANGED <<head_idx, blocks, refused, popping, seen, handled>>

PushSubmit ==
  /\ pushing
  /\ filled = Part
  /\ tail_idx' = Inc(tail_idx)
  /\ pushing' = FALSE
  /\ filled' = {}
  /\ frame' = NoFrame
  /\ UNCHANGED <<head_idx, blocks, refused, popping, seen, handled>>

(* Faulty variant: the block is submitted all the same.                    *)
AbandonSubmits ==
  /\ pushing
  /\ tail_idx' = Inc(tail_idx)
  /\ pushing' = FALSE
  /\ filled' = {}
  /\ frame' = NoFrame
  /\ UNCHANGED <<head_idx, blocks, refused, popping, seen, handled>>

(* handle_udp receives into a packet filter ring's block and returns       *)
(* without submitting it when the payload is not an IPFRAME.               *)
Abandon ==
  /\ pushing
  /\ pushing' = FALSE
  /\ filled' = {}
  /\ frame' = NoFrame
  /\ UNCHANGED <<head_idx, tail_idx, blocks, refused, popping, seen, handled>>

-----------------------------------------------------------------------------
(* The consumer: handle_recv_queue, whose handler reads the block in place.*)

(* Faulty variant: empty taken to be one frame earlier.                    *)
PopAllButOne ==
  /\ ~popping
  /\ head_idx # tail_idx /\ Inc(head_idx) # tail_idx
  /\ popping' = TRUE
  /\ seen' = Unread
  /\ UNCHANGED <<head_idx, tail_idx, blocks, frame, filled, pushing, refused,
                 handled>>

Pop ==
  /\ ~popping
  /\ head_idx # tail_idx
  /\ popping' = TRUE
  /\ seen' = Unread
  /\ UNCHANGED <<head_idx, tail_idx, blocks, frame, filled, pushing, refused,
                 handled>>

Read(p) ==
  /\ popping
  /\ seen[p] = NoFrame
  /\ seen' = [seen EXCEPT ![p] = blocks[head_idx][p]]
  /\ UNCHANGED <<head_idx, tail_idx, blocks, frame, filled, pushing, refused,
                 popping, handled>>

PopSubmit ==
  /\ popping
  /\ \A p \in Part : seen[p] # NoFrame
  /\ head_idx' = Inc(head_idx)
  /\ popping' = FALSE
  /\ handled' = <<seen["payload"]>>
  /\ seen' = Unread
  /\ UNCHANGED <<tail_idx, blocks, frame, filled, pushing, refused>>

-----------------------------------------------------------------------------
Produce ==
  \/ \E f \in Frame : Push(f)
  \/ PushFull
  \/ \E p \in Part : Fill(p)
  \/ PushSubmit
  \/ Abandon

Consume ==
  \/ Pop
  \/ \E p \in Part : Read(p)
  \/ PopSubmit

Next == Produce \/ Consume

Spec == Init /\ [][Next]_vars

(* handle_recv_queue loops for as long as the process runs, and its sleep  *)
(* ends by itself after 150 ms, so the consumer always takes a next step.  *)
FairSpec == Spec /\ WF_vars(Consume)

-----------------------------------------------------------------------------
(* The number of submitted, unhandled blocks, and the i-th of them.        *)
Count == IF head_idx <= tail_idx THEN tail_idx - head_idx
                                 ELSE tail_idx + BlockNum - head_idx
Slot(i) == IF head_idx + i < BlockNum THEN head_idx + i
                                      ELSE head_idx + i - BlockNum

TypeOK ==
  /\ head_idx \in Blocks
  /\ tail_idx \in Blocks
  /\ blocks \in [Blocks -> [Part -> Frame \cup {NoFrame}]]
  /\ frame \in Frame \cup {NoFrame}
  /\ filled \in SUBSET Part
  /\ pushing \in BOOLEAN
  /\ refused \in BOOLEAN
  /\ popping \in BOOLEAN
  /\ seen \in [Part -> Frame \cup {NoFrame}]
  /\ handled \in {<< >>} \cup {<<f>> : f \in Frame}

(* The block being copied into is never the block a handler is reading:    *)
(* without a lock, the only thing that keeps the two threads apart is that *)
(* _push refuses the last free block (gnb_ring_buffer_fixed.c:66) and that *)
(* head_idx moves only after the handler is done.                          *)
BlockExclusion == pushing /\ popping => tail_idx # head_idx

(* A handler never sees the address of one frame with the payload of       *)
(* another, although it reads the block in place, in several steps, while  *)
(* the producer fills others.                                              *)
WholeFrames ==
  popping => \E f \in Frame : \A p \in Part : seen[p] \in {NoFrame, f}

(* The frames submitted and not yet handled, oldest first.                 *)
Waiting == [i \in 1 .. Count |-> blocks[Slot(i - 1)]["payload"]]

Queue == INSTANCE BoundedQueue
           WITH queue <- Waiting, Capacity <- BlockNumMask

(* The two threads and their shared indices implement a bounded FIFO.      *)
ImplementsQueue == Queue!Spec

(* A frame that was accepted is handled: the ring drains unless new frames *)
(* keep arriving, and then the oldest still leaves.                        *)
OldestLeaves ==
  \A i \in Blocks : (head_idx = i /\ Count > 0) ~> (head_idx # i)
=============================================================================

----------------------------- MODULE QueueLength -----------------------------
(***************************************************************************)
(* From the queue length on the command line to the ring it makes.  The    *)
(* length is used as it is as block_num_mask, and the index arithmetic of  *)
(* gnb_ring_buffer_fixed.c is "& block_num_mask"; RingBufferFixed takes    *)
(* that for "modulo the number of blocks", and this module says which      *)
(* number that is.  Blocks are counted, not filled, and an operation is    *)
(* one step.                                                               *)
(***************************************************************************)
EXTENDS Naturals, Bitwise

CONSTANT Length   \* the values of --node-woker-queue, as typed

GNB_WORKER_MIN_QUEUE == 15
GNB_WORKER_MAX_QUEUE == 8191

VARIABLES
  block_num_mask, head_idx, tail_idx,
  waiting     \* pushes that are not popped yet

vars == <<block_num_mask, head_idx, tail_idx, waiting>>

(* gnb_argv: a uint16_t, raised or cut to the limits.                      *)
QueueLengthOf(typed) ==
  LET length == typed % 2^16
  IN  CASE length < GNB_WORKER_MIN_QUEUE -> GNB_WORKER_MIN_QUEUE
        [] length > GNB_WORKER_MAX_QUEUE -> GNB_WORKER_MAX_QUEUE
        [] OTHER -> length

(* gnb_ring_buffer_fixed_sum_size.                                         *)
BlockNum(mask) ==
  IF mask \in {2^k - 1 : k \in 2 .. 16} THEN mask + 1 ELSE 256

(* Faulty variant: a mask taken for a number of blocks.                    *)
NextByModulo(i) == (i + 1) % block_num_mask

Next_idx(i) == (i + 1) & block_num_mask

Init ==
  /\ block_num_mask \in {QueueLengthOf(typed) : typed \in Length}
  /\ head_idx = 0
  /\ tail_idx = 0
  /\ waiting = 0

Full == Next_idx(tail_idx) = head_idx

Push ==
  /\ ~Full
  /\ tail_idx' = Next_idx(tail_idx)
  /\ waiting' = waiting + 1
  /\ UNCHANGED <<block_num_mask, head_idx>>

(* _push returns NULL: the frame is dropped.                               *)
Dropped == Full /\ UNCHANGED vars

Pop ==
  /\ head_idx # tail_idx
  /\ head_idx' = Next_idx(head_idx)
  /\ waiting' = waiting - 1
  /\ UNCHANGED <<block_num_mask, tail_idx>>

Next == Push \/ Dropped \/ Pop

Spec == Init /\ [][Next]_vars

-----------------------------------------------------------------------------
(* Counting up from 0, "& mask" returns to 0 at the lowest bit that the    *)
(* mask lacks: the ring goes round in as many blocks as that bit counts,   *)
(* all of them if the length is one less than a power of two, and one, so  *)
(* that the ring is full when it is empty, if the length is even.          *)
Slots(mask) ==
  LET Lacks(k) == (mask \div 2^k) % 2 = 0
  IN  2^(CHOOSE k \in 0 .. 16 : Lacks(k) /\ \A i \in 0 .. k - 1 : ~Lacks(i))

(* Whatever length the limits let through, an index that wraps round leads *)
(* neither to a refusal before those blocks are used nor, by way of        *)
(* head_idx = tail_idx, to the loss of all the frames that wait; and it    *)
(* stays in the blocks that sum_size asked memory for, if they are not     *)
(* more than the 256 it takes for a length that it does not know.          *)
LosesNothing ==
  LET slots == Slots(block_num_mask)
  IN  /\ Full <=> waiting = slots - 1
      /\ head_idx = tail_idx <=> waiting = 0
      /\ {head_idx, tail_idx} \subseteq 0 .. slots - 1
      /\ slots <= 256 => {head_idx, tail_idx} \subseteq 0 .. BlockNum(block_num_mask) - 1
=============================================================================

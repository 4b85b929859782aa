------------------------ MODULE RingBufferFixed_proof ------------------------
(***************************************************************************)
(* For every block_num_mask and every set of frames: the two threads never *)
(* touch the same block, a handler only ever sees a whole frame, and the   *)
(* ring implements the bounded first-in first-out queue.                   *)
(***************************************************************************)
EXTENDS RingBufferFixed, Integers, SequenceTheorems, TLAPS

(* Arithmetic of the indices: "& block_num_mask" wraps exactly at the end. *)
LEMMA IncValue ==
  ASSUME NEW i \in Blocks
  PROVE  /\ Inc(i) \in Blocks
         /\ Inc(i) = IF i = BlockNumMask THEN 0 ELSE i + 1
<1>1. CASE i = BlockNumMask
  <2>1. (BlockNumMask + 1) % (BlockNumMask + 1) = 0
    BY MaskAssumption, SMT
  <2> QED BY <1>1, <2>1, MaskAssumption DEF Inc, BlockNum, Blocks
<1>2. CASE i # BlockNumMask
  <2>1. \A k \in 0 .. BlockNumMask : k % (BlockNumMask + 1) = k
    BY MaskAssumption, SMT
  <2>2. i + 1 \in 0 .. BlockNumMask
    BY <1>2, MaskAssumption DEF Blocks
  <2> QED BY <1>2, <2>1, <2>2, MaskAssumption DEF Inc, BlockNum, Blocks
<1> QED BY <1>1, <1>2

(* The type invariant is inductive on its own.                             *)
LEMMA TypeStep == TypeOK /\ [Next]_vars => TypeOK'
<1> SUFFICES ASSUME TypeOK, [Next]_vars PROVE TypeOK'
  OBVIOUS
<1> USE DEF TypeOK
<1>1. ASSUME NEW f \in Frame, Push(f) PROVE TypeOK'
  BY <1>1 DEF Push
<1>2. CASE PushFull
  BY <1>2 DEF PushFull
<1>3. ASSUME NEW p \in Part, Fill(p) PROVE TypeOK'
  <2>1. blocks' \in [Blocks -> [Part -> Frame \cup {NoFrame}]]
    BY <1>3 DEF Fill
  <2> QED BY <1>3, <2>1 DEF Fill
<1>4. CASE PushSubmit
  BY <1>4, IncValue DEF PushSubmit
<1>5. CASE Abandon
  BY <1>5 DEF Abandon
<1>6. CASE Pop
  BY <1>6 DEF Pop, Unread
<1>7. ASSUME NEW p \in Part, Read(p) PROVE TypeOK'
  <2>1. blocks[head_idx][p] \in Frame \cup {NoFrame}
    OBVIOUS
  <2>2. seen' \in [Part -> Frame \cup {NoFrame}]
    BY <1>7, <2>1 DEF Read
  <2> QED BY <1>7, <2>2 DEF Read
<1>8. CASE PopSubmit
  <2>1. seen["payload"] \in Frame
    BY <1>8 DEF PopSubmit, Part
  <2>2. head_idx' \in Blocks
    BY <1>8, IncValue DEF PopSubmit
  <2> QED BY <1>8, <2>1, <2>2 DEF PopSubmit, Unread
<1>9. CASE UNCHANGED vars
  BY <1>9 DEF vars
<1> QED
  BY <1>1, <1>2, <1>3, <1>4, <1>5, <1>6, <1>7, <1>8, <1>9
     DEF Next, Produce, Consume

LEMMA TypeInit == Init => TypeOK
<1> SUFFICES ASSUME Init PROVE TypeOK
  OBVIOUS
<1>1. head_idx \in Blocks /\ tail_idx \in Blocks
  BY MaskAssumption DEF Init, Blocks
<1>2. /\ blocks \in [Blocks -> [Part -> Frame \cup {NoFrame}]]
      /\ seen \in [Part -> Frame \cup {NoFrame}]
  BY DEF Init, Unread
<1>3. /\ frame \in Frame \cup {NoFrame}
      /\ filled \in SUBSET Part
      /\ handled \in {<< >>} \cup {<<f>> : f \in Frame}
  BY DEF Init
<1>4. pushing \in BOOLEAN /\ refused \in BOOLEAN /\ popping \in BOOLEAN
  BY DEF Init
<1> QED BY <1>1, <1>2, <1>3, <1>4 DEF TypeOK

(* Every variable of gnb_ring_buffer_fixed_t and of its two users keeps to *)
(* its range; in particular no index leaves the allocated blocks.          *)
THEOREM TypeCorrect == Spec => []TypeOK
<1>1. TypeOK /\ [Next]_vars => TypeOK' BY TypeStep
<1>2. Init => TypeOK BY TypeInit
<1> QED BY <1>1, <1>2, PTL DEF Spec

-----------------------------------------------------------------------------
(* The inductive invariant.                                                *)

(* _push left a block free and the consumer can only free more.            *)
RoomWhilePushing == pushing => Inc(tail_idx) # head_idx

(* _pop found a block and the producer can only add more.                  *)
BlockWhilePopping == popping => head_idx # tail_idx

(* What has been copied so far is the frame being pushed.                  *)
PartialFrame ==
  pushing => /\ frame \in Frame
             /\ \A p \in filled : blocks[tail_idx][p] = frame

(* Every block submitted and not yet handled holds one whole frame.        *)
WholeBlocks ==
  \A i \in Blocks :
    i < Count => \E f \in Frame : \A p \in Part : blocks[Slot(i)][p] = f

(* A handler has read nothing but the block at head_idx.                   *)
ReadFromHead ==
  popping => \A p \in Part : seen[p] \in {NoFrame, blocks[head_idx][p]}

IInv ==
  /\ TypeOK
  /\ RoomWhilePushing
  /\ BlockWhilePopping
  /\ PartialFrame
  /\ WholeBlocks
  /\ ReadFromHead

(* How Count and Slot relate to the indices, for any values of them.       *)
LEMMA SlotValue ==
  ASSUME head_idx \in Blocks, tail_idx \in Blocks
  PROVE  /\ Count \in Blocks
         /\ Count = 0 <=> head_idx = tail_idx
         /\ Count = BlockNumMask <=> Inc(tail_idx) = head_idx
         /\ Slot(0) = head_idx
         /\ Slot(Count) = tail_idx
         /\ \A i \in Blocks : Slot(i) \in Blocks
         /\ \A i, j \in Blocks : Slot(i) = Slot(j) => i = j
BY IncValue, MaskAssumption DEF Count, Slot, Blocks, BlockNum

(* A submitted push appends one slot and leaves the others where they are. *)
LEMMA PushMoves ==
  ASSUME head_idx \in Blocks, tail_idx \in Blocks,
         head_idx' = head_idx, tail_idx' = Inc(tail_idx), 
         Inc(tail_idx) # head_idx
  PROVE  /\ Count' = Count + 1
         /\ \A i \in Blocks : Slot(i)' = Slot(i)
BY IncValue, MaskAssumption DEF Count, Slot, Blocks, BlockNum

(* A submitted pop drops the first slot and shifts the others by one.      *)
LEMMA PopMoves ==
  ASSUME head_idx \in Blocks, tail_idx \in Blocks,
         tail_idx' = tail_idx, head_idx' = Inc(head_idx), 
         head_idx # tail_idx
  PROVE  /\ Count' = Count - 1
         /\ \A i \in Blocks : i + 1 \in Blocks => Slot(i)' = Slot(i + 1)
BY IncValue, MaskAssumption DEF Count, Slot, Blocks, BlockNum

LEMMA InvInit == Init => IInv
<1> SUFFICES ASSUME Init PROVE IInv
  OBVIOUS
<1>1. TypeOK BY TypeInit
<1>2. Count = 0 BY DEF Init, Count
<1>3. WholeBlocks BY <1>2 DEF WholeBlocks, Blocks
<1> QED BY <1>1, <1>3 
        DEF Init, IInv, RoomWhilePushing, BlockWhilePopping, PartialFrame,
            ReadFromHead

(* The actions that leave the indices and the blocks alone leave the       *)
(* waiting frames alone.                                                   *)
LEMMA RingUnchanged ==
  ASSUME TypeOK, UNCHANGED ringVars
  PROVE  /\ Count' = Count
         /\ \A i \in Blocks : Slot(i)' = Slot(i)
         /\ WholeBlocks => WholeBlocks'
BY DEF ringVars, Count, Slot, WholeBlocks, BlockNum, Blocks

(* A copy into the block at tail_idx: by SlotValue it is no waiting block, *)
(* and BlockExclusion keeps it apart from the one being read.              *)
LEMMA FillStep ==
  ASSUME IInv, NEW q \in Part, Fill(q)
  PROVE  IInv'
<1> USE DEF IInv
<1>1. TypeOK' BY TypeStep DEF Next, Produce
<1>2. /\ tail_idx \in Blocks /\ head_idx \in Blocks
      /\ head_idx' = head_idx /\ tail_idx' = tail_idx
      /\ blocks \in [Blocks -> [Part -> Frame \cup {NoFrame}]]
      /\ pushing' = pushing /\ popping' = popping /\ frame' = frame
  BY DEF Fill, TypeOK
<1>3. /\ blocks'[tail_idx] = [blocks[tail_idx] EXCEPT ![q] = frame]
      /\ \A i \in Blocks \ {tail_idx} : blocks'[i] = blocks[i]
  BY <1>2 DEF Fill
<1>4. RoomWhilePushing' /\ BlockWhilePopping'
  BY <1>2 DEF Fill, RoomWhilePushing, BlockWhilePopping, Inc, BlockNum
<1>5. PartialFrame'
  <2>1. \A p \in Part : blocks'[tail_idx][p] = IF p = q THEN frame
                                               ELSE blocks[tail_idx][p]
    BY <1>2, <1>3
  <2> QED BY <1>2, <2>1 DEF Fill, PartialFrame, TypeOK
<1>6. WholeBlocks'
  <2>1. Count' = Count /\ \A i \in Blocks : Slot(i)' = Slot(i)
    BY <1>2 DEF Count, Slot, BlockNum
  <2>2. ASSUME NEW i \in Blocks, i < Count
        PROVE  Slot(i) \in Blocks \ {tail_idx}
    BY <1>2, <2>2, SlotValue DEF Blocks
  <2>3. ASSUME NEW i \in Blocks, i < Count
        PROVE  blocks'[Slot(i)] = blocks[Slot(i)]
    BY <1>3, <2>2, <2>3
  <2> QED BY <2>1, <2>3 DEF WholeBlocks
<1>7. ReadFromHead'
  <2>1. CASE popping
    <3>1. head_idx \in Blocks \ {tail_idx}
      BY <1>2, <2>1 DEF BlockWhilePopping
    <3> QED BY <1>2, <1>3, <3>1 DEF Fill, ReadFromHead
  <2>2. CASE ~popping
    BY <1>2, <2>2 DEF ReadFromHead
  <2> QED BY <2>1, <2>2
<1> QED BY <1>1, <1>4, <1>5, <1>6, <1>7

(* The block submitted is whole, because every part of it was copied.      *)
LEMMA PushSubmitStep ==
  ASSUME IInv, PushSubmit
  PROVE  IInv'
<1> USE DEF IInv
<1>1. TypeOK' BY TypeStep DEF Next, Produce
<1>2. /\ tail_idx \in Blocks /\ head_idx \in Blocks
      /\ head_idx' = head_idx /\ tail_idx' = Inc(tail_idx)
      /\ Inc(tail_idx) # head_idx
      /\ blocks' = blocks /\ popping' = popping /\ seen' = seen
  BY DEF PushSubmit, TypeOK, RoomWhilePushing
<1>3. /\ Count' = Count + 1
      /\ \A i \in Blocks : Slot(i)' = Slot(i)
  BY <1>2, PushMoves
<1>4. RoomWhilePushing' /\ PartialFrame'
  BY DEF PushSubmit, RoomWhilePushing, PartialFrame
<1>5. BlockWhilePopping' /\ ReadFromHead'
  BY <1>2 DEF BlockWhilePopping, ReadFromHead
<1>6. WholeBlocks'
  <2>1. /\ frame \in Frame
        /\ \A p \in Part : blocks[Slot(Count)][p] = frame
    BY <1>2, SlotValue DEF PushSubmit, PartialFrame
  <2>2. Count \in Nat
    BY <1>2, SlotValue, MaskAssumption DEF Blocks
  <2>3. ASSUME NEW i \in Blocks, i < Count + 1
        PROVE  \E f \in Frame : \A p \in Part : blocks[Slot(i)][p] = f
    <3>1. i < Count \/ i = Count
      BY <2>2, <2>3 DEF Blocks
    <3>2. CASE i < Count
      BY <3>2 DEF WholeBlocks
    <3>3. CASE i = Count
      BY <2>1, <3>3, Zenon
    <3> QED BY <3>1, <3>2, <3>3
  <2> QED BY <1>2, <1>3, <2>3 DEF WholeBlocks
<1> QED BY <1>1, <1>4, <1>5, <1>6

(* _pop gives the block at head_idx, of which nothing has been read yet.   *)
LEMMA PopStep ==
  ASSUME IInv, Pop
  PROVE  IInv'
<1> USE DEF IInv
<1>1. TypeOK' BY TypeStep DEF Next, Consume
<1>2. WholeBlocks' BY RingUnchanged DEF Pop, ringVars
<1>3. RoomWhilePushing' /\ PartialFrame' /\ BlockWhilePopping'
  BY DEF Pop, RoomWhilePushing, PartialFrame, BlockWhilePopping, Inc, BlockNum
<1>4. ReadFromHead'
  BY DEF Pop, ReadFromHead, Unread
<1> QED BY <1>1, <1>2, <1>3, <1>4

LEMMA ReadStep ==
  ASSUME IInv, NEW q \in Part, Read(q)
  PROVE  IInv'
<1> USE DEF IInv
<1>1. TypeOK' BY TypeStep DEF Next, Consume
<1>2. WholeBlocks' BY RingUnchanged DEF Read, ringVars
<1>3. RoomWhilePushing' /\ PartialFrame' /\ BlockWhilePopping'
  BY DEF Read, RoomWhilePushing, PartialFrame, BlockWhilePopping, Inc, BlockNum
<1>4. ReadFromHead'
  BY DEF Read, ReadFromHead, TypeOK
<1> QED BY <1>1, <1>2, <1>3, <1>4

(* The oldest block leaves; head_idx cannot meet the block being filled.   *)
LEMMA PopSubmitStep ==
  ASSUME IInv, PopSubmit
  PROVE  IInv'
<1> USE DEF IInv
<1>1. TypeOK' BY TypeStep DEF Next, Consume
<1>2. /\ tail_idx \in Blocks /\ head_idx \in Blocks
      /\ tail_idx' = tail_idx /\ head_idx' = Inc(head_idx)
      /\ head_idx # tail_idx
      /\ blocks' = blocks /\ pushing' = pushing
      /\ frame' = frame /\ filled' = filled
  BY DEF PopSubmit, TypeOK, BlockWhilePopping
<1>3. /\ Count' = Count - 1
      /\ \A i \in Blocks : i + 1 \in Blocks => Slot(i)' = Slot(i + 1)
  BY <1>2, PopMoves
<1>4. RoomWhilePushing'
  BY <1>2, IncValue, MaskAssumption DEF RoomWhilePushing, Blocks, Inc, BlockNum
<1>5. PartialFrame'
  BY <1>2 DEF PartialFrame
<1>6. BlockWhilePopping' /\ ReadFromHead'
  BY DEF PopSubmit, BlockWhilePopping, ReadFromHead
<1>7. WholeBlocks'
  <2>1. Count \in Blocks
    BY <1>2, SlotValue
  <2>2. ASSUME NEW i \in Blocks, i < Count - 1
        PROVE  i + 1 \in Blocks /\ i + 1 < Count
    BY <2>1, <2>2, MaskAssumption DEF Blocks
  <2> QED BY <1>2, <1>3, <2>2 DEF WholeBlocks
<1> QED BY <1>1, <1>4, <1>5, <1>6, <1>7

LEMMA InvStep == IInv /\ [Next]_vars => IInv'
<1> SUFFICES ASSUME IInv, [Next]_vars PROVE IInv'
  OBVIOUS
<1>0. TypeOK' BY TypeStep DEF IInv
<1>1. ASSUME NEW f \in Frame, Push(f) PROVE IInv'
  <2>1. WholeBlocks'
    BY <1>1, RingUnchanged DEF IInv, Push, ringVars
  <2> QED BY <1>0, <1>1, <2>1
          DEF IInv, Push, RoomWhilePushing, BlockWhilePopping, PartialFrame,
              ReadFromHead, Inc, BlockNum
<1>2. CASE PushFull
  <2>1. WholeBlocks'
    BY <1>2, RingUnchanged DEF IInv, PushFull, ringVars
  <2> QED BY <1>0, <1>2, <2>1
          DEF IInv, PushFull, RoomWhilePushing, BlockWhilePopping,
              PartialFrame, ReadFromHead, Inc, BlockNum
<1>3. ASSUME NEW p \in Part, Fill(p) PROVE IInv'
  BY <1>3, FillStep
<1>4. CASE PushSubmit
  BY <1>4, PushSubmitStep
<1>5. CASE Abandon
  <2>1. WholeBlocks'
    BY <1>5, RingUnchanged DEF IInv, Abandon, ringVars
  <2> QED BY <1>0, <1>5, <2>1
          DEF IInv, Abandon, RoomWhilePushing, BlockWhilePopping,
              PartialFrame, ReadFromHead
<1>6. CASE Pop
  BY <1>6, PopStep
<1>7. ASSUME NEW p \in Part, Read(p) PROVE IInv'
  BY <1>7, ReadStep
<1>8. CASE PopSubmit
  BY <1>8, PopSubmitStep
<1>9. CASE UNCHANGED vars
  <2>1. WholeBlocks'
    BY <1>9, RingUnchanged DEF IInv, vars, ringVars
  <2> QED BY <1>0, <1>9, <2>1
          DEF IInv, vars, RoomWhilePushing, BlockWhilePopping, PartialFrame,
              ReadFromHead, Inc, BlockNum
<1> QED
  BY <1>1, <1>2, <1>3, <1>4, <1>5, <1>6, <1>7, <1>8, <1>9
     DEF Next, Produce, Consume

(* The strengthened invariant holds of every run.                          *)
THEOREM Inductive == Spec => []IInv
BY InvInit, InvStep, PTL DEF Spec

(* The two threads are never in the same block, for any mask.              *)
THEOREM Exclusion == Spec => []BlockExclusion
<1>1. IInv => BlockExclusion
  BY DEF IInv, BlockWhilePopping, BlockExclusion
<1> QED BY <1>1, Inductive, PTL

(* A handler only ever sees the parts of one submitted frame.              *)
THEOREM FramesWhole == Spec => []WholeFrames
<1>1. IInv => WholeFrames
  <2> SUFFICES ASSUME IInv, popping
               PROVE  \E f \in Frame : \A p \in Part : seen[p] \in {NoFrame, f}
    BY DEF WholeFrames
  <2>1. 0 \in Blocks /\ 0 < Count /\ Slot(0) = head_idx
    BY SlotValue, MaskAssumption DEF IInv, TypeOK, BlockWhilePopping, Blocks
  <2>2. PICK f \in Frame : \A p \in Part : blocks[head_idx][p] = f
    BY <2>1 DEF IInv, WholeBlocks
  <2> QED BY <2>2 DEF IInv, ReadFromHead
<1> QED BY <1>1, Inductive, PTL

-----------------------------------------------------------------------------
(* The refinement of BoundedQueue.                                         *)

(* The waiting frames are a sequence of Count frames.                      *)
WaitingIsSeq ==
  /\ Count \in Nat
  /\ Waiting \in Seq(Frame)
  /\ Len(Waiting) = Count
  /\ \A i \in 1 .. Count : Waiting[i] = blocks[Slot(i - 1)]["payload"]

LEMMA WaitingSeq == IInv => WaitingIsSeq
<1> SUFFICES ASSUME IInv PROVE WaitingIsSeq
  OBVIOUS
<1>1. Count \in Nat /\ Count \in Blocks
  BY SlotValue, MaskAssumption DEF IInv, TypeOK, Blocks
<1>2. ASSUME NEW i \in 1 .. Count
      PROVE  blocks[Slot(i - 1)]["payload"] \in Frame
  <2>1. i - 1 \in Blocks /\ i - 1 < Count
    BY <1>1, MaskAssumption DEF Blocks
  <2>2. PICK f \in Frame : \A p \in Part : blocks[Slot(i - 1)][p] = f
    BY <2>1 DEF IInv, WholeBlocks
  <2> QED BY <2>2 DEF Part
<1>3. Waiting \in [1 .. Count -> Frame]
  BY <1>2 DEF Waiting
<1>4. Waiting \in Seq(Frame) /\ Len(Waiting) = Count
  BY <1>1, <1>3
<1> QED BY <1>1, <1>4 DEF Waiting, WaitingIsSeq

LEMMA QueueInit == Init => Queue!Init
<1> SUFFICES ASSUME Init PROVE Queue!Init
  OBVIOUS
<1>1. Count = 0
  BY DEF Init, Count
<1>2. Waiting = << >>
  BY <1>1 DEF Waiting
<1> QED BY <1>2 DEF Init, Queue!Init

(* Steps inside a push, a pop or a copy do not show in the queue.          *)
LEMMA QueueStutters ==
  ASSUME IInv, IInv', UNCHANGED <<head_idx, tail_idx, refused, handled>>,
         \A i \in Blocks : i < Count =>
            blocks'[Slot(i)]["payload"] = blocks[Slot(i)]["payload"]
  PROVE  UNCHANGED Queue!vars
<1>1. Count' = Count /\ \A i \in Blocks : Slot(i)' = Slot(i)
  BY DEF Count, Slot, BlockNum
<1>2. WaitingIsSeq /\ WaitingIsSeq'
  BY WaitingSeq, PTL
<1>3. Count \in Blocks
  BY SlotValue DEF IInv, TypeOK
<1>4. ASSUME NEW i \in 1 .. Count PROVE Waiting'[i] = Waiting[i]
  <2>1. i - 1 \in Blocks /\ i - 1 < Count
    BY <1>3, MaskAssumption DEF Blocks
  <2> QED BY <1>1, <1>2, <2>1 DEF WaitingIsSeq
<1>5. Waiting' = Waiting
  BY <1>1, <1>2, <1>4, SeqEqual DEF WaitingIsSeq
<1> QED BY <1>5 DEF Queue!vars

(* A submitted push is the abstract Accept of the frame pushed.            *)
LEMMA QueueAccepts ==
  ASSUME IInv, IInv', PushSubmit
  PROVE  Queue!Accept(frame) /\ frame \in Frame
<1>1. /\ tail_idx \in Blocks /\ head_idx \in Blocks
      /\ head_idx' = head_idx /\ tail_idx' = Inc(tail_idx)
      /\ Inc(tail_idx) # head_idx
      /\ blocks' = blocks /\ refused' = refused /\ handled' = handled
      /\ frame \in Frame
      /\ blocks[tail_idx]["payload"] = frame
  BY DEF PushSubmit, IInv, TypeOK, RoomWhilePushing, PartialFrame, Part
<1>2. /\ Count' = Count + 1
      /\ \A i \in Blocks : Slot(i)' = Slot(i)
  BY <1>1, PushMoves
<1>3. /\ Count \in Blocks
      /\ Count # BlockNumMask
      /\ Slot(Count) = tail_idx
  BY <1>1, SlotValue
<1>4. WaitingIsSeq /\ WaitingIsSeq'
  BY WaitingSeq, PTL
<1>5. /\ Append(Waiting, frame) \in Seq(Frame)
      /\ Len(Append(Waiting, frame)) = Count + 1
      /\ \A i \in 1 .. Count : Append(Waiting, frame)[i] = Waiting[i]
      /\ Append(Waiting, frame)[Count + 1] = frame
  BY <1>1, <1>4, AppendProperties DEF WaitingIsSeq
<1>6. ASSUME NEW i \in 1 .. Count + 1
      PROVE  Waiting'[i] = Append(Waiting, frame)[i]
  <2>1. Waiting'[i] = blocks[Slot(i - 1)]["payload"]
    BY <1>1, <1>2, <1>3, <1>4, MaskAssumption DEF WaitingIsSeq, Blocks
  <2>2. CASE i \in 1 .. Count
    BY <1>4, <1>5, <2>1, <2>2 DEF WaitingIsSeq
  <2>3. CASE i = Count + 1
    BY <1>1, <1>3, <1>4, <1>5, <2>1, <2>3 DEF WaitingIsSeq
  <2> QED BY <1>4, <2>2, <2>3 DEF WaitingIsSeq
<1>7. Waiting' = Append(Waiting, frame)
  BY <1>2, <1>4, <1>5, <1>6, SeqEqual DEF WaitingIsSeq
<1>8. Len(Waiting) < BlockNumMask
  BY <1>3, <1>4, MaskAssumption DEF WaitingIsSeq, Blocks
<1> QED BY <1>1, <1>7, <1>8 DEF Queue!Accept

(* A submitted pop is the abstract Handle.                                 *)
LEMMA QueueHandles ==
  ASSUME IInv, IInv', PopSubmit
  PROVE  Queue!Handle
<1>1. /\ tail_idx \in Blocks /\ head_idx \in Blocks
      /\ tail_idx' = tail_idx /\ head_idx' = Inc(head_idx)
      /\ head_idx # tail_idx
      /\ blocks' = blocks /\ refused' = refused
  BY DEF PopSubmit, IInv, TypeOK, BlockWhilePopping
<1>2. /\ Count' = Count - 1
      /\ \A i \in Blocks : i + 1 \in Blocks => Slot(i)' = Slot(i + 1)
  BY <1>1, PopMoves
<1>3. Count \in Blocks /\ Count # 0 /\ Slot(0) = head_idx
  BY <1>1, SlotValue
<1>4. WaitingIsSeq /\ WaitingIsSeq'
  BY WaitingSeq, PTL
<1>5. Count \in Nat \ {0} /\ Waiting # << >>
  BY <1>3, <1>4 DEF WaitingIsSeq
<1>6. handled' = <<Head(Waiting)>>
  <2>1. Head(Waiting) = blocks[head_idx]["payload"]
    BY <1>3, <1>4, <1>5 DEF WaitingIsSeq
  <2>2. seen["payload"] = blocks[head_idx]["payload"]
    BY DEF IInv, PopSubmit, ReadFromHead, Part
  <2> QED BY <2>1, <2>2 DEF PopSubmit
<1>7. /\ Tail(Waiting) \in Seq(Frame)
      /\ Len(Tail(Waiting)) = Count - 1
      /\ \A i \in 1 .. Count - 1 : Tail(Waiting)[i] = Waiting[i + 1]
  BY <1>4, <1>5, HeadTailProperties DEF WaitingIsSeq
<1>8. ASSUME NEW i \in 1 .. Count - 1
      PROVE  Waiting'[i] = Tail(Waiting)[i]
  <2>1. i \in 1 .. Count /\ i + 1 \in 1 .. Count
    BY <1>5
  <2>2. Waiting'[i] = blocks[Slot(i - 1)']["payload"]
    BY <1>1, <1>2, <1>4 DEF WaitingIsSeq
  <2>3. Slot(i - 1)' = Slot(i)
    <3>1. i - 1 \in Blocks /\ (i - 1) + 1 \in Blocks
      BY <1>3, MaskAssumption DEF Blocks
    <3> QED BY <1>2, <3>1
  <2>4. Waiting[i + 1] = blocks[Slot(i)]["payload"]
    BY <1>4, <2>1 DEF WaitingIsSeq
  <2> QED BY <1>7, <2>2, <2>3, <2>4
<1>9. Waiting' = Tail(Waiting)
  BY <1>2, <1>4, <1>7, <1>8, SeqEqual DEF WaitingIsSeq
<1> QED BY <1>1, <1>5, <1>6, <1>9 DEF Queue!Handle

(* A push that finds no room is the abstract Refuse: the ring is full      *)
(* exactly when block_num_mask frames wait, not one block earlier.         *)
LEMMA QueueRefuses ==
  ASSUME IInv, IInv', PushFull
  PROVE  Queue!Refuse
<1>1. Count = BlockNumMask
  BY SlotValue DEF IInv, TypeOK, PushFull
<1>2. Len(Waiting) = BlockNumMask
  BY <1>1, WaitingSeq DEF WaitingIsSeq
<1>3. Waiting' = Waiting
  BY DEF PushFull, Waiting, Count, Slot, BlockNum
<1> QED BY <1>2, <1>3 DEF Queue!Refuse, PushFull

LEMMA QueueStep == IInv /\ IInv' /\ [Next]_vars => [Queue!Next]_(Queue!vars)
<1> SUFFICES ASSUME IInv, IInv', [Next]_vars
             PROVE  [Queue!Next]_(Queue!vars)
  OBVIOUS
<1>1. ASSUME NEW f \in Frame, Push(f) PROVE UNCHANGED Queue!vars
  BY <1>1, QueueStutters DEF Push
<1>2. CASE PushFull
  BY <1>2, QueueRefuses DEF Queue!Next
<1>3. ASSUME NEW p \in Part, Fill(p) PROVE UNCHANGED Queue!vars
  <2>1. ASSUME NEW i \in Blocks, i < Count
        PROVE  Slot(i) \in Blocks /\ Slot(i) # tail_idx
    BY <2>1, SlotValue DEF IInv, TypeOK, Blocks
  <2>2. ASSUME NEW i \in Blocks, i < Count
        PROVE  blocks'[Slot(i)]["payload"] = blocks[Slot(i)]["payload"]
    BY <1>3, <2>1, <2>2 DEF Fill, IInv, TypeOK
  <2> QED BY <1>3, <2>2, QueueStutters DEF Fill
<1>4. CASE PushSubmit
  BY <1>4, QueueAccepts DEF Queue!Next
<1>5. CASE Abandon
  BY <1>5, QueueStutters DEF Abandon
<1>6. CASE Pop
  BY <1>6, QueueStutters DEF Pop
<1>7. ASSUME NEW p \in Part, Read(p) PROVE UNCHANGED Queue!vars
  BY <1>7, QueueStutters DEF Read
<1>8. CASE PopSubmit
  BY <1>8, QueueHandles DEF Queue!Next
<1>9. CASE UNCHANGED vars
  BY <1>9, QueueStutters DEF vars
<1> QED
  BY <1>1, <1>2, <1>3, <1>4, <1>5, <1>6, <1>7, <1>8, <1>9
     DEF Next, Produce, Consume

(* The ring and its two unlocked threads implement the bounded queue: the  *)
(* frames accepted come out whole, once, in order, and a frame is refused  *)
(* only when block_num_mask frames wait.                                   *)
THEOREM RingImplementsQueue == Spec => ImplementsQueue
BY QueueInit, QueueStep, Inductive, PTL DEF ImplementsQueue, Queue!Spec, Spec
=============================================================================

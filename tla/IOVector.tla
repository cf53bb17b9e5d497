----------------------------- MODULE IOVector -----------------------------
(***************************************************************************)
(* IOVector (types.h): a chain of shared blocks with offsets into the      *)
(* first and the last, from whose front bytes are split off without a      *)
(* copy.                                                                   *)
(***************************************************************************)
EXTENDS Integers, Sequences, SequencesExt, FiniteSetsExt

EmptyVec == [chain |-> <<>>, chain_length |-> 0, begin_offset |-> 0, end_offset |-> 0]

size(v) == v.chain_length - v.begin_offset - v.end_offset

empty(v) == size(v) = 0

\* append and append_shared
append(v, block) == [v EXCEPT !.chain = Append(@, block), !.chain_length = @ + Len(block)]

\* Mutant: the length still counts the block.
pop_front_block_Long(v) == [v EXCEPT !.begin_offset = 0, !.chain = Tail(@)]

pop_front_block(v) ==
  [v EXCEPT !.chain_length = @ - Len(Head(v.chain)), !.begin_offset = 0, !.chain = Tail(@)]

\* k blocks moved from v into a vector of their own, all but the last of
\* them popped: take_front after k turns of its loop.
TakeBlocks(v, k) ==
  LET blocks == SubSeq(v.chain, 1, k)
      popped == SubSeq(v.chain, 1, k - 1)
      Length(s) == Len(FlattenSeq(s))
  IN [head |-> [EmptyVec EXCEPT !.chain = blocks, !.chain_length = Length(blocks),
                                !.begin_offset = v.begin_offset],
      rest |-> IF k = 1 THEN v
               ELSE [v EXCEPT !.chain = SubSeq(@, k, Len(@)), !.begin_offset = 0,
                              !.chain_length = @ - Length(popped)]]

\* The last block is shared: its first bytes are the head's.
Split(t, len) ==
  LET extra == size(t.head) - len
  IN [head |-> [t.head EXCEPT !.end_offset = extra],
      rest |-> [t.rest EXCEPT !.begin_offset = Len(Head(t.rest.chain)) - extra]]

take_front(v, len) ==
  IF len = 0 THEN [head |-> EmptyVec, rest |-> v]
  ELSE LET k == Min({j \in 1..Len(v.chain) : size(TakeBlocks(v, j).head) >= len})
           t == TakeBlocks(v, k)
       IN IF size(t.head) = len
          THEN [head |-> t.head, rest |-> pop_front_block(t.rest)]
          ELSE Split(t, len)

\* iterate_blocks: what each block contributes; iovecs returns them.
iovecs(v) ==
  [i \in 1..Len(v.chain) |->
     LET first == IF i = 1 THEN v.begin_offset + 1 ELSE 1
         last == Len(v.chain[i]) - (IF i = Len(v.chain) THEN v.end_offset ELSE 0)
     IN SubSeq(v.chain[i], first, last)]

coalesce(v) == IF size(v) = 0 THEN <<>> ELSE FlattenSeq(iovecs(v))

(* The length kept incrementally is that of the blocks, the offsets stay   *)
(* within the first and the last block (the CHECKs of take_front and       *)
(* iterate_blocks), and no block is empty (those of append): size() never  *)
(* wraps and an empty chain has no offsets.                                *)
WellFormed(v) ==
  /\ v.chain_length = Len(FlattenSeq(v.chain))
  /\ v.begin_offset + v.end_offset <= v.chain_length
  /\ v.chain # <<>> => v.begin_offset <= Len(Head(v.chain)) /\ v.end_offset <= Len(Last(v.chain))
  /\ v.chain = <<>> => v.begin_offset = 0 /\ v.end_offset = 0
  /\ \A i \in 1..Len(v.chain) : v.chain[i] # <<>>
=============================================================================

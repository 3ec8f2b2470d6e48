-------------------------- MODULE StreamReassembler --------------------------
(***************************************************************************)
(* libsponge/stream_reassembler.{hh,cc}.  The object is a record of its    *)
(* members; unassemBuf, a std::map from stream index to string, is a       *)
(* function on a finite set of indices.  The loops over the ordered map    *)
(* become conditions on its keys, because every loop walks the keys in one *)
(* direction and stops at the first that fails a test.                     *)
(***************************************************************************)
EXTENDS ByteStream, FiniteSets

\* eofIndex{-1}: no segment has carried the end of the stream.
NoEof == -1

\* The filler of `string mergedStr(n, '-')`.
Dash == "-"

NewStreamReassembler(capacity) ==
  [output |-> NewByteStream(capacity), capacity |-> capacity,
   unassemBuf |-> [k \in {} |-> << >>], assemBuf |-> << >>, expectIdx |-> 0,
   unassemSize |-> 0, eofIndex |-> NoEof]

-----------------------------------------------------------------------------
\* The least and the greatest of a set of keys: begin(), and the entry an
\* iterator stands on when its walk ends.
Least(K) == CHOOSE k \in K : \A j \in K : k <= j

Greatest(K) == CHOOSE k \in K : \A j \in K : j <= k

\* One past the last index that the string stored at key k covers.
EndOf(m, k) == k + Len(m[k])

\* The number of bytes stored under the keys K.
StoredBytes(m, K) ==
  Cardinality(UNION {{k} \X (1 .. Len(m[k])) : k \in K})

\* The part of the map under the keys K.
Entries(m, K) == [k \in K |-> m[k]]

-----------------------------------------------------------------------------
(* pushUnassem: clip what is already assembled, store, merge overlaps.     *)

\* The string that the merge loop leaves for indices left .. right-1: the
\* strings under the keys K are copied in key order, so a later one wins.
MergedString(m, K, left, right) ==
  [p \in 1 .. right - left |->
    LET x == left + p - 1
        covering == {k \in K : k <= x /\ x < EndOf(m, k)}
    IN  IF covering = {} THEN Dash
        ELSE m[Greatest(covering)][x - Greatest(covering) + 1]]

\* Mutant: the new string is stored without a merge.
Merge_never(m, idx, data) ==
  [k \in DOMAIN m \cup {idx} |-> IF k = idx THEN data ELSE m[k]]

\* Insert data at key idx and fold into one entry whatever it overlaps.  The
\* entry before it is merged only if it reaches beyond idx; entries that start
\* inside data are merged, and none does when data is empty.
Merge(m, idx, data) ==
  LET stored  == [k \in DOMAIN m \cup {idx} |-> IF k = idx THEN data ELSE m[k]]
      before  == {k \in DOMAIN stored : k < idx}
      joined  == before # {} /\ EndOf(stored, Greatest(before)) > idx
      left    == IF joined THEN Greatest(before) ELSE idx
      inside  == {k \in DOMAIN stored : idx <= k /\ k < idx + Len(data)}
      copied  == inside \cup (IF joined THEN {left} ELSE {})
      right   == Greatest({idx + Len(data), EndOf(stored, left)}
                            \cup {EndOf(stored, k) : k \in inside})
      merged  == MergedString(stored, copied, left, right)
      kept    == DOMAIN stored \ (inside \ {left})
  IN  [k \in kept |-> IF k = left THEN merged ELSE stored[k]]

pushUnassem(r, data, index) ==
  LET m        == r.unassemBuf
      skip     == IF index < r.expectIdx THEN r.expectIdx - index ELSE 0
      validIdx == index + skip
      validStr == Suffix(data, skip)
  IN  IF \/ index + Len(data) <= r.expectIdx
         \/ validIdx \in DOMAIN m /\ Len(m[validIdx]) >= Len(validStr)
      THEN r
      ELSE [r EXCEPT !.unassemBuf = Merge(m, validIdx, validStr)]

-----------------------------------------------------------------------------
(* fixCap: drop stored bytes from the highest index downwards until the    *)
(* assembled and the stored bytes fit the capacity.                        *)

\* The bytes stored under keys above k: what the loop has erased when it
\* reaches k.
BytesAbove(m, k) == StoredBytes(m, {j \in DOMAIN m : k < j})

\* By how much the capacity is exceeded; negative when there is room.
Overflow(r) ==
  Len(r.assemBuf) + StoredBytes(r.unassemBuf, DOMAIN r.unassemBuf) - r.capacity

\* The loop erases every entry, steps before begin() and goes on to read the
\* entry it has just freed.
FixCapRunsOff(r) ==
  /\ DOMAIN r.unassemBuf # {}
  /\ Overflow(r) >= StoredBytes(r.unassemBuf, DOMAIN r.unassemBuf)

\* Mutant: a full map loses one byte too many.
fixCap_one_more(r) ==
  LET m    == r.unassemBuf
      over == Overflow(r) + 1
      kept == {k \in DOMAIN m : BytesAbove(m, k) + Len(m[k]) > over}
      cut(k) == IF BytesAbove(m, k) < over THEN over - BytesAbove(m, k) ELSE 0
  IN  IF over <= 0 THEN r
      ELSE [r EXCEPT !.unassemBuf =
              [k \in kept |-> Prefix(m[k], Len(m[k]) - cut(k))]]

fixCap(r) ==
  LET m    == r.unassemBuf
      over == Overflow(r)
      kept == {k \in DOMAIN m : BytesAbove(m, k) + Len(m[k]) > over}
      cut(k) == IF BytesAbove(m, k) < over THEN over - BytesAbove(m, k) ELSE 0
  IN  IF over < 0 THEN r
      ELSE [r EXCEPT !.unassemBuf =
              [k \in kept |-> Prefix(m[k], Len(m[k]) - cut(k))]]

-----------------------------------------------------------------------------
(* assem: move the entries that continue the assembled bytes.              *)

\* Mutant: one entry is taken, not those that continue it.
Contiguous_first(m, expectIdx) == {k \in DOMAIN m : k = expectIdx}

\* The entries the loop takes: it stops at the first key, in order, that is
\* not where the previous one ended.
Contiguous(m, expectIdx) ==
  {k \in DOMAIN m :
     \A j \in DOMAIN m : j <= k =>
       LET before == {i \in DOMAIN m : i < j}
       IN  j = IF before = {} THEN expectIdx ELSE EndOf(m, Greatest(before))}

assem(r) ==
  LET m     == r.unassemBuf
      taken == Contiguous(m, r.expectIdx)
      left  == DOMAIN m \ taken
      next  == IF taken = {} THEN r.expectIdx ELSE EndOf(m, Greatest(taken))
  IN  [r EXCEPT !.unassemBuf = Entries(m, left),
                !.assemBuf = @ \o MergedString(m, taken, r.expectIdx, next),
                !.expectIdx = next,
                !.unassemSize = StoredBytes(m, left)]

\* Mutant: the assembled bytes that the output has no room for are dropped.
writeStr_clears(r) ==
  [r EXCEPT !.output = write(@, r.assemBuf), !.assemBuf = << >>]

writeStr(r) ==
  [r EXCEPT !.output = write(@, r.assemBuf),
            !.assemBuf = Suffix(@, write_count(r.output, r.assemBuf))]

-----------------------------------------------------------------------------
\* What push_substring has done just before it calls fixCap.
BeforeFixCap(r, data, index, last) ==
  pushUnassem([r EXCEPT !.eofIndex = IF last THEN index + Len(data) ELSE @],
              data, index)

push_substring(r, data, index, last) ==
  LET w == writeStr(assem(fixCap(BeforeFixCap(r, data, index, last))))
  IN  IF w.assemBuf = << >> /\ w.expectIdx = w.eofIndex
      THEN [w EXCEPT !.output = end_input(@)]
      ELSE w

unassembled_bytes(r) == r.unassemSize
=============================================================================

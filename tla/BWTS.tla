-------------------------------- MODULE BWTS --------------------------------
(***************************************************************************)
(* The bijective Burrows-Wheeler transform (src/v2/transform/BWTS.go): the *)
(* suffix array is corrected, one Lyndon word of the block after the       *)
(* other, until it is the order of the rotations of these words; no index  *)
(* is needed to invert it.                                                 *)
(***************************************************************************)
EXTENDS Bytes

MaxEncodedLen(n) == n

(* A suffix array sa and its inverse isa; suffix s moves to rank r. *)
Put(t, s, r) == [sa |-> [t.sa EXCEPT ![r] = s], isa |-> [t.isa EXCEPT ![s] = r]]

Suffixes(src) ==
  LET rank == SuffixRanks(src)
  IN [isa |-> rank, sa |-> [r \in DOMAIN rank |-> CHOOSE i \in DOMAIN rank : rank[i] = r]]

(* moveLyndonWordHead: the head of a word moves behind the suffixes that   *)
(* are not greater than its rotation.                                      *)
RECURSIVE MoveHead(_, _, _, _, _)
MoveHead(t, src, start, size, rank) ==
  LET n == Len(src)
      next == t.sa[rank + 1]
      most == Smaller(size, n - next)
      k == Least({x \in 0 .. most : x = most \/ At(src, start + x) # At(src, next + x)})
      before == \/ k = size /\ rank < t.isa[next + k]
                \/ k < size /\ next + k < n /\ At(src, start + k) < At(src, next + k)
  IN IF rank + 1 >= n THEN [t |-> Put(t, start, rank), rank |-> rank]
     ELSE IF next <= start + size \/ before
     THEN [t |-> Put(t, start, rank), rank |-> rank]
     ELSE MoveHead(Put(t, next, rank), src, start, size, rank + 1)

RECURSIVE MoveOne(_, _, _, _, _)
MoveOne(t, src, j, rank, ref) ==
  LET next == t.sa[rank + 1]
  IN IF rank >= Len(src) - 1 THEN [t |-> Put(t, j, rank), rank |-> rank]
     ELSE IF j > next \/ At(src, j) # At(src, next) \/ ref < t.isa[next + 1]
     THEN [t |-> Put(t, j, rank), rank |-> rank]
     ELSE MoveOne(Put(t, next, rank), src, j, rank + 1, ref)

(* The rest of the word, from its end, until a suffix stays where it is. *)
RECURSIVE MoveRest(_, _, _, _, _)
MoveRest(t, src, j, head, ref) ==
  LET m == MoveOne(t, src, j, t.isa[j], ref)
  IN IF j <= head THEN t
     ELSE IF m.rank = t.isa[j] THEN m.t
     ELSE MoveRest(m.t, src, j - 1, head, m.rank)

(* A word ends where a suffix is smaller than all before it. *)
RECURSIVE Words(_, _, _, _, _)
Words(t, src, i, min, head) ==
  LET h == MoveHead(t, src, head, i - head, min)
      moved == MoveRest(h.t, src, i - 1, head, h.rank)
  IN IF i >= Len(src) \/ min <= 0 THEN t
     ELSE IF t.isa[i] >= min THEN Words(t, src, i + 1, min, head)
     ELSE Words(moved, src, i + 1, moved.isa[i], i)

(* The symbol before every suffix goes to its rank; that before the head   *)
(* of a word is the last one of the word.                                  *)
RECURSIVE Emit(_, _, _, _, _)
Emit(isa, src, i, min, dst) ==
  LET n == Len(src)
      set(d, r, c) == [d EXCEPT ![r + 1] = c]
  IN IF i = n THEN set(dst, 0, At(src, n - 1))
     ELSE IF isa[i] >= min THEN Emit(isa, src, i + 1, min, set(dst, isa[i], At(src, i - 1)))
     ELSE Emit(isa, src, i + 1, isa[i],
               IF min < n THEN set(dst, min, At(src, i - 1)) ELSE dst)

Forwards(src, room) ==
  LET n == Len(src)
      sorted == Suffixes(src)
      words == Words(sorted, src, 1, sorted.isa[0], 0)
  IN {IF room < MaxEncodedLen(n) THEN Failed
      ELSE IF n < 2 THEN Done(src)
      ELSE Done(Emit(words.isa, src, 0, n, src))}

(* Inverse: the cycles of the stable sorting permutation lf, each from the *)
(* first row that is left, written from the end of the block.              *)
RECURSIVE Cycles(_, _, _, _)
Cycles(src, lf, p, out) ==
  IF Len(out) = Len(src) THEN out
  ELSE LET i == IF lf[p] >= 0 THEN p ELSE Least({x \in DOMAIN lf : lf[x] >= 0})
       IN Cycles(src, [lf EXCEPT ![i] = -1], lf[i], <<At(src, i)>> \o out)

Inverse(src, room) ==
  LET n == Len(src)
      lf == [i \in 0 .. n - 1 |->
               Cardinality({j \in 0 .. n - 1 :
                  At(src, j) < At(src, i) \/ (At(src, j) = At(src, i) /\ j < i)})]
  IN IF n > room THEN Failed
     ELSE IF n < 2 THEN Done(src)
     ELSE Done(Cycles(src, lf, 0, <<>>))
=============================================================================

-------------------------------- MODULE SBRT --------------------------------
(***************************************************************************)
(* The sort by rank transforms (src/v2/transform/SBRT.go): every byte is   *)
(* replaced by its rank in a list that is reordered after each access, by  *)
(* the last access (MTF), the one before it (TIMESTAMP) or their mean      *)
(* (RANK).  The inverse keeps the same list.                               *)
(***************************************************************************)
EXTENDS Bytes

CONSTANTS Modes, HeaderRoom   \* the modes in use; _BWT_MAX_HEADER_SIZE (32)

MaxEncodedLen(n) == n + HeaderRoom

(* The list: the symbol of every rank, the last access of every symbol and *)
(* its key.  The table of the ranks, s2r, is the inverse of symbol.        *)
NewList == [symbol |-> [r \in Byte |-> r], last |-> [c \in Byte |-> 0],
            key |-> [c \in Byte |-> 0]]

Rank(list, c) == CHOOSE r \in Byte : list.symbol[r] = c

(* The masks m1, m2 and the shift of a mode. *)
Key(mode, i, last) ==
  CASE mode = "MTF" -> i
    [] mode = "RANK" -> (i + last) \div 2
    [] mode = "TIMESTAMP" -> last

(* The symbol at rank r is accessed at time i: it moves up past the        *)
(* symbols whose key is not higher.                                        *)
Access(mode, list, i, r) ==
  LET c == list.symbol[r]
      key == [list.key EXCEPT ![c] = Key(mode, i, list.last[c])]
      to == Least({k \in 0 .. r :
                     \A j \in k .. r - 1 : key[list.symbol[j]] <= key[c]})
  IN [symbol |-> [j \in Byte |-> IF j = to THEN c
                                 ELSE IF j \in to + 1 .. r THEN list.symbol[j - 1]
                                 ELSE list.symbol[j]],
      last |-> [list.last EXCEPT ![c] = i],
      key |-> key]

RECURSIVE Encode(_, _, _, _)
Encode(mode, src, list, out) ==
  LET i == Len(out)
      r == Rank(list, At(src, i))
  IN IF i = Len(src) THEN out
     ELSE Encode(mode, src, Access(mode, list, i, r), Append(out, r))

RECURSIVE Decode(_, _, _, _)
Decode(mode, src, list, out) ==
  LET i == Len(out)
      r == At(src, i)
  IN IF i = Len(src) THEN out
     ELSE Decode(mode, src, Access(mode, list, i, r), Append(out, list.symbol[r]))

Forwards(mode, src, room) ==
  {IF room < MaxEncodedLen(Len(src)) THEN Failed
   ELSE Done(Encode(mode, src, NewList, <<>>))}

Inverse(mode, src, room) ==
  IF Len(src) > room THEN Failed ELSE Done(Decode(mode, src, NewList, <<>>))
=============================================================================

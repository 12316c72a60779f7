----------------------------- MODULE Transforms -----------------------------
(***************************************************************************)
(* The transforms by their types (src/v2/transform/Factory.go), each an    *)
(* instance of its module whose limits are scaled to bytes of four bits:   *)
(* blocks of a few dozen bytes reach every header, escape and size class.  *)
(***************************************************************************)
EXTENDS Bytes

CONSTANT Jobs   \* jobs of a task, those that a transform may start

RunLength == INSTANCE RLT WITH EncodeOne <- 10, RunThreshold <- 3, MinBlock <- 6,
                               DefaultEscape <- 11, ShortBlock <- 12, Slack <- 4
ZeroRuns == INSTANCE ZRLT
ByRank == INSTANCE SBRT WITH Modes <- {"MTF", "RANK"}, HeaderRoom <- 4
SortedRanks == INSTANCE SRT WITH HeaderGroups <- 4
FixedStep == INSTANCE FSD WITH Distances <- {1, 2}, MinBlock <- 4, MinRoom <- 6
Packed == INSTANCE Alias WITH MinBlock <- 4, MinFree <- 2, MinSavings <- 20, ExtraRoom <- 8,
                              SizeBytes <- 2, ShortHistogram <- 6
Sorted == INSTANCE BWT WITH Chunks <- 2, Threshold1 <- 6, Threshold2 <- 9, FastBits <- 2,
                            MaxIndexSize <- 4, HeaderRoom <- 5
Bijective == INSTANCE BWTS
Unicode == INSTANCE UTF WITH Never <- {12}, Mark <- <<14, 10, 11>>, MinBlock <- 16,
                             TagShift <- 9, ExtraRoom <- 8
Prediction == INSTANCE LZP WITH Context <- 2, HashSize <- 37, MinMatch <- 4, Word <- 2,
                                MinBlock <- 6, SavedShift <- 6, ShortBlock <- 64, Slack <- 4
LempelZiv(HashBytes, HashSize) ==
  INSTANCE LZX WITH LitBits <- 1, MatchBits <- 2, MinMatch <- 3, MinMatchDNA <- 5,
                    MaxMatch <- 200, Word <- 3, MaxDistance1 <- 254, MaxDistance2 <- 4094,
                    FarBlock <- 100, LastBytes <- 8, MinBlock <- 12, SizeBytes <- 2,
                    SkipShift <- 3, ShortBlock <- 64, Slack <- 4

(* The types, NONE_TYPE apart, and their names: the parser of the command  *)
(* line knows no others.                                                   *)
Types == {"BWT", "BWTS", "RLT", "ZRLT", "MTFT", "RANK", "SRT", "MM", "PACK", "DNA",
          "UTF", "LZ", "LZX", "LZP"}
None == "NONE"

(* GetType: one transform, or several of which the null ones are left out, *)
(* in the eight fields of the type.                                        *)
Fields == 8
GetType(names) ==
  LET some == SelectSeq(names, LAMBDA n : n # None)
      tokens == IF Len(names) = 1 THEN names ELSE some
  IN [i \in 1 .. Fields |-> IF i <= Len(tokens) THEN tokens[i] ELSE None]

(* New: as many transforms as fields are in use, at least one. *)
New(type) ==
  LET used == Cardinality({i \in 1 .. Fields : type[i] # None})
  IN SubSeq(type, 1, Larger(used, 1))

(* newToken and the calls of the transform it makes: what Forward may      *)
(* return into a buffer of room bytes.                                     *)
Forwards(t, src, room) ==
  CASE t = "BWT" -> Sorted!Forwards(src, room)
    [] t = "BWTS" -> Bijective!Forwards(src, room)
    [] t = "RLT" -> RunLength!Forwards(src, room)
    [] t = "ZRLT" -> ZeroRuns!Forwards(src, room)
    [] t = "MTFT" -> ByRank!Forwards("MTF", src, room)
    [] t = "RANK" -> ByRank!Forwards("RANK", src, room)
    [] t = "SRT" -> SortedRanks!Forwards(src, room)
    [] t = "MM" -> FixedStep!Forwards(src, room)
    [] t \in {"PACK", "DNA"} -> Packed!Forwards(src, room)
    [] t = "UTF" -> Unicode!Forwards(src, room)
    [] t = "LZ" -> LempelZiv(3, 97)!Forwards(src, room)
    [] t = "LZX" -> LempelZiv(4, 389)!Forwards(src, room)
    [] t = "LZP" -> Prediction!Forwards(src, room)
    [] t = None -> {IF Len(src) > room THEN Failed ELSE Done(src)}

(* What Inverse may leave in a buffer of room bytes. *)
Inverses(t, src, room) ==
  CASE t = "BWT" -> Sorted!Inverses(src, room, Jobs)
    [] t = "BWTS" -> {Bijective!Inverse(src, room)}
    [] t = "RLT" -> {RunLength!Inverse(src, room)}
    [] t = "ZRLT" -> {ZeroRuns!Inverse(src, room)}
    [] t = "MTFT" -> {ByRank!Inverse("MTF", src, room)}
    [] t = "RANK" -> {ByRank!Inverse("RANK", src, room)}
    [] t = "SRT" -> {SortedRanks!Inverse(src, room)}
    [] t = "MM" -> {FixedStep!Inverse(src, room)}
    [] t \in {"PACK", "DNA"} -> {Packed!Inverse(src, room)}
    [] t = "UTF" -> {Unicode!Inverse(src, room)}
    [] t = "LZ" -> {LempelZiv(3, 97)!Inverse(src, room)}
    [] t = "LZX" -> {LempelZiv(4, 389)!Inverse(src, room)}
    [] t = "LZP" -> {Prediction!Inverse(src, room)}
    [] t = None -> {IF Len(src) > room THEN Failed ELSE Done(src)}

MaxEncodedLenOf(t, n) ==
  CASE t = "BWT" -> Sorted!MaxEncodedLen(n)
    [] t = "BWTS" -> Bijective!MaxEncodedLen(n)
    [] t = "RLT" -> RunLength!MaxEncodedLen(n)
    [] t = "ZRLT" -> ZeroRuns!MaxEncodedLen(n)
    [] t \in {"MTFT", "RANK"} -> ByRank!MaxEncodedLen(n)
    [] t = "SRT" -> SortedRanks!MaxEncodedLen(n)
    [] t = "MM" -> FixedStep!MaxEncodedLen(n)
    [] t \in {"PACK", "DNA"} -> Packed!MaxEncodedLen(n)
    [] t = "UTF" -> Unicode!MaxEncodedLen(n)
    [] t \in {"LZ", "LZX"} -> LempelZiv(3, 97)!MaxEncodedLen(n)
    [] t = "LZP" -> Prediction!MaxEncodedLen(n)
    [] t = None -> n

(* ByteTransformSequence.MaxEncodedLen. *)
MaxEncodedLen(chain, n) ==
  LET size[i \in 0 .. Len(chain)] ==
        IF i = 0 THEN n ELSE Larger(size[i - 1], MaxEncodedLenOf(chain[i], size[i - 1]))
  IN size[Len(chain)]
=============================================================================

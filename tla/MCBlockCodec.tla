---------------------------- MODULE MCBlockCodec ----------------------------
(***************************************************************************)
(* The requests of the run: every transform alone and chains of them, with *)
(* the coders that tell something about them; every coder on the blocks    *)
(* that reach its chunks, its limits and its adjustments.                  *)
(***************************************************************************)
EXTENDS BlockCodec, SequencesExt

(* A stream has blocks of 64 bytes, or a multiple of 16 bytes that is long *)
(* enough for the blocks.                                                  *)
Longest(blocks) == 16 * ((Greatest({64} \cup {Len(b) : b \in blocks}) + 15) \div 16)
Ask(names, c, blocks) ==
  [names : {names}, coder : {c}, skipBlocks : {FALSE}, checksum : {0},
   block : blocks, blockSize : {Longest(blocks)}, inputSize : {0}]

Cycle(n, k, m) == [i \in 1 .. n |-> (i * k) % m]

(* Runs of two symbols and what is between them. *)
Runs == {Times(a, <<2>>) \o Times(b, <<0>>) \o <<1, 15, 14>> \o Times(c, <<7>>) :
           a \in {1, 5, 20}, b \in {4, 9}, c \in {2, 16}}

(* Text of few symbols, of pairs, of ramps, and of all symbols. *)
Mixed == {Cycle(23, 1, 2), Cycle(30, 3, 7), Cycle(17, 5, 16), Cycle(37, 7, 16), Cycle(20, 8, 15),
          Times(14, <<0, 1>>) \o [i \in 1 .. 12 |-> i + 1],
          Times(5, <<3, 1, 4>>) \o Times(3, <<1, 5>>), <<9>>, <<1, 0>>, Times(33, <<6>>)}
Small == [1 .. 4 -> {0, 1, 15}]

Single == UNION {Ask(<<t>>, "NONE", Runs \cup Mixed \cup Small) : t \in Types \cup {"NONE"}}

(* Text with symbols of one to four bytes, cut within a symbol at the      *)
(* start, after up to three of its bytes, and at the end.                  *)
Symbols == <<<<13, 8>>, <<13, 9>>, <<1>>, <<14, 8, 9>>, <<15, 8, 9, 10>>, <<2>>, <<13, 11>>>>
Text(n, k, m) == [i \in 1 .. n |-> Symbols[((i * k) % m) + 1]]
Unicoded == Ask(<<"UTF">>, "NONE",
              {a \o FlattenSeq(Text(40, k, m)) \o b : a \in {<<>>, <<9, 10>>, <<8, 8, 8>>},
                 k \in {1, 5}, m \in {2, 3, 7}, b \in {<<>>, <<14, 8>>, <<15, 8, 8>>}})

(* The same behind four bytes of no symbol, as many as Forward skips.      *)
CutTexts == Ask(<<"UTF">>, "NONE",
              {<<8, 8, 8, 8>> \o FlattenSeq(Text(n, k, m)) : n \in {20, 40}, k \in {1, 5},
                 m \in {2, 3, 7}})

(* Matches at once, of the distance before and the one before that, over   *)
(* each other, next to each other, and far away in a long block.           *)
Parts == {Cycle(9, 3, 16), <<12, 12, 12, 12, 3, 12, 12>>, Cycle(18, 7, 16)}
Near == {a \o b \o a \o c \o b \o a \o Cycle(9, 1, 4) : a \in Parts, b \in Parts, c \in Parts}
Far == {Cycle(20, 5, 16) \o Cycle(100, 1, 3) \o Cycle(20, 3, 16) \o Cycle(130, 1, 7)
          \o Cycle(20, 5, 16) \o Cycle(9, 1, 16),
        [i \in 1 .. 150 |-> IF i < 40 THEN (i * i * 3) % 16
                            ELSE IF i \in 101 .. 114 THEN ((i - 98) * (i - 98) * 3) % 16 ELSE 1]}
Matched == UNION {Ask(<<t>>, "NONE", Near) \cup Ask(<<t>>, "NONE", Far) : t \in {"LZ", "LZX", "LZP"}}

(* Chains as the levels of the program have them, and longer ones, with    *)
(* flags in a byte of their own.                                           *)
Chains == {<<"PACK", "LZ">>, <<"UTF", "PACK", "MM", "LZX">>, <<"UTF", "BWT", "RANK", "ZRLT">>,
           <<"LZP", "UTF", "BWT", "LZP">>, <<"RLT", "BWTS", "SRT", "ZRLT">>,
           <<"MM", "NONE", "PACK", "RLT">>, <<"BWT", "SRT">>,
           <<"RLT", "ZRLT", "MTFT", "ZRLT", "RANK", "ZRLT">>}
Chained == UNION {Ask(c, "NONE", Runs \cup Mixed) : c \in Chains}

(* Blocks that may be copied, blocks with a checksum, and all sizes at the *)
(* limits of the units of the header.                                      *)
Optional == [names : {<<"PACK", "LZ">>}, coder : {"ANS0"}, skipBlocks : {TRUE},
             checksum : {0, 32, 64}, block : Mixed, blockSize : {64}, inputSize : {0}]
Announced == [names : {<<"NONE">>, <<"RLT", "DNA">>}, coder : {"NONE"}, skipBlocks : {FALSE},
              checksum : {64}, block : {Cycle(15, 1, 2)}, blockSize : {16, 64, 2 ^ 20},
              inputSize : {1, 15, 16, 17, 255, 256, 4095, 4096, 10000}]

(* Frequencies of symbols from 0 on, in the order of the block. *)
Skewed(f) == LET upTo[k \in 0 .. Len(f)] == IF k = 0 THEN 0 ELSE upTo[k - 1] + f[k]
             IN [i \in 1 .. upTo[Len(f)] |-> Least({k \in DOMAIN f : i <= upTo[k]}) - 1]
Frequencies == {<<1, 1, 2, 3, 5, 8, 13>>, <<1, 1, 1, 1, 8, 16, 24>>, <<9, 1, 9, 1, 1, 9, 9>>,
                <<1, 1, 1, 1, 1, 1, 1, 1, 8, 16>>, <<40, 1>>, <<20, 5, 5, 5, 5>>,
                <<2, 1, 2, 1, 2, 1, 2, 1, 2, 1, 20>>}

Coded == UNION {Ask(<<"NONE">>, c, Mixed \cup Small \cup {Skewed(f) : f \in Frequencies}) :
                  c \in Coders}

MCRequests == Single \cup Unicoded \cup Matched \cup Chained \cup Optional \cup Announced \cup Coded
=============================================================================
